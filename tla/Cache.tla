--------------------------------- MODULE Cache ---------------------------------
(***************************************************************************)
(* src/src/lib/cache.c: a cache of copies, by key, with an expiry.  Its     *)
(* entries are in a LinkedList, here the sequence ItemList says it is, in   *)
(* the order in which they were set.  Nothing in the program calls it yet,  *)
(* so its callers are any sequence of calls; they are all made in one       *)
(* thread, and time passes between them.  A call with a NULL argument       *)
(* changes nothing and is not modelled.                                     *)
(***************************************************************************)
EXTENDS Integers, SequencesExt

CONSTANTS Key, Data,    \* what callers use
          Ttls,         \* the ttl of a set: not positive means default_ttl
          DefaultTtl,
          MaxSizes,     \* max_size of a cache_create
          MaxTime,      \* bound of the clock
          OutOfMemory,  \* allocations may fail
          NULL

ASSUME CacheAssumption ==
  /\ Ttls \subseteq Int /\ DefaultTtl \in Int
  /\ MaxSizes \subseteq Nat /\ MaxTime \in Nat
  /\ OutOfMemory \in BOOLEAN /\ NULL \notin Data

VARIABLES alive,       \* the Cache structure is allocated
          max_size,    \* its field
          entries,     \* the items of its list
          now,         \* time(NULL)
          got          \* what the last cache_get returned

vars == <<alive, max_size, entries, now, got>>

Time == 0 .. MaxTime
CacheEntry == [key : Key, data : Data, timestamp : Time, expiry : Int]

TypeOK == /\ alive \in BOOLEAN
          /\ max_size \in Nat
          /\ entries \in Seq(CacheEntry)
          /\ now \in Time
          /\ got \in Data \cup {NULL}

Init == /\ alive = FALSE /\ max_size = 0 /\ entries = << >>
        /\ now = 0 /\ got = NULL

-------------------------------------------------------------------------------
cache_create == /\ ~ alive
                /\ alive' = TRUE
                /\ max_size' \in MaxSizes
                /\ UNCHANGED <<entries, now, got>>

cache_destroy == /\ alive
                 /\ alive' = FALSE /\ entries' = << >>
                 /\ UNCHANGED <<max_size, now, got>>

\* The first entry of a key, where every search ends.
At(s, k, i) == /\ i \in DOMAIN s /\ s[i].key = k
               /\ \A j \in 1 .. i - 1 : s[j].key # k

\* Mutant: the search compares with the first entry only.
Without_head(s, k) == IF s # << >> /\ s[1].key = k THEN Tail(s) ELSE s

\* The list without the key's entry.
Without(s, k) == IF \E i \in DOMAIN s : At(s, k, i)
                 THEN RemoveAt(s, CHOOSE i \in DOMAIN s : At(s, k, i))
                 ELSE s

cache_remove(k) == /\ alive
                   /\ entries' = Without(entries, k)
                   /\ UNCHANGED <<alive, max_size, now, got>>

cache_clear == /\ alive
               /\ entries' = << >>
               /\ UNCHANGED <<alive, max_size, now, got>>

-------------------------------------------------------------------------------
\* Mutant: the cache is not full before it is over full.
Roomy_late(s) == IF Len(s) > max_size /\ s # << >> THEN Without(s, s[1].key) ELSE s

\* A full cache loses its oldest entry, the first in the list.
Roomy(s) == IF Len(s) >= max_size /\ s # << >> THEN Without(s, s[1].key) ELSE s

\* Mutant: the entry is stamped with the moment it expires.
NewEntry_expiry_stamp(k, d, ttl) ==
  LET expiry == now + IF ttl > 0 THEN ttl ELSE DefaultTtl IN
  [key |-> k, data |-> d, timestamp |-> expiry, expiry |-> expiry]

NewEntry(k, d, ttl) ==
  [key |-> k, data |-> d, timestamp |-> now,
   expiry |-> now + IF ttl > 0 THEN ttl ELSE DefaultTtl]

\* Mutant: room is made before the key's old entry is removed.
Prepared_full_first(k) == Without(Roomy(entries), k)

Prepared(k) == Roomy(Without(entries, k))

\* Mutant: the new entry goes to the front of the list.
Stored_in_front(s, e) == <<e>> \o s

Stored(s, e) == Append(s, e)

(***************************************************************************)
(* The old entry goes first and room is made next: when an allocation or    *)
(* the append fails then, what was removed stays removed.                   *)
(***************************************************************************)
cache_set(k, d, ttl) ==
  /\ alive
  /\ \/ entries' = Stored(Prepared(k), NewEntry(k, d, ttl))
     \/ OutOfMemory /\ entries' = Prepared(k)
  /\ UNCHANGED <<alive, max_size, now, got>>

\* Mutant: an entry is expired at its expiry already.
is_expired_early(e) == now >= e.expiry

is_expired(e) == now > e.expiry

\* An expired entry is removed by the first look at it.
cache_get(k) ==
  /\ alive
  /\ \/ /\ \A i \in DOMAIN entries : entries[i].key # k
        /\ got' = NULL /\ UNCHANGED entries
     \/ \E i \in DOMAIN entries :
          /\ At(entries, k, i)
          /\ IF is_expired(entries[i])
             THEN got' = NULL /\ entries' = Without(entries, k)
             ELSE /\ got' = entries[i].data \/ (OutOfMemory /\ got' = NULL)
                  /\ UNCHANGED entries
  /\ UNCHANGED <<alive, max_size, now>>

Tick == /\ now < MaxTime
        /\ now' = now + 1
        /\ UNCHANGED <<alive, max_size, entries, got>>

Next == \/ cache_create \/ cache_destroy \/ cache_clear \/ Tick
        \/ \E k \in Key : \/ cache_remove(k) \/ cache_get(k)
                          \/ \E d \in Data, ttl \in Ttls : cache_set(k, d, ttl)

Spec == Init /\ [][Next]_vars

-------------------------------------------------------------------------------
(***************************************************************************)
(* A key has one entry, so that the searches of get, set and remove, which  *)
(* stop at the first, never see an old one behind it.                       *)
(***************************************************************************)
KeysUnique == \A i, j \in DOMAIN entries : entries[i].key = entries[j].key => i = j

(***************************************************************************)
(* No sequence of calls and failures makes the list outgrow "Maximum number *)
(* of entries" (cache.h:22), except in a cache of size 0: cache_set puts    *)
(* one entry there, an exception that cache.h does not make.                *)
(***************************************************************************)
SizeBounded == Len(entries) <= max_size \/ Len(entries) <= 1

(***************************************************************************)
(* "Remove oldest entry (first in list)" (cache.c:55): the list is in the   *)
(* order of the entries' time stamps, also after keys were set again.       *)
(***************************************************************************)
OldestFirst == /\ \A i, j \in DOMAIN entries :
                    i <= j => entries[i].timestamp <= entries[j].timestamp
               /\ \A i \in DOMAIN entries : entries[i].timestamp <= now

(***************************************************************************)
(* The list and its searches implement BoundedMap: what a get returns, how  *)
(* long, and whose place a set may take.                                    *)
(***************************************************************************)
EntryOf(k) == entries[CHOOSE i \in DOMAIN entries : At(entries, k, i)]

Map == INSTANCE BoundedMap WITH
  map <- [k \in {entries[i].key : i \in DOMAIN entries} |->
            [data |-> EntryOf(k).data, until |-> EntryOf(k).expiry]],
  capacity <- max_size,
  clock <- now,
  Lifetimes <- {IF t > 0 THEN t ELSE DefaultTtl : t \in Ttls}

ImplementsBoundedMap == Map!Spec
===============================================================================
