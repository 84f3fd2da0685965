------------------------------ MODULE CacheProofs ------------------------------
(***************************************************************************)
(* The cache of Cache is bounded, in the order of its entries' ages, has    *)
(* one entry for a key, and implements BoundedMap, for any keys, data,      *)
(* sizes and lifetimes.                                                     *)
(***************************************************************************)
EXTENDS Cache, DataLemmas, FiniteSetTheorems

\* The three facts about a list of entries that removing keeps.
Entries(s) == s \in Seq(CacheEntry)
Unique(s)  == \A i, j \in DOMAIN s : s[i].key = s[j].key => i = j
ByAge(s)   == /\ \A i, j \in DOMAIN s : i <= j => s[i].timestamp <= s[j].timestamp
              /\ \A i \in DOMAIN s : s[i].timestamp <= now
Good(s)    == Entries(s) /\ Unique(s) /\ ByAge(s)

Fits(s) == Len(s) <= max_size \/ Len(s) <= 1

IInv == /\ TypeOK /\ KeysUnique /\ SizeBounded /\ OldestFirst
        /\ ~ alive => entries = << >>

(***************************************************************************)
(* A list without the entry at one place is as good, and without its key.   *)
(***************************************************************************)
LEMMA RemovalKeeps ==
  ASSUME NEW s, Good(s), NEW i \in DOMAIN s
  PROVE  /\ Good(RemoveAt(s, i))
         /\ Len(RemoveAt(s, i)) = Len(s) - 1
         /\ \A j \in DOMAIN RemoveAt(s, i) :
              /\ RemoveAt(s, i)[j].key # s[i].key
              /\ \E m \in DOMAIN s : RemoveAt(s, i)[j] = s[m]
<1> DEFINE r == RemoveAt(s, i)
           old(j) == IF j < i THEN j ELSE j + 1
<1>1. s \in Seq(CacheEntry) /\ i \in 1 .. Len(s) /\ DOMAIN s = 1 .. Len(s)
  BY DEF Good, Entries
<1>2. /\ r \in Seq(CacheEntry) /\ Len(r) = Len(s) - 1
      /\ \A j \in 1 .. Len(s) - 1 : r[j] = s[old(j)]
  <2>1. /\ RemoveAt(s, i) \in Seq(CacheEntry)
        /\ Len(RemoveAt(s, i)) = Len(s) - 1
        /\ \A j \in 1 .. Len(s) - 1 :
             RemoveAt(s, i)[j] = s[IF j < i THEN j ELSE j + 1]
    BY <1>1, RemoveAtElements, Zenon
  <2> QED  BY <2>1, Zenon
<1> HIDE DEF r
<1>3. DOMAIN r = 1 .. Len(s) - 1
  BY <1>2
<1>4. \A j \in DOMAIN r : old(j) \in DOMAIN s /\ old(j) # i
  BY <1>1, <1>3
<1>5. \A j, m \in DOMAIN r : /\ old(j) = old(m) => j = m
                             /\ j <= m => old(j) <= old(m)
  BY <1>1, <1>3
<1>6. \A j \in DOMAIN r : r[j] = s[old(j)]
  BY <1>2, <1>3
<1> HIDE DEF old
<1>7. Unique(r)
  BY <1>4, <1>5, <1>6 DEF Good, Unique
<1>8. ByAge(r)
  BY <1>4, <1>5, <1>6 DEF Good, ByAge
<1>9. \A j \in DOMAIN r : /\ r[j].key # s[i].key
                          /\ \E m \in DOMAIN s : r[j] = s[m]
  BY <1>4, <1>6 DEF Good, Unique
<1> QED  BY <1>2, <1>7, <1>8, <1>9 DEF Good, Entries, r

(***************************************************************************)
(* What cache_remove leaves is good, no longer, and without the key.        *)
(***************************************************************************)
LEMMA WithoutKeeps ==
  ASSUME NEW s, Good(s), NEW k
  PROVE  /\ Good(Without(s, k))
         /\ Len(Without(s, k)) <= Len(s)
         /\ \A j \in DOMAIN Without(s, k) :
              /\ Without(s, k)[j].key # k
              /\ \E m \in DOMAIN s : Without(s, k)[j] = s[m]
<1>1. s \in Seq(CacheEntry) /\ Len(s) \in Nat /\ DOMAIN s = 1 .. Len(s)
  BY DEF Good, Entries
<1>2. CASE \E i \in DOMAIN s : At(s, k, i)
  <2>1. PICK i \in DOMAIN s : i = (CHOOSE n \in DOMAIN s : At(s, k, n)) /\ At(s, k, i)
    BY <1>2
  <2>2. Without(s, k) = RemoveAt(s, i) /\ s[i].key = k
    BY <1>2, <2>1 DEF Without, At
  <2>3. /\ Good(RemoveAt(s, i)) /\ Len(RemoveAt(s, i)) = Len(s) - 1
        /\ \A j \in DOMAIN RemoveAt(s, i) :
             /\ RemoveAt(s, i)[j].key # s[i].key
             /\ \E m \in DOMAIN s : RemoveAt(s, i)[j] = s[m]
    BY RemovalKeeps
  <2>4. Len(RemoveAt(s, i)) <= Len(s)
    BY <1>1, <2>3
  <2> QED  BY <2>2, <2>3, <2>4
<1>3. CASE ~ \E i \in DOMAIN s : At(s, k, i)
  <2>1. Without(s, k) = s
    BY <1>3 DEF Without
  <2>2. ASSUME NEW i \in DOMAIN s, s[i].key = k
        PROVE  FALSE
    <3>1. \A j \in 1 .. i - 1 : j \in DOMAIN s /\ j # i
      BY <1>1
    <3>2. \A j \in 1 .. i - 1 : s[j].key # k
      BY <2>2, <3>1 DEF Good, Unique
    <3> QED  BY <1>3, <2>2, <3>2 DEF At
  <2> QED  BY <1>1, <2>1, <2>2
<1> QED  BY <1>2, <1>3

(***************************************************************************)
(* A cache that is full has room for one entry after its oldest has gone.   *)
(***************************************************************************)
LEMMA RoomyHasRoom ==
  ASSUME NEW s, Good(s), Fits(s), max_size \in Nat
  PROVE  /\ Good(Roomy(s)) /\ Fits(Roomy(s))
         /\ Len(Roomy(s)) < max_size \/ Len(Roomy(s)) = 0
         /\ \A j \in DOMAIN Roomy(s) : \E m \in DOMAIN s : Roomy(s)[j] = s[m]
<1>1. s \in Seq(CacheEntry) /\ Len(s) \in Nat /\ DOMAIN s = 1 .. Len(s)
  BY DEF Good, Entries
<1>2. CASE Len(s) >= max_size /\ s # << >>
  <2>1. 1 \in DOMAIN s
    BY <1>1, <1>2
  <2>2. At(s, s[1].key, 1)
    BY <2>1 DEF At
  <2>3. PICK i \in DOMAIN s : /\ i = (CHOOSE n \in DOMAIN s : At(s, s[1].key, n))
                              /\ At(s, s[1].key, i)
    BY <2>1, <2>2
  <2>4. Roomy(s) = RemoveAt(s, i)
    BY <1>2, <2>1, <2>2, <2>3 DEF Roomy, Without
  <2>5. /\ Good(RemoveAt(s, i)) /\ Len(RemoveAt(s, i)) = Len(s) - 1
        /\ \A j \in DOMAIN RemoveAt(s, i) :
             \E m \in DOMAIN s : RemoveAt(s, i)[j] = s[m]
    BY RemovalKeeps
  <2>6. /\ Len(s) - 1 <= max_size \/ Len(s) - 1 <= 1
        /\ Len(s) - 1 < max_size \/ Len(s) - 1 = 0
    BY <1>1, <2>1 DEF Fits
  <2> QED  BY <2>4, <2>5, <2>6 DEF Fits
<1>3. CASE ~ (Len(s) >= max_size /\ s # << >>)
  <2>1. Roomy(s) = s
    BY <1>3 DEF Roomy
  <2>2. Len(s) < max_size \/ Len(s) = 0
    BY <1>1, <1>3
  <2> QED  BY <1>1, <2>1, <2>2
<1> QED  BY <1>2, <1>3

(***************************************************************************)
(* Storing the newest entry under a key that is not there.                  *)
(***************************************************************************)
LEMMA StoringKeeps ==
  ASSUME NEW s, Good(s), NEW e \in CacheEntry, e.timestamp = now, now \in Time,
         \A j \in DOMAIN s : s[j].key # e.key
  PROVE  Good(Stored(s, e)) /\ Len(Stored(s, e)) = Len(s) + 1
<1>1. s \in Seq(CacheEntry) /\ Len(s) \in Nat /\ DOMAIN s = 1 .. Len(s)
  BY DEF Good, Entries
<1> DEFINE t == Append(s, e)
<1>2. /\ t \in Seq(CacheEntry) /\ Len(t) = Len(s) + 1
      /\ \A j \in DOMAIN s : t[j] = s[j]
      /\ t[Len(s) + 1] = e
  BY <1>1, AppendProperties
<1>3. Stored(s, e) = t
  BY DEF Stored
<1> HIDE DEF t
<1>4. DOMAIN t = 1 .. Len(s) + 1
  BY <1>2
<1>5. \A j \in DOMAIN t : j \in DOMAIN s \/ j = Len(s) + 1
  BY <1>1, <1>4
<1>6. Unique(t)
  BY <1>2, <1>5 DEF Good, Unique
<1>7. \A j \in DOMAIN t : t[j].timestamp <= now
  BY <1>2, <1>5, CacheAssumption DEF Good, ByAge, Time
<1>8. ASSUME NEW i \in DOMAIN t, NEW j \in DOMAIN t, i <= j
      PROVE  t[i].timestamp <= t[j].timestamp
  <2>1. CASE j = Len(s) + 1
    BY <1>2, <1>7, <2>1
  <2>2. CASE j \in DOMAIN s
    <3>1. i \in DOMAIN s
      BY <1>1, <1>4, <1>8, <2>2
    <3> QED  BY <1>2, <1>8, <2>2, <3>1 DEF Good, ByAge
  <2> QED  BY <1>5, <2>1, <2>2
<1> QED  BY <1>2, <1>3, <1>6, <1>7, <1>8 DEF Good, Entries, ByAge

\* The invariant's facts about the list, as the lemmas have them.
LEMMA InvIsGood ==
  TypeOK => (KeysUnique /\ OldestFirst <=> Good(entries)) /\ (SizeBounded <=> Fits(entries))
  BY DEF TypeOK, KeysUnique, OldestFirst, SizeBounded, Good, Entries, Unique, ByAge, Fits

-------------------------------------------------------------------------------
LEMMA InitHolds == Init => IInv
<1> SUFFICES ASSUME Init PROVE IInv
  OBVIOUS
<1>1. entries = << >> /\ DOMAIN entries = {} /\ Len(entries) = 0
  BY DEF Init
<1>2. entries \in Seq(CacheEntry)
  BY <1>1
<1>3. 0 \in Time
  BY CacheAssumption DEF Time
<1>4. TypeOK
  BY <1>2, <1>3 DEF Init, TypeOK
<1> QED  BY <1>1, <1>4 DEF Init, IInv, KeysUnique, SizeBounded, OldestFirst

\* The invariant after a step that leaves a good list behind.
LEMMA GoodListSuffices ==
  ASSUME IInv, now' = now, max_size' = max_size, alive, alive' = alive,
         got' \in Data \cup {NULL},
         NEW s, entries' = s, Good(s), Fits(s)
  PROVE  IInv'
<1>1. TypeOK'
  BY DEF IInv, TypeOK, Good, Entries
<1>2. KeysUnique' /\ OldestFirst' /\ SizeBounded'
  BY DEF Good, Unique, ByAge, Fits, KeysUnique, OldestFirst, SizeBounded
<1> QED  BY <1>1, <1>2 DEF IInv

LEMMA EntriesTyped == TypeOK => \A i \in DOMAIN entries : entries[i] \in CacheEntry
<1> SUFFICES ASSUME TypeOK, NEW i \in DOMAIN entries
             PROVE  entries[i] \in CacheEntry
  OBVIOUS
<1>1. entries \in Seq(CacheEntry) /\ i \in 1 .. Len(entries)
  BY DEF TypeOK
<1> QED  BY <1>1

LEMMA SetHolds ==
  ASSUME IInv, NEW k \in Key, NEW d \in Data, NEW ttl \in Ttls, cache_set(k, d, ttl)
  PROVE  IInv'
<1> DEFINE p == Prepared(k)
           e == NewEntry(k, d, ttl)
<1>1. Good(entries) /\ Fits(entries) /\ max_size \in Nat /\ now \in Time
  BY InvIsGood DEF IInv, TypeOK
<1>2. /\ Good(Without(entries, k)) /\ Fits(Without(entries, k))
      /\ \A j \in DOMAIN Without(entries, k) : Without(entries, k)[j].key # k
  <2>1. /\ Good(Without(entries, k))
        /\ Len(Without(entries, k)) <= Len(entries)
        /\ \A j \in DOMAIN Without(entries, k) : Without(entries, k)[j].key # k
    BY <1>1, WithoutKeeps
  <2>2. Len(Without(entries, k)) \in Nat /\ Len(entries) \in Nat
    BY <1>1, <2>1 DEF Good, Entries
  <2> QED  BY <1>1, <2>1, <2>2 DEF Fits
<1>3. /\ Good(p) /\ Fits(p)
      /\ Len(p) < max_size \/ Len(p) = 0
      /\ \A j \in DOMAIN p : \E m \in DOMAIN Without(entries, k) :
           p[j] = Without(entries, k)[m]
  BY <1>1, <1>2, RoomyHasRoom DEF Prepared
<1>4. \A j \in DOMAIN p : p[j].key # k
  BY <1>2, <1>3
<1>5. e \in CacheEntry /\ e.key = k /\ e.timestamp = now
  BY <1>1, CacheAssumption DEF NewEntry, CacheEntry, Time
<1> HIDE DEF p, e
<1>6. Good(Stored(p, e)) /\ Len(Stored(p, e)) = Len(p) + 1
  BY <1>1, <1>3, <1>4, <1>5, StoringKeeps
<1>7. Fits(Stored(p, e))
  <2>1. Len(p) \in Nat
    BY <1>3 DEF Good, Entries
  <2> QED  BY <1>1, <1>3, <1>6, <2>1 DEF Fits
<1>8. /\ now' = now /\ max_size' = max_size /\ alive /\ alive' = alive
      /\ got' \in Data \cup {NULL}
      /\ entries' = Stored(p, e) \/ entries' = p
  BY DEF cache_set, IInv, TypeOK, p, e
<1>9. CASE entries' = Stored(p, e)
  BY <1>6, <1>7, <1>8, <1>9, GoodListSuffices
<1>10. CASE entries' = p
  BY <1>3, <1>8, <1>10, GoodListSuffices
<1> QED  BY <1>8, <1>9, <1>10

LEMMA RemovingHolds ==
  ASSUME IInv, NEW k \in Key, alive, alive' = alive, now' = now, max_size' = max_size,
         got' \in Data \cup {NULL}, entries' = Without(entries, k)
  PROVE  IInv'
<1>1. Good(entries) /\ Fits(entries) /\ max_size \in Nat
  BY InvIsGood DEF IInv, TypeOK
<1>2. Good(Without(entries, k)) /\ Len(Without(entries, k)) <= Len(entries)
  BY <1>1, WithoutKeeps
<1>3. Len(Without(entries, k)) \in Nat /\ Len(entries) \in Nat
  BY <1>1, <1>2 DEF Good, Entries
<1>4. Fits(Without(entries, k))
  BY <1>1, <1>2, <1>3 DEF Fits
<1> QED  BY <1>2, <1>4, GoodListSuffices

LEMMA GetHolds ==
  ASSUME IInv, NEW k \in Key, cache_get(k)
  PROVE  IInv'
<1>1. alive /\ alive' = alive /\ now' = now /\ max_size' = max_size
  BY DEF cache_get
<1>2. /\ got' \in Data \cup {NULL}
      /\ entries' = entries \/ entries' = Without(entries, k)
  <2>1. \A i \in DOMAIN entries : entries[i].data \in Data
    BY EntriesTyped DEF IInv, CacheEntry
  <2> QED  BY <2>1 DEF cache_get, At, IInv, TypeOK
<1>3. CASE entries' = entries
  BY <1>1, <1>2, <1>3, InvIsGood, GoodListSuffices DEF IInv
<1>4. CASE entries' = Without(entries, k)
  BY <1>1, <1>2, <1>4, RemovingHolds
<1> QED  BY <1>2, <1>3, <1>4

LEMMA EmptyHolds ==
  ASSUME IInv, entries' = << >>, now' = now, got' = got,
         alive' \in BOOLEAN, max_size' \in Nat
  PROVE  IInv'
<1>1. DOMAIN entries' = {} /\ Len(entries') = 0 /\ entries' \in Seq(CacheEntry)
  OBVIOUS
<1>2. TypeOK'
  BY <1>1 DEF IInv, TypeOK
<1> QED  BY <1>1, <1>2 DEF IInv, KeysUnique, SizeBounded, OldestFirst

LEMMA TickHolds ==
  ASSUME IInv, Tick
  PROVE  IInv'
<1>1. now \in Nat /\ now' = now + 1 /\ now' \in Time /\ entries' = entries
  BY CacheAssumption DEF IInv, TypeOK, Tick, Time
<1>2. TypeOK' /\ KeysUnique' /\ SizeBounded'
  BY <1>1 DEF IInv, TypeOK, Tick, KeysUnique, SizeBounded
<1>3. \A i \in DOMAIN entries : /\ entries[i].timestamp \in Nat
                                /\ entries[i].timestamp <= now
  BY EntriesTyped, CacheAssumption DEF IInv, OldestFirst, CacheEntry, Time
<1>4. OldestFirst'
  BY <1>1, <1>3 DEF IInv, OldestFirst
<1> QED  BY <1>1, <1>2, <1>4 DEF IInv, Tick

LEMMA NextHolds == IInv /\ [Next]_vars => IInv'
<1> SUFFICES ASSUME IInv, [Next]_vars PROVE IInv'
  OBVIOUS
<1>1. CASE cache_create
  BY <1>1, EmptyHolds, CacheAssumption DEF cache_create, IInv
<1>2. CASE cache_destroy
  BY <1>2, EmptyHolds DEF cache_destroy, IInv, TypeOK
<1>3. CASE cache_clear
  BY <1>3, EmptyHolds DEF cache_clear, IInv, TypeOK
<1>4. CASE Tick
  BY <1>4, TickHolds
<1>5. ASSUME NEW k \in Key, cache_remove(k)
      PROVE  IInv'
  BY <1>5, RemovingHolds DEF cache_remove, IInv, TypeOK
<1>6. ASSUME NEW k \in Key, cache_get(k)
      PROVE  IInv'
  BY <1>6, GetHolds
<1>7. ASSUME NEW k \in Key, NEW d \in Data, NEW ttl \in Ttls, cache_set(k, d, ttl)
      PROVE  IInv'
  BY <1>7, SetHolds
<1>8. CASE UNCHANGED vars
  BY <1>8 DEF vars, IInv, TypeOK, KeysUnique, SizeBounded, OldestFirst
<1> QED  BY <1>1, <1>2, <1>3, <1>4, <1>5, <1>6, <1>7, <1>8 DEF Next

(***************************************************************************)
(* The parts together are inductive: which entry is evicted, and that one   *)
(* is enough, rests on their order, their keys and their number at once.    *)
(***************************************************************************)
THEOREM CacheInductive == Spec => []IInv
<1> QED  BY InitHolds, NextHolds, PTL DEF Spec

\* The fields of the cache and of its entries keep their types.
THEOREM CacheTypeCorrect == Spec => []TypeOK
<1>1. IInv => TypeOK
  BY DEF IInv
<1> QED  BY <1>1, CacheInductive, PTL

\* No key has two entries, so no search finds a stale one (cache.c:92, 116).
THEOREM CacheKeysUnique == Spec => []KeysUnique
<1>1. IInv => KeysUnique
  BY DEF IInv
<1> QED  BY <1>1, CacheInductive, PTL

\* The cache never holds more than max_size entries, or one (cache.c:53).
THEOREM CacheBounded == Spec => []SizeBounded
<1>1. IInv => SizeBounded
  BY DEF IInv
<1> QED  BY <1>1, CacheInductive, PTL

\* The first entry is the oldest, whatever was set again (cache.c:55).
THEOREM CacheByAge == Spec => []OldestFirst
<1>1. IInv => OldestFirst
  BY DEF IInv
<1> QED  BY <1>1, CacheInductive, PTL

-------------------------------------------------------------------------------
(***************************************************************************)
(* The cache implements BoundedMap.  A good list stands for the map from    *)
(* its keys to what their entries hold, and the list's operations for the   *)
(* map's.                                                                   *)
(***************************************************************************)
Held(e) == [data |-> e.data, until |-> e.expiry]

MapOf(s) == LET entry(k) == s[CHOOSE i \in DOMAIN s : At(s, k, i)]
            IN  [k \in {s[i].key : i \in DOMAIN s} |->
                   [data |-> entry(k).data, until |-> entry(k).expiry]]

LEMMA MapOfIs ==
  ASSUME NEW s, Good(s)
  PROVE  /\ DOMAIN MapOf(s) = {e.key : e \in ToSet(s)}
         /\ \A e \in ToSet(s) : MapOf(s)[e.key] = Held(e)
         /\ \A e, f \in ToSet(s) : e.key = f.key => e = f
         /\ IsInjective(s)
<1>1. s \in Seq(CacheEntry) /\ Len(s) \in Nat /\ DOMAIN s = 1 .. Len(s)
  BY DEF Good, Entries
<1>2. ASSUME NEW i \in DOMAIN s
      PROVE  (CHOOSE n \in DOMAIN s : At(s, s[i].key, n)) = i
  <2>1. \A j \in 1 .. i - 1 : j \in DOMAIN s /\ j # i
    BY <1>1
  <2>2. At(s, s[i].key, i)
    BY <2>1 DEF At, Good, Unique
  <2>3. \A n \in DOMAIN s : At(s, s[i].key, n) => n = i
    BY DEF At, Good, Unique
  <2> QED  BY <2>2, <2>3
<1>3. \A i \in DOMAIN s : MapOf(s)[s[i].key] = Held(s[i])
  BY <1>2 DEF MapOf, Held
<1>4. DOMAIN MapOf(s) = {s[i].key : i \in DOMAIN s}
  BY DEF MapOf
<1>5. \A i, j \in DOMAIN s : s[i].key = s[j].key => i = j
  BY DEF Good, Unique
<1> QED  BY <1>3, <1>4, <1>5 DEF ToSet, IsInjective

LEMMA WithoutDrops ==
  ASSUME NEW s, Good(s), NEW k
  PROVE  MapOf(Without(s, k)) = Map!Dropped(MapOf(s), k)
<1>1. s \in Seq(CacheEntry) /\ DOMAIN s = 1 .. Len(s) /\ Good(Without(s, k))
  BY WithoutKeeps DEF Good, Entries
<1>2. ToSet(Without(s, k)) = {e \in ToSet(s) : e.key # k}
  <2>1. \A j \in DOMAIN Without(s, k) :
          /\ Without(s, k)[j].key # k
          /\ \E m \in DOMAIN s : Without(s, k)[j] = s[m]
    BY WithoutKeeps
  <2>2. ToSet(Without(s, k)) \subseteq {e \in ToSet(s) : e.key # k}
    BY <2>1 DEF ToSet
  <2>3. CASE \E i \in DOMAIN s : At(s, k, i)
    <3>1. PICK i \in DOMAIN s : i = (CHOOSE n \in DOMAIN s : At(s, k, n)) /\ At(s, k, i)
      BY <2>3
    <3>2. Without(s, k) = RemoveAt(s, i) /\ s[i].key = k
      BY <2>3, <3>1 DEF Without, At
    <3>3. ToSet(RemoveAt(s, i)) = ToSet(s) \ {s[i]}
      BY <1>1, MapOfIs, RemoveAtLeaves
    <3> QED  BY <2>2, <3>2, <3>3
  <2>4. CASE ~ \E i \in DOMAIN s : At(s, k, i)
    BY <2>2, <2>4 DEF Without
  <2> QED  BY <2>3, <2>4
<1>3. /\ DOMAIN MapOf(Without(s, k)) = DOMAIN MapOf(s) \ {k}
      /\ \A j \in DOMAIN MapOf(s) \ {k} : MapOf(Without(s, k))[j] = MapOf(s)[j]
  <2>1. /\ DOMAIN MapOf(s) = {e.key : e \in ToSet(s)}
        /\ \A e \in ToSet(s) : MapOf(s)[e.key] = Held(e)
    BY MapOfIs
  <2>2. /\ DOMAIN MapOf(Without(s, k)) = {e.key : e \in ToSet(Without(s, k))}
        /\ \A e \in ToSet(Without(s, k)) : MapOf(Without(s, k))[e.key] = Held(e)
    BY <1>1, MapOfIs
  <2> QED  BY <1>2, <2>1, <2>2
<1>4. MapOf(Without(s, k)) = [j \in DOMAIN MapOf(Without(s, k)) |-> MapOf(Without(s, k))[j]]
  BY DEF MapOf
<1> QED  BY <1>3, <1>4 DEF Map!Dropped

\* As many keys as entries.
LEMMA KeysCounted ==
  ASSUME NEW s, Good(s)
  PROVE  /\ Cardinality(DOMAIN MapOf(s)) = Len(s)
         /\ DOMAIN MapOf(s) = {} <=> s = << >>
<1>1. s \in Seq(CacheEntry) /\ Len(s) \in Nat /\ DOMAIN s = 1 .. Len(s)
  BY DEF Good, Entries
<1> DEFINE f == [i \in 1 .. Len(s) |-> s[i].key]
           K == DOMAIN MapOf(s)
<1>2. K = {s[i].key : i \in 1 .. Len(s)}
  BY <1>1 DEF MapOf
<1> HIDE DEF K
<1>3. f \in Bijection(1 .. Len(s), K)
  <2>1. f \in [1 .. Len(s) -> K] /\ \A k \in K : \E i \in 1 .. Len(s) : f[i] = k
    BY <1>2
  <2>2. \A i, j \in 1 .. Len(s) : f[i] = f[j] => i = j
    BY <1>1 DEF Good, Unique
  <2> QED  BY <2>1, <2>2 DEF Bijection, Injection, Surjection, IsInjective
<1>4. IsFiniteSet(1 .. Len(s)) /\ Cardinality(1 .. Len(s)) = Len(s)
  BY <1>1, FS_Interval
<1>5. Cardinality(K) = Len(s)
  BY <1>3, <1>4, FS_Bijection DEF ExistsBijection
<1>6. K = {} <=> s = << >>
  <2>1. s # << >> => Len(s) # 0
    BY <1>1, EmptySeq
  <2>2. Len(s) # 0 => s[1].key \in K
    BY <1>1, <1>2
  <2>3. s = << >> => 1 .. Len(s) = {}
    BY <1>1
  <2> QED  BY <1>2, <2>1, <2>2, <2>3
<1> QED  BY <1>5, <1>6 DEF K

LEMMA RoomyMakesRoom ==
  ASSUME NEW s, Good(s), max_size \in Nat
  PROVE  MapOf(Roomy(s)) \in Map!Roomy(MapOf(s))
<1>1. s \in Seq(CacheEntry) /\ Len(s) \in Nat /\ DOMAIN s = 1 .. Len(s)
  BY DEF Good, Entries
<1>2. /\ Cardinality(DOMAIN MapOf(s)) = Len(s)
      /\ DOMAIN MapOf(s) = {} <=> s = << >>
  BY KeysCounted
<1>3. Map!Cardinality(DOMAIN MapOf(s)) = Len(s)
  BY <1>2 DEF Map!Cardinality, Cardinality
<1>4. CASE Len(s) >= max_size /\ s # << >>
  <2>1. Roomy(s) = Without(s, s[1].key)
    BY <1>4 DEF Roomy
  <2>2. MapOf(Roomy(s)) = Map!Dropped(MapOf(s), s[1].key)
    BY <2>1, WithoutDrops
  <2>3. s[1].key \in DOMAIN MapOf(s)
    <3>1. 1 \in DOMAIN s
      BY <1>1, <1>4
    <3> QED  BY <3>1 DEF MapOf
  <2>4. ~ (Len(s) < max_size)
    BY <1>1, <1>4
  <2> QED  BY <1>2, <1>4, <1>3, <2>2, <2>3, <2>4 DEF Map!Roomy
<1>5. CASE ~ (Len(s) >= max_size /\ s # << >>)
  <2>1. Roomy(s) = s
    BY <1>5 DEF Roomy
  <2>2. Len(s) < max_size \/ s = << >>
    BY <1>1, <1>5
  <2> QED  BY <1>2, <1>3, <2>1, <2>2 DEF Map!Roomy
<1> QED  BY <1>4, <1>5

LEMMA StoringPuts ==
  ASSUME NEW s, Good(s), NEW e \in CacheEntry, Good(Stored(s, e))
  PROVE  MapOf(Stored(s, e)) = Map!With(MapOf(s), e.key, e.data, e.expiry)
<1> DEFINE t == Stored(s, e)
<1>1. ToSet(t) = ToSet(s) \cup {e}
  BY AppendElements DEF Good, Entries, Stored
<1>2. /\ DOMAIN MapOf(s) = {f.key : f \in ToSet(s)}
      /\ \A f \in ToSet(s) : MapOf(s)[f.key] = Held(f)
  BY MapOfIs
<1> HIDE DEF t
<1>3. /\ DOMAIN MapOf(t) = {f.key : f \in ToSet(t)}
      /\ \A f \in ToSet(t) : MapOf(t)[f.key] = Held(f)
  BY MapOfIs DEF t
<1>4. /\ DOMAIN MapOf(t) = DOMAIN MapOf(s) \cup {e.key}
      /\ MapOf(t)[e.key] = Held(e)
      /\ \A j \in DOMAIN MapOf(s) : j # e.key => MapOf(t)[j] = MapOf(s)[j]
  BY <1>1, <1>2, <1>3
<1>5. MapOf(t) = [j \in DOMAIN MapOf(t) |-> MapOf(t)[j]]
  BY DEF MapOf
<1>6. MapOf(t) = [j \in DOMAIN MapOf(s) \cup {e.key} |->
                    IF j = e.key THEN Held(e) ELSE MapOf(s)[j]]
  BY <1>4, <1>5
<1> QED  BY <1>6 DEF Map!With, Held, t

LEMMA SetIsPut ==
  ASSUME IInv, NEW k \in Key, NEW d \in Data, NEW ttl \in Ttls, cache_set(k, d, ttl)
  PROVE  Map!Put(k)
<1> DEFINE w == Without(entries, k)
           p == Prepared(k)
           e == NewEntry(k, d, ttl)
           life == IF ttl > 0 THEN ttl ELSE DefaultTtl
<1>1. Good(entries) /\ Fits(entries) /\ max_size \in Nat /\ now \in Time
  BY InvIsGood DEF IInv, TypeOK
<1>2. Good(w) /\ MapOf(w) = Map!Dropped(MapOf(entries), k)
  BY <1>1, WithoutKeeps, WithoutDrops
<1>3. Fits(w)
  <2>1. Len(w) <= Len(entries) /\ Len(w) \in Nat /\ Len(entries) \in Nat
    BY <1>1, <1>2, WithoutKeeps DEF Good, Entries
  <2> QED  BY <1>1, <2>1 DEF Fits
<1>4. /\ Good(p) /\ MapOf(p) \in Map!Roomy(Map!Dropped(MapOf(entries), k))
      /\ \A j \in DOMAIN p : \E m \in DOMAIN w : p[j] = w[m]
  BY <1>1, <1>2, <1>3, RoomyHasRoom, RoomyMakesRoom DEF Prepared
<1>5. \A j \in DOMAIN p : p[j].key # k
  BY <1>1, <1>4, WithoutKeeps
<1>6. /\ e \in CacheEntry /\ e.key = k /\ e.timestamp = now
      /\ e.data = d /\ e.expiry = now + life
  BY <1>1, CacheAssumption DEF NewEntry, CacheEntry, Time
<1>7. life \in {IF t > 0 THEN t ELSE DefaultTtl : t \in Ttls}
  OBVIOUS
<1> HIDE DEF w, p, e, life
<1>8. MapOf(Stored(p, e)) = Map!With(MapOf(p), k, d, now + life)
  <2>1. Good(Stored(p, e))
    BY <1>1, <1>4, <1>5, <1>6, StoringKeeps
  <2>2. MapOf(Stored(p, e)) = Map!With(MapOf(p), e.key, e.data, e.expiry)
    BY <1>4, <1>6, <2>1, StoringPuts
  <2> QED  BY <1>6, <2>2
<1>9. /\ entries' = Stored(p, e) \/ entries' = p
      /\ UNCHANGED <<max_size, now, got>>
  BY DEF cache_set, p, e
<1>10. \E m \in Map!Roomy(Map!Dropped(MapOf(entries), k)) :
         \/ MapOf(entries') = m
         \/ MapOf(entries') = Map!With(m, k, d, now + life)
  BY <1>4, <1>8, <1>9
<1> QED  BY <1>7, <1>9, <1>10 DEF Map!Put, MapOf, EntryOf

LEMMA GetIsLook ==
  ASSUME IInv, NEW k \in Key, cache_get(k)
  PROVE  Map!Look(k)
<1> DEFINE mapped == MapOf(entries)
<1>1. Good(entries) /\ UNCHANGED <<max_size, now>>
  BY InvIsGood DEF IInv, cache_get
<1>2. /\ DOMAIN mapped = {e.key : e \in ToSet(entries)}
      /\ \A e \in ToSet(entries) : mapped[e.key] = Held(e)
  BY <1>1, MapOfIs
<1>3. MapOf(Without(entries, k)) = Map!Dropped(mapped, k)
  BY <1>1, WithoutDrops
<1> DEFINE living == k \in DOMAIN mapped /\ now <= mapped[k].until
<1>4. IF living THEN got' \in {mapped[k].data, NULL} /\ MapOf(entries') = mapped
                ELSE got' = NULL /\ MapOf(entries') = Map!Dropped(mapped, k)
  <2>1. CASE /\ \A i \in DOMAIN entries : entries[i].key # k
             /\ got' = NULL /\ entries' = entries
    <3>1. k \notin DOMAIN mapped
      BY <1>2, <2>1 DEF ToSet
    <3>2. Map!Dropped(mapped, k) = mapped
      <4>1. mapped = [j \in DOMAIN mapped |-> mapped[j]]
        BY DEF MapOf
      <4> QED  BY <3>1, <4>1 DEF Map!Dropped
    <3> QED  BY <2>1, <3>1, <3>2
  <2>2. ASSUME NEW i \in DOMAIN entries, At(entries, k, i),
               IF is_expired(entries[i])
               THEN got' = NULL /\ entries' = Without(entries, k)
               ELSE /\ got' = entries[i].data \/ got' = NULL
                    /\ UNCHANGED entries
        PROVE  IF living THEN got' \in {mapped[k].data, NULL} /\ MapOf(entries') = mapped
                         ELSE got' = NULL /\ MapOf(entries') = Map!Dropped(mapped, k)
    <3>1. entries[i].key = k /\ entries[i] \in ToSet(entries)
      BY <2>2 DEF At, ToSet
    <3>2. /\ k \in DOMAIN mapped /\ mapped[k].data = entries[i].data
          /\ mapped[k].until = entries[i].expiry
      <4> DEFINE e == entries[i]
      <4> HIDE DEF mapped, e
      <4>1. e \in ToSet(entries) /\ e.key = k
        BY <3>1 DEF e
      <4>2. k \in DOMAIN mapped /\ mapped[k] = Held(e)
        BY <1>2, <4>1 DEF mapped
      <4> QED  BY <4>2 DEF Held, e
    <3>3. now \in Int /\ entries[i].expiry \in Int
      BY EntriesTyped, CacheAssumption DEF IInv, TypeOK, Time, CacheEntry
    <3>4. living <=> ~ is_expired(entries[i])
      BY <3>2, <3>3 DEF is_expired
    <3> HIDE DEF mapped, living
    <3> QED  BY <1>3, <2>2, <3>2, <3>4 DEF mapped
  <2> QED  BY <2>1, <2>2 DEF cache_get
<1> QED  BY <1>1, <1>4 DEF Map!Look, Map!Alive, MapOf, EntryOf

(***************************************************************************)
(* Every call of the cache is a call of the map, or changes nothing: the    *)
(* list, its searches and its evictions (cache.c) keep the promise of       *)
(* cache.h, for any keys, data, lifetimes and sizes.                        *)
(***************************************************************************)
THEOREM MapRefined == Spec => ImplementsBoundedMap
<1>1. Init => Map!Init
  BY DEF Init, Map!Init
<1>2. IInv /\ [Next]_vars => [Map!Next]_(Map!mapVars)
  <2> SUFFICES ASSUME IInv, [Next]_vars PROVE [Map!Next]_(Map!mapVars)
    OBVIOUS
  <2>1. /\ Good(entries) /\ now \in Int /\ max_size \in Nat
        /\ entries = << >> => DOMAIN MapOf(entries) = {}
    BY InvIsGood, CacheAssumption DEF IInv, TypeOK, Time, MapOf
  <2>2. CASE cache_create
    <3>1. max_size' \in Nat /\ DOMAIN MapOf(entries) = {} /\ UNCHANGED <<entries, now, got>>
      BY <2>1, <2>2, CacheAssumption DEF cache_create, IInv
    <3>2. Map!Create
      BY <3>1 DEF Map!Create, MapOf, EntryOf
    <3> QED  BY <3>2 DEF Map!Next
  <2>3. CASE cache_destroy \/ cache_clear
    <3>1. entries' = << >> /\ UNCHANGED <<max_size, now, got>>
      BY <2>3 DEF cache_destroy, cache_clear
    <3>2. Map!Clear
      BY <3>1 DEF Map!Clear
    <3> QED  BY <3>2 DEF Map!Next
  <2>4. CASE Tick
    <3>1. now' > now /\ UNCHANGED <<entries, max_size, got>>
      BY <2>1, <2>4 DEF Tick
    <3>2. Map!Pass
      BY <3>1 DEF Map!Pass, EntryOf
    <3> QED  BY <3>2 DEF Map!Next
  <2>5. ASSUME NEW k \in Key, cache_remove(k) PROVE Map!Next
    <3>1. MapOf(entries') = Map!Dropped(MapOf(entries), k) /\ UNCHANGED <<max_size, now, got>>
      BY <2>1, <2>5, WithoutDrops DEF cache_remove
    <3>2. Map!Remove(k)
      BY <3>1 DEF Map!Remove, MapOf, EntryOf
    <3> QED  BY <3>2 DEF Map!Next
  <2>6. ASSUME NEW k \in Key, cache_get(k) PROVE Map!Next
    BY <2>6, GetIsLook DEF Map!Next
  <2>7. ASSUME NEW k \in Key, NEW d \in Data, NEW ttl \in Ttls, cache_set(k, d, ttl)
        PROVE  Map!Next
    BY <2>7, SetIsPut DEF Map!Next
  <2>8. CASE UNCHANGED vars
    BY <2>8 DEF vars, Map!mapVars, EntryOf
  <2> QED  BY <2>2, <2>3, <2>4, <2>5, <2>6, <2>7, <2>8 DEF Next
<1> QED  BY <1>1, <1>2, CacheInductive, PTL DEF Spec, ImplementsBoundedMap, Map!Spec
===============================================================================
