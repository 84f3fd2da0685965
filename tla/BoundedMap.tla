------------------------------ MODULE BoundedMap ------------------------------
(***************************************************************************)
(* What a user of the cache may rely on: a map whose entries live until a   *)
(* moment, with room for the "Maximum number of entries" of cache.h:22, the *)
(* capacity; a capacity of 0 makes room for one, which is what cache_set    *)
(* does and cache.h does not say.  Only a put of a key that is not there    *)
(* takes the place of another, and only when the map is full; a put that    *)
(* fails may already have taken it.  A look gives what was put last, and    *)
(* nothing once its time has passed.  Cache implements this module.         *)
(***************************************************************************)
EXTENDS Integers, FiniteSets

CONSTANTS Key, Data, Lifetimes, NULL

VARIABLES map,       \* a function from the present keys
          capacity,
          clock,
          got        \* what the last look gave

mapVars == <<map, capacity, clock, got>>

Dropped(m, k) == [j \in DOMAIN m \ {k} |-> m[j]]

\* The map with room for one more key.
Roomy(m) == IF Cardinality(DOMAIN m) < capacity \/ DOMAIN m = {} THEN {m}
            ELSE {Dropped(m, victim) : victim \in DOMAIN m}

With(m, k, d, until) ==
  [j \in DOMAIN m \cup {k} |-> IF j = k THEN [data |-> d, until |-> until] ELSE m[j]]

Init == DOMAIN map = {} /\ capacity = 0 /\ clock = 0 /\ got = NULL

Create == DOMAIN map = {} /\ capacity' \in Nat /\ UNCHANGED <<map, clock, got>>

Put(k) == /\ \E m \in Roomy(Dropped(map, k)) :
               \/ map' = m
               \/ \E d \in Data, t \in Lifetimes : map' = With(m, k, d, clock + t)
          /\ UNCHANGED <<capacity, clock, got>>

Alive(k) == k \in DOMAIN map /\ clock <= map[k].until

\* NULL also when there is no memory for the copy.
Look(k) == /\ IF Alive(k) THEN got' \in {map[k].data, NULL} /\ map' = map
                          ELSE got' = NULL /\ map' = Dropped(map, k)
           /\ UNCHANGED <<capacity, clock>>

Remove(k) == map' = Dropped(map, k) /\ UNCHANGED <<capacity, clock, got>>

Clear == DOMAIN map' = {} /\ UNCHANGED <<capacity, clock, got>>

Pass == clock' > clock /\ UNCHANGED <<map, capacity, got>>

Next == \/ Create \/ Clear \/ Pass
        \/ \E k \in Key : Put(k) \/ Look(k) \/ Remove(k)

Spec == Init /\ [][Next]_mapVars
===============================================================================
