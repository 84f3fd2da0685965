------------------------------ MODULE LinkedList ------------------------------
(***************************************************************************)
(* src/src/lib/linked_list.c, pointer by pointer: one list, and the heap    *)
(* cells its nodes are allocated from.  A cell outside live is free; which  *)
(* free cell calloc hands out is the parameter n of the inserting           *)
(* operations.  An operation that fails (calloc returns NULL, no such       *)
(* index) changes nothing: it is a stuttering step here, and the modules    *)
(* that call the list model what its callers do then.                       *)
(***************************************************************************)
EXTENDS Naturals, SequencesExt

CONSTANTS Node,   \* heap cells that can hold a list node
          Item,   \* what a list stores: pointers it never follows
          NULL

ASSUME NullAssumption == NULL \notin Node

VARIABLES head, tail, size,     \* the LinkedList structure
          live,                 \* the allocated cells
          back, front, item     \* the fields of every cell

listVars == <<head, tail, size, live, back, front, item>>

TypeOK == /\ head \in Node \cup {NULL}
          /\ tail \in Node \cup {NULL}
          /\ size \in Nat
          /\ live \in SUBSET Node
          /\ back \in [Node -> Node \cup {NULL}]
          /\ front \in [Node -> Node \cup {NULL}]
          /\ item \in [Node -> Item \cup {NULL}]

-------------------------------------------------------------------------------
linked_list_create == /\ head = NULL /\ tail = NULL /\ size = 0
                      /\ live = {}
                      /\ back = [n \in Node |-> NULL]
                      /\ front = [n \in Node |-> NULL]
                      /\ item = [n \in Node |-> NULL]

Init == linked_list_create

(***************************************************************************)
(* The node at an index: a walk from the head for the first half of the     *)
(* list, and from the tail for the second half.                             *)
(***************************************************************************)
Walk(start, next, k) ==
  LET w[j \in 0 .. k] == IF j = 0 THEN start ELSE next[w[j-1]]
  IN  w[k]

\* Mutant: a walk from the tail starts one node too early.
get_index_off_by_one(i) ==
  CASE i >= size      -> NULL
    [] i <= size \div 2 -> Walk(head, front, i)
    [] OTHER          -> Walk(tail, back, size - i)

linked_list_get_index(i) ==
  CASE i >= size      -> NULL
    [] i <= size \div 2 -> Walk(head, front, i)
    [] OTHER          -> Walk(tail, back, size - 1 - i)

-------------------------------------------------------------------------------
\* Mutant: the new node is not counted.
calloc_node_uncounted(n, x) == /\ n \notin live
                               /\ live' = live \cup {n}
                               /\ item' = [item EXCEPT ![n] = x]
                               /\ UNCHANGED size

\* Mutant: the item is never stored in the new node.
calloc_node_itemless(n, x) == /\ n \notin live
                              /\ live' = live \cup {n}
                              /\ size' = size + 1
                              /\ UNCHANGED item

\* The part append and insert share: a zeroed cell for x, counted in size.
calloc_node(n, x) == /\ n \notin live
                     /\ live' = live \cup {n}
                     /\ item' = [item EXCEPT ![n] = x]
                     /\ size' = size + 1

linked_list_append(n, x) ==
  /\ calloc_node(n, x)
  /\ back' = [back EXCEPT ![n] = tail]
  /\ front' = [m \in Node |-> IF m = n THEN NULL
                              ELSE IF m = tail THEN n ELSE front[m]]
  /\ head' = IF tail = NULL THEN n ELSE head
  /\ tail' = n

\* Link the new node n before t, as linked_list_insert does.
InsertBefore(t, n, x) ==
  /\ calloc_node(n, x)
  /\ back' = [m \in Node |-> IF m = n THEN back[t]
                             ELSE IF m = t THEN n ELSE back[m]]
  /\ front' = [m \in Node |-> IF m = n THEN t
                              ELSE IF m = back[t] THEN n ELSE front[m]]
  /\ head' = IF back[t] = NULL THEN n ELSE head
  /\ UNCHANGED tail

linked_list_insert(i, n, x) ==
  \/ i >= size /\ linked_list_append(n, x)
  \/ i < size /\ InsertBefore(linked_list_get_index(i), n, x)

\* Mutant: the neighbour keeps pointing at the node that is freed.
Bypass_stale(next, prev, n) == [next EXCEPT ![n] = NULL]

\* The next pointers once n is unlinked and its neighbour skips it.
Bypass(next, prev, n) ==
  [m \in Node |-> IF m = n THEN NULL
                  ELSE IF m = prev[n] THEN next[n] ELSE next[m]]

\* Unlink and free a node (the caller's contract: it is in the list).
linked_list_remove(n) ==
  /\ n \in live
  /\ live' = live \ {n}
  /\ size' = size - 1
  /\ item' = [item EXCEPT ![n] = NULL]
  /\ back' = Bypass(back, front, n)
  /\ front' = Bypass(front, back, n)
  /\ head' = IF back[n] = NULL THEN front[n] ELSE head
  /\ tail' = IF front[n] = NULL THEN back[n] ELSE tail

linked_list_pop(i) == i < size /\ linked_list_remove(linked_list_get_index(i))

linked_list_clear == /\ head' = NULL /\ tail' = NULL /\ size' = 0
                     /\ live' = {}
                     /\ back' = [n \in Node |-> NULL]
                     /\ front' = [n \in Node |-> NULL]
                     /\ item' = [n \in Node |-> NULL]

Next == \/ \E n \in Node, x \in Item :
             \/ linked_list_append(n, x)
             \/ \E i \in 0 .. size : linked_list_insert(i, n, x)
        \/ \E n \in Node : linked_list_remove(n)
        \/ \E i \in 0 .. size : linked_list_pop(i)
        \/ linked_list_clear

Spec == Init /\ [][Next]_listVars

-------------------------------------------------------------------------------
(***************************************************************************)
(* The list is well formed: there is an order s of the live cells, each in  *)
(* it once, that head, tail and the back and front pointers all agree on.   *)
(* So no pointer of a live node leads to a freed one, no node is lost, and  *)
(* the walks in both directions end.  Every operation of linked_list.c      *)
(* rewires up to four pointers; a slip in any of them breaks this.          *)
(***************************************************************************)
Chain(s) ==
  /\ \A i, j \in 1 .. size : s[i] = s[j] => i = j
  /\ \A n \in live : \E i \in 1 .. size : s[i] = n
  /\ head = IF size = 0 THEN NULL ELSE s[1]
  /\ tail = IF size = 0 THEN NULL ELSE s[size]
  /\ \A i \in 1 .. size :
        /\ back[s[i]] = IF i = 1 THEN NULL ELSE s[i-1]
        /\ front[s[i]] = IF i = size THEN NULL ELSE s[i+1]

ListInv == \E s \in [1 .. size -> live] : Chain(s)

Order == CHOOSE s \in [1 .. size -> live] : Chain(s)

\* The sequence of items a user of the list sees.
Items == [i \in 1 .. size |-> item[Order[i]]]

Abstract == INSTANCE ItemList WITH items <- Items

(***************************************************************************)
(* The pointer structure implements a sequence of items: no operation of    *)
(* linked_list.c loses, duplicates or reorders an item it was not asked to. *)
(***************************************************************************)
ImplementsItemList == Abstract!Spec

(***************************************************************************)
(* linked_list_insert and linked_list_pop act on the index they are given,  *)
(* whichever end the walk of linked_list_get_index starts from; an index    *)
(* past the end appends (the "append fallback").                            *)
(***************************************************************************)
ActsOnItsIndex ==
  [][/\ \A i \in 0 .. size, n \in Node, x \in Item :
          linked_list_insert(i, n, x) => Items' = InsertAt(Items, i + 1, x)
     /\ \A i \in 0 .. size :
          linked_list_pop(i) => Items' = RemoveAt(Items, i + 1)]_listVars
===============================================================================
