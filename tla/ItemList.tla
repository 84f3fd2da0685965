------------------------------- MODULE ItemList -------------------------------
(***************************************************************************)
(* What a user of linked_list.h is promised: a LinkedList is a sequence of  *)
(* items that grows at the end or before an index, and loses the item at    *)
(* an index or all of them.  LinkedList implements this module.             *)
(***************************************************************************)
EXTENDS Naturals, SequencesExt

CONSTANT Item

VARIABLE items

Init == items = << >>

InsertItem(x) == \E i \in 0 .. Len(items) : items' = InsertAt(items, i + 1, x)

RemoveItem == \E i \in 1 .. Len(items) : items' = RemoveAt(items, i)

ClearItems == items' = << >>

Next == RemoveItem \/ ClearItems \/ \E x \in Item : InsertItem(x)

Spec == Init /\ [][Next]_items
===============================================================================
