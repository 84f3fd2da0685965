----------------------------- MODULE MCLinkedList -----------------------------
(* The checked instance of LinkedList: its heap cells are alike. *)
EXTENDS LinkedList

NodeSymmetry == Permutations(Node)
===============================================================================
