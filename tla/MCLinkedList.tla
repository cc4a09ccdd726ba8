---------------------------- MODULE MCLinkedList ----------------------------
(***************************************************************************)
(* Small heaps for LinkedList.  Addresses are interchangeable.             *)
(***************************************************************************)
EXTENDS LinkedList, TLC

HeapSymmetry == Permutations(Nodes)
=============================================================================
