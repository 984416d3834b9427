---------------------------- MODULE MCLinkedList ----------------------------
(* Values for the constants of LinkedList, for TLC. *)
EXTENDS LinkedList, TLC

\* list.c compares addresses for equality only.
MCNodes == Permutations(Nodes)

=============================================================================
