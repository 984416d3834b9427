------------------------------ MODULE ListSeq ------------------------------
(***************************************************************************)
(* What util/list.c promises to its callers: each list is a sequence of    *)
(* data.  One element enters or leaves it at a time, the others keep their *)
(* order, and no call on one list changes another.                         *)
(***************************************************************************)
EXTENDS Naturals, Sequences, SequencesExt

CONSTANTS Lists, Data

VARIABLE content   \* what each list holds, from its beginning

Init == content = [l \in Lists |-> << >>]

\* The new element gets the place i.
Insert(l, i, d) == content' = [content EXCEPT ![l] = InsertAt(@, i, d)]

Drop(l, i) == content' = [content EXCEPT ![l] = RemoveAt(@, i)]

\* Without memory a caller that stores what list_insert_beginning returns loses
\* its list, and never a part of it.
Lose(l) == content' = [content EXCEPT ![l] = << >>]

Next == \E l \in Lists :
          \/ \E i \in 1..Len(content[l]) + 1, d \in Data : Insert(l, i, d)
          \/ \E i \in 1..Len(content[l]) : Drop(l, i)
          \/ Lose(l)

Spec == Init /\ [][Next]_content

=============================================================================
