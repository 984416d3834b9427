---------------------------- MODULE LinkedList ----------------------------
(***************************************************************************)
(* The singly linked lists of util/list.c, with their nodes and pointers.  *)
(*                                                                         *)
(* A caller has a pointer per list (g_handle_list of util/trace.c, the     *)
(* log_t of log.h).  All nodes come from one heap, a freed node may be     *)
(* given out again, and malloc may fail.  A thread may walk a list, as     *)
(* _log_write does, while another inserts.                                 *)
(***************************************************************************)
EXTENDS Naturals, Sequences, FiniteSets, SequencesExt

CONSTANTS
  Nodes,   \* addresses malloc may give out
  Data,    \* data pointers
  Lists,   \* the caller's list pointers
  NULL,
  Free     \* what is at an address that is not allocated

ASSUME LinkedListAssumption ==
  /\ IsFiniteSet(Nodes)
  /\ NULL \notin Nodes \cup Data
  /\ Free \notin [data : Data \cup {NULL}, next : Nodes \cup {NULL}]

VARIABLES
  heap,     \* what is at each address
  list,     \* the caller's pointers
  busy,     \* lists that list_destroy is at
  leaked,   \* history: nodes of the lists a caller has lost
  walker    \* a loop over a list: the node it is `at', the data it has seen,
            \* and the content of the list when it began

vars == <<heap, list, busy, leaked, walker>>

Idle == [list |-> NULL, at |-> NULL, seen |-> << >>, given |-> << >>]

-----------------------------------------------------------------------------
(* Following the pointers.                                                 *)

\* The nodes a loop from p visits.
Chain(p) ==
  LET succ(n) == IF n = NULL \/ heap[n] = Free THEN NULL ELSE heap[n].next
      at[k \in 1..Cardinality(Nodes)] == IF k = 1 THEN p ELSE succ(at[k - 1])
  IN [k \in 1..Cardinality({j \in DOMAIN at : at[j] # NULL}) |-> at[k]]

\* The data from p on.
Content(p) == LET chain == Chain(p) IN [k \in DOMAIN chain |-> heap[chain[k]].data]

\* The first node from p on that is one of those func accepts, or NULL.
list_find(p, accepted) ==
  LET chain == Chain(p)
      hits == {k \in DOMAIN chain : chain[k] \in accepted}
  IN IF hits = {} THEN NULL ELSE chain[Min(hits)]

list_find_node(p, node) == list_find(p, {node})

used == {n \in Nodes : heap[n] # Free}

list_find_by_data(p, d) == list_find(p, {n \in used : heap[n].data = d})

-----------------------------------------------------------------------------
(* Insertion.                                                              *)

\* What a caller may change: a list that is not destroyed, or walked.
Mine(l) == l \notin busy \cup {walker.list}

\* list_create, with the new node in front of next; malloc may give any address
\* that is free.
Allocated(n, d, next) == [heap EXCEPT ![n] = [data |-> d, next |-> next]]

\* Mutant of InsertBeginning: the new node becomes the second.
InsertSecond(l, n, d) ==
  /\ l \notin busy
  /\ heap[n] = Free
  /\ IF list[l] = NULL
     THEN heap' = Allocated(n, d, NULL) /\ list' = [list EXCEPT ![l] = n]
     ELSE /\ heap' = [Allocated(n, d, heap[list[l]].next) EXCEPT ![list[l]].next = n]
          /\ UNCHANGED list
  /\ UNCHANGED <<busy, leaked, walker>>

\* list_insert_beginning, and list_create when the list is empty.  The node is
\* complete before the caller has its address, and a walk never meets it.
InsertBeginning(l, n, d) ==
  /\ l \notin busy
  /\ heap[n] = Free
  /\ heap' = Allocated(n, d, list[l])
  /\ list' = [list EXCEPT ![l] = n]
  /\ UNCHANGED <<busy, leaked, walker>>

\* The caller stores the NULL it gets when malloc fails.
InsertBeginningFails(l) ==
  /\ l \notin busy
  /\ list[l] # NULL
  /\ leaked' = leaked \cup ToSet(Chain(list[l]))
  /\ list' = [list EXCEPT ![l] = NULL]
  /\ UNCHANGED <<heap, busy, walker>>

InsertAfter(l, node, n, d) ==
  /\ Mine(l)
  /\ list_find_node(list[l], node) # NULL
  /\ heap[n] = Free
  /\ heap' = [Allocated(n, d, heap[node].next) EXCEPT ![node].next = n]
  /\ UNCHANGED <<list, busy, leaked, walker>>

\* The loop stops at the last node.  In an empty list it links nothing, and the
\* result is the list of the caller.
InsertEnd(l, n, d) ==
  /\ Mine(l)
  /\ heap[n] = Free
  /\ IF list[l] = NULL
     THEN /\ heap' = Allocated(n, d, NULL)
          /\ list' = [list EXCEPT ![l] = n]
     ELSE /\ heap' = [Allocated(n, d, NULL) EXCEPT ![Last(Chain(list[l]))].next = n]
          /\ UNCHANGED list
  /\ UNCHANGED <<busy, leaked, walker>>

-----------------------------------------------------------------------------
(* Removal.  list_remove compares addresses only: one that is on no list,  *)
(* freed or never given out, changes nothing.                              *)

\* Mutant of list_remove: the rest of the list is cut off with the node.
RemoveCutsRest(l, node) ==
  /\ node # NULL
  /\ IF list[l] = node
     THEN /\ list' = [list EXCEPT ![l] = heap[node].next]
          /\ heap' = [heap EXCEPT ![node] = Free]
     ELSE LET tmp == list_find(list[l], {n \in used : heap[n].next = node})
          IN /\ tmp # NULL
             /\ heap' = [heap EXCEPT ![tmp].next = NULL, ![node] = Free]
             /\ UNCHANGED list

\* Mutant of list_remove: the list is set to the data of its first node.
RemoveSetsData(l, node) ==
  /\ node # NULL
  /\ list[l] = node
  /\ list' = [list EXCEPT ![l] = heap[node].data]
  /\ heap' = [heap EXCEPT ![node] = Free]

\* Mutant of list_remove: the node is freed and stays in the list.
RemoveLeavesLink(l, node) ==
  /\ node # NULL
  /\ node \in ToSet(Chain(list[l]))
  /\ list' = [list EXCEPT ![l] = IF @ = node THEN heap[node].next ELSE @]
  /\ heap' = [heap EXCEPT ![node] = Free]

list_remove(l, node) ==
  /\ node # NULL
  /\ IF list[l] = node
     THEN /\ list' = [list EXCEPT ![l] = heap[node].next]
          /\ heap' = [heap EXCEPT ![node] = Free]
     ELSE LET tmp == list_find(list[l], {n \in used : heap[n].next = node})
          IN /\ tmp # NULL
             /\ heap' = [heap EXCEPT ![tmp].next = heap[node].next, ![node] = Free]
             /\ UNCHANGED list

RemoveNode(l, node) ==
  /\ Mine(l)
  /\ list_remove(l, node)
  /\ UNCHANGED <<busy, leaked, walker>>

\* The sentinel of the registry, whose data is NULL, is never found.
RemoveByData(l, d) ==
  /\ Mine(l)
  /\ d # NULL
  /\ list_remove(l, list_find_by_data(list[l], d))
  /\ UNCHANGED <<busy, leaked, walker>>

Destroy(l) ==
  /\ Mine(l)
  /\ list[l] # NULL
  /\ busy' = busy \cup {l}
  /\ UNCHANGED <<heap, list, leaked, walker>>

\* One turn of the loop of list_destroy.
DestroyHead(l) ==
  /\ l \in busy
  /\ list_remove(l, list[l])
  /\ busy' = IF list'[l] = NULL THEN busy \ {l} ELSE busy
  /\ UNCHANGED <<leaked, walker>>

-----------------------------------------------------------------------------
(* A walk: the loop of _log_write over the list it was given.              *)

WalkBegins(l) ==
  /\ walker = Idle
  /\ Mine(l)
  /\ list[l] # NULL
  /\ walker' = [list |-> l, at |-> list[l], seen |-> << >>, given |-> Content(list[l])]
  /\ UNCHANGED <<heap, list, busy, leaked>>

WalkStep ==
  /\ walker.at # NULL
  /\ walker' = [walker EXCEPT !.at = heap[walker.at].next,
                              !.seen = Append(@, heap[walker.at].data)]
  /\ UNCHANGED <<heap, list, busy, leaked>>

WalkEnds ==
  /\ walker # Idle
  /\ walker.at = NULL
  /\ walker' = Idle
  /\ UNCHANGED <<heap, list, busy, leaked>>

-----------------------------------------------------------------------------
Init ==
  /\ heap = [n \in Nodes |-> Free]
  /\ list = [l \in Lists |-> NULL]
  /\ busy = {}
  /\ leaked = {}
  /\ walker = Idle

Next ==
  \/ \E l \in Lists :
       \/ \E n \in Nodes, d \in Data \cup {NULL} :
            \/ InsertBeginning(l, n, d)
            \/ InsertEnd(l, n, d)
            \/ \E node \in Nodes : InsertAfter(l, node, n, d)
       \/ InsertBeginningFails(l)
       \/ \E node \in Nodes : RemoveNode(l, node)
       \/ \E d \in Data : RemoveByData(l, d)
       \/ Destroy(l)
       \/ DestroyHead(l)
       \/ WalkBegins(l)
  \/ WalkStep
  \/ WalkEnds

Spec == Init /\ [][Next]_vars

-----------------------------------------------------------------------------
(* Properties.                                                             *)

Pointers == Nodes \cup {NULL}

TypeOK ==
  /\ heap \in [Nodes -> [data : Data \cup {NULL}, next : Pointers] \cup {Free}]
  /\ list \in [Lists -> Pointers]
  /\ busy \subseteq Lists
  /\ leaked \subseteq Nodes
  /\ walker.list \in Lists \cup {NULL}
  /\ walker.at \in Pointers

\* The heap is exactly the lists: every allocated node is on one list, once, or
\* was leaked by a caller that lost its list; no pointer leads to freed memory.
HeapExact ==
  LET next(n) == heap[n].next
      refs(m) == Cardinality({l \in Lists : list[l] = m})
                   + Cardinality({n \in used : next(n) = m})
  IN /\ \A n \in used : next(n) \in used \cup {NULL}
     /\ \A l \in Lists : list[l] \in used \cup {NULL}
     /\ \A m \in used : refs(m) <= 1
     /\ used = leaked \cup UNION {ToSet(Chain(list[l])) : l \in Lists}

\* A walk visits what was on the list when it began, each element once and in
\* order, whatever is inserted at the beginning meanwhile.
WalkComplete ==
  walker # Idle => walker.given = walker.seen \o Content(walker.at)

\* The calls do to the sequences what ListSeq says.
ABS == INSTANCE ListSeq WITH
         Data <- Data \cup {NULL},
         content <- [l \in Lists |-> Content(list[l])]

ImplementsListSeq == ABS!Spec

=============================================================================
