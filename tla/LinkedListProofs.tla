-------------------------- MODULE LinkedListProofs --------------------------
(***************************************************************************)
(* Theorems about LinkedList, for every set of addresses, every set of     *)
(* data and every number of lists: the heap is exactly the lists, a walk   *)
(* meets what it was given, and the calls do what ListSeq says.            *)
(*                                                                         *)
(* The heap is an argument of the definitions below, so that they speak of *)
(* the heap before and after a step.                                       *)
(***************************************************************************)
EXTENDS LinkedList, SequenceLemmas, FiniteSetTheorems

Cell == [data : Data \cup {NULL}, next : Nodes \cup {NULL}]
Heap == [Nodes -> Cell \cup {Free}]
Firsts == [Lists -> Nodes \cup {NULL}]
NodeSets == SUBSET Nodes

\* From p the nodes of s follow each other, each once, and then nothing.
Path(h, p, s) ==
  /\ s \in Seq(Nodes)
  /\ \A i, j \in 1..Len(s) : s[i] = s[j] => i = j
  /\ p = IF Len(s) = 0 THEN NULL ELSE s[1]
  /\ \A i \in 1..Len(s) : /\ h[s[i]] # Free
                          /\ h[s[i]].next = IF i = Len(s) THEN NULL ELSE s[i + 1]

DataOf(h, s) == [k \in 1..Len(s) |-> h[s[k]].data]

LEMMA PathTyped ==
  ASSUME NEW h \in Heap, NEW p, NEW s, Path(h, p, s)
  PROVE  /\ s \in Seq(Nodes) /\ Len(s) \in Nat /\ DOMAIN s = 1..Len(s)
         /\ p \in Nodes \cup {NULL}
         /\ \A i \in 1..Len(s) : s[i] \in Nodes /\ s[i] # NULL /\ h[s[i]] \in Cell
<1>1. s \in Seq(Nodes) /\ Len(s) \in Nat /\ DOMAIN s = 1..Len(s)
  BY LenProperties DEF Path
<1>2. \A i \in 1..Len(s) : s[i] \in Nodes
  BY <1>1, ElementOfSeq
<1>3. \A i \in 1..Len(s) : h[s[i]] \in Cell
  BY <1>2 DEF Path, Heap
<1>4. p \in Nodes \cup {NULL}
  BY <1>1, <1>2 DEF Path
<1>. QED  BY <1>1, <1>2, <1>3, <1>4, LinkedListAssumption

-----------------------------------------------------------------------------
(* The loops of list.c follow the path.                                    *)

LEMMA IntervalSize ==
  ASSUME NEW n \in Nat
  PROVE  IsFiniteSet(1..n) /\ Cardinality(1..n) = n
<1>1. /\ 1 \in Int /\ n \in Int
      /\ IsFiniteSet(1..n) /\ Cardinality(1..n) = IF 1 > n THEN 0 ELSE n - 1 + 1
  BY FS_Interval
<1>. QED  BY <1>1

\* A path has no more nodes than there are.
LEMMA PathFits ==
  ASSUME NEW h \in Heap, NEW p, NEW s, Path(h, p, s)
  PROVE  Cardinality(Nodes) \in Nat /\ Len(s) <= Cardinality(Nodes)
<1>1. IsFiniteSet(Nodes) /\ Cardinality(Nodes) \in Nat
  BY LinkedListAssumption, FS_CardinalityType
<1>2. s \in [1..Len(s) -> Nodes] /\ Len(s) \in Nat
  BY PathTyped
<1>3. s \in Injection(1..Len(s), Nodes)
  BY <1>2 DEF Path, Injection, IsInjective
<1>4. IsFiniteSet(1..Len(s)) /\ Cardinality(1..Len(s)) = Len(s)
  BY <1>2, IntervalSize
<1>5. Cardinality(1..Len(s)) <= Cardinality(Nodes)
  BY <1>1, <1>3, FS_Injection
<1>. QED  BY <1>1, <1>4, <1>5

\* Where the loop is when it has taken k - 1 steps.
Follow(h, n) == IF n = NULL \/ h[n] = Free THEN NULL ELSE h[n].next

IsWalk(at, h, p, n) == at = [k \in 1..n |-> IF k = 1 THEN p ELSE Follow(h, at[k - 1])]

LEMMA WalkExists ==
  ASSUME NEW h, NEW p
  PROVE  \A n \in Nat : \E at : IsWalk(at, h, p, n)
<1>. DEFINE G == {n \in Nat : \E at : IsWalk(at, h, p, n)}
<1>1. 0 \in G
  <2>1. IsWalk([k \in 1..0 |-> p], h, p, 0)
    BY DEF IsWalk
  <2>. QED  BY <2>1
<1>2. ASSUME NEW n \in Nat, n \in G PROVE n + 1 \in G
  <2>1. PICK f : IsWalk(f, h, p, n)
    BY <1>2
  <2>. DEFINE Body(g, i) == IF i = 1 THEN p ELSE Follow(h, g[i - 1])
              g == [i \in 1..(n + 1) |-> IF i <= n THEN f[i] ELSE Body(f, i)]
  <2>2. ASSUME NEW i \in 1..(n + 1) PROVE g[i] = Body(g, i)
    <3>1. i # 1 => i - 1 \in 1..(n + 1) /\ i - 1 <= n
      OBVIOUS
    <3>2. i # 1 => g[i - 1] = f[i - 1]
      BY <3>1
    <3>3. CASE i <= n
      <4>1. i \in 1..n
        BY <3>3
      <4>2. f[i] = Body(f, i)
        BY <2>1, <4>1 DEF IsWalk
      <4>3. g[i] = f[i]
        BY <3>3
      <4>. HIDE DEF g
      <4>. QED  BY <3>2, <4>2, <4>3
    <3>4. CASE ~(i <= n)
      <4>1. g[i] = Body(f, i)
        BY <3>4
      <4>. HIDE DEF g
      <4>. QED  BY <3>2, <4>1
    <3>. QED  BY <3>3, <3>4
  <2>3. g = [i \in 1..(n + 1) |-> g[i]]
    OBVIOUS
  <2>. HIDE DEF g
  <2>4. IsWalk(g, h, p, n + 1)
    BY <2>2, <2>3 DEF IsWalk
  <2>. QED  BY <2>4
<1>. HIDE DEF G
<1>3. \A n \in Nat : n \in G
  BY <1>1, <1>2, SetInduction
<1>. QED  BY <1>3 DEF G

\* A walk goes along the path and then stays at NULL.
LEMMA WalkFollows ==
  ASSUME NEW h \in Heap, NEW p, NEW s, Path(h, p, s),
         NEW n \in Nat, NEW at, IsWalk(at, h, p, n)
  PROVE  \A k \in 1..n : at[k] = IF k <= Len(s) THEN s[k] ELSE NULL
<1>. DEFINE G == {k \in Nat : k + 1 \in 1..n =>
                    at[k + 1] = IF k + 1 <= Len(s) THEN s[k + 1] ELSE NULL}
<1>0. /\ Len(s) \in Nat
      /\ \A i \in 1..Len(s) : s[i] \in Nodes /\ s[i] # NULL /\ h[s[i]] \in Cell
  BY PathTyped
<1>1. 0 \in G
  <2>1. 1 \in 1..n => at[1] = p
    BY DEF IsWalk
  <2>. QED  BY <1>0, <2>1 DEF Path
<1>2. ASSUME NEW k \in Nat, k \in G PROVE k + 1 \in G
  <2>. SUFFICES ASSUME (k + 1) + 1 \in 1..n
                PROVE  at[(k + 1) + 1] = IF (k + 1) + 1 <= Len(s)
                                         THEN s[(k + 1) + 1] ELSE NULL
    OBVIOUS
  <2>1. PICK i \in 1..n : i = k + 1 /\ i + 1 \in 1..n /\ i + 1 # 1 /\ (i + 1) - 1 = i
    OBVIOUS
  <2>2. at[i + 1] = Follow(h, at[i])
    BY <2>1 DEF IsWalk
  <2>3. at[i] = IF i <= Len(s) THEN s[i] ELSE NULL
    BY <1>2, <2>1
  <2>4. CASE i <= Len(s)
    <3>1. i \in 1..Len(s)
      BY <2>4
    <3>2. Follow(h, s[i]) = IF i = Len(s) THEN NULL ELSE s[i + 1]
      BY <1>0, <3>1 DEF Follow, Path
    <3>. QED  BY <1>0, <2>1, <2>2, <2>3, <2>4, <3>2
  <2>5. CASE ~(i <= Len(s))
    <3>1. ~(i + 1 <= Len(s))
      BY <1>0, <2>5
    <3>. QED  BY <2>1, <2>2, <2>3, <2>5, <3>1 DEF Follow
  <2>. QED  BY <2>4, <2>5
<1>. HIDE DEF G
<1>3. \A k \in Nat : k \in G
  BY <1>1, <1>2, SetInduction
<1>4. ASSUME NEW k \in 1..n PROVE at[k] = IF k <= Len(s) THEN s[k] ELSE NULL
  <2>1. PICK j \in Nat : j + 1 = k
    <3>1. k - 1 \in Nat /\ (k - 1) + 1 = k
      OBVIOUS
    <3>. QED  BY <3>1
  <2>. QED  BY <1>3, <2>1 DEF G
<1>. QED  BY <1>4

\* Chain of LinkedList, with the heap as an argument.
ChainIn(h, p) ==
  LET succ(n) == IF n = NULL \/ h[n] = Free THEN NULL ELSE h[n].next
      at[k \in 1..Cardinality(Nodes)] == IF k = 1 THEN p ELSE succ(at[k - 1])
  IN [k \in 1..Cardinality({j \in DOMAIN at : at[j] # NULL}) |-> at[k]]

LEMMA ChainOfHeap == \A p : Chain(p) = ChainIn(heap, p)
BY DEF Chain, ChainIn

LEMMA ChainOfNewHeap == \A p : Chain(p)' = ChainIn(heap', p)
BY DEF Chain, ChainIn

\* A path is what Chain gives.
LEMMA PathIsChain ==
  ASSUME NEW h \in Heap, NEW p, NEW s, Path(h, p, s)
  PROVE  ChainIn(h, p) = s
<1>. DEFINE n == Cardinality(Nodes)
            at == CHOOSE at : IsWalk(at, h, p, n)
            J == {j \in DOMAIN at : at[j] # NULL}
<1>1. n \in Nat /\ Len(s) \in Nat /\ Len(s) <= n /\ DOMAIN s = 1..Len(s)
      /\ s \in Seq(Nodes) /\ \A i \in 1..Len(s) : s[i] # NULL
  BY PathFits, PathTyped
<1>2. IsWalk(at, h, p, n)
  <2>1. \E f : IsWalk(f, h, p, n)
    BY <1>1, WalkExists
  <2>. QED  BY <2>1
<1>3. ChainIn(h, p) = [k \in 1..Cardinality(J) |-> at[k]]
  BY DEF ChainIn, IsWalk, Follow
<1>. HIDE DEF at, n
<1>4. /\ DOMAIN at = 1..n
      /\ \A k \in 1..n : at[k] = IF k <= Len(s) THEN s[k] ELSE NULL
  BY <1>1, <1>2, WalkFollows, SMTT(30) DEF IsWalk
<1>5. J = 1..Len(s)
  BY <1>1, <1>4
<1>6. Cardinality(J) = Len(s)
  BY <1>1, <1>5, IntervalSize
<1>7. s = [k \in 1..Len(s) |-> s[k]]
  BY <1>1
<1>8. \A k \in 1..Len(s) : at[k] = s[k]
  BY <1>1, <1>4
<1>. QED  BY <1>3, <1>6, <1>7, <1>8

-----------------------------------------------------------------------------
(* Places in a sequence.                                                   *)

LEMMA InsertAtProperties ==
  ASSUME NEW A, NEW s \in Seq(A), NEW i \in 1..Len(s) + 1, NEW e \in A
  PROVE  /\ InsertAt(s, i, e) \in Seq(A) /\ Len(InsertAt(s, i, e)) = Len(s) + 1
         /\ \A j \in 1..Len(s) + 1 :
              InsertAt(s, i, e)[j] = IF j < i THEN s[j]
                                     ELSE IF j = i THEN e ELSE s[j - 1]
<1>. DEFINE p == SubSeq(s, 1, i - 1)
            q == SubSeq(s, i, Len(s))
            r == p \o <<e>>
<1>1. Len(s) \in Nat /\ i \in Nat \ {0} /\ i - 1 \in Nat /\ i - 1 <= Len(s)
      /\ i <= Len(s) + 1 /\ 1 <= (i - 1) + 1 /\ ((i - 1) + 1) - 1 = i - 1
  BY LenProperties
<1>2. /\ p \in Seq(A) /\ Len(p) = i - 1
      /\ \A j \in 1..i - 1 : p[j] = s[j]
  BY <1>1, Slice
<1>3. /\ q \in Seq(A) /\ Len(q) = (Len(s) + 1) - i
      /\ \A j \in 1..(Len(s) + 1) - i : q[j] = s[(i - 1) + j]
  BY <1>1, Slice
<1>. HIDE DEF p, q
<1>4. /\ <<e>> \in Seq(A) /\ Len(<<e>>) = 1 /\ <<e>>[1] = e
  OBVIOUS
<1>5. /\ r \in Seq(A) /\ Len(r) = Len(p) + Len(<<e>>)
      /\ \A j \in 1..Len(p) + Len(<<e>>) :
           r[j] = IF j <= Len(p) THEN p[j] ELSE <<e>>[j - Len(p)]
  BY <1>2, <1>4, ConcatProperties
<1>. HIDE DEF r
<1>6. /\ Len(r) = i
      /\ \A j \in 1..i : r[j] = IF j < i THEN s[j] ELSE e
  <2>1. Len(r) = i
    BY <1>1, <1>2, <1>4, <1>5
  <2>2. ASSUME NEW j \in 1..i PROVE r[j] = IF j < i THEN s[j] ELSE e
    <3>1. r[j] = IF j <= i - 1 THEN p[j] ELSE <<e>>[j - (i - 1)]
      BY <1>1, <1>2, <1>4, <1>5, SMTT(30)
    <3>2. CASE j < i
      BY <1>1, <1>2, <3>1, <3>2
    <3>3. CASE ~(j < i)
      <4>1. j - (i - 1) = 1 /\ ~(j <= i - 1)
        BY <1>1, <3>3
      <4>. QED  BY <1>4, <3>1, <3>3, <4>1
    <3>. QED  BY <3>2, <3>3
  <2>. QED  BY <2>1, <2>2
<1>7. InsertAt(s, i, e) = r \o q
  BY DEF InsertAt, p, q, r
<1>8. /\ r \o q \in Seq(A) /\ Len(r \o q) = Len(r) + Len(q)
      /\ \A j \in 1..Len(r) + Len(q) :
           (r \o q)[j] = IF j <= Len(r) THEN r[j] ELSE q[j - Len(r)]
  <2>1. r \in Seq(A) /\ q \in Seq(A)
    BY <1>3, <1>5
  <2>. QED  BY <2>1, ConcatProperties
<1>9. Len(r) + Len(q) = Len(s) + 1
  BY <1>1, <1>3, <1>6
<1>10. ASSUME NEW j \in 1..Len(s) + 1
       PROVE  (r \o q)[j] = IF j < i THEN s[j] ELSE IF j = i THEN e ELSE s[j - 1]
  <2>1. (r \o q)[j] = IF j <= i THEN r[j] ELSE q[j - i]
    BY <1>6, <1>8, <1>9
  <2>2. CASE j <= i
    BY <1>1, <1>6, <2>1, <2>2
  <2>3. CASE ~(j <= i)
    <3>1. j - i \in 1..(Len(s) + 1) - i /\ (i - 1) + (j - i) = j - 1
          /\ ~(j < i) /\ j # i
      BY <1>1, <2>3
    <3>. QED  BY <1>3, <2>1, <2>3, <3>1
  <2>. QED  BY <2>2, <2>3
<1>. QED  BY <1>7, <1>8, <1>9, <1>10

LEMMA RemoveAtProperties ==
  ASSUME NEW A, NEW s \in Seq(A), NEW i \in 1..Len(s)
  PROVE  /\ RemoveAt(s, i) \in Seq(A) /\ Len(RemoveAt(s, i)) = Len(s) - 1
         /\ \A j \in 1..Len(s) - 1 :
              RemoveAt(s, i)[j] = IF j < i THEN s[j] ELSE s[j + 1]
<1>. DEFINE p == SubSeq(s, 1, i - 1)
            q == SubSeq(s, i + 1, Len(s))
<1>1. Len(s) \in Nat /\ i \in Nat \ {0} /\ i - 1 \in Nat /\ i - 1 <= Len(s)
      /\ i + 1 \in Nat \ {0} /\ i + 1 <= Len(s) + 1
      /\ 1 <= (i - 1) + 1 /\ ((i - 1) + 1) - 1 = i - 1
      /\ (Len(s) + 1) - (i + 1) = Len(s) - i /\ (i + 1) - 1 = i
  BY LenProperties
<1>2. /\ p \in Seq(A) /\ Len(p) = i - 1
      /\ \A j \in 1..i - 1 : p[j] = s[j]
  BY <1>1, Slice
<1>3. /\ q \in Seq(A) /\ Len(q) = Len(s) - i
      /\ \A j \in 1..Len(s) - i : q[j] = s[i + j]
  <2>1. /\ q \in Seq(A) /\ Len(q) = (Len(s) + 1) - (i + 1)
        /\ \A j \in 1..(Len(s) + 1) - (i + 1) : q[j] = s[((i + 1) - 1) + j]
    BY <1>1, Slice, SMTT(30)
  <2>. QED  BY <1>1, <2>1
<1>4. RemoveAt(s, i) = p \o q
  BY DEF RemoveAt
<1>. HIDE DEF p, q
<1>5. /\ p \o q \in Seq(A) /\ Len(p \o q) = Len(p) + Len(q)
      /\ \A j \in 1..Len(p) + Len(q) :
           (p \o q)[j] = IF j <= Len(p) THEN p[j] ELSE q[j - Len(p)]
  BY <1>2, <1>3, ConcatProperties
<1>6. Len(p) + Len(q) = Len(s) - 1
  BY <1>1, <1>2, <1>3
<1>7. ASSUME NEW j \in 1..Len(s) - 1
      PROVE  (p \o q)[j] = IF j < i THEN s[j] ELSE s[j + 1]
  <2>1. (p \o q)[j] = IF j <= i - 1 THEN p[j] ELSE q[j - (i - 1)]
    BY <1>2, <1>5, <1>6
  <2>2. CASE j < i
    BY <1>1, <1>2, <2>1, <2>2
  <2>3. CASE ~(j < i)
    <3>1. j - (i - 1) \in 1..Len(s) - i /\ i + (j - (i - 1)) = j + 1
          /\ ~(j <= i - 1)
      BY <1>1, <2>3
    <3>. QED  BY <1>3, <2>1, <2>3, <3>1
  <2>. QED  BY <2>2, <2>3
<1>. QED  BY <1>4, <1>5, <1>6, <1>7

-----------------------------------------------------------------------------
(* What the calls do to a path.                                            *)

D == Data \cup {NULL}

NewCell(d, p) == [data |-> d, next |-> p]
Relinked(cell, p) == [cell EXCEPT !.next = p]
Put(f, l, x) == [f EXCEPT ![l] = x]

LEMMA DataTyped ==
  ASSUME NEW h \in Heap, NEW p, NEW s, Path(h, p, s)
  PROVE  DataOf(h, s) \in Seq(D) /\ Len(DataOf(h, s)) = Len(s)
<1>1. Len(s) \in Nat /\ \A i \in 1..Len(s) : h[s[i]] \in Cell
  BY PathTyped
<1>2. DataOf(h, s) \in [1..Len(s) -> D]
  BY <1>1 DEF DataOf, Cell, D
<1>. QED  BY <1>1, <1>2, FunctionIsSeq

\* A path whose nodes are left alone.
LEMMA PathStays ==
  ASSUME NEW h, NEW g, NEW p, NEW s, Path(h, p, s),
         \A i \in 1..Len(s) : g[s[i]] = h[s[i]]
  PROVE  Path(g, p, s) /\ DataOf(g, s) = DataOf(h, s)
BY DEF Path, DataOf

\* The rest of a path, from its second node.
LEMMA PathRest ==
  ASSUME NEW h \in Heap, NEW p \in Nodes, NEW s, Path(h, p, s)
  PROVE  /\ s # << >> /\ Len(s) >= 1 /\ s[1] = p
         /\ Path(h, h[p].next, Tail(s)) /\ Len(Tail(s)) = Len(s) - 1
         /\ \A j \in 1..Len(s) - 1 : Tail(s)[j] = s[j + 1]
<1>1. /\ s \in Seq(Nodes) /\ Len(s) \in Nat
      /\ \A i \in 1..Len(s) : s[i] \in Nodes /\ s[i] # NULL
  BY PathTyped
<1>2. p # NULL
  BY LinkedListAssumption
<1>3. Len(s) >= 1 /\ s[1] = p /\ s # << >>
  BY <1>1, <1>2, EmptySeq DEF Path
<1>4. /\ Tail(s) \in Seq(Nodes) /\ Len(Tail(s)) = Len(s) - 1
      /\ \A j \in 1..Len(s) - 1 : Tail(s)[j] = s[j + 1]
  BY <1>1, <1>3, HeadTailProperties
<1>5. PICK m \in Nat : m = Len(s) - 1 /\ m + 1 = Len(s)
  BY <1>1, <1>3
<1>6. \A i, j \in 1..m : Tail(s)[i] = Tail(s)[j] => i = j
  <2>1. ASSUME NEW i \in 1..m, NEW j \in 1..m, Tail(s)[i] = Tail(s)[j] PROVE i = j
    <3>1. s[i + 1] = s[j + 1] /\ i + 1 \in 1..Len(s) /\ j + 1 \in 1..Len(s)
      BY <1>4, <1>5, <2>1
    <3>2. i + 1 = j + 1
      BY <3>1 DEF Path
    <3>. QED  BY <3>2
  <2>. QED  BY <2>1
<1>7. h[p].next = IF m = 0 THEN NULL ELSE Tail(s)[1]
  <2>0. PICK k \in 1..Len(s) : k = 1
    BY <1>1, <1>3
  <2>1. h[s[1]].next = IF 1 = Len(s) THEN NULL ELSE s[1 + 1]
    BY <2>0 DEF Path
  <2>2. m # 0 => Tail(s)[1] = s[1 + 1]
    BY <1>4, <1>5
  <2>. QED  BY <1>3, <1>5, <2>1, <2>2
<1>8. ASSUME NEW i \in 1..m
      PROVE  /\ h[Tail(s)[i]] # Free
             /\ h[Tail(s)[i]].next = IF i = m THEN NULL ELSE Tail(s)[i + 1]
  <2>1. Tail(s)[i] = s[i + 1] /\ i + 1 \in 1..Len(s)
    BY <1>4, <1>5
  <2>2. i # m => Tail(s)[i + 1] = s[(i + 1) + 1]
    <3>1. i # m => i + 1 \in 1..Len(s) - 1
      BY <1>5
    <3>. QED  BY <1>4, <3>1
  <2>3. i = m <=> i + 1 = Len(s)
    BY <1>5
  <2>. QED  BY <2>1, <2>2, <2>3 DEF Path
<1>. QED  BY <1>3, <1>4, <1>5, <1>6, <1>7, <1>8 DEF Path

\* A new node n gets the place i: the node before it points to it, and it to the
\* node that had the place.
LEMMA PathInsert ==
  ASSUME NEW h \in Heap, NEW g \in Heap, NEW p, NEW s, Path(h, p, s),
         NEW i \in 1..Len(s) + 1, NEW n \in Nodes, h[n] = Free, NEW d \in D,
         NEW r, r = IF i = Len(s) + 1 THEN NULL ELSE s[i], g[n] = NewCell(d, r),
         NEW q, q = IF i = 1 THEN n ELSE p,
         \A j \in 1..Len(s) :
           /\ g[s[j]] # Free
           /\ g[s[j]].data = h[s[j]].data
           /\ g[s[j]].next = IF j = i - 1 THEN n ELSE h[s[j]].next
  PROVE  /\ Path(g, q, InsertAt(s, i, n))
         /\ DataOf(g, InsertAt(s, i, n)) = InsertAt(DataOf(h, s), i, d)
         /\ ToSet(InsertAt(s, i, n)) = ToSet(s) \cup {n}
<1>1. /\ s \in Seq(Nodes) /\ Len(s) \in Nat /\ DOMAIN s = 1..Len(s)
      /\ \A j \in 1..Len(s) : s[j] \in Nodes /\ s[j] # NULL /\ h[s[j]] \in Cell
  BY PathTyped
<1>2. PICK t : t = InsertAt(s, i, n)
  OBVIOUS
<1>3. PICK m \in Nat : m = Len(s) /\ i \in 1..m + 1
  BY <1>1
<1>4. /\ t \in Seq(Nodes) /\ Len(t) = m + 1 /\ DOMAIN t = 1..m + 1
      /\ \A j \in 1..m + 1 : t[j] = IF j < i THEN s[j] ELSE IF j = i THEN n ELSE s[j - 1]
  <2>1. /\ t \in Seq(Nodes) /\ Len(t) = m + 1
        /\ \A j \in 1..m + 1 : t[j] = IF j < i THEN s[j] ELSE IF j = i THEN n ELSE s[j - 1]
    <3>1. /\ InsertAt(s, i, n) \in Seq(Nodes) /\ Len(InsertAt(s, i, n)) = Len(s) + 1
          /\ \A j \in 1..Len(s) + 1 :
               InsertAt(s, i, n)[j] = IF j < i THEN s[j]
                                      ELSE IF j = i THEN n ELSE s[j - 1]
      BY <1>1, InsertAtProperties
    <3>. QED  BY <1>2, <1>3, <3>1
  <2>. QED  BY <2>1, LenProperties
<1>5. \A j \in 1..m : s[j] # n
  BY <1>1, <1>3 DEF Path
<1>6. \A j \in 1..m + 1 :
        /\ j < i => j \in 1..m /\ t[j] = s[j]
        /\ j = i => t[j] = n
        /\ ~(j < i) /\ j # i => j - 1 \in 1..m /\ (j - 1) + 1 = j /\ t[j] = s[j - 1]
  BY <1>3, <1>4
<1>7. \A a, b \in 1..m : s[a] = s[b] => a = b
  BY <1>3 DEF Path
<1>8. ASSUME NEW a \in 1..m + 1, NEW b \in 1..m + 1, t[a] = t[b] PROVE a = b
  <2>1. CASE a < i
    <3>1. t[a] = s[a] /\ a \in 1..m
      BY <1>4, <1>6, <2>1
    <3>2. CASE b < i
      <4>1. t[b] = s[b] /\ b \in 1..m
        BY <1>6, <3>2
      <4>. QED  BY <1>7, <1>8, <3>1, <4>1
    <3>3. CASE b = i
      BY <1>5, <1>6, <1>8, <3>1, <3>3
    <3>4. CASE ~(b < i) /\ b # i
      <4>1. t[b] = s[b - 1] /\ b - 1 \in 1..m
        BY <1>4, <1>6, <3>4
      <4>2. a = b - 1
        BY <1>7, <1>8, <3>1, <4>1
      <4>. QED  BY <1>3, <2>1, <3>4, <4>2
    <3>. QED  BY <3>2, <3>3, <3>4
  <2>2. CASE a = i
    <3>1. t[a] = n
      BY <1>3, <1>4, <2>2
    <3>2. CASE b < i
      <4>1. t[b] = s[b] /\ b \in 1..m
        BY <1>6, <3>2
      <4>. QED  BY <1>5, <1>8, <3>1, <4>1
    <3>3. CASE b = i
      BY <2>2, <3>3
    <3>4. CASE ~(b < i) /\ b # i
      <4>1. t[b] = s[b - 1] /\ b - 1 \in 1..m
        BY <1>6, <3>4
      <4>. QED  BY <1>5, <1>8, <3>1, <4>1
    <3>. QED  BY <3>2, <3>3, <3>4
  <2>3. CASE ~(a < i) /\ a # i
    <3>1. t[a] = s[a - 1] /\ a - 1 \in 1..m
      BY <1>4, <1>6, <2>3
    <3>2. CASE b < i
      <4>1. t[b] = s[b] /\ b \in 1..m
        BY <1>4, <1>6, <3>2
      <4>2. a - 1 = b
        BY <1>7, <1>8, <3>1, <4>1
      <4>. QED  BY <1>3, <2>3, <3>2, <4>2
    <3>3. CASE b = i
      BY <1>5, <1>6, <1>8, <3>1, <3>3, ZenonT(30)
    <3>4. CASE ~(b < i) /\ b # i
      <4>1. t[b] = s[b - 1] /\ b - 1 \in 1..m
        BY <1>4, <1>6, <3>4
      <4>2. a - 1 = b - 1
        BY <1>7, <1>8, <3>1, <4>1
      <4>. QED  BY <4>2
    <3>. QED  BY <3>2, <3>3, <3>4
  <2>. QED  BY <2>1, <2>2, <2>3
<1>9. q = t[1]
  <2>1. CASE i = 1
    BY <1>3, <1>4, <2>1
  <2>2. CASE i # 1
    <3>1. t[1] = s[1] /\ m # 0
      BY <1>3, <1>4, <2>2
    <3>. QED  BY <1>3, <2>2, <3>1 DEF Path
  <2>. QED  BY <2>1, <2>2
<1>10. g[n] # Free /\ g[n].data = d /\ g[n].next = r
  <2>1. r \in Nodes \cup {NULL}
    BY <1>1
  <2>. QED  BY LinkedListAssumption, <2>1 DEF D, NewCell
<1>11. ASSUME NEW j \in 1..m + 1
       PROVE  /\ g[t[j]] # Free
              /\ g[t[j]].next = IF j = m + 1 THEN NULL ELSE t[j + 1]
  <2>0. j # m + 1 => j + 1 \in 1..m + 1 /\ j \in 1..m
    BY <1>3
  <2>1. CASE j < i
    <3>1. t[j] = s[j] /\ j \in 1..m /\ j # m + 1
      BY <1>3, <1>4, <1>6, <2>1
    <3>2. h[s[j]].next = IF j = m THEN NULL ELSE s[j + 1]
      BY <1>3, <3>1 DEF Path
    <3>3. g[t[j]] # Free /\ g[t[j]].next = IF j = i - 1 THEN n ELSE h[s[j]].next
      BY <1>3, <3>1
    <3>4. CASE j = i - 1
      <4>1. t[j + 1] = n
        <5>1. ~(j + 1 < i) /\ j + 1 = i
          BY <1>3, <3>4
        <5>. QED  BY <1>4, <2>0, <3>1, <5>1
      <4>. QED  BY <3>1, <3>3, <3>4, <4>1
    <3>5. CASE j # i - 1
      <4>1. j + 1 < i /\ j # m
        BY <1>3, <2>1, <3>5
      <4>2. t[j + 1] = s[j + 1]
        BY <1>4, <2>0, <3>1, <4>1
      <4>. QED  BY <3>1, <3>2, <3>3, <3>5, <4>1, <4>2
    <3>. QED  BY <3>4, <3>5
  <2>2. CASE j = i
    <3>1. t[j] = n
      BY <1>3, <1>4, <2>2
    <3>2. g[n].next = IF i = m + 1 THEN NULL ELSE s[i]
      BY <1>3, <1>10
    <3>3. j # m + 1 => t[j + 1] = s[i]
      <4>1. j # m + 1 => ~(j + 1 < i) /\ j + 1 # i /\ (j + 1) - 1 = i
        BY <1>3, <2>2
      <4>. QED  BY <1>4, <2>0, <4>1
    <3>. QED  BY <1>10, <2>2, <3>1, <3>2, <3>3
  <2>3. CASE ~(j < i) /\ j # i
    <3>1. PICK k \in 1..m : k = j - 1 /\ k + 1 = j /\ k # i - 1 /\ t[j] = s[k]
      BY <1>3, <1>4, <1>6, <2>3
    <3>2. g[s[k]] # Free /\ g[s[k]].next = h[s[k]].next
      BY <1>3, <3>1
    <3>3. h[s[k]].next = IF k = m THEN NULL ELSE s[k + 1]
      BY <1>3 DEF Path
    <3>4. j # m + 1 => t[j + 1] = s[j]
      <4>1. j # m + 1 => ~(j + 1 < i) /\ j + 1 # i /\ (j + 1) - 1 = j
        BY <1>3, <2>3
      <4>. QED  BY <1>4, <2>0, <4>1
    <3>5. k = m <=> j = m + 1
      BY <1>3, <3>1
    <3>. QED  BY <3>1, <3>2, <3>3, <3>4, <3>5
  <2>. QED  BY <2>1, <2>2, <2>3
<1>12. Path(g, q, t)
  <2>1. Len(t) # 0
    BY <1>3, <1>4
  <2>. QED  BY <1>4, <1>8, <1>9, <1>11, <2>1 DEF Path
<1>13. DataOf(g, t) = InsertAt(DataOf(h, s), i, d)
  <2>1. PICK a : a = DataOf(h, s) /\ a \in Seq(D) /\ Len(a) = m
    BY <1>3, DataTyped
  <2>2. \A j \in 1..m : a[j] = h[s[j]].data
    BY <1>3, <2>1 DEF DataOf
  <2>3. PICK b : b = InsertAt(a, i, d)
    OBVIOUS
  <2>4. /\ b \in Seq(D) /\ Len(b) = m + 1
        /\ \A j \in 1..m + 1 : b[j] = IF j < i THEN a[j] ELSE IF j = i THEN d ELSE a[j - 1]
    <3>1. i \in 1..Len(a) + 1 /\ a \in Seq(D)
      BY <1>3, <2>1
    <3>2. /\ InsertAt(a, i, d) \in Seq(D) /\ Len(InsertAt(a, i, d)) = Len(a) + 1
          /\ \A j \in 1..Len(a) + 1 :
               InsertAt(a, i, d)[j] = IF j < i THEN a[j]
                                      ELSE IF j = i THEN d ELSE a[j - 1]
      BY <3>1, InsertAtProperties
    <3>. QED  BY <2>1, <2>3, <3>2
  <2>5. g[n].data = d
    BY <1>10
  <2>6. ASSUME NEW j \in 1..m + 1 PROVE g[t[j]].data = b[j]
    <3>1. CASE j < i
      <4>1. t[j] = s[j] /\ j \in 1..m /\ b[j] = a[j]
        BY <1>4, <1>6, <2>4, <3>1
      <4>. QED  BY <1>3, <2>2, <4>1
    <3>2. CASE j = i
      <4>1. t[j] = n /\ b[j] = d
        BY <1>3, <1>4, <2>4, <3>2
      <4>. QED  BY <2>5, <4>1
    <3>3. CASE ~(j < i) /\ j # i
      <4>1. PICK k \in 1..m : k = j - 1 /\ t[j] = s[k] /\ b[j] = a[k]
        BY <1>4, <1>6, <2>4, <3>3
      <4>. QED  BY <1>3, <2>2, <4>1
    <3>. QED  BY <3>1, <3>2, <3>3
  <2>7. b = [j \in 1..m + 1 |-> b[j]]
    BY <1>3, <2>4, LenProperties
  <2>. QED  BY <1>4, <2>1, <2>3, <2>6, <2>7 DEF DataOf
<1>14. ToSet(t) = ToSet(s) \cup {n}
  <2>1. ASSUME NEW x \in ToSet(t) PROVE x \in ToSet(s) \cup {n}
    <3>1. PICK j \in 1..m + 1 : x = t[j]
      BY <1>4, <2>1 DEF ToSet
    <3>2. t[j] = n \/ \E k \in 1..m : t[j] = s[k]
      BY <1>6
    <3>. QED  BY <1>1, <1>3, <3>1, <3>2 DEF ToSet
  <2>2. n \in ToSet(t)
    <3>1. t[i] = n
      BY <1>3, <1>4
    <3>. QED  BY <1>3, <1>4, <3>1 DEF ToSet
  <2>3. ASSUME NEW x \in ToSet(s) PROVE x \in ToSet(t)
    <3>1. PICK j \in 1..m : x = s[j]
      BY <1>1, <1>3 DEF ToSet
    <3>2. CASE j < i
      <4>1. j \in 1..m + 1 /\ t[j] = s[j]
        BY <1>3, <1>4, <3>2
      <4>. QED  BY <1>4, <3>1, <4>1 DEF ToSet
    <3>3. CASE ~(j < i)
      <4>1. j + 1 \in 1..m + 1 /\ ~(j + 1 < i) /\ j + 1 # i /\ (j + 1) - 1 = j
        BY <1>3, <3>3
      <4>2. t[j + 1] = s[j]
        BY <1>4, <4>1
      <4>. QED  BY <1>4, <3>1, <4>1, <4>2 DEF ToSet
    <3>. QED  BY <3>2, <3>3
  <2>. QED  BY <2>1, <2>2, <2>3
<1>. QED  BY <1>2, <1>12, <1>13, <1>14

\* The node at place i is freed: the node before it points past it.
LEMMA PathRemove ==
  ASSUME NEW h \in Heap, NEW g \in Heap, NEW p, NEW s, Path(h, p, s),
         NEW i \in 1..Len(s), NEW q, q = IF i = 1 THEN h[s[i]].next ELSE p,
         \A j \in 1..Len(s) : j # i =>
           /\ g[s[j]] # Free
           /\ g[s[j]].data = h[s[j]].data
           /\ g[s[j]].next = IF j = i - 1 THEN h[s[i]].next ELSE h[s[j]].next
  PROVE  /\ Path(g, q, RemoveAt(s, i))
         /\ DataOf(g, RemoveAt(s, i)) = RemoveAt(DataOf(h, s), i)
         /\ ToSet(RemoveAt(s, i)) = ToSet(s) \ {s[i]}
<1>1. /\ s \in Seq(Nodes) /\ Len(s) \in Nat /\ DOMAIN s = 1..Len(s)
      /\ \A j \in 1..Len(s) : s[j] \in Nodes /\ s[j] # NULL /\ h[s[j]] \in Cell
  BY PathTyped
<1>2. PICK t : t = RemoveAt(s, i)
  OBVIOUS
<1>3. PICK m \in Nat : m = Len(s) - 1 /\ Len(s) = m + 1 /\ i \in 1..m + 1
  <2>1. /\ Len(s) - 1 \in Nat /\ Len(s) = (Len(s) - 1) + 1
        /\ i \in 1..(Len(s) - 1) + 1
    BY <1>1
  <2>. QED  BY <2>1
<1>4. /\ t \in Seq(Nodes) /\ Len(t) = m /\ DOMAIN t = 1..m
      /\ \A j \in 1..m : t[j] = IF j < i THEN s[j] ELSE s[j + 1]
  <2>1. /\ t \in Seq(Nodes) /\ Len(t) = m
        /\ \A j \in 1..m : t[j] = IF j < i THEN s[j] ELSE s[j + 1]
    <3>1. /\ RemoveAt(s, i) \in Seq(Nodes) /\ Len(RemoveAt(s, i)) = Len(s) - 1
          /\ \A j \in 1..Len(s) - 1 : RemoveAt(s, i)[j] = IF j < i THEN s[j] ELSE s[j + 1]
      BY <1>1, RemoveAtProperties
    <3>. QED  BY <1>2, <1>3, <3>1
  <2>. QED  BY <2>1, LenProperties
<1>5. \A a, b \in 1..m + 1 : s[a] = s[b] => a = b
  BY <1>3 DEF Path
<1>6. \A j \in 1..m : /\ j \in 1..m + 1 /\ j + 1 \in 1..m + 1
                      /\ j < i => j # i
                      /\ ~(j < i) => j + 1 # i /\ j + 1 # i - 1 /\ i # m + 1
  BY <1>3
<1>7. \A j \in 1..m + 1 : h[s[j]].next = IF j = m + 1 THEN NULL ELSE s[j + 1]
  BY <1>3 DEF Path
<1>8. ASSUME NEW a \in 1..m, NEW b \in 1..m, t[a] = t[b] PROVE a = b
  <2>1. PICK x \in 1..m + 1 : t[a] = s[x] /\ x = IF a < i THEN a ELSE a + 1
    BY <1>4, <1>6
  <2>2. PICK y \in 1..m + 1 : t[b] = s[y] /\ y = IF b < i THEN b ELSE b + 1
    BY <1>4, <1>6
  <2>3. x = y
    BY <1>5, <1>8, <2>1, <2>2, ZenonT(30)
  <2>. QED  BY <1>3, <2>1, <2>2, <2>3
<1>9. q = IF m = 0 THEN NULL ELSE t[1]
  <2>1. CASE i = 1
    <3>1. h[s[i]].next = IF m = 0 THEN NULL ELSE s[1 + 1]
      <4>1. i = m + 1 <=> m = 0
        BY <1>3, <2>1
      <4>. QED  BY <1>3, <1>7, <2>1, <4>1
    <3>2. m # 0 => t[1] = s[1 + 1]
      BY <1>3, <1>4, <2>1
    <3>. QED  BY <2>1, <3>1, <3>2
  <2>2. CASE i # 1
    <3>1. m # 0 /\ t[1] = s[1]
      BY <1>3, <1>4, <2>2
    <3>2. p = s[1]
      BY <1>3, <3>1 DEF Path
    <3>. QED  BY <2>2, <3>1, <3>2
  <2>. QED  BY <2>1, <2>2
<1>10. ASSUME NEW j \in 1..m
       PROVE  /\ g[t[j]] # Free
              /\ g[t[j]].next = IF j = m THEN NULL ELSE t[j + 1]
  <2>0. j # m => j + 1 \in 1..m
    BY <1>3
  <2>1. CASE j < i
    <3>1. t[j] = s[j] /\ j \in 1..m + 1 /\ j # i
      BY <1>4, <1>6, <2>1
    <3>2. g[s[j]] # Free /\ g[s[j]].next = IF j = i - 1 THEN h[s[i]].next ELSE h[s[j]].next
      BY <1>3, <3>1
    <3>3. CASE j = i - 1
      <4>1. h[s[i]].next = IF i = m + 1 THEN NULL ELSE s[i + 1]
        BY <1>3, <1>7
      <4>2. i = m + 1 <=> j = m
        BY <1>3, <3>3
      <4>3. j # m => t[j + 1] = s[i + 1]
        <5>1. ~(j + 1 < i) /\ (j + 1) + 1 = i + 1
          BY <1>3, <3>3
        <5>. QED  BY <1>4, <2>0, <5>1
      <4>. QED  BY <3>1, <3>2, <3>3, <4>1, <4>2, <4>3
    <3>4. CASE j # i - 1
      <4>0. i \in Nat /\ i <= m + 1 /\ m \in Nat /\ j \in Nat
        BY <1>3
      <4>1. j + 1 < i /\ j # m + 1 /\ j # m
        <5>1. j + 1 < i
          BY <2>1, <3>4, <4>0
        <5>. QED  BY <4>0, <5>1
      <4>2. t[j + 1] = s[j + 1]
        BY <1>4, <2>0, <4>1
      <4>. QED  BY <1>7, <3>1, <3>2, <3>4, <4>1, <4>2
    <3>. QED  BY <3>3, <3>4
  <2>2. CASE ~(j < i)
    <3>1. PICK k \in 1..m + 1 : k = j + 1 /\ t[j] = s[k] /\ k # i /\ k # i - 1
      BY <1>4, <1>6, <2>2
    <3>2. g[s[k]] # Free /\ g[s[k]].next = h[s[k]].next
      BY <1>3, <3>1
    <3>3. k = m + 1 <=> j = m
      BY <1>3, <3>1
    <3>4. j # m => t[j + 1] = s[k + 1]
      <4>1. ~(j + 1 < i) /\ (j + 1) + 1 = k + 1
        BY <1>3, <2>2, <3>1
      <4>. QED  BY <1>4, <2>0, <4>1
    <3>. QED  BY <1>7, <3>1, <3>2, <3>3, <3>4
  <2>. QED  BY <2>1, <2>2
<1>11. Path(g, q, t)
  BY <1>4, <1>8, <1>9, <1>10 DEF Path
<1>12. DataOf(g, t) = RemoveAt(DataOf(h, s), i)
  <2>1. PICK a : a = DataOf(h, s) /\ a \in Seq(D) /\ Len(a) = m + 1
    BY <1>3, DataTyped
  <2>2. \A j \in 1..m + 1 : a[j] = h[s[j]].data
    BY <1>3, <2>1 DEF DataOf
  <2>3. PICK b : b = RemoveAt(a, i)
    OBVIOUS
  <2>4. /\ b \in Seq(D) /\ Len(b) = m
        /\ \A j \in 1..m : b[j] = IF j < i THEN a[j] ELSE a[j + 1]
    <3>1. i \in 1..Len(a) /\ Len(a) - 1 = m /\ a \in Seq(D)
      BY <1>3, <2>1
    <3>2. /\ RemoveAt(a, i) \in Seq(D) /\ Len(RemoveAt(a, i)) = Len(a) - 1
          /\ \A j \in 1..Len(a) - 1 : RemoveAt(a, i)[j] = IF j < i THEN a[j] ELSE a[j + 1]
      BY <3>1, RemoveAtProperties
    <3>. QED  BY <2>3, <3>1, <3>2
  <2>5. ASSUME NEW j \in 1..m PROVE g[t[j]].data = b[j]
    <3>1. PICK k \in 1..m + 1 : k # i /\ t[j] = s[k] /\ b[j] = a[k]
      BY <1>4, <1>6, <2>4
    <3>. QED  BY <1>3, <2>2, <3>1
  <2>6. b = [j \in 1..m |-> b[j]]
    BY <1>3, <2>4, LenProperties
  <2>. QED  BY <1>4, <2>1, <2>3, <2>5, <2>6 DEF DataOf
<1>13. ToSet(t) = ToSet(s) \ {s[i]}
  <2>1. ASSUME NEW x \in ToSet(t) PROVE x \in ToSet(s) \ {s[i]}
    <3>1. PICK j \in 1..m : x = t[j]
      BY <1>4, <2>1 DEF ToSet
    <3>2. PICK k \in 1..m + 1 : k # i /\ t[j] = s[k]
      BY <1>4, <1>6
    <3>3. s[k] # s[i]
      BY <1>3, <1>5, <3>2
    <3>. QED  BY <1>1, <1>3, <3>1, <3>2, <3>3 DEF ToSet
  <2>2. ASSUME NEW x \in ToSet(s), x # s[i] PROVE x \in ToSet(t)
    <3>1. PICK k \in 1..m + 1 : x = s[k] /\ k # i
      BY <1>1, <1>3, <2>2 DEF ToSet
    <3>2. PICK j \in 1..m : k = IF j < i THEN j ELSE j + 1
      <4>1. CASE k < i
        <5>1. k \in 1..m
          BY <1>3, <4>1
        <5>. QED  BY <4>1, <5>1
      <4>2. CASE ~(k < i)
        <5>1. k - 1 \in 1..m /\ ~(k - 1 < i) /\ (k - 1) + 1 = k
          BY <1>3, <3>1, <4>2
        <5>. QED  BY <5>1
      <4>. QED  BY <4>1, <4>2
    <3>3. t[j] = s[k]
      BY <1>4, <3>2
    <3>. QED  BY <1>4, <3>1, <3>3 DEF ToSet
  <2>. QED  BY <2>1, <2>2
<1>. QED  BY <1>2, <1>11, <1>12, <1>13

-----------------------------------------------------------------------------
(* All lists together.                                                     *)

\* The path of the list l has the nodes c[l].  No node is on two lists or both
\* on a list and leaked, each allocated node is somewhere, and the leaked ones
\* lead to leaked ones, no two to the same.
Shape(h, lst, lk, c) ==
  /\ c \in [Lists -> Seq(Nodes)]
  /\ \A l \in Lists : Path(h, lst[l], c[l])
  /\ \A l, k \in Lists : \A n \in ToSet(c[l]) : n \in ToSet(c[k]) => l = k
  /\ \A l \in Lists : \A n \in ToSet(c[l]) : n \notin lk
  /\ \A n \in Nodes : h[n] # Free <=> n \in lk \/ \E l \in Lists : n \in ToSet(c[l])
  /\ \A n \in lk : h[n].next \in lk \cup {NULL}
  /\ \A n, m \in lk : h[n].next = h[m].next /\ h[n].next # NULL => n = m

\* The walk has the path s before it, on its list or leaked with it, and what it
\* has seen and will see is what it was given.
WalkOn(h, lk, w, c, s) ==
  w # Idle =>
    /\ Path(h, w.at, s)
    /\ \A n \in ToSet(s) : n \in ToSet(c[w.list]) \/ n \in lk
    /\ w.given = w.seen \o DataOf(h, s)

Holds(h, lst, lk, w, c, s) == Shape(h, lst, lk, c) /\ WalkOn(h, lk, w, c, s)

Contents(h, c) == [l \in Lists |-> DataOf(h, c[l])]

\* What ListSeq lets a call do to the contents a, and that it does nothing.
Moves(a, b) ==
  \/ b = a
  \/ \E l \in Lists :
       \/ \E i \in 1..Len(a[l]) + 1, d \in D : b = Put(a, l, InsertAt(a[l], i, d))
       \/ \E i \in 1..Len(a[l]) : b = Put(a, l, RemoveAt(a[l], i))
       \/ b = Put(a, l, << >>)

LEMMA PathNodes ==
  ASSUME NEW h, NEW p, NEW s, Path(h, p, s)
  PROVE  /\ Len(s) \in Nat
         /\ \A n : n \in ToSet(s) <=> \E i \in 1..Len(s) : s[i] = n
         /\ \A n \in ToSet(s) : n \in Nodes /\ h[n] # Free
<1>1. s \in Seq(Nodes) /\ Len(s) \in Nat /\ DOMAIN s = 1..Len(s)
  BY LenProperties DEF Path
<1>2. \A i \in 1..Len(s) : s[i] \in Nodes
  BY <1>1, ElementOfSeq
<1>3. \A n : n \in ToSet(s) <=> \E i \in 1..Len(s) : s[i] = n
  BY <1>1 DEF ToSet
<1>4. ASSUME NEW n \in ToSet(s) PROVE n \in Nodes /\ h[n] # Free
  <2>1. PICK i \in 1..Len(s) : s[i] = n
    BY <1>3
  <2>. QED  BY <1>2, <2>1 DEF Path
<1>. QED  BY <1>1, <1>3, <1>4

\* The heap h has become g where the nodes of a became those of t.
Replaces(h, g, a, t) ==
  /\ \A n \in Nodes : n \notin ToSet(a) /\ n \notin ToSet(t) => g[n] = h[n]
  /\ \A n \in ToSet(t) : n \notin ToSet(a) => h[n] = Free
  /\ \A n \in ToSet(a) : n \notin ToSet(t) => g[n] = Free

\* A walk of the list l finds its nodes a as they were.
NotDisturbed(w, l, h, g, a) ==
  w # Idle => /\ w.list \in Lists
              /\ w.list # l \/ \A n \in ToSet(a) : g[n] = h[n]

\* A call that changes the nodes of one list, those it takes and those it frees,
\* leaves the others and the walk alone.
LEMMA OneListChanges ==
  ASSUME NEW h \in Heap, NEW g \in Heap, NEW lst \in Firsts,
         NEW lk \in NodeSets, NEW w, NEW c, NEW s, Holds(h, lst, lk, w, c, s),
         NEW l \in Lists, NEW q, NEW t, Path(g, q, t),
         Replaces(h, g, c[l], t), NotDisturbed(w, l, h, g, c[l])
  PROVE  /\ Holds(g, Put(lst, l, q), lk, w, Put(c, l, t), s)
         /\ Contents(g, Put(c, l, t)) = Put(Contents(h, c), l, DataOf(g, t))
<1>1. PICK b : b = Put(c, l, t)
  OBVIOUS
<1>2. PICK r : r = Put(lst, l, q)
  OBVIOUS
<1>3. /\ b \in [Lists -> Seq(Nodes)] /\ b[l] = t
      /\ \A k \in Lists : k # l => b[k] = c[k]
  BY <1>1 DEF Holds, Shape, Path, Put
<1>4. r[l] = q /\ \A k \in Lists : k # l => r[k] = lst[k]
  BY <1>2 DEF Put, Firsts
<1>5. \A k \in Lists : Path(h, lst[k], c[k])
  BY DEF Holds, Shape
<1>6. \A k \in Lists : \A n \in ToSet(c[k]) : n \in Nodes /\ h[n] # Free
  BY <1>5, PathNodes
<1>7. \A n \in ToSet(t) : n \in Nodes /\ g[n] # Free
  BY PathNodes
<1>8. ASSUME NEW k \in Lists, k # l, NEW n \in ToSet(c[k])
      PROVE  n \notin ToSet(c[l]) /\ n \notin ToSet(t) /\ g[n] = h[n]
  <2>1. n \notin ToSet(c[l])
    BY <1>8 DEF Holds, Shape
  <2>2. n \notin ToSet(t)
    BY <1>6, <2>1 DEF Replaces
  <2>. QED  BY <1>6, <2>1, <2>2 DEF Replaces
<1>9. ASSUME NEW n \in lk
      PROVE  n \notin ToSet(t) /\ g[n] = h[n]
  <2>1. n \notin ToSet(c[l]) /\ h[n] # Free /\ n \in Nodes
    BY DEF Holds, Shape, NodeSets
  <2>. QED  BY <2>1 DEF Replaces
<1>10. ASSUME NEW k \in Lists PROVE Path(g, r[k], b[k])
  <2>1. CASE k = l
    BY <1>3, <1>4, <2>1
  <2>2. CASE k # l
    <3>1. \A i \in 1..Len(c[k]) : c[k][i] \in ToSet(c[k])
      BY <1>5, PathNodes
    <3>2. \A i \in 1..Len(c[k]) : g[c[k][i]] = h[c[k][i]]
      BY <1>8, <2>2, <3>1
    <3>3. Path(g, lst[k], c[k])
      BY <1>5, <3>2, PathStays
    <3>. QED  BY <1>3, <1>4, <2>2, <3>3
  <2>. QED  BY <2>1, <2>2
<1>11. ASSUME NEW k \in Lists, NEW j \in Lists, NEW n \in ToSet(b[k]), n \in ToSet(b[j])
       PROVE  k = j
  <2>1. CASE k = l /\ j # l
    BY <1>3, <1>8, <1>11, <2>1
  <2>2. CASE k # l /\ j = l
    BY <1>3, <1>8, <1>11, <2>2
  <2>3. CASE k # l /\ j # l
    BY <1>3, <1>11, <2>3 DEF Holds, Shape
  <2>. QED  BY <2>1, <2>2, <2>3
<1>12. ASSUME NEW k \in Lists, NEW n \in ToSet(b[k]) PROVE n \notin lk
  <2>1. CASE k = l
    BY <1>3, <1>9, <2>1
  <2>2. CASE k # l
    BY <1>3, <2>2 DEF Holds, Shape
  <2>. QED  BY <2>1, <2>2
<1>13. ASSUME NEW n \in Nodes
       PROVE  g[n] # Free <=> n \in lk \/ \E k \in Lists : n \in ToSet(b[k])
  <2>1. h[n] # Free <=> n \in lk \/ \E k \in Lists : n \in ToSet(c[k])
    BY DEF Holds, Shape
  <2>2. CASE n \in ToSet(t)
    BY <1>3, <1>7, <2>2
  <2>3. CASE n \notin ToSet(t) /\ n \in ToSet(c[l])
    <3>1. g[n] = Free
      BY <2>3 DEF Replaces
    <3>2. n \notin lk
      BY <2>3 DEF Holds, Shape
    <3>3. \A k \in Lists : n \notin ToSet(b[k])
      BY <1>3, <1>8, <2>3
    <3>. QED  BY <3>1, <3>2, <3>3
  <2>4. CASE n \notin ToSet(t) /\ n \notin ToSet(c[l])
    <3>1. g[n] = h[n]
      BY <2>4 DEF Replaces
    <3>2. \A k \in Lists : n \in ToSet(b[k]) <=> n \in ToSet(c[k])
      BY <1>3, <2>4
    <3>. QED  BY <2>1, <3>1, <3>2
  <2>. QED  BY <2>2, <2>3, <2>4
<1>14. /\ \A n \in lk : g[n].next \in lk \cup {NULL}
       /\ \A n, m \in lk : g[n].next = g[m].next /\ g[n].next # NULL => n = m
  <2>1. /\ \A n \in lk : h[n].next \in lk \cup {NULL}
        /\ \A n, m \in lk : h[n].next = h[m].next /\ h[n].next # NULL => n = m
    BY DEF Holds, Shape
  <2>2. \A n \in lk : g[n] = h[n]
    BY <1>9
  <2>3. \A n \in lk : g[n].next \in lk \cup {NULL}
    BY <2>1, <2>2
  <2>4. ASSUME NEW n \in lk, NEW m \in lk, g[n].next = g[m].next, g[n].next # NULL
        PROVE  n = m
    BY <2>1, <2>2, <2>4
  <2>. QED  BY <2>3, <2>4
<1>15. Shape(g, r, lk, b)
  BY <1>3, <1>10, <1>11, <1>12, <1>13, <1>14 DEF Shape
<1>16. WalkOn(g, lk, w, b, s)
  <2>. SUFFICES ASSUME w # Idle
                PROVE  /\ Path(g, w.at, s)
                       /\ \A n \in ToSet(s) : n \in ToSet(b[w.list]) \/ n \in lk
                       /\ w.given = w.seen \o DataOf(g, s)
    BY DEF WalkOn
  <2>1. /\ Path(h, w.at, s)
        /\ \A n \in ToSet(s) : n \in ToSet(c[w.list]) \/ n \in lk
        /\ w.given = w.seen \o DataOf(h, s)
        /\ w.list \in Lists
    BY DEF Holds, WalkOn, NotDisturbed
  <2>2. ASSUME NEW n \in ToSet(c[w.list]) PROVE g[n] = h[n] /\ n \in ToSet(b[w.list])
    <3>1. CASE w.list = l
      <4>1. g[n] = h[n]
        BY <2>2, <3>1 DEF NotDisturbed
      <4>2. h[n] # Free
        BY <1>6, <2>1, <2>2
      <4>3. n \in ToSet(t)
        BY <2>2, <3>1, <4>1, <4>2 DEF Replaces
      <4>. QED  BY <1>3, <3>1, <4>1, <4>3
    <3>2. CASE w.list # l
      BY <1>3, <1>8, <2>1, <2>2, <3>2
    <3>. QED  BY <3>1, <3>2
  <2>3. \A n \in ToSet(s) : g[n] = h[n]
    BY <1>9, <2>1, <2>2
  <2>4. \A i \in 1..Len(s) : g[s[i]] = h[s[i]]
    BY <2>1, <2>3, PathNodes
  <2>5. Path(g, w.at, s) /\ DataOf(g, s) = DataOf(h, s)
    BY <2>1, <2>4, PathStays
  <2>. QED  BY <2>1, <2>2, <2>5
<1>17. ASSUME NEW k \in Lists, k # l PROVE DataOf(g, b[k]) = DataOf(h, c[k])
  <2>1. \A i \in 1..Len(c[k]) : c[k][i] \in ToSet(c[k])
    BY <1>5, PathNodes
  <2>2. \A i \in 1..Len(c[k]) : g[c[k][i]] = h[c[k][i]]
    BY <1>8, <1>17, <2>1
  <2>3. Path(g, lst[k], c[k]) /\ DataOf(g, c[k]) = DataOf(h, c[k])
    BY <1>5, <2>2, PathStays
  <2>. QED  BY <1>3, <1>17, <2>3
<1>18. Contents(g, b) = Put(Contents(h, c), l, DataOf(g, t))
  BY <1>3, <1>17 DEF Contents, Put
<1>. QED  BY <1>1, <1>2, <1>15, <1>16, <1>18 DEF Holds

LEMMA InsertKeeps ==
  ASSUME NEW h \in Heap, NEW g \in Heap, NEW lst \in Firsts,
         NEW lk \in NodeSets, NEW w, NEW c, NEW s, Holds(h, lst, lk, w, c, s),
         NEW l \in Lists, NEW i \in 1..Len(c[l]) + 1,
         NEW n \in Nodes, h[n] = Free, NEW d \in D,
         NEW r, r = IF i = Len(c[l]) + 1 THEN NULL ELSE c[l][i], g[n] = NewCell(d, r),
         NEW q, q = IF i = 1 THEN n ELSE lst[l],
         i # 1 => g[c[l][i - 1]] = Relinked(h[c[l][i - 1]], n),
         \A m \in Nodes : m # n /\ (i # 1 => m # c[l][i - 1]) => g[m] = h[m],
         w # Idle => w.list \in Lists /\ (w.list # l \/ i = 1)
  PROVE  \E b : /\ Holds(g, Put(lst, l, q), lk, w, b, s)
                /\ Moves(Contents(h, c), Contents(g, b))
<1>1. PICK a : a = c[l] /\ Path(h, lst[l], a)
  BY DEF Holds, Shape
<1>2. /\ Len(a) \in Nat
      /\ \A j \in 1..Len(a) : a[j] \in Nodes /\ a[j] # NULL /\ h[a[j]] \in Cell
  BY <1>1, PathTyped
<1>3. \A j, k \in 1..Len(a) : a[j] = a[k] => j = k
  BY <1>1 DEF Path
<1>4. \A j \in 1..Len(a) : a[j] # n /\ h[a[j]] # Free
  BY <1>1 DEF Path
<1>5. PICK m \in Nat : m = Len(a) /\ i \in 1..m + 1
  BY <1>1, <1>2
<1>6. i # 1 => i - 1 \in 1..m
  BY <1>5
<1>7. ASSUME NEW j \in 1..m
      PROVE  /\ g[a[j]] # Free
             /\ g[a[j]].data = h[a[j]].data
             /\ g[a[j]].next = IF j = i - 1 THEN n ELSE h[a[j]].next
  <2>1. h[a[j]] \in Cell /\ a[j] \in Nodes /\ a[j] # n /\ h[a[j]] # Free
    BY <1>2, <1>4, <1>5
  <2>2. CASE j = i - 1
    <3>1. i # 1
      BY <1>5, <2>2
    <3>2. g[a[j]] = [h[a[j]] EXCEPT !.next = n]
      BY <1>1, <2>2, <3>1 DEF Relinked
    <3>3. g[a[j]] \in Cell
      BY <2>1, <3>2 DEF Cell
    <3>. QED  BY <2>1, <2>2, <3>2, <3>3, LinkedListAssumption DEF Cell
  <2>3. CASE j # i - 1
    <3>1. i # 1 => a[j] # a[i - 1]
      BY <1>3, <1>5, <1>6, <2>3
    <3>2. g[a[j]] = h[a[j]]
      BY <1>1, <2>1, <3>1
    <3>. QED  BY <2>1, <2>3, <3>2
  <2>. QED  BY <2>2, <2>3
<1>8. PICK t : t = InsertAt(a, i, n)
  OBVIOUS
<1>10. /\ Path(g, q, t)
       /\ DataOf(g, t) = InsertAt(DataOf(h, a), i, d)
       /\ ToSet(t) = ToSet(a) \cup {n}
  <2>1. r = IF i = Len(a) + 1 THEN NULL ELSE a[i]
    BY <1>1
  <2>2. i \in 1..Len(a) + 1
    BY <1>5
  <2>3. \A j \in 1..Len(a) : /\ g[a[j]] # Free
                             /\ g[a[j]].data = h[a[j]].data
                             /\ g[a[j]].next = IF j = i - 1 THEN n ELSE h[a[j]].next
    BY <1>5, <1>7
  <2>4. /\ Path(g, q, InsertAt(a, i, n))
        /\ DataOf(g, InsertAt(a, i, n)) = InsertAt(DataOf(h, a), i, d)
        /\ ToSet(InsertAt(a, i, n)) = ToSet(a) \cup {n}
    BY <1>1, <2>1, <2>2, <2>3, PathInsert, SMTT(30)
  <2>. QED  BY <1>8, <2>4
<1>11. ASSUME NEW x \in Nodes, x \notin ToSet(a), x # n PROVE g[x] = h[x]
  <2>1. i # 1 => a[i - 1] \in ToSet(a)
    BY <1>1, <1>5, <1>6, PathNodes
  <2>. QED  BY <1>1, <1>11, <2>1
<1>12. NotDisturbed(w, l, h, g, c[l])
  <2>1. ASSUME i = 1, NEW x \in ToSet(a) PROVE g[x] = h[x]
    <3>1. x \in Nodes /\ h[x] # Free
      BY <1>1, PathNodes
    <3>. QED  BY <2>1, <3>1
  <2>. QED  BY <1>1, <2>1 DEF NotDisturbed
<1>13. Replaces(h, g, c[l], t)
  BY <1>1, <1>10, <1>11 DEF Replaces
<1>14. PICK b : b = Put(c, l, t)
  OBVIOUS
<1>15. /\ Holds(g, Put(lst, l, q), lk, w, b, s)
       /\ Contents(g, b) = Put(Contents(h, c), l, DataOf(g, t))
  <2>1. Path(g, q, t)
    BY <1>10
  <2>2. /\ Holds(g, Put(lst, l, q), lk, w, Put(c, l, t), s)
        /\ Contents(g, Put(c, l, t)) = Put(Contents(h, c), l, DataOf(g, t))
    BY <1>12, <1>13, <2>1, OneListChanges
  <2>. QED  BY <1>14, <2>2
<1>16. Contents(h, c)[l] = DataOf(h, a)
  BY <1>1 DEF Contents
<1>17. PICK e : e = Contents(h, c) /\ e[l] = DataOf(h, a)
  BY <1>16
<1>18. i \in 1..Len(e[l]) + 1
  <2>1. Len(DataOf(h, a)) = m
    BY <1>1, <1>5, DataTyped
  <2>. QED  BY <1>5, <1>17, <2>1
<1>19. Contents(g, b) = Put(e, l, InsertAt(e[l], i, d))
  BY <1>10, <1>15, <1>17
<1>20. Moves(e, Contents(g, b))
  BY <1>18, <1>19 DEF Moves
<1>. QED  BY <1>15, <1>17, <1>20

LEMMA RemoveKeeps ==
  ASSUME NEW h \in Heap, NEW g \in Heap, NEW lst \in Firsts,
         NEW lk \in NodeSets, NEW w, NEW c, NEW s, Holds(h, lst, lk, w, c, s),
         NEW l \in Lists, NEW i \in 1..Len(c[l]),
         NEW q, q = IF i = 1 THEN h[c[l][i]].next ELSE lst[l],
         g[c[l][i]] = Free,
         i # 1 => g[c[l][i - 1]] = Relinked(h[c[l][i - 1]], h[c[l][i]].next),
         \A m \in Nodes : m # c[l][i] /\ (i # 1 => m # c[l][i - 1]) => g[m] = h[m],
         w # Idle => w.list \in Lists /\ w.list # l
  PROVE  \E b : /\ Holds(g, Put(lst, l, q), lk, w, b, s)
                /\ Moves(Contents(h, c), Contents(g, b))
<1>1. PICK a : a = c[l] /\ Path(h, lst[l], a)
  BY DEF Holds, Shape
<1>2. /\ Len(a) \in Nat
      /\ \A j \in 1..Len(a) : a[j] \in Nodes /\ a[j] # NULL /\ h[a[j]] \in Cell
  BY <1>1, PathTyped
<1>3. \A j, k \in 1..Len(a) : a[j] = a[k] => j = k
  BY <1>1 DEF Path
<1>4. \A j \in 1..Len(a) : h[a[j]] # Free
  BY <1>1 DEF Path
<1>5. PICK m \in Nat : m = Len(a) /\ i \in 1..m
  BY <1>1, <1>2
<1>6. i # 1 => i - 1 \in 1..m
  BY <1>5
<1>7. ASSUME NEW j \in 1..m, j # i
      PROVE  /\ g[a[j]] # Free
             /\ g[a[j]].data = h[a[j]].data
             /\ g[a[j]].next = IF j = i - 1 THEN h[a[i]].next ELSE h[a[j]].next
  <2>1. h[a[j]] \in Cell /\ a[j] \in Nodes /\ h[a[j]] # Free /\ a[j] # a[i]
    BY <1>2, <1>3, <1>4, <1>5, <1>7
  <2>2. CASE j = i - 1
    <3>1. i # 1
      BY <1>5, <2>2
    <3>2. g[a[j]] = [h[a[j]] EXCEPT !.next = h[a[i]].next]
      BY <1>1, <2>2, <3>1 DEF Relinked
    <3>3. h[a[i]] \in Cell
      BY <1>2, <1>5
    <3>4. g[a[j]] \in Cell
      BY <2>1, <3>2, <3>3 DEF Cell
    <3>. QED  BY <2>1, <2>2, <3>2, <3>4, LinkedListAssumption DEF Cell
  <2>3. CASE j # i - 1
    <3>1. i # 1 => a[j] # a[i - 1]
      BY <1>3, <1>5, <1>6, <2>3
    <3>2. g[a[j]] = h[a[j]]
      BY <1>1, <2>1, <3>1
    <3>. QED  BY <2>1, <2>3, <3>2
  <2>. QED  BY <2>2, <2>3
<1>8. PICK t : t = RemoveAt(a, i)
  OBVIOUS
<1>9. q = IF i = 1 THEN h[a[i]].next ELSE lst[l]
  BY <1>1
<1>10. /\ Path(g, q, t)
       /\ DataOf(g, t) = RemoveAt(DataOf(h, a), i)
       /\ ToSet(t) = ToSet(a) \ {a[i]}
  <2>1. i \in 1..Len(a)
    BY <1>5
  <2>2. \A j \in 1..Len(a) : j # i =>
          /\ g[a[j]] # Free
          /\ g[a[j]].data = h[a[j]].data
          /\ g[a[j]].next = IF j = i - 1 THEN h[a[i]].next ELSE h[a[j]].next
    BY <1>5, <1>7
  <2>. QED  BY <1>1, <1>8, <1>9, <2>1, <2>2, PathRemove, SMTT(30)
<1>11. a[i] \in ToSet(a) /\ (i # 1 => a[i - 1] \in ToSet(a))
  BY <1>1, <1>5, <1>6, PathNodes
<1>12. Replaces(h, g, c[l], t)
  BY <1>1, <1>10, <1>11 DEF Replaces
<1>13. PICK b : b = Put(c, l, t)
  OBVIOUS
<1>14. /\ Holds(g, Put(lst, l, q), lk, w, b, s)
       /\ Contents(g, b) = Put(Contents(h, c), l, DataOf(g, t))
  <2>1. Path(g, q, t)
    BY <1>10
  <2>2. NotDisturbed(w, l, h, g, c[l])
    BY DEF NotDisturbed
  <2>3. /\ Holds(g, Put(lst, l, q), lk, w, Put(c, l, t), s)
        /\ Contents(g, Put(c, l, t)) = Put(Contents(h, c), l, DataOf(g, t))
    BY <1>12, <2>1, <2>2, OneListChanges
  <2>. QED  BY <1>13, <2>3
<1>15. Contents(h, c)[l] = DataOf(h, a)
  BY <1>1 DEF Contents
<1>16. PICK e : e = Contents(h, c) /\ e[l] = DataOf(h, a)
  BY <1>15
<1>17. i \in 1..Len(e[l])
  <2>1. Len(DataOf(h, a)) = m
    BY <1>1, <1>5, DataTyped
  <2>. QED  BY <1>5, <1>16, <2>1
<1>18. Contents(g, b) = Put(e, l, RemoveAt(e[l], i))
  BY <1>10, <1>14, <1>16
<1>19. Moves(e, Contents(g, b))
  BY <1>17, <1>18 DEF Moves
<1>. QED  BY <1>14, <1>16, <1>19

\* A caller that loses its list leaks the nodes, which keep their links.
LEMMA LoseKeeps ==
  ASSUME NEW h \in Heap, NEW lst \in Firsts,
         NEW lk \in NodeSets, NEW w, NEW c, NEW s, Holds(h, lst, lk, w, c, s),
         NEW l \in Lists, w # Idle => w.list \in Lists
  PROVE  \E b : /\ Holds(h, Put(lst, l, NULL), lk \cup ToSet(c[l]), w, b, s)
                /\ Moves(Contents(h, c), Contents(h, b))
<1>1. PICK a : a = c[l] /\ Path(h, lst[l], a)
  BY DEF Holds, Shape
<1>2. PICK b : b = Put(c, l, << >>)
  OBVIOUS
<1>3. PICK r : r = Put(lst, l, NULL)
  OBVIOUS
<1>4. PICK z : z = lk \cup ToSet(a)
  OBVIOUS
<1>5. << >> \in Seq(Nodes) /\ Len(<< >>) = 0 /\ ToSet(<< >>) = {}
  BY EmptySeq DEF ToSet
<1>6. /\ b \in [Lists -> Seq(Nodes)] /\ b[l] = << >> /\ r[l] = NULL
      /\ \A k \in Lists : k # l => b[k] = c[k] /\ r[k] = lst[k]
  BY <1>2, <1>3, <1>5 DEF Holds, Shape, Put, Firsts
<1>7. \A k \in Lists : Path(h, lst[k], c[k])
  BY DEF Holds, Shape
<1>8. Path(h, NULL, << >>)
  BY <1>5 DEF Path
<1>9. ASSUME NEW k \in Lists PROVE Path(h, r[k], b[k])
  BY <1>6, <1>7, <1>8
<1>10. \A k \in Lists : \A n \in ToSet(b[k]) : k # l /\ n \in ToSet(c[k])
  BY <1>5, <1>6
<1>11. \A k, j \in Lists : \A n \in ToSet(b[k]) : n \in ToSet(b[j]) => k = j
  BY <1>10 DEF Holds, Shape
<1>12. ASSUME NEW k \in Lists, NEW n \in ToSet(b[k]) PROVE n \notin z
  <2>1. k # l /\ n \in ToSet(c[k])
    BY <1>10
  <2>2. n \notin lk /\ n \notin ToSet(c[l])
    BY <2>1 DEF Holds, Shape
  <2>. QED  BY <1>1, <1>4, <2>2
<1>13. ASSUME NEW n \in Nodes
       PROVE  h[n] # Free <=> n \in z \/ \E k \in Lists : n \in ToSet(b[k])
  <2>1. h[n] # Free <=> n \in lk \/ \E k \in Lists : n \in ToSet(c[k])
    BY DEF Holds, Shape
  <2>2. n \in z \/ (\E k \in Lists : n \in ToSet(b[k]))
        <=> n \in lk \/ \E k \in Lists : n \in ToSet(c[k])
    BY <1>1, <1>4, <1>6, <1>10
  <2>. QED  BY <2>1, <2>2
<1>14. /\ \A n \in lk : h[n].next \in lk \cup {NULL}
       /\ \A n, m \in lk : h[n].next = h[m].next /\ h[n].next # NULL => n = m
       /\ \A n \in ToSet(a) : n \notin lk
  BY <1>1 DEF Holds, Shape
<1>15. ASSUME NEW n \in ToSet(a)
       PROVE  \E i \in 1..Len(a) :
                /\ a[i] = n
                /\ h[n].next = IF i = Len(a) THEN NULL ELSE a[i + 1]
  <2>1. PICK i \in 1..Len(a) : a[i] = n
    BY <1>1, PathNodes
  <2>. QED  BY <1>1, <2>1 DEF Path
<1>16. \A n \in ToSet(a) : h[n].next \in ToSet(a) \cup {NULL}
  <2>1. ASSUME NEW n \in ToSet(a) PROVE h[n].next \in ToSet(a) \cup {NULL}
    <3>1. PICK i \in 1..Len(a) : /\ a[i] = n
                                 /\ h[n].next = IF i = Len(a) THEN NULL ELSE a[i + 1]
      BY <1>15
    <3>2. Len(a) \in Nat
      BY <1>1, PathNodes
    <3>3. i # Len(a) => i + 1 \in 1..Len(a)
      BY <3>2
    <3>4. i # Len(a) => a[i + 1] \in ToSet(a)
      BY <1>1, <3>3, PathNodes
    <3>. QED  BY <3>1, <3>4
  <2>. QED  BY <2>1
<1>17. ASSUME NEW n \in ToSet(a), NEW m \in ToSet(a), h[n].next = h[m].next, h[n].next # NULL
       PROVE  n = m
  <2>1. PICK i \in 1..Len(a) : /\ a[i] = n
                               /\ h[n].next = IF i = Len(a) THEN NULL ELSE a[i + 1]
    BY <1>15
  <2>2. PICK j \in 1..Len(a) : /\ a[j] = m
                               /\ h[m].next = IF j = Len(a) THEN NULL ELSE a[j + 1]
    BY <1>15
  <2>3. Len(a) \in Nat
    BY <1>1, PathNodes
  <2>4. i # Len(a) /\ j # Len(a) /\ a[i + 1] = a[j + 1]
    BY <1>17, <2>1, <2>2
  <2>5. i + 1 \in 1..Len(a) /\ j + 1 \in 1..Len(a)
    BY <2>3, <2>4
  <2>6. i + 1 = j + 1
    BY <1>1, <2>4, <2>5 DEF Path
  <2>. QED  BY <2>1, <2>2, <2>6
<1>18. NULL \notin ToSet(a) /\ NULL \notin lk
  BY <1>1, PathNodes, LinkedListAssumption DEF NodeSets
<1>19. /\ \A n \in z : h[n].next \in z \cup {NULL}
       /\ \A n, m \in z : h[n].next = h[m].next /\ h[n].next # NULL => n = m
  BY <1>4, <1>14, <1>16, <1>17, <1>18
<1>20. Shape(h, r, z, b)
  BY <1>6, <1>9, <1>11, <1>12, <1>13, <1>19 DEF Shape
<1>21. WalkOn(h, z, w, b, s)
  <2>. SUFFICES ASSUME w # Idle
                PROVE  /\ Path(h, w.at, s)
                       /\ \A n \in ToSet(s) : n \in ToSet(b[w.list]) \/ n \in z
                       /\ w.given = w.seen \o DataOf(h, s)
    BY DEF WalkOn
  <2>1. /\ Path(h, w.at, s)
        /\ \A n \in ToSet(s) : n \in ToSet(c[w.list]) \/ n \in lk
        /\ w.given = w.seen \o DataOf(h, s)
        /\ w.list \in Lists
    BY DEF Holds, WalkOn
  <2>2. \A n \in ToSet(c[w.list]) : n \in ToSet(b[w.list]) \/ n \in ToSet(a)
    BY <1>1, <1>6, <2>1
  <2>. QED  BY <1>4, <2>1, <2>2
<1>22. Contents(h, b) = Put(Contents(h, c), l, << >>)
  <2>1. DataOf(h, << >>) = << >>
    BY <1>5 DEF DataOf
  <2>2. \A k \in Lists : DataOf(h, b[k]) = IF k = l THEN << >> ELSE DataOf(h, c[k])
    BY <1>6, <2>1
  <2>. QED  BY <2>2 DEF Contents, Put
<1>23. Moves(Contents(h, c), Contents(h, b))
  BY <1>22 DEF Moves
<1>. QED  BY <1>1, <1>3, <1>4, <1>20, <1>21, <1>23 DEF Holds

-----------------------------------------------------------------------------
(* What the loops return.                                                  *)

LEMMA FindReturns ==
  ASSUME NEW p, NEW s, heap \in Heap, Path(heap, p, s), NEW accepted
  PROVE  /\ list_find(p, accepted) = NULL =>
              \A i \in 1..Len(s) : s[i] \notin accepted
         /\ list_find(p, accepted) # NULL =>
              \E i \in 1..Len(s) : list_find(p, accepted) = s[i] /\ s[i] \in accepted
<1>1. /\ Len(s) \in Nat /\ DOMAIN s = 1..Len(s)
      /\ \A i \in 1..Len(s) : s[i] # NULL
  BY PathTyped
<1>2. Chain(p) = s
  BY PathIsChain, ChainOfHeap
<1>3. PICK hits : hits = {k \in 1..Len(s) : s[k] \in accepted}
  OBVIOUS
<1>4. list_find(p, accepted) = IF hits = {} THEN NULL ELSE s[Min(hits)]
  BY <1>1, <1>2, <1>3 DEF list_find
<1>5. hits # {} => Min(hits) \in hits
  <2>1. hits \in SUBSET Nat
    BY <1>1, <1>3
  <2>2. hits # {} => \E n \in hits : \A m \in hits : n <= m
    BY <2>1, LeastNat
  <2>. QED  BY <2>2 DEF Min
<1>. QED  BY <1>1, <1>3, <1>4, <1>5

-----------------------------------------------------------------------------
(* The invariant.                                                          *)

Walks == [list : Lists \cup {NULL}, at : Nodes \cup {NULL}, seen : Seq(D), given : Seq(D)]

TypeInv ==
  /\ heap \in Heap
  /\ list \in Firsts
  /\ busy \in SUBSET Lists
  /\ leaked \in NodeSets
  /\ walker \in Walks
  /\ walker # Idle => walker.list \in Lists \ busy

\* The lists have paths of their own, and so has the walk.
Inv == TypeInv /\ \E c, s : Holds(heap, list, leaked, walker, c, s)

\* A step from the paths c keeps the invariant and does what ListSeq allows.
StepKeeps(c) ==
  /\ TypeInv'
  /\ \E b, r : /\ Holds(heap', list', leaked', walker', b, r)
               /\ Moves(Contents(heap, c), Contents(heap', b))

LEMMA PutSame == ASSUME NEW f, NEW l \in DOMAIN f, f = [x \in DOMAIN f |-> f[x]]
                 PROVE  Put(f, l, f[l]) = f
BY DEF Put

LEMMA ChainOf ==
  ASSUME TypeInv, NEW c, NEW s, Holds(heap, list, leaked, walker, c, s),
         NEW l \in Lists
  PROVE  /\ Path(heap, list[l], c[l])
         /\ Len(c[l]) \in Nat
         /\ \A i \in 1..Len(c[l]) : c[l][i] \in Nodes /\ heap[c[l][i]] \in Cell
         /\ Chain(list[l]) = c[l]
         /\ list[l] = IF Len(c[l]) = 0 THEN NULL ELSE c[l][1]
<1>1. Path(heap, list[l], c[l]) /\ heap \in Heap
  BY DEF Holds, Shape, TypeInv
<1>2. Chain(list[l]) = c[l]
  BY <1>1, PathIsChain, ChainOfHeap
<1>. QED  BY <1>1, <1>2, PathTyped DEF Path

LEMMA InsertBeginningKeeps ==
  ASSUME TypeInv, NEW c, NEW s, Holds(heap, list, leaked, walker, c, s),
         NEW l \in Lists, NEW n \in Nodes, NEW d \in D, InsertBeginning(l, n, d)
  PROVE  StepKeeps(c)
<1>1. /\ Path(heap, list[l], c[l]) /\ Len(c[l]) \in Nat
      /\ list[l] = IF Len(c[l]) = 0 THEN NULL ELSE c[l][1]
      /\ list[l] \in Nodes \cup {NULL}
  BY ChainOf DEF TypeInv, Firsts
<1>2. /\ heap' \in Heap /\ heap'[n] = NewCell(d, list[l])
      /\ \A m \in Nodes : m # n => heap'[m] = heap[m]
  BY <1>1 DEF InsertBeginning, Allocated, TypeInv, Heap, Cell, NewCell, D
<1>3. list' = Put(list, l, n) /\ list' \in Firsts
  BY DEF InsertBeginning, Put, TypeInv, Firsts
<1>4. PICK i : i = 1 /\ i \in 1..Len(c[l]) + 1
  BY <1>1
<1>5. list[l] = IF i = Len(c[l]) + 1 THEN NULL ELSE c[l][i]
  BY <1>1, <1>4
<1>6. walker # Idle => walker.list \in Lists /\ (walker.list # l \/ i = 1)
  BY <1>4 DEF TypeInv
<1>7. /\ heap[n] = Free
      /\ n = IF i = 1 THEN n ELSE list[l]
      /\ i # 1 => heap'[c[l][i - 1]] = Relinked(heap[c[l][i - 1]], n)
      /\ \A m \in Nodes : m # n /\ (i # 1 => m # c[l][i - 1]) => heap'[m] = heap[m]
  BY <1>2, <1>4 DEF InsertBeginning
<1>8. heap \in Heap /\ list \in Firsts /\ leaked \in NodeSets
  BY DEF TypeInv
<1>9. \E b : /\ Holds(heap', Put(list, l, n), leaked, walker, b, s)
             /\ Moves(Contents(heap, c), Contents(heap', b))
  BY <1>2, <1>4, <1>5, <1>6, <1>7, <1>8, InsertKeeps
<1>10. TypeInv'
  BY <1>2, <1>3 DEF InsertBeginning, TypeInv
<1>. QED  BY <1>3, <1>9, <1>10 DEF StepKeeps, InsertBeginning

LEMMA LoseListKeeps ==
  ASSUME TypeInv, NEW c, NEW s, Holds(heap, list, leaked, walker, c, s),
         NEW l \in Lists, InsertBeginningFails(l)
  PROVE  StepKeeps(c)
<1>1. /\ Path(heap, list[l], c[l]) /\ Chain(list[l]) = c[l]
  BY ChainOf
<1>2. list' = Put(list, l, NULL) /\ list' \in Firsts
  BY DEF InsertBeginningFails, Put, TypeInv, Firsts
<1>3. leaked' = leaked \cup ToSet(c[l]) /\ leaked' \in NodeSets
  <2>1. \A n \in ToSet(c[l]) : n \in Nodes
    BY <1>1, PathNodes
  <2>. QED  BY <1>1, <2>1 DEF InsertBeginningFails, TypeInv, NodeSets
<1>4. /\ heap \in Heap /\ list \in Firsts /\ leaked \in NodeSets
      /\ walker # Idle => walker.list \in Lists
  BY DEF TypeInv
<1>5. \E b : /\ Holds(heap, Put(list, l, NULL), leaked \cup ToSet(c[l]), walker, b, s)
             /\ Moves(Contents(heap, c), Contents(heap, b))
  BY <1>4, LoseKeeps
<1>6. heap' = heap /\ walker' = walker
  BY DEF InsertBeginningFails
<1>7. TypeInv'
  BY <1>2, <1>3 DEF InsertBeginningFails, TypeInv
<1>. QED  BY <1>2, <1>3, <1>5, <1>6, <1>7 DEF StepKeeps

\* A call links the new node n behind the node e of the heap h.
LinksBehind(h, g, e, n, d) ==
  g = [[h EXCEPT ![n] = [data |-> d, next |-> h[e].next]] EXCEPT ![e].next = n]

LEMMA LinkKeeps ==
  ASSUME TypeInv, NEW c, NEW s, Holds(heap, list, leaked, walker, c, s),
         NEW l \in Lists, walker.list # l, NEW j \in 1..Len(c[l]),
         NEW n \in Nodes, heap[n] = Free, NEW d \in D,
         LinksBehind(heap, heap', c[l][j], n, d),
         UNCHANGED <<list, busy, leaked, walker>>
  PROVE  StepKeeps(c)
<1>1. /\ Path(heap, list[l], c[l]) /\ Len(c[l]) \in Nat
      /\ \A k \in 1..Len(c[l]) : c[l][k] \in Nodes /\ heap[c[l][k]] \in Cell
  BY ChainOf
<1>2. PICK e \in Nodes : e = c[l][j]
  BY <1>1
<1>3. heap[e] \in Cell /\ heap[e] # Free /\ e # n
  BY <1>1, <1>2 DEF Path
<1>4. heap[e].next = IF j = Len(c[l]) THEN NULL ELSE c[l][j + 1]
  BY <1>1, <1>2 DEF Path
<1>5. heap[e].next \in Nodes \cup {NULL}
  BY <1>3 DEF Cell
<1>6. PICK g : g = [heap EXCEPT ![n] = NewCell(d, heap[e].next)]
  OBVIOUS
<1>7. /\ g \in Heap /\ g[n] = NewCell(d, heap[e].next)
      /\ \A m \in Nodes : m # n => g[m] = heap[m]
  BY <1>5, <1>6 DEF TypeInv, Heap, Cell, NewCell, D
<1>8. heap' = [g EXCEPT ![e] = Relinked(g[e], n)]
  BY <1>2, <1>6 DEF LinksBehind, NewCell, Relinked
<1>9. Relinked(g[e], n) \in Cell
  BY <1>3, <1>7 DEF Cell, Relinked
<1>10. /\ heap' \in Heap /\ heap'[n] = NewCell(d, heap[e].next)
       /\ heap'[e] = Relinked(heap[e], n)
       /\ \A m \in Nodes : m # n /\ m # e => heap'[m] = heap[m]
  BY <1>3, <1>7, <1>8, <1>9 DEF Heap
<1>11. PICK i : i = j + 1 /\ i \in 1..Len(c[l]) + 1 /\ i # 1 /\ i - 1 = j
  BY <1>1
<1>12. heap[e].next = IF i = Len(c[l]) + 1 THEN NULL ELSE c[l][i]
  BY <1>1, <1>4, <1>11
<1>13. /\ heap \in Heap /\ list \in Firsts /\ leaked \in NodeSets
       /\ walker # Idle => walker.list \in Lists /\ (walker.list # l \/ i = 1)
  BY DEF TypeInv
<1>14. /\ list[l] = IF i = 1 THEN n ELSE list[l]
       /\ i # 1 => heap'[c[l][i - 1]] = Relinked(heap[c[l][i - 1]], n)
       /\ \A m \in Nodes : m # n /\ (i # 1 => m # c[l][i - 1]) => heap'[m] = heap[m]
  BY <1>2, <1>10, <1>11
<1>15. \E b : /\ Holds(heap', Put(list, l, list[l]), leaked, walker, b, s)
              /\ Moves(Contents(heap, c), Contents(heap', b))
  <2>1. PICK r : r = heap[e].next
    OBVIOUS
  <2>2. PICK q : q = list[l]
    OBVIOUS
  <2>3. /\ r = IF i = Len(c[l]) + 1 THEN NULL ELSE c[l][i]
        /\ heap'[n] = NewCell(d, r)
        /\ q = IF i = 1 THEN n ELSE list[l]
    BY <1>10, <1>12, <1>14, <2>1, <2>2
  <2>4. i \in 1..Len(c[l]) + 1 /\ heap' \in Heap
    BY <1>10, <1>11
  <2>5. \E b : /\ Holds(heap', Put(list, l, q), leaked, walker, b, s)
               /\ Moves(Contents(heap, c), Contents(heap', b))
    BY <1>13, <1>14, <2>3, <2>4, InsertKeeps, SMTT(30)
  <2>. QED  BY <2>2, <2>5
<1>16. Put(list, l, list[l]) = list
  BY <1>13, PutSame DEF Firsts
<1>17. TypeInv'
  BY <1>10 DEF TypeInv
<1>. QED  BY <1>15, <1>16, <1>17 DEF StepKeeps

LEMMA InsertAfterKeeps ==
  ASSUME TypeInv, NEW c, NEW s, Holds(heap, list, leaked, walker, c, s),
         NEW l \in Lists, NEW node, NEW n \in Nodes, NEW d \in D,
         InsertAfter(l, node, n, d)
  PROVE  StepKeeps(c)
<1>1. Path(heap, list[l], c[l]) /\ heap \in Heap
  BY ChainOf DEF TypeInv
<1>2. PICK j \in 1..Len(c[l]) : c[l][j] = node
  <2>1. list_find(list[l], {node}) # NULL
    BY DEF InsertAfter, list_find_node
  <2>2. \E j \in 1..Len(c[l]) : c[l][j] \in {node}
    BY <1>1, <2>1, FindReturns
  <2>. QED  BY <2>2
<1>3. /\ walker.list # l /\ heap[n] = Free
      /\ LinksBehind(heap, heap', c[l][j], n, d)
      /\ UNCHANGED <<list, busy, leaked, walker>>
  BY <1>2 DEF InsertAfter, Mine, Allocated, LinksBehind
<1>. QED  BY <1>3, LinkKeeps

LEMMA InsertEndKeeps ==
  ASSUME TypeInv, NEW c, NEW s, Holds(heap, list, leaked, walker, c, s),
         NEW l \in Lists, NEW n \in Nodes, NEW d \in D, InsertEnd(l, n, d)
  PROVE  StepKeeps(c)
<1>1. /\ Path(heap, list[l], c[l]) /\ Len(c[l]) \in Nat /\ Chain(list[l]) = c[l]
      /\ \A k \in 1..Len(c[l]) : c[l][k] \in Nodes /\ heap[c[l][k]] \in Cell
      /\ list[l] = IF Len(c[l]) = 0 THEN NULL ELSE c[l][1]
  BY ChainOf
<1>2. CASE list[l] = NULL
  \* The same as an insertion at the beginning.
  <2>1. InsertBeginning(l, n, d)
    BY <1>2 DEF InsertEnd, InsertBeginning, Mine
  <2>. QED  BY <2>1, InsertBeginningKeeps
<1>3. CASE list[l] # NULL
  <2>1. PICK j \in 1..Len(c[l]) : j = Len(c[l])
    BY <1>1, <1>3
  <2>2. c[l][j] \in Nodes /\ heap[c[l][j]].next = NULL
    BY <1>1, <2>1 DEF Path
  <2>3. Last(Chain(list[l])) = c[l][j]
    BY <1>1, <2>1 DEF Last
  <2>4. /\ walker.list # l /\ heap[n] = Free
        /\ LinksBehind(heap, heap', c[l][j], n, d)
        /\ UNCHANGED <<list, busy, leaked, walker>>
    BY <1>3, <2>2, <2>3 DEF InsertEnd, Mine, Allocated, LinksBehind
  <2>. QED  BY <2>4, LinkKeeps
<1>. QED  BY <1>2, <1>3

\* list_remove takes a node of the list out, or is not enabled.
LEMMA RemovalKeeps ==
  ASSUME TypeInv, NEW c, NEW s, Holds(heap, list, leaked, walker, c, s),
         NEW l \in Lists, walker # Idle => walker.list # l,
         NEW node, list_remove(l, node)
  PROVE  /\ heap' \in Heap /\ list' \in Firsts
         /\ \E b : /\ Holds(heap', list', leaked, walker, b, s)
                   /\ Moves(Contents(heap, c), Contents(heap', b))
<1>1. /\ Path(heap, list[l], c[l]) /\ Len(c[l]) \in Nat
      /\ \A k \in 1..Len(c[l]) : c[l][k] \in Nodes /\ heap[c[l][k]] \in Cell
      /\ list[l] = IF Len(c[l]) = 0 THEN NULL ELSE c[l][1]
  BY ChainOf
<1>2. /\ heap \in Heap /\ list \in Firsts /\ leaked \in NodeSets
      /\ walker # Idle => walker.list \in Lists /\ walker.list # l
  BY DEF TypeInv
<1>3. CASE list[l] = node
  <2>1. PICK i \in 1..Len(c[l]) : i = 1 /\ c[l][i] = node
    BY <1>1, <1>3 DEF list_remove
  <2>2. node \in Nodes /\ heap[node] \in Cell
    BY <1>1, <2>1
  <2>3. heap' = [heap EXCEPT ![node] = Free] /\ list' = Put(list, l, heap[node].next)
    BY <1>3 DEF list_remove, Put
  <2>4. /\ heap' \in Heap /\ heap'[node] = Free
        /\ \A m \in Nodes : m # node => heap'[m] = heap[m]
    BY <1>2, <2>2, <2>3 DEF Heap
  <2>5. list' \in Firsts
    BY <1>2, <2>2, <2>3 DEF Firsts, Put, Cell
  <2>6. /\ heap[node].next = IF i = 1 THEN heap[c[l][i]].next ELSE list[l]
        /\ heap'[c[l][i]] = Free
        /\ i # 1 => heap'[c[l][i - 1]] = Relinked(heap[c[l][i - 1]], heap[c[l][i]].next)
        /\ \A m \in Nodes : m # c[l][i] /\ (i # 1 => m # c[l][i - 1]) => heap'[m] = heap[m]
    BY <2>1, <2>4
  <2>7. \E b : /\ Holds(heap', Put(list, l, heap[node].next), leaked, walker, b, s)
               /\ Moves(Contents(heap, c), Contents(heap', b))
    BY <1>2, <2>4, <2>6, RemoveKeeps
  <2>. QED  BY <2>3, <2>4, <2>5, <2>7
<1>4. CASE list[l] # node
  <2>1. PICK tmp : /\ tmp = list_find(list[l], {n \in used : heap[n].next = node})
                   /\ tmp # NULL
                   /\ heap' = [heap EXCEPT ![tmp].next = heap[node].next, ![node] = Free]
                   /\ list' = list
                   /\ node # NULL
    BY <1>4 DEF list_remove
  <2>2. PICK j \in 1..Len(c[l]) : tmp = c[l][j] /\ heap[tmp].next = node
    <3>1. PICK A : A = {n \in used : heap[n].next = node}
      OBVIOUS
    <3>2. list_find(list[l], A) # NULL /\ tmp = list_find(list[l], A)
      BY <2>1, <3>1
    <3>3. \E j \in 1..Len(c[l]) : list_find(list[l], A) = c[l][j] /\ c[l][j] \in A
      BY <1>1, <1>2, <3>2, FindReturns
    <3>. QED  BY <3>1, <3>2, <3>3
  <2>3. heap[tmp].next = IF j = Len(c[l]) THEN NULL ELSE c[l][j + 1]
    BY <1>1, <2>2 DEF Path
  <2>4. PICK i \in 1..Len(c[l]) : i = j + 1 /\ i # 1 /\ i - 1 = j /\ c[l][i] = node
    <3>1. node # NULL /\ heap[tmp].next = node
      BY <2>1, <2>2
    <3>2. j # Len(c[l]) /\ c[l][j + 1] = node
      BY <2>3, <3>1
    <3>3. Len(c[l]) \in Nat
      BY <1>1, LenProperties
    <3>4. j + 1 \in 1..Len(c[l]) /\ j + 1 # 1 /\ (j + 1) - 1 = j
      BY <3>2, <3>3
    <3>. QED  BY <3>2, <3>4
  <2>5. /\ tmp \in Nodes /\ heap[tmp] \in Cell /\ node \in Nodes /\ heap[node] \in Cell
    BY <1>1, <2>2, <2>4
  <2>6. tmp # node
    BY <1>1, <2>2, <2>4 DEF Path
  <2>7. PICK g : g = [heap EXCEPT ![tmp] = Relinked(heap[tmp], heap[node].next)]
    OBVIOUS
  <2>8. heap' = [g EXCEPT ![node] = Free]
    BY <2>1, <2>7 DEF Relinked
  <2>9. Relinked(heap[tmp], heap[node].next) \in Cell
    BY <2>5 DEF Cell, Relinked
  <2>10. /\ heap' \in Heap /\ heap'[node] = Free
         /\ heap'[tmp] = Relinked(heap[tmp], heap[node].next)
         /\ \A m \in Nodes : m # node /\ m # tmp => heap'[m] = heap[m]
    BY <1>2, <2>5, <2>6, <2>7, <2>8, <2>9 DEF Heap
  <2>11. /\ list[l] = IF i = 1 THEN heap[c[l][i]].next ELSE list[l]
         /\ heap'[c[l][i]] = Free
         /\ i # 1 => heap'[c[l][i - 1]] = Relinked(heap[c[l][i - 1]], heap[c[l][i]].next)
         /\ \A m \in Nodes : m # c[l][i] /\ (i # 1 => m # c[l][i - 1]) => heap'[m] = heap[m]
    BY <2>2, <2>4, <2>10
  <2>12. \E b : /\ Holds(heap', Put(list, l, list[l]), leaked, walker, b, s)
                /\ Moves(Contents(heap, c), Contents(heap', b))
    BY <1>2, <2>10, <2>11, RemoveKeeps
  <2>13. Put(list, l, list[l]) = list
    BY <1>2, PutSame DEF Firsts
  <2>. QED  BY <1>2, <2>1, <2>10, <2>12, <2>13
<1>. QED  BY <1>3, <1>4

LEMMA RemoveNodeKeeps ==
  ASSUME TypeInv, NEW c, NEW s, Holds(heap, list, leaked, walker, c, s),
         NEW l \in Lists, NEW node, RemoveNode(l, node)
  PROVE  StepKeeps(c)
<1>1. walker.list # l /\ list_remove(l, node) /\ UNCHANGED <<busy, leaked, walker>>
  BY DEF RemoveNode, Mine
<1>2. /\ heap' \in Heap /\ list' \in Firsts
      /\ \E b : /\ Holds(heap', list', leaked, walker, b, s)
                /\ Moves(Contents(heap, c), Contents(heap', b))
  BY <1>1, RemovalKeeps
<1>3. TypeInv'
  BY <1>1, <1>2 DEF TypeInv
<1>. QED  BY <1>1, <1>2, <1>3 DEF StepKeeps

LEMMA RemoveByDataKeeps ==
  ASSUME TypeInv, NEW c, NEW s, Holds(heap, list, leaked, walker, c, s),
         NEW l \in Lists, NEW d, RemoveByData(l, d)
  PROVE  StepKeeps(c)
<1>1. RemoveNode(l, list_find_by_data(list[l], d))
  BY DEF RemoveByData, RemoveNode
<1>. QED  BY <1>1, RemoveNodeKeeps

LEMMA DestroyHeadKeeps ==
  ASSUME TypeInv, NEW c, NEW s, Holds(heap, list, leaked, walker, c, s),
         NEW l \in Lists, DestroyHead(l)
  PROVE  StepKeeps(c)
<1>1. /\ l \in busy /\ list_remove(l, list[l]) /\ UNCHANGED <<leaked, walker>>
      /\ busy' = IF list'[l] = NULL THEN busy \ {l} ELSE busy
  BY DEF DestroyHead
<1>2. walker # Idle => walker.list # l
  BY <1>1 DEF TypeInv
<1>3. /\ heap' \in Heap /\ list' \in Firsts
      /\ \E b : /\ Holds(heap', list', leaked, walker, b, s)
                /\ Moves(Contents(heap, c), Contents(heap', b))
  BY <1>1, <1>2, RemovalKeeps
<1>4. TypeInv'
  BY <1>1, <1>3 DEF TypeInv
<1>. QED  BY <1>1, <1>3, <1>4 DEF StepKeeps

LEMMA DestroyKeeps ==
  ASSUME TypeInv, NEW c, NEW s, Holds(heap, list, leaked, walker, c, s),
         NEW l \in Lists, Destroy(l)
  PROVE  StepKeeps(c)
<1>1. TypeInv'
  BY DEF TypeInv, Destroy, Mine
<1>. QED  BY <1>1 DEF StepKeeps, Destroy, Moves

\* Content of LinkedList, with the heap as an argument.
ContentIn(h, p) == LET chain == ChainIn(h, p) IN [k \in DOMAIN chain |-> h[chain[k]].data]

LEMMA ContentOfHeap == \A p : Content(p) = ContentIn(heap, p)
BY ChainOfHeap DEF Content, ContentIn

LEMMA ContentOfNewHeap == \A p : Content(p)' = ContentIn(heap', p)
BY ChainOfNewHeap DEF Content, ContentIn

LEMMA PathContent ==
  ASSUME NEW h \in Heap, NEW p, NEW s, Path(h, p, s)
  PROVE  ContentIn(h, p) = DataOf(h, s)
<1>1. ChainIn(h, p) = s /\ DOMAIN s = 1..Len(s)
  BY PathIsChain, PathTyped
<1>. QED  BY <1>1 DEF ContentIn, DataOf

LEMMA WalkBeginsKeeps ==
  ASSUME TypeInv, NEW c, NEW s, Holds(heap, list, leaked, walker, c, s),
         NEW l \in Lists, WalkBegins(l)
  PROVE  StepKeeps(c)
<1>1. Path(heap, list[l], c[l]) /\ heap \in Heap /\ list[l] \in Nodes \cup {NULL}
  BY ChainOf DEF TypeInv, Firsts
<1>2. PICK a : a = DataOf(heap, c[l]) /\ a \in Seq(D)
  BY <1>1, DataTyped
<1>3. Content(list[l]) = a
  BY <1>1, <1>2, ContentOfHeap, PathContent
<1>4. << >> \in Seq(D) /\ << >> \o a = a
  BY <1>2, EmptySeq, ConcatEmptySeq
<1>5. /\ walker' = [list |-> l, at |-> list[l], seen |-> << >>, given |-> a]
      /\ l \notin busy
      /\ UNCHANGED <<heap, list, busy, leaked>>
  BY <1>3 DEF WalkBegins, Mine
<1>6. TypeInv'
  BY <1>1, <1>2, <1>4, <1>5 DEF TypeInv, Walks
<1>7. WalkOn(heap', leaked', walker', c, c[l])
  BY <1>1, <1>2, <1>4, <1>5 DEF WalkOn
<1>8. Holds(heap', list', leaked', walker', c, c[l])
  BY <1>5, <1>7 DEF Holds
<1>9. Moves(Contents(heap, c), Contents(heap', c))
  BY <1>5 DEF Moves
<1>. QED  BY <1>6, <1>8, <1>9 DEF StepKeeps

LEMMA ConcatData ==
  \A r \in Seq(D), s \in Seq(D), u \in Seq(D) : (r \o s) \o u = r \o (s \o u)
BY ConcatAssociative, Z3

\* The walk takes the first node of the path before it.
LEMMA WalkStepKeeps ==
  ASSUME TypeInv, NEW c, NEW s, Holds(heap, list, leaked, walker, c, s), WalkStep
  PROVE  StepKeeps(c)
<1>1. walker.at # NULL /\ UNCHANGED <<heap, list, busy, leaked>>
      /\ walker' = [walker EXCEPT !.at = heap[walker.at].next,
                                  !.seen = Append(@, heap[walker.at].data)]
  BY DEF WalkStep
<1>2. walker # Idle
  BY <1>1 DEF Idle
<1>3. PICK p \in Nodes : p = walker.at
  BY <1>1 DEF TypeInv, Walks
<1>4. /\ Path(heap, p, s) /\ heap \in Heap
      /\ \A n \in ToSet(s) : n \in ToSet(c[walker.list]) \/ n \in leaked
      /\ walker.given = walker.seen \o DataOf(heap, s)
  BY <1>2, <1>3 DEF Holds, WalkOn, TypeInv
<1>5. /\ Len(s) \in Nat /\ Len(s) >= 1 /\ s[1] = p
      /\ Path(heap, heap[p].next, Tail(s)) /\ Len(Tail(s)) = Len(s) - 1
      /\ \A j \in 1..Len(s) - 1 : Tail(s)[j] = s[j + 1]
  BY <1>3, <1>4, PathRest, PathTyped
<1>6. heap[p] \in Cell
  <2>1. 1 \in 1..Len(s)
    BY <1>5
  <2>. QED  BY <1>4, <1>5, <2>1, PathTyped
<1>7. PICK t : t = Tail(s)
  OBVIOUS
<1>8. PICK x \in D : x = heap[p].data
  BY <1>6 DEF Cell, D
<1>9. PICK u : u = DataOf(heap, t) /\ u \in Seq(D) /\ Len(u) = Len(s) - 1
  BY <1>4, <1>5, <1>7, DataTyped
<1>10. PICK v : v = DataOf(heap, s) /\ v \in Seq(D) /\ Len(v) = Len(s)
  BY <1>4, DataTyped
<1>11. v = <<x>> \o u
  <2>1. <<x>> \in Seq(D) /\ Len(<<x>>) = 1 /\ <<x>>[1] = x
    OBVIOUS
  <2>2. PICK y : y = <<x>>
    OBVIOUS
  <2>3. /\ y \o u \in Seq(D) /\ Len(y \o u) = Len(y) + Len(u)
        /\ \A k \in 1..Len(y) + Len(u) : (y \o u)[k] = IF k <= Len(y) THEN y[k] ELSE u[k - Len(y)]
    BY <1>9, <2>1, <2>2, ConcatProperties
  <2>4. Len(y) + Len(u) = Len(s) /\ Len(y) = 1
    BY <1>5, <1>9, <2>1, <2>2
  <2>5. ASSUME NEW k \in 1..Len(s) PROVE v[k] = (y \o u)[k]
    <3>1. v[k] = heap[s[k]].data
      BY <1>10 DEF DataOf
    <3>2. (y \o u)[k] = IF k <= 1 THEN y[k] ELSE u[k - 1]
      BY <2>3, <2>4
    <3>3. CASE k = 1
      BY <1>5, <1>8, <2>1, <2>2, <3>1, <3>2, <3>3
    <3>4. CASE k # 1
      <4>1. PICK j \in 1..Len(s) - 1 : j = k - 1 /\ j + 1 = k /\ ~(k <= 1)
        BY <1>5, <3>4
      <4>2. u[j] = heap[t[j]].data
        BY <1>5, <1>7, <1>9, <4>1 DEF DataOf
      <4>. QED  BY <1>5, <1>7, <3>1, <3>2, <4>1, <4>2
    <3>. QED  BY <3>3, <3>4
  <2>6. Len(y \o u) = Len(v)
    BY <1>10, <2>3, <2>4
  <2>7. v = y \o u
    BY <1>10, <2>3, <2>5, <2>6, SeqEqual
  <2>. QED  BY <2>2, <2>7
<1>12. walker.given = Append(walker.seen, x) \o u
  <2>1. PICK w : w = walker.seen /\ w \in Seq(D)
    BY DEF TypeInv, Walks
  <2>2. w \o (<<x>> \o u) = (w \o <<x>>) \o u
    <3>1. <<x>> \in Seq(D)
      OBVIOUS
    <3>2. PICK y : y = <<x>> /\ y \in Seq(D)
      BY <3>1
    <3>3. w \o (y \o u) = (w \o y) \o u
      BY <1>9, <2>1, <3>2, ConcatData, ZenonT(30)
    <3>. QED  BY <3>2, <3>3
  <2>3. Append(w, x) = w \o <<x>>
    BY <2>1, AppendIsConcat
  <2>. QED  BY <1>4, <1>10, <1>11, <2>1, <2>2, <2>3
<1>13. Append(walker.seen, x) \in Seq(D)
  BY <1>8 DEF TypeInv, Walks
<1>14. /\ walker'.list = walker.list /\ walker'.at = heap[p].next
       /\ walker'.seen = Append(walker.seen, x) /\ walker'.given = walker.given
       /\ walker' \in Walks
  BY <1>1, <1>3, <1>6, <1>8, <1>13 DEF TypeInv, Walks, Cell
<1>15. TypeInv'
  BY <1>1, <1>2, <1>14 DEF TypeInv
<1>16. \A n \in ToSet(t) : n \in ToSet(s)
  <2>1. ASSUME NEW n \in ToSet(t) PROVE n \in ToSet(s)
    <3>0. Path(heap, heap[p].next, t) /\ Len(t) = Len(s) - 1
      BY <1>5, <1>7
    <3>1. PICK j \in 1..Len(s) - 1 : t[j] = n
      <4>1. \E j \in 1..Len(t) : t[j] = n
        BY <2>1, <3>0, PathNodes
      <4>. QED  BY <3>0, <4>1
    <3>2. j + 1 \in 1..Len(s) /\ s[j + 1] = n
      BY <1>5, <1>7, <3>1
    <3>. QED  BY <1>4, <3>2, PathNodes
  <2>. QED  BY <2>1
<1>17. WalkOn(heap', leaked', walker', c, t)
  BY <1>1, <1>4, <1>5, <1>7, <1>9, <1>12, <1>14, <1>16 DEF WalkOn
<1>18. Holds(heap', list', leaked', walker', c, t)
  BY <1>1, <1>17 DEF Holds
<1>19. Moves(Contents(heap, c), Contents(heap', c))
  BY <1>1 DEF Moves
<1>. QED  BY <1>15, <1>18, <1>19 DEF StepKeeps

LEMMA IdleTyped == Idle \in Walks
<1>1. << >> \in Seq(D)
  BY EmptySeq
<1>. QED  BY <1>1 DEF Idle, Walks

LEMMA WalkEndsKeeps ==
  ASSUME TypeInv, NEW c, NEW s, Holds(heap, list, leaked, walker, c, s), WalkEnds
  PROVE  StepKeeps(c)
<1>1. walker' = Idle /\ UNCHANGED <<heap, list, busy, leaked>>
  BY DEF WalkEnds
<1>2. TypeInv'
  BY <1>1, IdleTyped DEF TypeInv
<1>3. Holds(heap', list', leaked', walker', c, s)
  BY <1>1 DEF Holds, WalkOn
<1>. QED  BY <1>1, <1>2, <1>3 DEF StepKeeps, Moves

\* Every step of LinkedList keeps the invariant and does what ListSeq allows.
LEMMA StepIsMove ==
  ASSUME TypeInv, NEW c, NEW s, Holds(heap, list, leaked, walker, c, s), [Next]_vars
  PROVE  StepKeeps(c)
<1>1. CASE UNCHANGED vars
  <2>1. TypeInv'
    BY <1>1 DEF vars, TypeInv
  <2>. QED  BY <1>1, <2>1 DEF vars, StepKeeps, Moves
<1>2. ASSUME NEW l \in Lists, NEW n \in Nodes, NEW d \in Data \cup {NULL},
             \/ InsertBeginning(l, n, d)
             \/ InsertEnd(l, n, d)
             \/ \E node \in Nodes : InsertAfter(l, node, n, d)
      PROVE  StepKeeps(c)
  <2>1. d \in D
    BY DEF D
  <2>. QED  BY <1>2, <2>1, InsertBeginningKeeps, InsertEndKeeps, InsertAfterKeeps
<1>3. ASSUME NEW l \in Lists,
             \/ InsertBeginningFails(l)
             \/ \E node \in Nodes : RemoveNode(l, node)
             \/ \E d \in Data : RemoveByData(l, d)
             \/ Destroy(l)
             \/ DestroyHead(l)
             \/ WalkBegins(l)
      PROVE  StepKeeps(c)
  BY <1>3, LoseListKeeps, RemoveNodeKeeps, RemoveByDataKeeps, DestroyKeeps,
     DestroyHeadKeeps, WalkBeginsKeeps
<1>4. CASE WalkStep
  BY <1>4, WalkStepKeeps
<1>5. CASE WalkEnds
  BY <1>5, WalkEndsKeeps
<1>. QED  BY <1>1, <1>2, <1>3, <1>4, <1>5 DEF Next

-----------------------------------------------------------------------------
(* What follows from the invariant.                                        *)

LEMMA ContentsAre ==
  ASSUME NEW h \in Heap, NEW lst, NEW lk, NEW w, NEW c, NEW s, Holds(h, lst, lk, w, c, s)
  PROVE  Contents(h, c) = [l \in Lists |-> ContentIn(h, lst[l])]
<1>1. \A l \in Lists : ContentIn(h, lst[l]) = DataOf(h, c[l])
  BY PathContent DEF Holds, Shape
<1>. QED  BY <1>1 DEF Contents

LEMMA AtMostOne ==
  ASSUME NEW S, \A x, y \in S : x = y
  PROVE  Cardinality(S) \in Nat /\ Cardinality(S) <= 1
<1>1. CASE S = {}
  BY <1>1, FS_EmptySet
<1>2. CASE S # {}
  <2>1. PICK x : S = {x}
    BY <1>2
  <2>2. Cardinality({x}) = 1
    BY FS_Singleton
  <2>. QED  BY <2>1, <2>2
<1>. QED  BY <1>1, <1>2

LEMMA InvTyped == Inv => TypeOK
BY DEF Inv, TypeInv, TypeOK, Heap, Cell, Firsts, NodeSets, Walks, Pointers

LEMMA InvWalkComplete == Inv => WalkComplete
<1>. SUFFICES ASSUME Inv, walker # Idle
              PROVE  walker.given = walker.seen \o Content(walker.at)
  BY DEF WalkComplete
<1>1. PICK c, s : Holds(heap, list, leaked, walker, c, s) /\ heap \in Heap
  BY DEF Inv, TypeInv
<1>2. Path(heap, walker.at, s) /\ walker.given = walker.seen \o DataOf(heap, s)
  BY <1>1 DEF Holds, WalkOn
<1>3. Content(walker.at) = DataOf(heap, s)
  BY <1>1, <1>2, ContentOfHeap, PathContent
<1>. QED  BY <1>2, <1>3

LEMMA InvHeapExact == Inv => HeapExact
<1>. SUFFICES ASSUME Inv PROVE HeapExact
  OBVIOUS
<1>1. PICK c, s : Holds(heap, list, leaked, walker, c, s) /\ TypeInv
  BY DEF Inv
<1>2. /\ \A l, k \in Lists : \A n \in ToSet(c[l]) : n \in ToSet(c[k]) => l = k
      /\ \A l \in Lists : \A n \in ToSet(c[l]) : n \notin leaked
      /\ \A n \in Nodes : heap[n] # Free <=> n \in leaked \/ \E l \in Lists : n \in ToSet(c[l])
      /\ \A n \in leaked : heap[n].next \in leaked \cup {NULL}
      /\ \A n, m \in leaked : heap[n].next = heap[m].next /\ heap[n].next # NULL => n = m
  BY <1>1 DEF Holds, Shape
<1>3. \A l \in Lists : /\ Path(heap, list[l], c[l]) /\ Len(c[l]) \in Nat
                       /\ Chain(list[l]) = c[l]
                       /\ list[l] = IF Len(c[l]) = 0 THEN NULL ELSE c[l][1]
  BY <1>1, ChainOf
<1>4. NULL \notin Nodes
  BY LinkedListAssumption
\* Where the next node of one on a list is.
<1>5. ASSUME NEW l \in Lists, NEW n \in ToSet(c[l])
      PROVE  \E j \in 1..Len(c[l]) :
               /\ c[l][j] = n
               /\ heap[n].next = IF j = Len(c[l]) THEN NULL ELSE c[l][j + 1]
               /\ heap[n].next # NULL => j + 1 \in 1..Len(c[l]) /\ heap[n].next \in ToSet(c[l])
  <2>1. PICK j \in 1..Len(c[l]) : c[l][j] = n
    BY <1>3, PathNodes
  <2>2. heap[n].next = IF j = Len(c[l]) THEN NULL ELSE c[l][j + 1]
    BY <1>3, <2>1 DEF Path
  <2>3. j # Len(c[l]) => j + 1 \in 1..Len(c[l])
    BY <1>3
  <2>4. j # Len(c[l]) => c[l][j + 1] \in ToSet(c[l])
    BY <1>3, <2>3, PathNodes
  <2>. QED  BY <2>1, <2>2, <2>3, <2>4
<1>6. \A n \in used : n \in Nodes /\ heap[n] # Free
  BY DEF used
<1>7. \A l \in Lists : \A n \in ToSet(c[l]) : n \in used
  BY <1>3, PathNodes DEF used
<1>8. \A n \in leaked : n \in used
  BY <1>1, <1>2 DEF used, TypeInv, NodeSets
<1>9. \A n \in used : n \in leaked \/ \E l \in Lists : n \in ToSet(c[l])
  BY <1>2, <1>6
<1>10. \A n \in used : heap[n].next \in used \cup {NULL}
  BY <1>2, <1>5, <1>7, <1>8, <1>9
<1>11. ASSUME NEW l \in Lists, list[l] # NULL
       PROVE  1 \in 1..Len(c[l]) /\ list[l] = c[l][1] /\ list[l] \in ToSet(c[l])
  <2>1. 1 \in 1..Len(c[l]) /\ list[l] = c[l][1]
    BY <1>3, <1>11
  <2>. QED  BY <1>3, <2>1, PathNodes
<1>12. \A l \in Lists : list[l] \in used \cup {NULL}
  BY <1>7, <1>11
<1>13. used = leaked \cup UNION {ToSet(Chain(list[l])) : l \in Lists}
  BY <1>3, <1>7, <1>8, <1>9
<1>14. ASSUME NEW m \in used
       PROVE  Cardinality({l \in Lists : list[l] = m})
                + Cardinality({n \in used : heap[n].next = m}) <= 1
  <2>. DEFINE A == {l \in Lists : list[l] = m}
              B == {n \in used : heap[n].next = m}
  <2>0. m # NULL /\ m \in Nodes
    BY <1>4, <1>6
  <2>1. \A l \in A : l \in Lists /\ m \in ToSet(c[l]) /\ m = c[l][1] /\ 1 \in 1..Len(c[l])
    BY <1>11, <2>0
  <2>2. \A l, k \in A : l = k
    BY <1>2, <2>1
  <2>3. ASSUME NEW n \in B, NEW k \in Lists, m \in ToSet(c[k])
        PROVE  \E j \in 1..Len(c[k]) : /\ c[k][j] = n /\ j + 1 \in 1..Len(c[k])
                                       /\ c[k][j + 1] = m
    <3>1. n \in used /\ heap[n].next = m
      OBVIOUS
    <3>2. n \notin leaked
      BY <1>2, <2>0, <2>3, <3>1
    <3>3. PICK l \in Lists : n \in ToSet(c[l])
      BY <1>9, <3>1, <3>2
    <3>4. PICK j \in 1..Len(c[l]) :
               /\ c[l][j] = n
               /\ heap[n].next = IF j = Len(c[l]) THEN NULL ELSE c[l][j + 1]
               /\ heap[n].next # NULL => j + 1 \in 1..Len(c[l]) /\ heap[n].next \in ToSet(c[l])
      BY <1>5, <3>3
    <3>5. l = k
      BY <1>2, <2>0, <2>3, <3>1, <3>4
    <3>. QED  BY <2>0, <3>1, <3>4, <3>5
  <2>4. ASSUME NEW n \in B, NEW o \in B PROVE n = o
    <3>1. CASE m \in leaked
      <4>1. \A x \in B : x \in leaked
        <5>1. ASSUME NEW x \in B PROVE x \in leaked
          <6>1. x \in used /\ heap[x].next = m
            OBVIOUS
          <6>2. ASSUME NEW l \in Lists, x \in ToSet(c[l]) PROVE FALSE
            <7>1. m \in ToSet(c[l])
              BY <1>5, <2>0, <6>1, <6>2
            <7>. QED  BY <1>2, <3>1, <7>1
          <6>. QED  BY <1>9, <6>1, <6>2
        <5>. QED  BY <5>1
      <4>. QED  BY <1>2, <2>0, <4>1
    <3>2. CASE m \notin leaked
      <4>1. PICK k \in Lists : m \in ToSet(c[k])
        BY <1>9, <3>2
      <4>2. PICK i \in 1..Len(c[k]) : /\ c[k][i] = n /\ i + 1 \in 1..Len(c[k])
                                      /\ c[k][i + 1] = m
        BY <2>3, <4>1
      <4>3. PICK j \in 1..Len(c[k]) : /\ c[k][j] = o /\ j + 1 \in 1..Len(c[k])
                                      /\ c[k][j + 1] = m
        BY <2>3, <4>1
      <4>4. i + 1 = j + 1
        BY <1>3, <4>2, <4>3 DEF Path
      <4>5. i = j
        BY <4>4
      <4>. QED  BY <4>2, <4>3, <4>5
    <3>. QED  BY <3>1, <3>2
  <2>5. A = {} \/ B = {}
    <3>1. ASSUME NEW l \in A, NEW n \in B PROVE FALSE
      <4>1. PICK j \in 1..Len(c[l]) : /\ j + 1 \in 1..Len(c[l])
                                      /\ c[l][j + 1] = m
        BY <2>1, <2>3
      <4>2. 1 = j + 1
        BY <1>3, <2>1, <4>1 DEF Path
      <4>. QED  BY <4>1, <4>2
    <3>. QED  BY <3>1
  <2>. HIDE DEF A, B
  <2>6. /\ Cardinality(A) \in Nat /\ Cardinality(A) <= 1
        /\ Cardinality(B) \in Nat /\ Cardinality(B) <= 1
    BY <2>2, <2>4, AtMostOne
  <2>7. Cardinality(A) = 0 \/ Cardinality(B) = 0
    BY <2>5, FS_EmptySet
  <2>8. Cardinality(A) + Cardinality(B) <= 1
    BY <2>6, <2>7
  <2>. QED  BY <2>8 DEF A, B
<1>. QED  BY <1>10, <1>12, <1>13, <1>14 DEF HeapExact

-----------------------------------------------------------------------------
(* The theorems.                                                           *)

LEMMA InitHolds ==
  ASSUME Init
  PROVE  TypeInv /\ Holds(heap, list, leaked, walker, [l \in Lists |-> << >>], << >>)
<1>1. << >> \in Seq(Nodes) /\ Len(<< >>) = 0
  BY EmptySeq
<1>2. TypeInv
  BY IdleTyped DEF Init, TypeInv, Heap, Firsts, NodeSets
<1>3. PICK c : c = [l \in Lists |-> << >>]
  OBVIOUS
<1>4. /\ c \in [Lists -> Seq(Nodes)]
      /\ \A l \in Lists : c[l] = << >> /\ ToSet(c[l]) = {}
  BY <1>1, <1>3 DEF ToSet
<1>5. Path(heap, NULL, << >>)
  BY <1>1 DEF Path
<1>6. Shape(heap, list, leaked, c)
  BY <1>4, <1>5 DEF Init, Shape
<1>7. WalkOn(heap, leaked, walker, c, << >>)
  BY DEF Init, WalkOn
<1>. QED  BY <1>2, <1>3, <1>6, <1>7 DEF Holds

\* The lists have disjoint paths through the heap and a walk has one of its own,
\* whatever calls are made, whatever address malloc gives out and when it fails.
THEOREM InvStays == Spec => []Inv
<1>1. Init => Inv
  BY InitHolds DEF Inv
<1>2. Inv /\ [Next]_vars => Inv'
  <2>. SUFFICES ASSUME Inv, [Next]_vars PROVE Inv'
    OBVIOUS
  <2>1. PICK c, s : TypeInv /\ Holds(heap, list, leaked, walker, c, s)
    BY DEF Inv
  <2>2. StepKeeps(c)
    BY <2>1, StepIsMove
  <2>. QED  BY <2>2 DEF StepKeeps, Inv
<1>. QED  BY <1>1, <1>2, PTL DEF Spec

\* The pointers of list.c lead to addresses of the heap or are NULL.
THEOREM TypeCorrect == Spec => []TypeOK
BY InvStays, InvTyped, PTL

\* Every allocated node is on one list, once, or was leaked with its list, and no
\* pointer leads to freed memory, after any insertions, removals by node or data
\* and destructions of list.c.
THEOREM HeapStaysExact == Spec => []HeapExact
BY InvStays, InvHeapExact, PTL

\* A loop over a list, as _log_write makes, meets what the list held when the
\* loop began, though others insert at the beginning meanwhile or lose the list.
THEOREM WalkStaysComplete == Spec => []WalkComplete
BY InvStays, InvWalkComplete, PTL

\* The pointer operations of list.c do to the sequence of a list what ListSeq
\* says: one element enters at a place or one leaves, and the others stay.
THEOREM ListsAreSequences == Spec => ImplementsListSeq
<1>. DEFINE now == [l \in Lists |-> Content(list[l])]
<1>1. Init => ABS!Init
  <2>. SUFFICES ASSUME Init PROVE ABS!Init
    OBVIOUS
  <2>1. PICK c : /\ c = [l \in Lists |-> << >>]
                 /\ Holds(heap, list, leaked, walker, c, << >>)
    BY InitHolds
  <2>2. heap \in Heap
    BY InitHolds DEF TypeInv
  <2>3. Contents(heap, c) = [l \in Lists |-> ContentIn(heap, list[l])]
    BY <2>1, <2>2, ContentsAre
  <2>4. \A l \in Lists : DataOf(heap, c[l]) = << >>
    BY <2>1, EmptySeq DEF DataOf
  <2>5. Contents(heap, c) = [l \in Lists |-> << >>]
    BY <2>4 DEF Contents
  <2>. QED  BY <2>3, <2>5, ContentOfHeap DEF ABS!Init
<1>2. Inv /\ [Next]_vars => [ABS!Next]_now
  <2>. SUFFICES ASSUME Inv, [Next]_vars PROVE [ABS!Next]_now
    OBVIOUS
  <2>1. PICK c, s : TypeInv /\ Holds(heap, list, leaked, walker, c, s)
    BY DEF Inv
  <2>2. PICK b, r : /\ Holds(heap', list', leaked', walker', b, r)
                    /\ Moves(Contents(heap, c), Contents(heap', b))
                    /\ TypeInv'
    BY <2>1, StepIsMove DEF StepKeeps
  <2>3. Contents(heap, c) = now
    <3>1. Contents(heap, c) = [l \in Lists |-> ContentIn(heap, list[l])]
      BY <2>1, ContentsAre DEF TypeInv
    <3>. QED  BY <3>1, ContentOfHeap
  <2>4. Contents(heap', b) = now'
    <3>1. heap' \in Heap
      BY <2>2 DEF TypeInv
    <3>2. Contents(heap', b) = [l \in Lists |-> ContentIn(heap', list'[l])]
      BY <2>2, <3>1, ContentsAre
    <3>. QED  BY <3>2, ContentOfNewHeap
  <2>5. Moves(now, now')
    BY <2>2, <2>3, <2>4
  <2>6. ASSUME NEW l \in Lists, NEW i \in 1..Len(now[l]) + 1, NEW d \in D,
               now' = Put(now, l, InsertAt(now[l], i, d))
        PROVE  ABS!Next
    <3>1. ABS!InsertAt(now[l], i, d) = InsertAt(now[l], i, d)
      BY DEF InsertAt, ABS!InsertAt
    <3>2. ABS!Insert(l, i, d)
      BY <2>6, <3>1 DEF ABS!Insert, Put
    <3>. QED  BY <3>2 DEF ABS!Next, D
  <2>7. ASSUME NEW l \in Lists, NEW i \in 1..Len(now[l]),
               now' = Put(now, l, RemoveAt(now[l], i))
        PROVE  ABS!Next
    <3>1. ABS!RemoveAt(now[l], i) = RemoveAt(now[l], i)
      BY DEF RemoveAt, ABS!RemoveAt
    <3>2. ABS!Drop(l, i)
      BY <2>7, <3>1 DEF ABS!Drop, Put
    <3>. QED  BY <3>2 DEF ABS!Next
  <2>8. ASSUME NEW l \in Lists, now' = Put(now, l, << >>) PROVE ABS!Next
    <3>1. ABS!Lose(l)
      BY <2>8 DEF ABS!Lose, Put
    <3>. QED  BY <3>1 DEF ABS!Next
  <2>. HIDE DEF now
  <2>. QED  BY <2>5, <2>6, <2>7, <2>8 DEF Moves
<1>. QED  BY <1>1, <1>2, InvStays, PTL DEF Spec, ImplementsListSeq, ABS!Spec
=============================================================================
