--------------------------- MODULE SequenceLemmas ---------------------------
(***************************************************************************)
(* Facts about the sequence operators the models are built from (the last  *)
(* element, all but the last, the first occurrence removed, prefixes and   *)
(* suffixes, the concatenation of a sequence of sequences), and the        *)
(* induction over the naturals that the recursive ones need.  Induction is *)
(* stated for a set of naturals, with membership in it as the induction    *)
(* hypothesis: no prover here can instantiate an operator parameter.       *)
(***************************************************************************)
EXTENDS Integers, Sequences, SequencesExt, Functions, FiniteSets,
        SequenceTheorems, WellFoundedInduction, TLAPS

-----------------------------------------------------------------------------
(* Induction.                                                              *)

LEMMA NatWellFounded == IsWellFoundedOn({p \in Nat \X Nat : p[1] < p[2]}, Nat)
BY NatLessThanWellFounded DEF OpToRel

\* Every set of naturals that has an element has a least one.
LEMMA LeastNat ==
  ASSUME NEW S \in SUBSET Nat, S # {}
  PROVE  \E n \in S : \A m \in S : n <= m
<1> DEFINE R == {p \in Nat \X Nat : p[1] < p[2]}
<1>1. IsWellFoundedOn(R, Nat)
  BY NatWellFounded
<1> HIDE DEF R
<1>2. PICK n \in S : \A m \in S : <<m, n>> \notin R
  BY <1>1, WFMin
<1>3. \A m \in S : n <= m
  <2> TAKE m \in S
  <2>1. m \in Nat /\ n \in Nat /\ <<m, n>> \notin R
    BY <1>2
  <2>2. ~(m < n)
    BY <2>1 DEF R
  <2>3. QED
    BY <2>1, <2>2
<1>4. QED
  BY <1>3

\* A set that holds 0 and the successor of each of its naturals holds them all.
LEMMA SetInduction ==
  ASSUME NEW S, 0 \in S, \A n \in Nat : n \in S => n + 1 \in S
  PROVE  \A n \in Nat : n \in S
<1> SUFFICES ASSUME Nat \ S # {} PROVE FALSE
  OBVIOUS
<1>1. PICK n \in Nat \ S : \A m \in Nat \ S : n <= m
  BY LeastNat
<1>2. n # 0 /\ n - 1 \in Nat
  BY <1>1
<1>3. n - 1 \in S
  BY <1>1, <1>2
<1>4. (n - 1) + 1 = n
  BY <1>1
<1>5. QED
  BY <1>1, <1>2, <1>3, <1>4

-----------------------------------------------------------------------------
(* The last element and the rest.                                          *)

\* A function on 1..n is a sequence of length n.
LEMMA FunctionIsSeq ==
  ASSUME NEW A, NEW n \in Nat, NEW s \in [1..n -> A]
  PROVE  s \in Seq(A) /\ Len(s) = n
<1>1. s \in Seq(A)
  BY SeqDef
<1>2. Len(s) \in Nat /\ 1..Len(s) = 1..n
  BY <1>1, LenProperties
<1>3. (Len(s) # 0 => Len(s) \in 1..n) /\ (n # 0 => n \in 1..Len(s))
  BY <1>2
<1>4. QED
  BY <1>1, <1>2, <1>3

\* The elements m to n of a sequence.
LEMMA Slice ==
  ASSUME NEW A, NEW s \in Seq(A), NEW m \in Nat \ {0}, NEW n \in Nat,
         n <= Len(s), m <= n + 1
  PROVE  /\ SubSeq(s, m, n) \in Seq(A)
         /\ Len(SubSeq(s, m, n)) = (n + 1) - m
         /\ \A i \in 1..(n + 1) - m : SubSeq(s, m, n)[i] = s[(m - 1) + i]
<1>1. Len(s) \in Nat
  BY LenProperties
<1>2. \A i \in m..n : s[i] \in A
  BY <1>1, ElementOfSeq
<1>3. /\ SubSeq(s, m, n) \in Seq(A)
      /\ Len(SubSeq(s, m, n)) = IF m <= n THEN n - m + 1 ELSE 0
      /\ \A i \in 1..n - m + 1 : SubSeq(s, m, n)[i] = s[m + i - 1]
  BY <1>2, SubSeqProperties
<1>4. (n + 1) - m = n - m + 1 /\ (IF m <= n THEN n - m + 1 ELSE 0) = n - m + 1
  OBVIOUS
<1>5. \A i \in 1..n - m + 1 : (m - 1) + i = m + i - 1
  OBVIOUS
<1>6. QED
  BY <1>3, <1>4, <1>5

\* The last element of a sequence replaced by another.
LEMMA ReplaceLast ==
  ASSUME NEW A, NEW s \in Seq(A), s # << >>, NEW e \in A
  PROVE  /\ Append(Front(s), e) \in Seq(A)
         /\ Len(Append(Front(s), e)) = Len(s)
         /\ \A i \in 1..Len(s) : Append(Front(s), e)[i]
                                  = IF i = Len(s) THEN e ELSE s[i]
<1>1. Len(s) \in Nat \ {0}
  BY EmptySeq
<1>2. Len(s) - 1 \in Nat /\ Len(s) - 1 <= Len(s) /\ (Len(s) - 1) + 1 - 1 = Len(s) - 1
  BY <1>1
<1>3. /\ Front(s) \in Seq(A) /\ Len(Front(s)) = Len(s) - 1
      /\ \A i \in 1..Len(s) - 1 : Front(s)[i] = s[i]
  BY <1>1, <1>2, Slice DEF Front
<1>4. QED
  BY <1>1, <1>3, AppendProperties

-----------------------------------------------------------------------------
(* The first occurrence of an element removed.                             *)

\* From a sequence without duplicates exactly that element goes, and the last
\* element stays the last unless it is the one removed.
LEMMA RemoveFirstProperties ==
  ASSUME NEW A, NEW s \in Seq(A), NEW e, IsInjective(s)
  PROVE  /\ RemoveFirst(s, e) \in Seq(A)
         /\ IsInjective(RemoveFirst(s, e))
         /\ Range(RemoveFirst(s, e)) = Range(s) \ {e}
         /\ s # << >> /\ Last(s) # e => Last(RemoveFirst(s, e)) = Last(s)
<1>1. Len(s) \in Nat /\ DOMAIN s = 1..Len(s)
  BY LenProperties
<1>2. CASE ~\E i \in 1..Len(s) : s[i] = e
  <2>1. RemoveFirst(s, e) = s
    BY <1>2 DEF RemoveFirst
  <2>2. e \notin Range(s)
    BY <1>1, <1>2 DEF Range
  <2>3. QED
    BY <2>1, <2>2
<1>3. CASE \E i \in 1..Len(s) : s[i] = e
  <2>1. PICK k \in 1..Len(s) : s[k] = e
    BY <1>3
  <2> DEFINE I == {i \in 1..Len(s) : s[i] = e}
             p == SubSeq(s, 1, k - 1)
             q == SubSeq(s, k + 1, Len(s))
             r == p \o q
  <2>2. I = {k}
    BY <1>1, <2>1 DEF IsInjective
  <2>3. SelectInSeq(s, LAMBDA v : v = e) = k
    <3>1. Min({k}) = k
      BY <2>1 DEF Min
    <3>2. QED
      BY <2>2, <3>1 DEF SelectInSeq
  <2>4. RemoveFirst(s, e) = r
    BY <1>3, <2>3 DEF RemoveFirst, RemoveAt
  <2>5. k \in Nat \ {0} /\ k <= Len(s) /\ k - 1 \in Nat
    BY <1>1, <2>1
  <2>6. /\ p \in Seq(A) /\ Len(p) = k - 1
        /\ \A i \in 1..k - 1 : p[i] = s[i]
    BY <1>1, <2>5, Slice
  <2>7. /\ q \in Seq(A) /\ Len(q) = Len(s) - k
        /\ \A i \in 1..Len(s) - k : q[i] = s[k + i]
    <3>1. /\ k + 1 \in Nat \ {0} /\ k + 1 <= Len(s) + 1 /\ Len(s) <= Len(s)
          /\ (Len(s) + 1) - (k + 1) = Len(s) - k
          /\ (k + 1) - 1 = k
      BY <1>1, <2>5
    <3>2. /\ q \in Seq(A) /\ Len(q) = (Len(s) + 1) - (k + 1)
          /\ \A i \in 1..(Len(s) + 1) - (k + 1) : q[i] = s[((k + 1) - 1) + i]
      BY <1>1, <3>1, Slice
    <3>3. QED
      BY <3>1, <3>2
  <2>8. /\ r \in Seq(A)
        /\ Len(r) = Len(s) - 1
        /\ \A i \in 1..Len(s) - 1 : r[i] = IF i < k THEN s[i] ELSE s[i + 1]
    <3>0. r = p \o q
      OBVIOUS
    <3> HIDE DEF p, q, r
    <3>1. /\ r \in Seq(A)
          /\ Len(r) = Len(p) + Len(q)
          /\ \A i \in 1..Len(p) + Len(q) :
               r[i] = IF i <= Len(p) THEN p[i] ELSE q[i - Len(p)]
      BY <2>6, <2>7, <3>0, ConcatProperties
    <3>2. ASSUME NEW i \in 1..Len(s) - 1
          PROVE  r[i] = IF i < k THEN s[i] ELSE s[i + 1]
      <4>1b. i \in 1..Len(p) + Len(q) /\ (i < k <=> i <= Len(p))
        BY <1>1, <2>5, <2>6, <2>7
      <4>1a. r[i] = IF i <= Len(p) THEN p[i] ELSE q[i - Len(p)]
        BY <3>1, <4>1b
      <4>1. CASE i < k
        <5>1. i \in 1..k - 1
          BY <2>5, <4>1
        <5>2. QED
          BY <2>6, <4>1b, <4>1a, <4>1, <5>1
      <4>2. CASE ~(i < k)
        <5>1. i - (k - 1) \in 1..Len(s) - k /\ k + (i - (k - 1)) = i + 1
          BY <1>1, <2>5, <4>2
        <5>2. r[i] = q[i - (k - 1)]
          BY <2>6, <4>1b, <4>1a, <4>2
        <5>3. QED
          BY <2>7, <4>2, <5>1, <5>2
      <4>3. QED
        BY <4>1, <4>2
    <3>3. QED
      BY <1>1, <2>5, <2>6, <2>7, <3>1, <3>2
  <2> HIDE DEF r
  <2>9. DOMAIN r = 1..Len(s) - 1
    BY <2>8, LenProperties
  <2>10. IsInjective(r)
    <3>1. ASSUME NEW a \in 1..Len(s) - 1, NEW b \in 1..Len(s) - 1, r[a] = r[b]
          PROVE  a = b
      <4>1. s[IF a < k THEN a ELSE a + 1] = s[IF b < k THEN b ELSE b + 1]
        BY <2>8, <3>1
      <4>2. /\ (IF a < k THEN a ELSE a + 1) \in 1..Len(s)
            /\ (IF b < k THEN b ELSE b + 1) \in 1..Len(s)
        BY <1>1, <2>5
      <4>3. (IF a < k THEN a ELSE a + 1) = (IF b < k THEN b ELSE b + 1)
        BY <1>1, <4>1, <4>2 DEF IsInjective
      <4>4. QED
        BY <2>5, <4>3
    <3>2. QED
      BY <2>9, <3>1 DEF IsInjective
  <2>11. Range(r) = Range(s) \ {e}
    <3>1. ASSUME NEW i \in 1..Len(s) - 1 PROVE r[i] \in Range(s) \ {e}
      <4>1. (IF i < k THEN i ELSE i + 1) \in 1..Len(s) \ {k}
        BY <1>1, <2>1
      <4>2. r[i] = s[IF i < k THEN i ELSE i + 1]
        BY <2>8
      <4>3. QED
        BY <1>1, <2>2, <4>1, <4>2 DEF Range
    <3>2. ASSUME NEW i \in 1..Len(s), s[i] # e PROVE s[i] \in Range(r)
      <4>1. CASE i < k
        BY <1>1, <2>5, <2>8, <2>9, <4>1 DEF Range
      <4>2. CASE i > k
        <5>1. i - 1 \in 1..Len(s) - 1 /\ ~(i - 1 < k) /\ (i - 1) + 1 = i
          BY <1>1, <2>5, <4>2
        <5>2. r[i - 1] = s[i]
          BY <2>8, <5>1
        <5>3. QED
          BY <2>9, <5>1, <5>2 DEF Range
      <4>3. QED
        BY <1>1, <2>1, <2>5, <3>2, <4>1, <4>2
    <3>3. QED
      BY <1>1, <2>9, <3>1, <3>2 DEF Range
  <2>12. ASSUME s # << >>, Last(s) # e PROVE Last(r) = Last(s)
    <3>1. k # Len(s)
      BY <2>1, <2>12 DEF Last
    <3>2. Len(s) - 1 \in 1..Len(s) - 1 /\ ~(Len(s) - 1 < k)
      <4> HIDE DEF I, p, q
      <4>1. \A m, n \in Nat : m <= n /\ m # n => m < n
        OBVIOUS
      <4>2. k < Len(s)
        BY <1>1, <2>5, <3>1, <4>1
      <4>3. QED
        BY <1>1, <2>5, <4>2
    <3>3. r[Len(s) - 1] = s[Len(s)]
      BY <1>1, <2>8, <3>2
    <3>4. QED
      BY <2>8, <3>3 DEF Last
  <2>13. QED
    BY <2>4, <2>8, <2>10, <2>11, <2>12
<1>4. QED
  BY <1>2, <1>3

-----------------------------------------------------------------------------
(* Prefixes and suffixes.                                                  *)

\* What is appended to leaves a prefix.
LEMMA PrefixOfConcat ==
  ASSUME NEW A, NEW s \in Seq(A), NEW e \in Seq(A)
  PROVE  /\ IsPrefix(s, s \o e)
         /\ e # << >> => IsStrictPrefix(s, s \o e)
<1>1. Len(s) \in Nat /\ Len(e) \in Nat
  BY LenProperties
<1>2. /\ s \o e \in Seq(A) /\ Len(s \o e) = Len(s) + Len(e)
      /\ \A i \in 1..Len(s) + Len(e) :
           (s \o e)[i] = IF i <= Len(s) THEN s[i] ELSE e[i - Len(s)]
  BY ConcatProperties
<1>3. SubSeq(s, 1, Len(s)) = SubSeq(s \o e, 1, Len(s))
  <2> DEFINE a == SubSeq(s, 1, Len(s))
             b == SubSeq(s \o e, 1, Len(s))
  <2>1. /\ a \in Seq(A) /\ Len(a) = Len(s)
        /\ \A i \in 1..Len(s) : a[i] = s[i]
    BY <1>1, Slice
  <2>2. /\ b \in Seq(A) /\ Len(b) = Len(s)
        /\ \A i \in 1..Len(s) : b[i] = (s \o e)[i]
    <3>1. Len(s) <= Len(s \o e) /\ (Len(s) + 1) - 1 = Len(s) /\ 1 <= Len(s) + 1
          /\ 1 \in Nat \ {0} /\ \A i \in 1..Len(s) : (1 - 1) + i = i
      BY <1>1, <1>2
    <3>2. /\ b \in Seq(A) /\ Len(b) = (Len(s) + 1) - 1
          /\ \A i \in 1..(Len(s) + 1) - 1 : b[i] = (s \o e)[(1 - 1) + i]
      BY <1>1, <1>2, <3>1, Slice
    <3>3. QED
      BY <3>1, <3>2
  <2> HIDE DEF a, b
  <2>3. \A i \in 1..Len(s) : a[i] = b[i]
    BY <1>1, <1>2, <2>1, <2>2
  <2>4. a = b
    BY <2>1, <2>2, <2>3, SeqEqual
  <2>5. QED
    BY <2>4 DEF a, b
<1>4. e # << >> => s # s \o e
  <2>1. e # << >> => Len(e) # 0
    BY EmptySeq
  <2>2. Len(s) # Len(s) + Len(e) \/ Len(e) = 0
    BY <1>1
  <2>3. QED
    BY <1>2, <2>1, <2>2
<1>5. QED
  BY <1>1, <1>2, <1>3, <1>4 DEF IsPrefix, IsStrictPrefix

LEMMA ReverseProperties ==
  ASSUME NEW A, NEW s \in Seq(A)
  PROVE  /\ Reverse(s) \in Seq(A) /\ Len(Reverse(s)) = Len(s)
         /\ \A i \in 1..Len(s) : Reverse(s)[i] = s[(Len(s) - i) + 1]
<1>1. Len(s) \in Nat /\ \A i \in 1..Len(s) : s[i] \in A
  BY LenProperties, ElementOfSeq
<1>2. \A i \in 1..Len(s) : (Len(s) - i) + 1 \in 1..Len(s)
  BY <1>1
<1>3. Reverse(s) \in [1..Len(s) -> A]
  BY <1>1, <1>2 DEF Reverse
<1>4. Reverse(s) \in Seq(A)
  BY <1>1, <1>3, FunctionIsSeq
<1>5. Len(Reverse(s)) = Len(s)
  BY <1>1, <1>3, FunctionIsSeq
<1>6. QED
  BY <1>1, <1>2, <1>4, <1>5 DEF Reverse

\* What is prepended to leaves a suffix.
LEMMA SuffixOfConcat ==
  ASSUME NEW A, NEW p \in Seq(A), NEW s \in Seq(A)
  PROVE  IsSuffix(s, p \o s)
<1> DEFINE t == p \o s
           a == SubSeq(Reverse(s), 1, Len(s))
           b == SubSeq(Reverse(t), 1, Len(s))
<1>1. Len(s) \in Nat /\ Len(p) \in Nat
  BY LenProperties
<1>2. /\ t \in Seq(A) /\ Len(t) = Len(p) + Len(s)
      /\ \A i \in 1..Len(p) + Len(s) : t[i] = IF i <= Len(p) THEN p[i] ELSE s[i - Len(p)]
  BY ConcatProperties
<1>3. /\ Reverse(s) \in Seq(A) /\ Len(Reverse(s)) = Len(s)
      /\ \A i \in 1..Len(s) : Reverse(s)[i] = s[(Len(s) - i) + 1]
  BY ReverseProperties
<1> HIDE DEF t
<1>4. /\ Reverse(t) \in Seq(A) /\ Len(Reverse(t)) = Len(t)
      /\ \A i \in 1..Len(t) : Reverse(t)[i] = t[(Len(t) - i) + 1]
  BY <1>2, ReverseProperties
<1>5. /\ a \in Seq(A) /\ Len(a) = Len(s) /\ \A i \in 1..Len(s) : a[i] = Reverse(s)[i]
  BY <1>1, <1>3, Slice
<1>6. /\ b \in Seq(A) /\ Len(b) = Len(s) /\ \A i \in 1..Len(s) : b[i] = Reverse(t)[i]
  <2>1. Len(s) <= Len(Reverse(t)) /\ (Len(s) + 1) - 1 = Len(s) /\ 1 <= Len(s) + 1
        /\ 1 \in Nat \ {0} /\ \A i \in 1..Len(s) : (1 - 1) + i = i
    BY <1>1, <1>2, <1>4
  <2>2. /\ b \in Seq(A) /\ Len(b) = (Len(s) + 1) - 1
        /\ \A i \in 1..(Len(s) + 1) - 1 : b[i] = Reverse(t)[(1 - 1) + i]
    BY <1>1, <1>4, <2>1, Slice
  <2>3. QED
    BY <2>1, <2>2
<1> HIDE DEF a, b
<1>7. ASSUME NEW i \in 1..Len(s) PROVE a[i] = b[i]
  <2>1. a[i] = s[(Len(s) - i) + 1]
    BY <1>3, <1>5
  <2>2. i \in 1..Len(t) /\ (Len(t) - i) + 1 \in 1..Len(p) + Len(s)
        /\ ~((Len(t) - i) + 1 <= Len(p)) /\ ((Len(t) - i) + 1) - Len(p) = (Len(s) - i) + 1
    BY <1>1, <1>2
  <2>3. b[i] = t[(Len(t) - i) + 1]
    BY <1>4, <1>6, <2>2
  <2>4. t[(Len(t) - i) + 1] = s[((Len(t) - i) + 1) - Len(p)]
    BY <1>2, <2>2
  <2>5. QED
    BY <2>1, <2>2, <2>3, <2>4
<1>8. a = b
  BY <1>5, <1>6, <1>7, SeqEqual
<1>9. Len(s) <= Len(t)
  BY <1>1, <1>2
<1>10. SubSeq(Reverse(s), 1, Len(Reverse(s))) = SubSeq(Reverse(t), 1, Len(Reverse(s)))
  BY <1>3, <1>8 DEF a, b
<1>11. IsSuffix(s, t)
  BY <1>3, <1>4, <1>9, <1>10 DEF IsSuffix, IsPrefix
<1>12. QED
  BY <1>11 DEF t

-----------------------------------------------------------------------------
(* The concatenation of a sequence of sequences.                           *)

\* The recursive function FlattenSeq is defined by.
IsFlat(f, s, n) ==
  f = [i \in 1..n |-> IF i = 1 THEN s[i] ELSE f[i - 1] \o s[i]]

LEMMA FlatExists ==
  ASSUME NEW s
  PROVE  \A n \in Nat : \E f : IsFlat(f, s, n)
<1> DEFINE G == {n \in Nat : \E f : IsFlat(f, s, n)}
<1>1. 0 \in G
  <2>1. IsFlat([i \in 1..0 |-> s], s, 0)
    BY DEF IsFlat
  <2>2. QED
    BY <2>1
<1>2. ASSUME NEW n \in Nat, n \in G PROVE n + 1 \in G
  <2>1. PICK f : IsFlat(f, s, n)
    BY <1>2
  <2> DEFINE Body(g, i) == IF i = 1 THEN s[i] ELSE g[i - 1] \o s[i]
             g == [i \in 1..(n + 1) |-> IF i <= n THEN f[i] ELSE Body(f, i)]
  <2>2. ASSUME NEW i \in 1..(n + 1) PROVE g[i] = Body(g, i)
    <3>1. i # 1 => i - 1 \in 1..(n + 1) /\ i - 1 <= n
      OBVIOUS
    <3>2. i # 1 => g[i - 1] = f[i - 1]
      BY <3>1
    <3>3. CASE i <= n
      <4>1. i \in 1..n
        BY <3>3
      <4>2. f[i] = Body(f, i)
        BY <2>1, <4>1 DEF IsFlat
      <4>3. g[i] = f[i]
        BY <3>3
      <4> HIDE DEF g
      <4>4. QED
        BY <3>2, <4>2, <4>3
    <3>4. CASE ~(i <= n)
      <4>1. g[i] = Body(f, i)
        BY <3>4
      <4> HIDE DEF g
      <4>2. QED
        BY <3>2, <4>1
    <3>5. QED
      BY <3>3, <3>4
  <2>3. g = [i \in 1..(n + 1) |-> g[i]]
    OBVIOUS
  <2> HIDE DEF g
  <2>4. IsFlat(g, s, n + 1)
    BY <2>2, <2>3 DEF IsFlat
  <2>5. QED
    BY <2>4
<1> HIDE DEF G
<1>3. \A n \in Nat : n \in G
  BY <1>1, <1>2, SetInduction
<1>4. QED
  BY <1>3 DEF G

LEMMA FlattenUnfolds ==
  ASSUME NEW A, NEW s \in Seq(Seq(A)), s # << >>
  PROVE  /\ Len(s) \in Nat \ {0} /\ \A i \in 1..Len(s) : s[i] \in Seq(A)
         /\ \E f : /\ FlattenSeq(s) = f[Len(s)]
                   /\ f[1] = s[1]
                   /\ \A i \in 2..Len(s) : f[i] = f[i - 1] \o s[i]
<1>1. Len(s) \in Nat \ {0}
  BY EmptySeq
<1>2. \A i \in 1..Len(s) : s[i] \in Seq(A)
  BY ElementOfSeq
<1> DEFINE f == CHOOSE f : IsFlat(f, s, Len(s))
<1>3. IsFlat(f, s, Len(s))
  BY <1>1, FlatExists
<1>4. FlattenSeq(s) = f[Len(s)]
  BY <1>1 DEF FlattenSeq, IsFlat
<1> HIDE DEF f
<1>5. \A i \in 1..Len(s) : f[i] = IF i = 1 THEN s[i] ELSE f[i - 1] \o s[i]
  BY <1>3 DEF IsFlat
<1>6. f[1] = s[1] /\ \A i \in 2..Len(s) : f[i] = f[i - 1] \o s[i]
  <2>1. 1 \in 1..Len(s) /\ \A i \in 2..Len(s) : i \in 1..Len(s) /\ i # 1
    BY <1>1
  <2>2. f[1] = s[1]
    BY <1>5, <2>1
  <2>3. ASSUME NEW i \in 2..Len(s) PROVE f[i] = f[i - 1] \o s[i]
    <3>1. i \in 1..Len(s) /\ i # 1
      BY <2>1
    <3>2. f[i] = IF i = 1 THEN s[i] ELSE f[i - 1] \o s[i]
      BY <1>5, <3>1
    <3>3. QED
      BY <3>1, <3>2
  <2>4. QED
    BY <2>2, <2>3
<1>7. QED
  BY <1>1, <1>2, <1>4, <1>6

LEMMA FlattenEmpty == FlattenSeq(<< >>) = << >>
<1>1. Len(<< >>) = 0
  BY EmptySeq
<1>2. QED
  BY <1>1 DEF FlattenSeq

\* The concatenation of sequences over A is one, and it is no shorter than the
\* number of its parts times a length that each of them has.
LEMMA FlattenTyped ==
  ASSUME NEW A, NEW s \in Seq(Seq(A))
  PROVE  FlattenSeq(s) \in Seq(A)
<1>1. CASE s = << >>
  BY <1>1, FlattenEmpty, EmptySeq
<1>2. CASE s # << >>
  <2>1. /\ Len(s) \in Nat \ {0} /\ \A i \in 1..Len(s) : s[i] \in Seq(A)
        /\ \E f : /\ FlattenSeq(s) = f[Len(s)]
                  /\ f[1] = s[1]
                  /\ \A i \in 2..Len(s) : f[i] = f[i - 1] \o s[i]
    BY <1>2, FlattenUnfolds
  <2>2. PICK f : /\ FlattenSeq(s) = f[Len(s)]
                 /\ f[1] = s[1]
                 /\ \A i \in 2..Len(s) : f[i] = f[i - 1] \o s[i]
    BY <2>1
  <2> DEFINE G == {n \in Nat : n + 1 \in 1..Len(s) => f[n + 1] \in Seq(A)}
  <2>3. 0 \in G
    BY <2>1, <2>2
  <2>4. ASSUME NEW n \in Nat, n \in G PROVE n + 1 \in G
    <3>1. SUFFICES ASSUME (n + 1) + 1 \in 1..Len(s) PROVE f[(n + 1) + 1] \in Seq(A)
      OBVIOUS
    <3>2. n + 1 \in 1..Len(s) /\ (n + 1) + 1 \in 2..Len(s) /\ ((n + 1) + 1) - 1 = n + 1
      BY <2>1, <3>1
    <3>3. f[(n + 1) + 1] = f[n + 1] \o s[(n + 1) + 1]
      BY <2>2, <3>2
    <3>4. f[n + 1] \in Seq(A) /\ s[(n + 1) + 1] \in Seq(A)
      BY <2>1, <2>4, <3>1, <3>2
    <3>5. QED
      BY <3>3, <3>4, ConcatProperties
  <2> HIDE DEF G
  <2>5. \A n \in Nat : n \in G
    BY <2>3, <2>4, SetInduction
  <2>6. Len(s) - 1 \in Nat /\ (Len(s) - 1) + 1 = Len(s) /\ Len(s) \in 1..Len(s)
    BY <2>1
  <2>7. f[Len(s)] \in Seq(A)
    BY <2>5, <2>6 DEF G
  <2>8. QED
    BY <2>2, <2>7
<1>3. QED
  BY <1>1, <1>2

LEMMA FlattenLength ==
  ASSUME NEW A, NEW s \in Seq(Seq(A)), NEW m \in Nat,
         \A i \in 1..Len(s) : Len(s[i]) >= m
  PROVE  Len(FlattenSeq(s)) >= Len(s) * m
<1>1. CASE s = << >>
  BY <1>1, FlattenEmpty, EmptySeq
<1>2. CASE s # << >>
  <2>1. /\ Len(s) \in Nat \ {0} /\ \A i \in 1..Len(s) : s[i] \in Seq(A)
        /\ \E f : /\ FlattenSeq(s) = f[Len(s)]
                  /\ f[1] = s[1]
                  /\ \A i \in 2..Len(s) : f[i] = f[i - 1] \o s[i]
    BY <1>2, FlattenUnfolds
  <2>2. PICK f : /\ FlattenSeq(s) = f[Len(s)]
                 /\ f[1] = s[1]
                 /\ \A i \in 2..Len(s) : f[i] = f[i - 1] \o s[i]
    BY <2>1
  <2> DEFINE G == {n \in Nat : n + 1 \in 1..Len(s) =>
                                 f[n + 1] \in Seq(A) /\ Len(f[n + 1]) >= (n + 1) * m}
  <2>3. 0 \in G
    <3>1. 1 \in 1..Len(s) /\ 1 * m = m /\ 0 + 1 = 1
      BY <2>1
    <3>2. f[1] \in Seq(A) /\ Len(f[1]) >= 1 * m
      BY <2>1, <2>2, <3>1
    <3>3. QED
      BY <3>1, <3>2
  <2>4. ASSUME NEW n \in Nat, n \in G PROVE n + 1 \in G
    <3>1. SUFFICES ASSUME (n + 1) + 1 \in 1..Len(s)
                   PROVE  /\ f[(n + 1) + 1] \in Seq(A)
                          /\ Len(f[(n + 1) + 1]) >= ((n + 1) + 1) * m
      OBVIOUS
    <3>2. n + 1 \in 1..Len(s) /\ (n + 1) + 1 \in 2..Len(s) /\ ((n + 1) + 1) - 1 = n + 1
      BY <2>1, <3>1
    <3>3. f[(n + 1) + 1] = f[n + 1] \o s[(n + 1) + 1]
      BY <2>2, <3>2
    <3>4. /\ f[n + 1] \in Seq(A) /\ s[(n + 1) + 1] \in Seq(A)
          /\ Len(f[n + 1]) >= (n + 1) * m /\ Len(s[(n + 1) + 1]) >= m
      BY <2>1, <2>4, <3>1, <3>2
    <3>5. /\ f[(n + 1) + 1] \in Seq(A)
          /\ Len(f[(n + 1) + 1]) = Len(f[n + 1]) + Len(s[(n + 1) + 1])
          /\ Len(f[n + 1]) \in Nat /\ Len(s[(n + 1) + 1]) \in Nat
      BY <3>3, <3>4, ConcatProperties, LenProperties
    <3>6. ((n + 1) + 1) * m = (n + 1) * m + m /\ (n + 1) * m \in Nat
      OBVIOUS
    <3>7. \A a, b, c \in Nat : b >= a /\ c >= m => b + c >= a + m
      OBVIOUS
    <3>8. Len(f[n + 1]) + Len(s[(n + 1) + 1]) >= (n + 1) * m + m
      BY <3>4, <3>5, <3>6, <3>7
    <3>9. QED
      BY <3>5, <3>6, <3>8
  <2> HIDE DEF G
  <2>5. \A n \in Nat : n \in G
    BY <2>3, <2>4, SetInduction
  <2>6. Len(s) - 1 \in Nat /\ (Len(s) - 1) + 1 = Len(s) /\ Len(s) \in 1..Len(s)
    BY <2>1
  <2>7. Len(f[Len(s)]) >= Len(s) * m
    BY <2>5, <2>6 DEF G
  <2>8. QED
    BY <2>2, <2>7
<1>3. QED
  BY <1>1, <1>2

\* One more part, at the end.
LEMMA FlattenAppend ==
  ASSUME NEW A, NEW s \in Seq(Seq(A)), NEW e \in Seq(A)
  PROVE  FlattenSeq(Append(s, e)) = FlattenSeq(s) \o e
<1> DEFINE t == Append(s, e)
<1>1. /\ t \in Seq(Seq(A)) /\ Len(t) = Len(s) + 1 /\ Len(s) \in Nat
      /\ \A i \in 1..Len(s) : t[i] = s[i]
      /\ t[Len(s) + 1] = e
  BY AppendProperties, LenProperties
<1> HIDE DEF t
<1>2. t # << >>
  BY <1>1, EmptySeq
<1>3. PICK g : /\ FlattenSeq(t) = g[Len(t)] /\ g[1] = t[1]
               /\ \A i \in 2..Len(t) : g[i] = g[i - 1] \o t[i]
  BY <1>1, <1>2, FlattenUnfolds, ZenonT(60)
<1>4. CASE s = << >>
  <2>1. Len(s) = 0 /\ FlattenSeq(s) = << >>
    BY <1>4, EmptySeq, FlattenEmpty
  <2>2. FlattenSeq(t) = e
    BY <1>1, <1>3, <2>1
  <2>3. << >> \o e = e
    BY ConcatEmptySeq
  <2>4. QED
    BY <2>1, <2>2, <2>3 DEF t
<1>5. CASE s # << >>
  <2>1. Len(s) \in Nat \ {0}
    BY <1>5, EmptySeq
  <2>2. PICK f : /\ FlattenSeq(s) = f[Len(s)] /\ f[1] = s[1]
                 /\ \A i \in 2..Len(s) : f[i] = f[i - 1] \o s[i]
    BY <1>5, FlattenUnfolds
  <2> DEFINE G == {n \in Nat : n + 1 \in 1..Len(s) => f[n + 1] = g[n + 1]}
  <2>3. 0 \in G
    <3>1. 1 \in 1..Len(s) /\ 0 + 1 = 1
      BY <2>1
    <3>2. QED
      BY <1>1, <1>3, <2>2, <3>1
  <2>4. ASSUME NEW n \in Nat, n \in G PROVE n + 1 \in G
    <3>1. SUFFICES ASSUME (n + 1) + 1 \in 1..Len(s) PROVE f[(n + 1) + 1] = g[(n + 1) + 1]
      OBVIOUS
    <3>2. /\ n + 1 \in 1..Len(s) /\ (n + 1) + 1 \in 2..Len(s) /\ (n + 1) + 1 \in 2..Len(t)
          /\ ((n + 1) + 1) - 1 = n + 1
      BY <1>1, <3>1
    <3>3. /\ f[(n + 1) + 1] = f[n + 1] \o s[(n + 1) + 1]
          /\ g[(n + 1) + 1] = g[n + 1] \o t[(n + 1) + 1]
      BY <1>3, <2>2, <3>2
    <3>4. f[n + 1] = g[n + 1] /\ t[(n + 1) + 1] = s[(n + 1) + 1]
      BY <1>1, <2>4, <3>1, <3>2
    <3>5. QED
      BY <3>3, <3>4
  <2> HIDE DEF G
  <2>5. \A n \in Nat : n \in G
    BY <2>3, <2>4, SetInduction
  <2>6. Len(s) - 1 \in Nat /\ (Len(s) - 1) + 1 = Len(s) /\ Len(s) \in 1..Len(s)
    BY <2>1
  <2>7. g[Len(s)] = f[Len(s)]
    BY <2>5, <2>6 DEF G
  <2>8. Len(t) \in 2..Len(t) /\ Len(t) - 1 = Len(s)
    BY <1>1, <2>1
  <2>9. g[Len(t)] = g[Len(s)] \o t[Len(t)]
    BY <1>3, <2>8
  <2>10. QED
    BY <1>1, <1>3, <2>2, <2>7, <2>9 DEF t
<1>6. QED
  BY <1>4, <1>5

\* The first part and the rest.
LEMMA FlattenTail ==
  ASSUME NEW A, NEW s \in Seq(Seq(A)), s # << >>
  PROVE  FlattenSeq(s) = Head(s) \o FlattenSeq(Tail(s))
<1> DEFINE t == Tail(s)
           h == Head(s)
<1>1. /\ Len(s) \in Nat \ {0} /\ \A i \in 1..Len(s) : s[i] \in Seq(A)
      /\ \E f : /\ FlattenSeq(s) = f[Len(s)]
                /\ f[1] = s[1]
                /\ \A i \in 2..Len(s) : f[i] = f[i - 1] \o s[i]
  BY FlattenUnfolds
<1>2. PICK f : /\ FlattenSeq(s) = f[Len(s)] /\ f[1] = s[1]
               /\ \A i \in 2..Len(s) : f[i] = f[i - 1] \o s[i]
  BY <1>1
<1>3. /\ h \in Seq(A) /\ t \in Seq(Seq(A)) /\ Len(t) = Len(s) - 1
      /\ \A i \in 1..Len(t) : t[i] = s[i + 1]
  BY HeadTailProperties
<1>4. h = s[1]
  OBVIOUS
<1> HIDE DEF h, t
<1>5. CASE t = << >>
  <2>1. Len(s) = 1
    BY <1>1, <1>3, <1>5, EmptySeq
  <2>2. h \o << >> = h
    BY <1>3, ConcatEmptySeq
  <2>3. QED
    BY <1>2, <1>4, <1>5, <2>1, <2>2, FlattenEmpty DEF h, t
<1>6. CASE t # << >>
  <2>1. Len(t) \in Nat \ {0}
    BY <1>3, <1>6, EmptySeq
  <2>2. PICK g : /\ FlattenSeq(t) = g[Len(t)] /\ g[1] = t[1]
                 /\ \A i \in 2..Len(t) : g[i] = g[i - 1] \o t[i]
    BY <1>3, <1>6, FlattenUnfolds, ZenonT(60)
  <2>3. \A i \in 1..Len(t) : t[i] \in Seq(A)
    BY <1>3, ElementOfSeq
  <2> DEFINE G == {n \in Nat : n + 1 \in 1..Len(t) =>
                     g[n + 1] \in Seq(A) /\ f[(n + 1) + 1] = h \o g[n + 1]}
  <2>4. 0 \in G
    <3>1. 1 \in 1..Len(t) /\ 0 + 1 = 1 /\ 2 \in 2..Len(s) /\ 2 - 1 = 1 /\ 1 + 1 = 2
      BY <1>1, <1>3, <2>1
    <3>2. f[2] = f[1] \o s[2] /\ t[1] = s[2]
      BY <1>2, <1>3, <3>1
    <3>3. QED
      BY <1>2, <1>4, <2>2, <2>3, <3>1, <3>2
  <2>5. ASSUME NEW n \in Nat, n \in G PROVE n + 1 \in G
    <3> DEFINE k == (n + 1) + 1
    <3>1. SUFFICES ASSUME k \in 1..Len(t)
                   PROVE  g[k] \in Seq(A) /\ f[k + 1] = h \o g[k]
      OBVIOUS
    <3>2. /\ n + 1 \in 1..Len(t) /\ k \in 2..Len(t) /\ k + 1 \in 2..Len(s)
          /\ k - 1 = n + 1 /\ (k + 1) - 1 = k
      BY <1>1, <1>3, <3>1
    <3>3. g[n + 1] \in Seq(A) /\ f[k] = h \o g[n + 1]
      BY <2>5, <3>2
    <3> HIDE DEF k
    <3>4. g[k] = g[n + 1] \o t[k]
      BY <2>2, <3>2
    <3>5. f[k + 1] = f[k] \o s[k + 1] /\ t[k] = s[k + 1] /\ t[k] \in Seq(A)
      BY <1>2, <1>3, <2>3, <3>1, <3>2
    <3>6. f[k + 1] = (h \o g[n + 1]) \o t[k]
      BY <3>3, <3>5
    <3>7. (h \o g[n + 1]) \o t[k] = h \o (g[n + 1] \o t[k])
      <4>1. \A x, y, z \in Seq(A) : (x \o y) \o z = x \o (y \o z)
        BY ConcatAssociative, SMTT(30)
      <4>2. h \in Seq(A) /\ g[n + 1] \in Seq(A) /\ t[k] \in Seq(A)
        BY <1>3, <3>3, <3>5
      <4>3. QED
        BY <4>1, <4>2
    <3>8. QED
      BY <3>3, <3>4, <3>5, <3>6, <3>7, ConcatProperties
  <2> HIDE DEF G
  <2>6. \A n \in Nat : n \in G
    BY <2>4, <2>5, SetInduction
  <2>7. Len(t) - 1 \in Nat /\ (Len(t) - 1) + 1 = Len(t) /\ Len(t) \in 1..Len(t)
        /\ Len(t) + 1 = Len(s)
    BY <1>1, <1>3, <2>1
  <2>8. f[Len(s)] = h \o g[Len(t)]
    BY <2>6, <2>7 DEF G
  <2>9. QED
    BY <1>2, <2>2, <2>8 DEF h, t
<1>7. QED
  BY <1>5, <1>6

\* The concatenation of two sequences of sequences.
LEMMA FlattenConcat ==
  ASSUME NEW A, NEW s \in Seq(Seq(A)), NEW t \in Seq(Seq(A))
  PROVE  FlattenSeq(s \o t) = FlattenSeq(s) \o FlattenSeq(t)
<1> DEFINE G == {n \in Nat : \A u \in Seq(Seq(A)) : Len(u) = n =>
                   FlattenSeq(s \o u) = FlattenSeq(s) \o FlattenSeq(u)}
<1>1. FlattenSeq(s) \in Seq(A)
  BY FlattenTyped
<1>2. 0 \in G
  <2>1. ASSUME NEW u \in Seq(Seq(A)), Len(u) = 0
        PROVE  FlattenSeq(s \o u) = FlattenSeq(s) \o FlattenSeq(u)
    <3>1. u = << >> /\ s \o << >> = s
      BY <2>1, EmptySeq, ConcatEmptySeq
    <3>2. FlattenSeq(s) \o << >> = FlattenSeq(s)
      BY <1>1, ConcatEmptySeq
    <3>3. QED
      BY <3>1, <3>2, FlattenEmpty
  <2>2. QED
    BY <2>1
<1>3. ASSUME NEW n \in Nat, n \in G PROVE n + 1 \in G
  <2>1. ASSUME NEW u \in Seq(Seq(A)), Len(u) = n + 1
        PROVE  FlattenSeq(s \o u) = FlattenSeq(s) \o FlattenSeq(u)
    <3> DEFINE v == SubSeq(u, 1, n)
               e == u[n + 1]
    <3>1. v \in Seq(Seq(A)) /\ Len(v) = n /\ \A i \in 1..n : v[i] = u[i]
      <4>1. n <= Len(u) /\ 1 <= n + 1 /\ (n + 1) - 1 = n /\ \A i \in 1..n : (1 - 1) + i = i
        BY <2>1
      <4>2. /\ v \in Seq(Seq(A)) /\ Len(v) = (n + 1) - 1
            /\ \A i \in 1..(n + 1) - 1 : v[i] = u[(1 - 1) + i]
        BY <4>1, Slice
      <4>3. QED
        BY <4>1, <4>2
    <3>2. e \in Seq(A)
      BY <2>1, ElementOfSeq
    <3> HIDE DEF v, e
    <3>3. Append(v, e) = u
      <4>1. /\ Append(v, e) \in Seq(Seq(A)) /\ Len(Append(v, e)) = n + 1
            /\ \A i \in 1..n : Append(v, e)[i] = v[i]
            /\ Append(v, e)[n + 1] = e
        BY <3>1, <3>2, AppendProperties
      <4>2. ASSUME NEW i \in 1..n + 1 PROVE Append(v, e)[i] = u[i]
        BY <3>1, <4>1 DEF e
      <4>3. QED
        BY <2>1, <4>1, <4>2, SeqEqual
    <3>4. s \o v \in Seq(Seq(A)) /\ s \o Append(v, e) = Append(s \o v, e)
      <4>1. \A x \in Seq(Seq(A)), y \in Seq(Seq(A)), z \in Seq(Seq(A)) :
              (x \o y) \o z = x \o (y \o z)
        BY ConcatAssociative, Z3T(90)
      <4>2. /\ s \o v \in Seq(Seq(A)) /\ <<e>> \in Seq(Seq(A))
            /\ Append(v, e) = v \o <<e>> /\ Append(s \o v, e) = (s \o v) \o <<e>>
        <5>1. s \o v \in Seq(Seq(A))
          BY <3>1, ConcatProperties
        <5>2. <<e>> \in Seq(Seq(A))
          BY <3>2
        <5>3. Append(v, e) = v \o <<e>>
          BY <3>1, <3>2, AppendIsConcat
        <5>4. Append(s \o v, e) = (s \o v) \o <<e>>
          BY <3>2, <5>1, AppendIsConcat
        <5> QED
          BY <5>1, <5>2, <5>3, <5>4
      <4>3. PICK w \in Seq(Seq(A)) : w = <<e>>
        BY <4>2
      <4>4. (s \o v) \o w = s \o (v \o w)
        BY <3>1, <4>1, ZenonT(30)
      <4>5. QED
        BY <4>2, <4>3, <4>4
    <3>5. FlattenSeq(s \o v) = FlattenSeq(s) \o FlattenSeq(v)
      BY <1>3, <3>1
    <3>6. /\ FlattenSeq(Append(v, e)) = FlattenSeq(v) \o e
          /\ FlattenSeq(Append(s \o v, e)) = FlattenSeq(s \o v) \o e
      BY <3>1, <3>2, <3>4, FlattenAppend
    <3>7. FlattenSeq(v) \in Seq(A)
      BY <3>1, FlattenTyped
    <3>8. \A x \in Seq(A), y \in Seq(A), z \in Seq(A) : (x \o y) \o z = x \o (y \o z)
      BY ConcatAssociative, Z3T(30)
    <3>9. (FlattenSeq(s) \o FlattenSeq(v)) \o e = FlattenSeq(s) \o (FlattenSeq(v) \o e)
      BY <1>1, <3>2, <3>7, <3>8, ZenonT(30)
    <3>10. QED
      BY <3>3, <3>4, <3>5, <3>6, <3>9
  <2>2. QED
    BY <2>1
<1> HIDE DEF G
<1>4. \A n \in Nat : n \in G
  BY <1>2, <1>3, SetInduction
<1>5. Len(t) \in Nat
  BY LenProperties
<1>6. QED
  BY <1>4, <1>5 DEF G
=============================================================================
