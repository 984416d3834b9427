------------------------- MODULE EncryptedLogProofs -------------------------
(***************************************************************************)
(* Theorems about EncryptedLog, for every size of a block, of a record and *)
(* of the stream buffers, every set of passwords and every bound.          *)
(***************************************************************************)
EXTENDS EncryptedLog, SequenceLemmas

-----------------------------------------------------------------------------
(* Lengths of whole blocks.                                                *)

Whole(n) == \E q \in Nat : n = q * B

LEMMA Sizes == /\ B \in Nat /\ B >= 1 /\ SINGLE_LOG_SIZE \in Nat /\ SINGLE_LOG_SIZE >= 1
               /\ IoCap \in Nat /\ BUFSIZ \in Nat /\ MaxRecords \in Nat
               /\ MaxZeros \in Nat /\ MaxLosses \in Nat /\ MaxFaults \in Nat
BY EncryptedLogAssumption

LEMMA WholeZero == Whole(0)
BY Sizes DEF Whole

LEMMA WholeSum ==
  ASSUME NEW m \in Nat, NEW n \in Nat, Whole(m)
  PROVE  Whole(m + n) <=> Whole(n)
<1>1. PICK p \in Nat : m = p * B
  BY DEF Whole
<1>2. ASSUME Whole(n) PROVE Whole(m + n)
  <2>1. PICK q \in Nat : n = q * B
    BY <1>2 DEF Whole
  <2>2. p + q \in Nat /\ m + n = (p + q) * B
    BY <1>1, <2>1, Sizes
  <2>. QED  BY <2>2 DEF Whole
<1>3. ASSUME Whole(m + n) PROVE Whole(n)
  <2>1. PICK q \in Nat : m + n = q * B
    BY <1>3 DEF Whole
  <2>2. n = (q - p) * B
    BY <1>1, <2>1, Sizes
  <2>3. q - p \in Nat
    <3>1. ASSUME q < p PROVE FALSE
      <4>1. PICK d \in Nat : p = q + d /\ d >= 1
        BY <3>1
      <4>2. d * B >= 1 /\ d * B \in Nat
        BY <4>1, Sizes
      <4>3. p * B = q * B + d * B
        BY <4>1, Sizes
      <4>. QED  BY <1>1, <2>1, <4>2, <4>3, Sizes
    <3>. QED  BY <3>1
  <2>. QED  BY <2>2, <2>3 DEF Whole
<1>. QED  BY <1>2, <1>3

\* Between two whole lengths there is room for a block.
LEMMA WholeStep ==
  ASSUME NEW m \in Nat, NEW n \in Nat, Whole(m), Whole(n), m < n
  PROVE  /\ m + B <= n /\ n - m \in Nat /\ n - m >= B
         /\ Whole(m + B) /\ Whole(n - B) /\ n - B \in Nat
<1>1. PICK p \in Nat : m = p * B
  BY DEF Whole
<1>2. PICK q \in Nat : n = q * B
  BY DEF Whole
<1>3. p < q
  <2>1. ASSUME q <= p PROVE FALSE
    <3>1. PICK d \in Nat : p = q + d
      BY <2>1
    <3>2. d * B \in Nat /\ p * B = q * B + d * B
      BY <3>1, Sizes
    <3>. QED  BY <1>1, <1>2, <3>2
  <2>. QED  BY <2>1
<1>4. PICK d \in Nat : q = p + 1 + d
  BY <1>3
<1>5. d * B \in Nat /\ q * B = p * B + B + d * B
  BY <1>4, Sizes
<1>6. m + B <= n /\ n - m \in Nat /\ n - m >= B /\ n - B \in Nat
  BY <1>1, <1>2, <1>5, Sizes
<1>7. p + 1 \in Nat /\ m + B = (p + 1) * B /\ q - 1 \in Nat /\ n - B = (q - 1) * B
  BY <1>1, <1>2, <1>3, Sizes
<1>. QED  BY <1>6, <1>7 DEF Whole

LEMMA WholeIsNoRemainder == ASSUME NEW n \in Nat PROVE Whole(n) <=> n % B = 0
<1>1. n = B * (n \div B) + (n % B) /\ n \div B \in Nat /\ n % B \in 0..B - 1
  BY Sizes
<1>2. ASSUME n % B = 0 PROVE Whole(n)
  <2>1. n = (n \div B) * B
    BY <1>1, <1>2, Sizes
  <2>. QED  BY <1>1, <2>1 DEF Whole
<1>3. ASSUME Whole(n), n % B # 0 PROVE FALSE
  <2>1. PICK m \in Nat, r \in Nat : n = m + r /\ Whole(m) /\ r \in 1..B - 1
    <3>1. PICK q \in Nat : q = n \div B
      BY <1>1
    <3>2. q * B \in Nat /\ n = q * B + (n % B) /\ n % B \in 1..B - 1
      BY <1>1, <1>3, <3>1, Sizes
    <3>3. Whole(q * B)
      BY DEF Whole
    <3>. QED  BY <3>2, <3>3
  <2>2. m < n /\ ~(m + B <= n)
    BY <2>1, Sizes
  <2>. QED  BY <1>3, <2>1, <2>2, WholeStep
<1>. QED  BY <1>2, <1>3

\* The blocks of a text: which block a place is in.
LEMMA PlaceInBlock ==
  ASSUME NEW n \in Nat, Whole(n), NEW o \in 1..B
  PROVE  ((n + o - 1) \div B) * B = n
<1>1. PICK q \in Nat : n = q * B
  BY DEF Whole
<1>2. PICK k \in Nat : k = (n + o - 1) \div B
  BY Sizes
<1>3. n + o - 1 \in Nat /\ n + o - 1 = B * k + ((n + o - 1) % B)
      /\ (n + o - 1) % B \in 0..B - 1
  BY <1>2, Sizes
<1>4. PICK r \in 0..B - 1 : q * B + (o - 1) = k * B + r
  <2>1. B * k = k * B
    BY Sizes
  <2>. QED  BY <1>1, <1>3, <2>1, Sizes
<1>5. o - 1 \in 0..B - 1
  BY Sizes
<1>6. Whole(k * B) /\ k * B \in Nat
  BY Sizes DEF Whole
<1>7. ~(n < k * B)
  <2>1. ASSUME n < k * B PROVE FALSE
    <3>1. n + B <= k * B
      BY <1>6, <2>1, WholeStep
    <3>. QED  BY <1>1, <1>4, <1>5, <1>6, <3>1, Sizes
  <2>. QED  BY <2>1
<1>8. ~(k * B < n)
  <2>1. ASSUME k * B < n PROVE FALSE
    <3>1. k * B + B <= n
      BY <1>6, <2>1, WholeStep
    <3>. QED  BY <1>1, <1>4, <1>5, <1>6, <3>1, Sizes
  <2>. QED  BY <2>1
<1>. QED  BY <1>2, <1>6, <1>7, <1>8

\* A length rounded up to whole blocks.
LEMMA RoundedUp ==
  ASSUME NEW n \in Nat \ {0}
  PROVE  /\ AES_EX(n) \in Nat /\ Whole(AES_EX(n)) /\ AES_EX(n) >= n
         /\ AES_EX(n) < n + B
<1>1. PICK x \in Nat : x = n + B - 1
  BY Sizes
<1>2. PICK k \in Nat : k = x \div B
  BY <1>1, Sizes
<1>3. x = B * k + (x % B) /\ x % B \in 0..B - 1
  BY <1>1, <1>2, Sizes
<1>4. B * k = k * B /\ k * B \in Nat
  BY Sizes
<1>5. AES_EX(n) = k * B
  BY <1>1, <1>2 DEF AES_EX
<1>6. k * B >= n /\ k * B < n + B
  BY <1>1, <1>3, <1>4, Sizes
<1>. QED  BY <1>4, <1>5, <1>6 DEF Whole

LEMMA RoundedMonotone ==
  ASSUME NEW m \in Nat \ {0}, NEW n \in Nat \ {0}, m <= n
  PROVE  AES_EX(m) <= AES_EX(n)
<1>1. /\ AES_EX(m) \in Nat /\ Whole(AES_EX(m)) /\ AES_EX(m) < m + B
      /\ AES_EX(n) \in Nat /\ Whole(AES_EX(n)) /\ AES_EX(n) >= n
  BY RoundedUp
<1>2. ASSUME AES_EX(n) < AES_EX(m) PROVE FALSE
  <2>1. AES_EX(n) + B <= AES_EX(m)
    BY <1>1, <1>2, WholeStep
  <2>. QED  BY <1>1, <2>1, Sizes
<1>. QED  BY <1>1, <1>2

-----------------------------------------------------------------------------
(* What is kept of a text: each block up to its first zero.                *)

Character == Nat \X Nat

LEMMA ZeroIsCharacter == NUL \in Character /\ Garbage \in Character
BY DEF NUL, Garbage, Character

LEMMA SliceAppend ==
  ASSUME NEW A, NEW s \in Seq(A), NEW n \in Nat, n + 1 <= Len(s)
  PROVE  /\ SubSeq(s, 1, n) \in Seq(A) /\ Len(SubSeq(s, 1, n)) = n
         /\ s[n + 1] \in A
         /\ SubSeq(s, 1, n + 1) = Append(SubSeq(s, 1, n), s[n + 1])
<1>1. Len(s) \in Nat /\ s[n + 1] \in A
  BY LenProperties, ElementOfSeq
<1>2. PICK k \in Nat : k = n + 1
  OBVIOUS
<1>3. ASSUME NEW m \in Nat, m <= Len(s)
      PROVE  /\ SubSeq(s, 1, m) \in Seq(A) /\ Len(SubSeq(s, 1, m)) = m
             /\ \A i \in 1..m : SubSeq(s, 1, m)[i] = s[i]
  <2>1. 1 <= m + 1 /\ (m + 1) - 1 = m /\ \A i \in 1..m : (1 - 1) + i = i
    OBVIOUS
  <2>2. /\ SubSeq(s, 1, m) \in Seq(A) /\ Len(SubSeq(s, 1, m)) = (m + 1) - 1
        /\ \A i \in 1..(m + 1) - 1 : SubSeq(s, 1, m)[i] = s[(1 - 1) + i]
    BY <1>3, <2>1, Slice
  <2>. QED  BY <2>1, <2>2
<1>4. PICK x \in Seq(A) : x = SubSeq(s, 1, n) /\ Len(x) = n /\ \A i \in 1..n : x[i] = s[i]
  <2>1. n <= Len(s)
    BY <1>1
  <2>2. /\ SubSeq(s, 1, n) \in Seq(A) /\ Len(SubSeq(s, 1, n)) = n
        /\ \A i \in 1..n : SubSeq(s, 1, n)[i] = s[i]
    BY <1>3, <2>1
  <2>. QED  BY <2>2
<1>5. PICK y \in Seq(A) : y = SubSeq(s, 1, k) /\ Len(y) = k /\ \A i \in 1..k : y[i] = s[i]
  BY <1>2, <1>3
<1>6. PICK e \in A : e = s[n + 1]
  BY <1>1
<1>7. /\ Append(x, e) \in Seq(A) /\ Len(Append(x, e)) = n + 1
      /\ \A i \in 1..n : Append(x, e)[i] = x[i]
      /\ Append(x, e)[n + 1] = e
  BY <1>4, AppendProperties
<1>8. \A i \in 1..k : Append(x, e)[i] = y[i]
  BY <1>2, <1>4, <1>5, <1>6, <1>7
<1>9. y = Append(x, e)
  BY <1>2, <1>5, <1>7, <1>8, SeqEqual
<1>. QED  BY <1>2, <1>4, <1>5, <1>6, <1>9

\* Nothing comes of the parts of a sequence that are empty.
LEMMA FlattenPadded ==
  ASSUME NEW A, NEW s \in Seq(Seq(A)), NEW m \in 0..Len(s),
         \A i \in 1..Len(s) : i > m => s[i] = << >>
  PROVE  FlattenSeq(s) = FlattenSeq(SubSeq(s, 1, m))
<1>. DEFINE P(n) == FlattenSeq(SubSeq(s, 1, n))
            G == {d \in Nat : m + d <= Len(s) => P(m + d) = P(m)}
<1>1. Len(s) \in Nat /\ m \in Nat
  BY LenProperties
<1>2. 0 \in G
  BY <1>1
<1>3. ASSUME NEW d \in Nat, d \in G PROVE d + 1 \in G
  <2>1. SUFFICES ASSUME m + (d + 1) <= Len(s) PROVE P(m + (d + 1)) = P(m)
    OBVIOUS
  <2>2. PICK n \in Nat : n = m + d /\ n + 1 = m + (d + 1)
    <3>1. m + d \in Nat /\ (m + d) + 1 = m + (d + 1)
      BY <1>1
    <3>. QED  BY <3>1
  <2>3. n + 1 <= Len(s) /\ n <= Len(s) /\ n + 1 > m /\ n + 1 \in 1..Len(s)
    BY <1>1, <2>1, <2>2
  <2>4. PICK x \in Seq(Seq(A)) : x = SubSeq(s, 1, n)
    BY <2>3, SliceAppend
  <2>5. PICK e \in Seq(A) : e = s[n + 1] /\ e = << >>
    BY <2>3, SliceAppend
  <2>6. SubSeq(s, 1, n + 1) = Append(x, e)
    BY <2>3, <2>4, <2>5, SliceAppend
  <2>7. FlattenSeq(Append(x, e)) = FlattenSeq(x) \o e
    BY FlattenAppend
  <2>8. FlattenSeq(x) \o << >> = FlattenSeq(x)
    BY FlattenTyped, ConcatEmptySeq
  <2>9. P(n + 1) = P(n)
    BY <2>4, <2>5, <2>6, <2>7, <2>8
  <2>10. P(n) = P(m)
    BY <1>3, <2>2, <2>3
  <2>. QED  BY <2>2, <2>9, <2>10
<1>. HIDE DEF G
<1>4. \A d \in Nat : d \in G
  BY <1>2, <1>3, SetInduction
<1>5. PICK d \in Nat : m + d = Len(s)
  <2>1. Len(s) - m \in Nat /\ m + (Len(s) - m) = Len(s)
    BY <1>1
  <2>. QED  BY <2>1
<1>6. P(Len(s)) = P(m)
  BY <1>1, <1>4, <1>5 DEF G
<1>7. SubSeq(s, 1, Len(s)) = s
  BY SubSeqFull
<1>. QED  BY <1>6, <1>7

\* The parts of one character each are the text.
LEMMA FlattenSingles ==
  ASSUME NEW A, NEW s \in Seq(A), NEW f \in Seq(Seq(A)), Len(f) = Len(s),
         \A i \in 1..Len(s) : f[i] = <<s[i]>>
  PROVE  FlattenSeq(f) = s
<1>. DEFINE P(n) == FlattenSeq(SubSeq(f, 1, n)) = SubSeq(s, 1, n)
            G == {n \in Nat : n <= Len(s) => P(n)}
<1>1. Len(s) \in Nat
  BY LenProperties
<1>2. 0 \in G
  <2>1. SubSeq(f, 1, 0) = << >> /\ SubSeq(s, 1, 0) = << >>
    BY SubSeqEmpty
  <2>. QED  BY <2>1, FlattenEmpty
<1>3. ASSUME NEW n \in Nat, n \in G PROVE n + 1 \in G
  <2>1. SUFFICES ASSUME n + 1 <= Len(s) PROVE P(n + 1)
    OBVIOUS
  <2>2. n <= Len(s) /\ n + 1 \in 1..Len(s) /\ n + 1 <= Len(f)
    BY <1>1, <2>1
  <2>3. PICK x \in Seq(Seq(A)), e \in Seq(A) :
          x = SubSeq(f, 1, n) /\ e = f[n + 1] /\ SubSeq(f, 1, n + 1) = Append(x, e)
    <3>1. /\ SubSeq(f, 1, n) \in Seq(Seq(A)) /\ f[n + 1] \in Seq(A)
          /\ SubSeq(f, 1, n + 1) = Append(SubSeq(f, 1, n), f[n + 1])
      BY <2>2, SliceAppend
    <3>. QED  BY <3>1
  <2>4. PICK y \in Seq(A), c \in A :
          y = SubSeq(s, 1, n) /\ c = s[n + 1] /\ SubSeq(s, 1, n + 1) = Append(y, c)
    <3>1. /\ SubSeq(s, 1, n) \in Seq(A) /\ s[n + 1] \in A
          /\ SubSeq(s, 1, n + 1) = Append(SubSeq(s, 1, n), s[n + 1])
      BY <2>1, SliceAppend
    <3>. QED  BY <3>1
  <2>5. e = <<c>>
    BY <2>2, <2>3, <2>4
  <2>6. FlattenSeq(Append(x, e)) = FlattenSeq(x) \o e
    BY FlattenAppend
  <2>7. FlattenSeq(x) = y
    BY <1>3, <2>2, <2>3, <2>4
  <2>8. y \o <<c>> = Append(y, c)
    BY AppendIsConcat
  <2>. QED  BY <2>3, <2>4, <2>5, <2>6, <2>7, <2>8
<1>. HIDE DEF G
<1>4. \A n \in Nat : n \in G
  BY <1>2, <1>3, SetInduction
<1>5. P(Len(s))
  <2>1. Len(s) \in G /\ Len(s) <= Len(s)
    BY <1>1, <1>4
  <2>. HIDE DEF P
  <2>. QED  BY <2>1 DEF G
<1>6. SubSeq(s, 1, Len(s)) = s /\ SubSeq(f, 1, Len(f)) = f
  BY SubSeqFull
<1>. QED  BY <1>5, <1>6

\* A zero stands in front of place i, or there, in the block of i.
Hidden(s, i) == \E j \in ((i - 1) \div B) * B + 1..i : s[j] = NUL

Marks(s) == [i \in DOMAIN s |-> IF Hidden(s, i) THEN << >> ELSE <<s[i]>>]

LEMMA KeptTyped ==
  ASSUME NEW A, NEW s \in Seq(A)
  PROVE  /\ Marks(s) \in Seq(Seq(A)) /\ Len(Marks(s)) = Len(s)
         /\ \A i \in 1..Len(s) : Marks(s)[i] = IF Hidden(s, i) THEN << >> ELSE <<s[i]>>
         /\ Kept(s) = FlattenSeq(Marks(s)) /\ Kept(s) \in Seq(A)
<1>1. Len(s) \in Nat /\ DOMAIN s = 1..Len(s) /\ \A i \in 1..Len(s) : s[i] \in A
  BY LenProperties, ElementOfSeq
<1>2. \A x \in A : <<x>> \in Seq(A) /\ << >> \in Seq(A)
  BY EmptySeq
<1>3. Marks(s) \in [1..Len(s) -> Seq(A)]
  BY <1>1, <1>2 DEF Marks
<1>4. Marks(s) \in Seq(Seq(A)) /\ Len(Marks(s)) = Len(s)
  BY <1>1, <1>3, FunctionIsSeq
<1>5. Kept(s) = FlattenSeq(Marks(s))
  BY DEF Kept, Marks, Hidden
<1>. QED  BY <1>1, <1>4, <1>5, FlattenTyped DEF Marks

LEMMA KeptNone == Kept(<< >>) = << >>
<1>1. PICK e \in Seq({}) : e = << >>
  BY EmptySeq
<1>2. Marks(e) \in Seq(Seq({})) /\ Len(Marks(e)) = Len(e) /\ Kept(e) = FlattenSeq(Marks(e))
  BY KeptTyped
<1>3. Marks(e) = << >>
  BY <1>1, <1>2, EmptySeq
<1>. QED  BY <1>1, <1>2, <1>3, FlattenEmpty

\* Each place in whole blocks is a place in one of them.
LEMMA PlaceOf ==
  ASSUME NEW m \in Nat, Whole(m), NEW i \in 1..m
  PROVE  \E n \in Nat, o \in 1..B : Whole(n) /\ n + B <= m /\ i = n + o
<1>1. PICK x \in Nat : x = i - 1
  OBVIOUS
<1>2. PICK k \in Nat : k = x \div B
  BY <1>1, Sizes
<1>3. x = B * k + (x % B) /\ x % B \in 0..B - 1
  BY <1>1, <1>2, Sizes
<1>4. PICK n \in Nat : n = k * B
  BY Sizes
<1>5. PICK o \in 1..B : i = n + o
  <2>1. B * k = k * B
    BY Sizes
  <2>. QED  BY <1>1, <1>3, <1>4, <2>1, Sizes
<1>6. Whole(n) /\ n < m
  BY <1>4, <1>5, Sizes DEF Whole
<1>7. n + B <= m
  BY <1>6, WholeStep
<1>. QED  BY <1>5, <1>6, <1>7

LEMMA AnyPlace ==
  ASSUME NEW i \in Nat \ {0}
  PROVE  \E n \in Nat, o \in 1..B : Whole(n) /\ i = n + o
<1>1. PICK m \in Nat : m = AES_EX(i) /\ Whole(m) /\ m >= i
  BY RoundedUp
<1>2. i \in 1..m
  BY <1>1
<1>. QED  BY <1>1, <1>2, PlaceOf

LEMMA HiddenAt ==
  ASSUME NEW s, NEW n \in Nat, Whole(n), NEW o \in 1..B
  PROVE  Hidden(s, n + o) <=> \E p \in 1..o : s[n + p] = NUL
<1>1. ((n + o - 1) \div B) * B = n
  BY PlaceInBlock
<1>2. Hidden(s, n + o) <=> \E j \in n + 1..n + o : s[j] = NUL
  <2>1. PICK i \in Nat : i = n + o
    OBVIOUS
  <2>2. ((i - 1) \div B) * B = n
    BY <1>1, <2>1
  <2>. QED  BY <2>1, <2>2 DEF Hidden
<1>3. ASSUME NEW j \in n + 1..n + o PROVE \E p \in 1..o : j = n + p
  <2>1. j - n \in 1..o /\ j = n + (j - n)
    OBVIOUS
  <2>. QED  BY <2>1
<1>4. \A p \in 1..o : n + p \in n + 1..n + o
  OBVIOUS
<1>. QED  BY <1>2, <1>3, <1>4

\* Texts that agree up to a place hide the same up to there.
LEMMA HiddenSame ==
  ASSUME NEW s, NEW t, NEW i \in Nat \ {0}, \A j \in 1..i : s[j] = t[j]
  PROVE  Hidden(s, i) <=> Hidden(t, i)
<1>1. PICK n \in Nat, o \in 1..B : Whole(n) /\ i = n + o
  BY AnyPlace
<1>2. \A p \in 1..o : n + p \in 1..i
  BY <1>1
<1>3. \A p \in 1..o : s[n + p] = t[n + p]
  BY <1>2
<1>4. Hidden(s, n + o) <=> Hidden(t, n + o)
  BY <1>1, <1>3, HiddenAt
<1>. QED  BY <1>1, <1>4

LEMMA HiddenItself ==
  ASSUME NEW s, NEW i \in Nat \ {0}, s[i] = NUL
  PROVE  Hidden(s, i)
<1>1. PICK n \in Nat, o \in 1..B : Whole(n) /\ i = n + o
  BY AnyPlace
<1>2. o \in 1..o /\ s[n + o] = NUL
  BY <1>1, Sizes
<1>3. Hidden(s, n + o)
  BY <1>1, <1>2, HiddenAt
<1>. QED  BY <1>1, <1>3

\* What is kept of a text does not depend on whole blocks in front of it.
LEMMA KeptConcat ==
  ASSUME NEW A, NEW s \in Seq(A), NEW t \in Seq(A), Whole(Len(s))
  PROVE  Kept(s \o t) = Kept(s) \o Kept(t)
<1>1. /\ Len(s) \in Nat /\ Len(t) \in Nat
      /\ s \o t \in Seq(A) /\ Len(s \o t) = Len(s) + Len(t)
      /\ \A i \in 1..Len(s) + Len(t) :
           (s \o t)[i] = IF i <= Len(s) THEN s[i] ELSE t[i - Len(s)]
  BY ConcatProperties, LenProperties
<1>2. PICK x \in Seq(Seq(A)) :
        /\ x = Marks(s) /\ Len(x) = Len(s) /\ Kept(s) = FlattenSeq(x)
        /\ \A i \in 1..Len(s) : x[i] = IF Hidden(s, i) THEN << >> ELSE <<s[i]>>
  BY KeptTyped
<1>3. PICK y \in Seq(Seq(A)) :
        /\ y = Marks(t) /\ Len(y) = Len(t) /\ Kept(t) = FlattenSeq(y)
        /\ \A i \in 1..Len(t) : y[i] = IF Hidden(t, i) THEN << >> ELSE <<t[i]>>
  BY KeptTyped
<1>4. PICK u \in Seq(A) : u = s \o t
  BY <1>1
<1>5. PICK z \in Seq(Seq(A)) :
        /\ z = Marks(u) /\ Len(z) = Len(s) + Len(t) /\ Kept(u) = FlattenSeq(z)
        /\ \A i \in 1..Len(s) + Len(t) : z[i] = IF Hidden(u, i) THEN << >> ELSE <<u[i]>>
  <2>1. /\ Marks(u) \in Seq(Seq(A)) /\ Len(Marks(u)) = Len(u) /\ Kept(u) = FlattenSeq(Marks(u))
        /\ \A i \in 1..Len(u) : Marks(u)[i] = IF Hidden(u, i) THEN << >> ELSE <<u[i]>>
    BY KeptTyped
  <2>2. Len(u) = Len(s) + Len(t)
    BY <1>1, <1>4
  <2>. QED  BY <2>1, <2>2, Zenon
<1>6. /\ x \o y \in Seq(Seq(A)) /\ Len(x \o y) = Len(s) + Len(t)
      /\ \A i \in 1..Len(s) + Len(t) :
           (x \o y)[i] = IF i <= Len(s) THEN x[i] ELSE y[i - Len(s)]
  <2>1. /\ x \o y \in Seq(Seq(A)) /\ Len(x \o y) = Len(x) + Len(y)
        /\ \A i \in 1..Len(x) + Len(y) :
             (x \o y)[i] = IF i <= Len(x) THEN x[i] ELSE y[i - Len(x)]
    BY ConcatProperties
  <2>2. Len(x) = Len(s) /\ Len(y) = Len(t)
    BY <1>2, <1>3
  <2>. QED  BY <2>1, <2>2, Zenon
<1>7. ASSUME NEW i \in 1..Len(s) + Len(t)
      PROVE  z[i] = (x \o y)[i]
  <2>1. CASE i <= Len(s)
    <3>1. i \in 1..Len(s) /\ i \in Nat \ {0} /\ u[i] = s[i] /\ \A j \in 1..i : u[j] = s[j]
      BY <1>1, <1>4, <2>1
    <3>2. Hidden(u, i) <=> Hidden(s, i)
      BY <3>1, HiddenSame
    <3>. QED  BY <1>2, <1>5, <1>6, <2>1, <3>1, <3>2
  <2>2. CASE ~(i <= Len(s))
    <3>1. PICK k \in 1..Len(t) : k = i - Len(s) /\ i = Len(s) + k
      <4>1. i - Len(s) \in 1..Len(t) /\ i = Len(s) + (i - Len(s))
        BY <1>1, <2>2
      <4>. QED  BY <4>1
    <3>2. PICK n \in Nat, o \in 1..B : Whole(n) /\ k = n + o
      <4>1. k \in Nat \ {0}
        BY <1>1
      <4>. QED  BY <4>1, AnyPlace
    <3>3. PICK m \in Nat : m = Len(s) + n /\ Whole(m) /\ i = m + o
      <4>1. Whole(Len(s) + n)
        BY <1>1, <3>2, WholeSum
      <4>2. Len(s) + n \in Nat /\ i = (Len(s) + n) + o
        BY <1>1, <3>1, <3>2
      <4>. QED  BY <4>1, <4>2
    <3>4. ASSUME NEW p \in 1..o PROVE u[m + p] = t[n + p]
      <4>1. /\ m + p \in 1..Len(s) + Len(t) /\ ~(m + p <= Len(s))
            /\ (m + p) - Len(s) = n + p
        BY <1>1, <3>1, <3>2, <3>3
      <4>. QED  BY <1>1, <1>4, <4>1
    <3>5. Hidden(u, m + o) <=> Hidden(t, n + o)
      <4>1. Hidden(u, m + o) <=> \E p \in 1..o : u[m + p] = NUL
        BY <3>3, HiddenAt
      <4>2. Hidden(t, n + o) <=> \E p \in 1..o : t[n + p] = NUL
        BY <3>2, HiddenAt
      <4>. QED  BY <3>4, <4>1, <4>2
    <3>6. Hidden(u, i) <=> Hidden(t, k)
      BY <3>2, <3>3, <3>5
    <3>7. u[i] = t[k]
      BY <1>1, <1>4, <2>2, <3>1
    <3>8. z[i] = y[k]
      BY <1>3, <1>5, <3>6, <3>7
    <3>. QED  BY <1>6, <2>2, <3>1, <3>8
  <2>. QED  BY <2>1, <2>2
<1>8. z = x \o y
  BY <1>5, <1>6, <1>7, SeqEqual
<1>9. FlattenSeq(x \o y) = FlattenSeq(x) \o FlattenSeq(y)
  BY FlattenConcat
<1>. QED  BY <1>2, <1>3, <1>4, <1>5, <1>8, <1>9

\* A text without zeros is kept as it is.
LEMMA KeptWhole ==
  ASSUME NEW A, NEW s \in Seq(A), \A i \in 1..Len(s) : s[i] # NUL
  PROVE  Kept(s) = s
<1>1. /\ Marks(s) \in Seq(Seq(A)) /\ Len(Marks(s)) = Len(s) /\ Kept(s) = FlattenSeq(Marks(s))
      /\ \A i \in 1..Len(s) : Marks(s)[i] = IF Hidden(s, i) THEN << >> ELSE <<s[i]>>
  BY KeptTyped
<1>2. ASSUME NEW i \in 1..Len(s) PROVE ~Hidden(s, i)
  <2>1. PICK n \in Nat, o \in 1..B : Whole(n) /\ i = n + o
    BY AnyPlace
  <2>2. \A p \in 1..o : n + p \in 1..Len(s)
    BY <2>1, LenProperties
  <2>3. ~Hidden(s, n + o)
    BY <2>1, <2>2, HiddenAt
  <2>. QED  BY <2>1, <2>3
<1>3. PICK f \in Seq(Seq(A)) : f = Marks(s)
  BY <1>1
<1>4. \A i \in 1..Len(s) : f[i] = <<s[i]>>
  BY <1>1, <1>2, <1>3
<1>. QED  BY <1>1, <1>3, <1>4, FlattenSingles

\* Zeros behind a text add nothing to what is kept of it.
LEMMA KeptPadded ==
  ASSUME NEW A, NEW s \in Seq(A), NEW t \in Seq(A), Len(t) <= Len(s),
         \A i \in 1..Len(s) : s[i] = IF i <= Len(t) THEN t[i] ELSE NUL
  PROVE  Kept(s) = Kept(t)
<1>1. Len(s) \in Nat /\ Len(t) \in Nat
  BY LenProperties
<1>2. PICK x \in Seq(Seq(A)) :
        /\ x = Marks(s) /\ Len(x) = Len(s) /\ Kept(s) = FlattenSeq(x)
        /\ \A i \in 1..Len(s) : x[i] = IF Hidden(s, i) THEN << >> ELSE <<s[i]>>
  BY KeptTyped
<1>3. PICK y \in Seq(Seq(A)) :
        /\ y = Marks(t) /\ Len(y) = Len(t) /\ Kept(t) = FlattenSeq(y)
        /\ \A i \in 1..Len(t) : y[i] = IF Hidden(t, i) THEN << >> ELSE <<t[i]>>
  BY KeptTyped
<1>4. ASSUME NEW i \in 1..Len(s), i > Len(t) PROVE x[i] = << >>
  <2>1. s[i] = NUL
    BY <1>1, <1>4
  <2>2. Hidden(s, i)
    BY <2>1, HiddenItself
  <2>. QED  BY <1>2, <2>2
<1>5. FlattenSeq(x) = FlattenSeq(SubSeq(x, 1, Len(t)))
  <2>1. Len(t) \in 0..Len(x)
    BY <1>1, <1>2
  <2>2. \A i \in 1..Len(x) : i > Len(t) => x[i] = << >>
    BY <1>2, <1>4
  <2>. QED  BY <2>1, <2>2, FlattenPadded
<1>6. SubSeq(x, 1, Len(t)) = y
  <2>1. 1 <= Len(t) + 1 /\ (Len(t) + 1) - 1 = Len(t) /\ \A i \in 1..Len(t) : (1 - 1) + i = i
    BY <1>1
  <2>2. PICK v \in Seq(Seq(A)) : /\ v = SubSeq(x, 1, Len(t)) /\ Len(v) = Len(t)
                                 /\ \A i \in 1..Len(t) : v[i] = x[i]
    <3>1. /\ SubSeq(x, 1, Len(t)) \in Seq(Seq(A)) /\ Len(SubSeq(x, 1, Len(t))) = (Len(t) + 1) - 1
          /\ \A i \in 1..(Len(t) + 1) - 1 : SubSeq(x, 1, Len(t))[i] = x[(1 - 1) + i]
      BY <1>1, <1>2, <2>1, Slice
    <3>. QED  BY <2>1, <3>1
  <2>3. ASSUME NEW i \in 1..Len(t) PROVE v[i] = y[i]
    <3>1. i \in Nat \ {0} /\ i \in 1..Len(s) /\ \A j \in 1..i : j \in 1..Len(s) /\ j <= Len(t)
      BY <1>1
    <3>2. s[i] = t[i] /\ \A j \in 1..i : s[j] = t[j]
      BY <3>1
    <3>3. Hidden(s, i) <=> Hidden(t, i)
      BY <3>1, <3>2, HiddenSame
    <3>. QED  BY <1>2, <1>3, <2>2, <3>1, <3>2, <3>3
  <2>. QED  BY <1>3, <2>2, <2>3, SeqEqual
<1>. QED  BY <1>2, <1>3, <1>5, <1>6

\* The end of the text in a block.
LEMMA RealLength ==
  ASSUME NEW s
  PROVE  /\ _real_len(s) \in 0..B
         /\ \A i \in 1..B : i <= _real_len(s) => s[i] # NUL
         /\ _real_len(s) < B => s[_real_len(s) + 1] = NUL
<1>. DEFINE zeros == {i \in 1..B : s[i] = NUL}
            P(i) == i + 1 \in zeros /\ \A j \in zeros : i < j
            least == CHOOSE i \in 0..B - 1 : P(i)
<1>1. B \in Nat /\ B >= 1
  BY Sizes
<1>2. CASE zeros = {}
  <2>1. _real_len(s) = B
    BY <1>2 DEF _real_len
  <2>. QED  BY <1>1, <1>2, <2>1
<1>3. CASE zeros # {}
  <2>1. zeros \in SUBSET Nat
    OBVIOUS
  <2>2. PICK n \in zeros : \A j \in zeros : n <= j
    <3>. HIDE DEF zeros
    <3>. QED  BY <1>3, <2>1, LeastNat
  <2>3. \E i \in 0..B - 1 : P(i)
    <3>1. n - 1 \in 0..B - 1 /\ (n - 1) + 1 = n /\ \A j \in zeros : n - 1 < j
      BY <1>1, <2>2
    <3>. QED  BY <3>1
  <2>4. least \in 0..B - 1 /\ P(least)
    BY <2>3
  <2>5. _real_len(s) = least
    BY <1>3 DEF _real_len
  <2>6. least + 1 \in zeros /\ \A j \in zeros : least < j
    BY <2>4
  <2>. HIDE DEF least
  <2>. QED  BY <1>1, <2>4, <2>5, <2>6
<1>. QED  BY <1>2, <1>3

\* What log_file_decipher writes of a block is what is kept of it.
LEMMA BlockKept ==
  ASSUME NEW A, NEW b \in Seq(A), Len(b) = B
  PROVE  Kept(b) = SubSeq(b, 1, _real_len(b))
<1>1. PICK r \in 0..B : /\ r = _real_len(b)
                        /\ \A i \in 1..B : i <= r => b[i] # NUL
                        /\ r < B => b[r + 1] = NUL
  BY RealLength
<1>2. PICK x \in Seq(Seq(A)) :
        /\ x = Marks(b) /\ Len(x) = B /\ Kept(b) = FlattenSeq(x)
        /\ \A i \in 1..B : x[i] = IF Hidden(b, i) THEN << >> ELSE <<b[i]>>
  BY KeptTyped
<1>3. ASSUME NEW i \in 1..B PROVE Hidden(b, i) <=> \E j \in 1..i : b[j] = NUL
  <2>1. Hidden(b, 0 + i) <=> \E j \in 1..i : b[0 + j] = NUL
    BY WholeZero, HiddenAt
  <2>2. 0 + i = i /\ \A j \in 1..i : 0 + j = j
    BY Sizes
  <2>. QED  BY <2>1, <2>2
<1>4. ASSUME NEW i \in 1..B, i <= r PROVE x[i] = <<b[i]>>
  <2>1. \A j \in 1..i : j \in 1..B /\ j <= r
    BY <1>4, Sizes
  <2>. QED  BY <1>1, <1>2, <1>3, <2>1
<1>5. ASSUME NEW i \in 1..B, i > r PROVE x[i] = << >>
  <2>1. r + 1 \in 1..i /\ r < B
    BY <1>5, Sizes
  <2>. QED  BY <1>1, <1>2, <1>3, <2>1
<1>6. FlattenSeq(x) = FlattenSeq(SubSeq(x, 1, r))
  <2>1. r \in 0..Len(x) /\ \A i \in 1..Len(x) : i > r => x[i] = << >>
    BY <1>2, <1>5
  <2>. QED  BY <2>1, FlattenPadded
<1>7. ASSUME NEW S, NEW s \in Seq(S), Len(s) = B
      PROVE  /\ SubSeq(s, 1, r) \in Seq(S) /\ Len(SubSeq(s, 1, r)) = r
             /\ \A i \in 1..r : SubSeq(s, 1, r)[i] = s[i]
  <2>1. r \in Nat /\ r <= Len(s) /\ 1 <= r + 1 /\ (r + 1) - 1 = r
        /\ \A i \in 1..r : (1 - 1) + i = i
    BY <1>7, Sizes
  <2>2. /\ SubSeq(s, 1, r) \in Seq(S) /\ Len(SubSeq(s, 1, r)) = (r + 1) - 1
        /\ \A i \in 1..(r + 1) - 1 : SubSeq(s, 1, r)[i] = s[(1 - 1) + i]
    BY <2>1, Slice
  <2>. QED  BY <2>1, <2>2
<1>8. PICK f \in Seq(Seq(A)) : f = SubSeq(x, 1, r) /\ Len(f) = r /\ \A i \in 1..r : f[i] = x[i]
  <2>1. /\ SubSeq(x, 1, r) \in Seq(Seq(A)) /\ Len(SubSeq(x, 1, r)) = r
        /\ \A i \in 1..r : SubSeq(x, 1, r)[i] = x[i]
    BY <1>2, <1>7
  <2>. QED  BY <2>1
<1>9. PICK y \in Seq(A) : y = SubSeq(b, 1, r) /\ Len(y) = r /\ \A i \in 1..r : y[i] = b[i]
  <2>1. /\ SubSeq(b, 1, r) \in Seq(A) /\ Len(SubSeq(b, 1, r)) = r
        /\ \A i \in 1..r : SubSeq(b, 1, r)[i] = b[i]
    BY <1>7
  <2>. QED  BY <2>1
<1>10. \A i \in 1..Len(y) : f[i] = <<y[i]>>
  <2>1. ASSUME NEW i \in 1..r PROVE f[i] = <<y[i]>>
    <3>1. i \in 1..B /\ i <= r
      BY Sizes
    <3>. QED  BY <1>4, <1>8, <1>9, <3>1
  <2>. QED  BY <1>9, <2>1
<1>11. FlattenSeq(f) = y
  BY <1>8, <1>9, <1>10, FlattenSingles
<1>. QED  BY <1>1, <1>2, <1>6, <1>8, <1>9, <1>11

\* What is kept of each of several texts.
Kepts(t) == [k \in DOMAIN t |-> Kept(t[k])]

LEMMA KeptsAppend ==
  ASSUME NEW A, NEW t \in Seq(Seq(A)), NEW x \in Seq(A)
  PROVE  FlattenSeq(Kepts(Append(t, x))) = FlattenSeq(Kepts(t)) \o Kept(x)
<1>1. ASSUME NEW u \in Seq(Seq(A))
      PROVE  /\ Kepts(u) \in Seq(Seq(A)) /\ Len(Kepts(u)) = Len(u)
             /\ \A i \in 1..Len(u) : Kepts(u)[i] = Kept(u[i])
  <2>1. Len(u) \in Nat /\ DOMAIN u = 1..Len(u) /\ \A i \in 1..Len(u) : u[i] \in Seq(A)
    BY LenProperties, ElementOfSeq
  <2>2. \A i \in 1..Len(u) : Kept(u[i]) \in Seq(A)
    BY <2>1, KeptTyped
  <2>3. Kepts(u) \in [1..Len(u) -> Seq(A)]
    BY <2>1, <2>2 DEF Kepts
  <2>. QED  BY <2>1, <2>3, FunctionIsSeq DEF Kepts
<1>2. PICK u \in Seq(Seq(A)) : /\ u = Append(t, x) /\ Len(u) = Len(t) + 1
                               /\ \A i \in 1..Len(t) : u[i] = t[i]
                               /\ u[Len(t) + 1] = x
  BY AppendProperties
<1>3. PICK a \in Seq(Seq(A)) : /\ a = Kepts(t) /\ Len(a) = Len(t)
                               /\ \A i \in 1..Len(t) : a[i] = Kept(t[i])
  BY <1>1, Zenon
<1>4. PICK c \in Seq(Seq(A)) : /\ c = Kepts(u) /\ Len(c) = Len(t) + 1
                               /\ \A i \in 1..Len(t) + 1 : c[i] = Kept(u[i])
  <2>1. /\ Kepts(u) \in Seq(Seq(A)) /\ Len(Kepts(u)) = Len(u)
        /\ \A i \in 1..Len(u) : Kepts(u)[i] = Kept(u[i])
    BY <1>1, Zenon
  <2>. QED  BY <1>2, <2>1, Zenon
<1>5. PICK e \in Seq(A) : e = Kept(x)
  BY KeptTyped
<1>6. /\ Append(a, e) \in Seq(Seq(A)) /\ Len(Append(a, e)) = Len(t) + 1
      /\ \A i \in 1..Len(t) : Append(a, e)[i] = a[i]
      /\ Append(a, e)[Len(t) + 1] = e
  BY <1>3, AppendProperties
<1>7. ASSUME NEW i \in 1..Len(t) + 1 PROVE Append(a, e)[i] = c[i]
  <2>1. CASE i \in 1..Len(t)
    BY <1>2, <1>3, <1>4, <1>6, <2>1
  <2>2. CASE i = Len(t) + 1
    BY <1>2, <1>4, <1>5, <1>6, <2>2
  <2>3. i \in 1..Len(t) \/ i = Len(t) + 1
    BY LenProperties
  <2>. QED  BY <2>1, <2>2, <2>3
<1>8. c = Append(a, e)
  BY <1>4, <1>6, <1>7, SeqEqual
<1>9. FlattenSeq(Append(a, e)) = FlattenSeq(a) \o e
  BY FlattenAppend
<1>. QED  BY <1>2, <1>3, <1>4, <1>5, <1>8, <1>9

-----------------------------------------------------------------------------
(* A record: its text, the buffer it is encrypted from, and its bytes.     *)

\* How much of a text of n characters vsnprintf leaves.
Cut(n) == IF n < SINGLE_LOG_SIZE THEN n ELSE SINGLE_LOG_SIZE - 1

Message(k, n, zeros) == [i \in 1..AES_EX(n) |-> log_msg(Chars(k, Cut(n), zeros), i)]

LEMMA MessagePadded ==
  ASSUME NEW k \in Nat \ {0}, NEW n \in Nat \ {0}, n <= SINGLE_LOG_SIZE, NEW zeros
  PROVE  /\ Chars(k, Cut(n), zeros) \in Seq(Character)
         /\ Len(Chars(k, Cut(n), zeros)) < SINGLE_LOG_SIZE
         /\ Message(k, n, zeros) \in Seq(Character) /\ Len(Message(k, n, zeros)) = AES_EX(n)
         /\ Kept(Message(k, n, zeros)) = Kept(Chars(k, Cut(n), zeros))
<1>. DEFINE c == Cut(n)
            text == Chars(k, c, zeros)
            m == AES_EX(n)
            msg == Message(k, n, zeros)
<1>1. c \in Nat /\ c < SINGLE_LOG_SIZE /\ c <= n
  BY Sizes DEF Cut
<1>2. m \in Nat /\ n <= m
  BY RoundedUp
<1>3. m <= AES_EX(SINGLE_LOG_SIZE)
  BY Sizes, RoundedMonotone
<1>. HIDE DEF c, m
<1>4. text \in [1..c -> Character]
  <2>1. \A i \in 1..c : <<k, i>> \in Character
    BY DEF Character
  <2>2. \A i \in 1..c : (IF i \in zeros THEN NUL ELSE <<k, i>>) \in Character
    BY <2>1, ZeroIsCharacter
  <2>. QED  BY <2>2 DEF Chars
<1>5. text \in Seq(Character) /\ Len(text) = c /\ DOMAIN text = 1..c
  BY <1>1, <1>4, FunctionIsSeq
<1>. HIDE DEF text
<1>6. ASSUME NEW i \in 1..m
      PROVE  log_msg(text, i) = IF i <= c THEN text[i] ELSE NUL
  BY <1>1, <1>2, <1>3, <1>5, Sizes, RoundedUp DEF log_msg
<1>7. msg = [i \in 1..m |-> IF i <= c THEN text[i] ELSE NUL]
  BY <1>6 DEF Message, text, c, m
<1>. HIDE DEF msg
<1>8. \A i \in 1..m : (IF i <= c THEN text[i] ELSE NUL) \in Character
  BY <1>1, <1>4, ZeroIsCharacter
<1>9. msg \in [1..m -> Character]
  BY <1>7, <1>8
<1>10. msg \in Seq(Character) /\ Len(msg) = m
  BY <1>2, <1>9, FunctionIsSeq
<1>11. \A i \in 1..m : msg[i] = IF i <= c THEN text[i] ELSE NUL
  BY <1>7
<1>12. Len(text) <= Len(msg)
       /\ \A i \in 1..Len(msg) : msg[i] = IF i <= Len(text) THEN text[i] ELSE NUL
  BY <1>1, <1>2, <1>5, <1>10, <1>11
<1>13. Kept(msg) = Kept(text)
  BY <1>5, <1>10, <1>12, KeptPadded
<1>. QED  BY <1>1, <1>5, <1>10, <1>13 DEF msg, text, c, m

Cells == [key : Passwords, block : Seq(Character), off : 1..B]

\* Block n of the file f is block n of the text p under one key.
EncBlock(f, p, n) ==
  \E k : \A o \in 1..B :
    f[n + o] = [key |-> k, block |-> SubSeq(p, n + 1, n + B), off |-> o]

Enciphered(f, p) ==
  \A n \in Nat : Whole(n) /\ n + B <= Len(f) => EncBlock(f, p, n)

\* The bytes of a record are its blocks under the key of the handle.
LEMMA EncryptedBlocks ==
  ASSUME wkey \in Passwords, NEW s \in Seq(Character), Whole(Len(s))
  PROVE  /\ Encrypted(s) \in Seq(Cells) /\ Len(Encrypted(s)) = Len(s)
         /\ Enciphered(Encrypted(s), s)
<1>1. Len(s) \in Nat /\ DOMAIN s = 1..Len(s)
  BY LenProperties
<1>2. PICK f : f = Encrypted(s)
  OBVIOUS
<1>3. ASSUME NEW n \in Nat, NEW o \in 1..B, Whole(n), n + B <= Len(s)
      PROVE  /\ n + o \in 1..Len(s)
             /\ f[n + o] = [key |-> wkey, block |-> SubSeq(s, n + 1, n + B), off |-> o]
             /\ f[n + o] \in Cells
  <2>1. n + o \in 1..Len(s) /\ (n + o) - n = o
    BY <1>1, <1>3, Sizes
  <2>2. ((n + o - 1) \div B) * B = n
    BY <1>3, PlaceInBlock
  <2>3. f[n + o] = [key |-> wkey, block |-> SubSeq(s, n + 1, n + B), off |-> o]
    <3>1. PICK x \in 1..Len(s) : x = n + o
      BY <2>1
    <3>2. PICK d : d = ((x - 1) \div B) * B
      OBVIOUS
    <3>3. f[x] = [key |-> wkey, block |-> SubSeq(s, d + 1, d + B), off |-> x - d]
      BY <1>1, <1>2, <3>2 DEF Encrypted
    <3>4. d = n
      BY <2>2, <3>1, <3>2
    <3>5. x - d = o
      BY <2>1, <3>1, <3>4
    <3>. QED  BY <3>1, <3>3, <3>4, <3>5
  <2>4. SubSeq(s, n + 1, n + B) \in Seq(Character)
    <3>1. n + 1 \in Nat \ {0} /\ n + B \in Nat /\ n + B <= Len(s) /\ n + 1 <= n + B + 1
      BY <1>3, Sizes
    <3>. QED  BY <3>1, Slice
  <2>. QED  BY <2>1, <2>3, <2>4 DEF Cells
<1>4. ASSUME NEW i \in 1..Len(s) PROVE f[i] \in Cells
  <2>1. PICK n \in Nat, o \in 1..B : Whole(n) /\ n + B <= Len(s) /\ i = n + o
    BY <1>1, PlaceOf
  <2>. QED  BY <1>3, <2>1
<1>5. f \in [1..Len(s) -> Cells]
  <2>1. DOMAIN f = 1..Len(s) /\ f = [i \in DOMAIN f |-> f[i]]
    BY <1>1, <1>2 DEF Encrypted
  <2>. QED  BY <1>4, <2>1
<1>6. f \in Seq(Cells) /\ Len(f) = Len(s)
  BY <1>1, <1>5, FunctionIsSeq
<1>7. ASSUME NEW n \in Nat, Whole(n), n + B <= Len(s) PROVE EncBlock(f, s, n)
  <2>1. \A o \in 1..B :
          f[n + o] = [key |-> wkey, block |-> SubSeq(s, n + 1, n + B), off |-> o]
    BY <1>3, <1>7
  <2>. QED  BY <2>1 DEF EncBlock
<1>. QED  BY <1>2, <1>6, <1>7 DEF Enciphered

LEMMA BlockSlice ==
  ASSUME NEW A, NEW s \in Seq(A), NEW m \in Nat, m + B <= Len(s)
  PROVE  /\ SubSeq(s, m + 1, m + B) \in Seq(A)
         /\ Len(SubSeq(s, m + 1, m + B)) = B
         /\ \A o \in 1..B : SubSeq(s, m + 1, m + B)[o] = s[m + o]
<1>1. PICK a \in Nat \ {0}, b \in Nat : a = m + 1 /\ b = m + B
  BY Sizes
<1>2. b <= Len(s) /\ a <= b + 1 /\ (b + 1) - a = B /\ \A o \in 1..B : (a - 1) + o = m + o
  BY <1>1, Sizes
<1>3. /\ SubSeq(s, a, b) \in Seq(A) /\ Len(SubSeq(s, a, b)) = (b + 1) - a
      /\ \A i \in 1..(b + 1) - a : SubSeq(s, a, b)[i] = s[(a - 1) + i]
  BY <1>2, Slice
<1>. QED  BY <1>1, <1>2, <1>3

\* A block depends on nothing but its own places.
LEMMA SameBlock ==
  ASSUME NEW f, NEW p \in Seq(Character), NEW n \in Nat, n + B <= Len(p),
         NEW g, NEW q \in Seq(Character), NEW k \in Nat, k + B <= Len(q),
         EncBlock(f, p, n),
         \A o \in 1..B : g[k + o] = f[n + o] /\ q[k + o] = p[n + o]
  PROVE  EncBlock(g, q, k)
<1>1. ASSUME NEW s \in Seq(Character), NEW m \in Nat, m + B <= Len(s)
      PROVE  /\ SubSeq(s, m + 1, m + B) \in Seq(Character)
             /\ Len(SubSeq(s, m + 1, m + B)) = B
             /\ \A o \in 1..B : SubSeq(s, m + 1, m + B)[o] = s[m + o]
  BY <1>1, BlockSlice, ZenonT(30)
<1>2. SubSeq(q, k + 1, k + B) = SubSeq(p, n + 1, n + B)
  <2>1. PICK x \in Seq(Character) : /\ x = SubSeq(p, n + 1, n + B) /\ Len(x) = B
                                    /\ \A o \in 1..B : x[o] = p[n + o]
    BY <1>1
  <2>2. PICK y \in Seq(Character) : /\ y = SubSeq(q, k + 1, k + B) /\ Len(y) = B
                                    /\ \A o \in 1..B : y[o] = q[k + o]
    BY <1>1
  <2>3. \A o \in 1..Len(y) : y[o] = x[o]
    BY <2>1, <2>2
  <2>4. y = x
    BY <2>1, <2>2, <2>3, SeqEqual
  <2>. QED  BY <2>1, <2>2, <2>4
<1>3. PICK key : \A o \in 1..B :
        f[n + o] = [key |-> key, block |-> SubSeq(p, n + 1, n + B), off |-> o]
  BY DEF EncBlock
<1>4. \A o \in 1..B :
        g[k + o] = [key |-> key, block |-> SubSeq(q, k + 1, k + B), off |-> o]
  BY <1>2, <1>3
<1>. QED  BY <1>4 DEF EncBlock

\* Blocks stay what they are when others follow, and when what follows is cut.
LEMMA EncipheredAfter ==
  ASSUME NEW f \in Seq(Cells), NEW p \in Seq(Character), Len(p) = Len(f),
         NEW g \in Seq(Cells), NEW q \in Seq(Character), Len(q) = Len(g),
         Whole(Len(f)), Enciphered(f, p), Enciphered(g, q)
  PROVE  Enciphered(f \o g, p \o q)
<1>1. Len(f) \in Nat /\ Len(g) \in Nat
  BY LenProperties
<1>2. PICK F \in Seq(Cells) :
        /\ F = f \o g /\ Len(F) = Len(f) + Len(g)
        /\ \A i \in 1..Len(f) + Len(g) : F[i] = IF i <= Len(f) THEN f[i] ELSE g[i - Len(f)]
  <2>1. /\ f \o g \in Seq(Cells) /\ Len(f \o g) = Len(f) + Len(g)
        /\ \A i \in 1..Len(f) + Len(g) :
             (f \o g)[i] = IF i <= Len(f) THEN f[i] ELSE g[i - Len(f)]
    BY ConcatProperties
  <2>. QED  BY <2>1
<1>3. PICK P \in Seq(Character) :
        /\ P = p \o q /\ Len(P) = Len(f) + Len(g)
        /\ \A i \in 1..Len(f) + Len(g) : P[i] = IF i <= Len(f) THEN p[i] ELSE q[i - Len(f)]
  <2>1. /\ p \o q \in Seq(Character) /\ Len(p \o q) = Len(p) + Len(q)
        /\ \A i \in 1..Len(p) + Len(q) :
             (p \o q)[i] = IF i <= Len(p) THEN p[i] ELSE q[i - Len(p)]
    BY ConcatProperties
  <2>. QED  BY <2>1
<1>4. ASSUME NEW n \in Nat, Whole(n), n + B <= Len(f) + Len(g) PROVE EncBlock(F, P, n)
  <2>1. CASE n < Len(f)
    <3>1. n + B <= Len(f)
      BY <1>1, <1>4, <2>1, WholeStep
    <3>2. EncBlock(f, p, n)
      BY <1>4, <3>1 DEF Enciphered
    <3>3. \A o \in 1..B : F[n + o] = f[n + o] /\ P[n + o] = p[n + o]
      BY <1>1, <1>2, <1>3, <1>4, <3>1, Sizes
    <3>4. n + B <= Len(p) /\ n + B <= Len(P)
      BY <1>3, <1>4, <3>1
    <3>. QED  BY <3>2, <3>3, <3>4, SameBlock
  <2>2. CASE ~(n < Len(f))
    <3>1. PICK k \in Nat : n = Len(f) + k
      <4>1. n - Len(f) \in Nat /\ n = Len(f) + (n - Len(f))
        BY <1>1, <2>2
      <4>. QED  BY <4>1
    <3>2. Whole(k) /\ k + B <= Len(g)
      <4>1. Whole(Len(f) + k) /\ Whole(Len(f))
        BY <1>4, <3>1
      <4>2. Whole(k)
        BY <1>1, <4>1, WholeSum
      <4>. QED  BY <1>1, <1>4, <3>1, <4>2, Sizes
    <3>3. EncBlock(g, q, k)
      BY <3>2 DEF Enciphered
    <3>4. \A o \in 1..B : F[n + o] = g[k + o] /\ P[n + o] = q[k + o]
      <4>1. ASSUME NEW o \in 1..B PROVE F[n + o] = g[k + o] /\ P[n + o] = q[k + o]
        <5>1. /\ n + o \in 1..Len(f) + Len(g) /\ ~(n + o <= Len(f))
              /\ (n + o) - Len(f) = k + o
          BY <1>1, <1>4, <3>1, Sizes
        <5>. QED  BY <1>2, <1>3, <5>1
      <4>. QED  BY <4>1
    <3>5. k + B <= Len(q) /\ n + B <= Len(P)
      BY <1>3, <1>4, <3>2
    <3>. QED  BY <3>3, <3>4, <3>5, SameBlock
  <2>. QED  BY <2>1, <2>2
<1>. QED  BY <1>1, <1>2, <1>3, <1>4 DEF Enciphered

LEMMA EncipheredCut ==
  ASSUME NEW f \in Seq(Cells), NEW p \in Seq(Character), Len(p) = Len(f),
         Enciphered(f, p), NEW m \in 0..Len(f)
  PROVE  Enciphered(SubSeq(f, 1, m), SubSeq(p, 1, m))
<1>1. Len(f) \in Nat /\ m \in Nat /\ m <= Len(f)
  BY LenProperties
<1>2. 1 <= m + 1 /\ (m + 1) - 1 = m /\ \A i \in 1..m : (1 - 1) + i = i
  BY <1>1
<1>3. PICK F \in Seq(Cells) :
        F = SubSeq(f, 1, m) /\ Len(F) = m /\ \A i \in 1..m : F[i] = f[i]
  <2>1. /\ SubSeq(f, 1, m) \in Seq(Cells) /\ Len(SubSeq(f, 1, m)) = (m + 1) - 1
        /\ \A i \in 1..(m + 1) - 1 : SubSeq(f, 1, m)[i] = f[(1 - 1) + i]
    BY <1>1, <1>2, Slice
  <2>. QED  BY <1>2, <2>1
<1>4. PICK P \in Seq(Character) :
        P = SubSeq(p, 1, m) /\ Len(P) = m /\ \A i \in 1..m : P[i] = p[i]
  <2>1. /\ SubSeq(p, 1, m) \in Seq(Character) /\ Len(SubSeq(p, 1, m)) = (m + 1) - 1
        /\ \A i \in 1..(m + 1) - 1 : SubSeq(p, 1, m)[i] = p[(1 - 1) + i]
    BY <1>1, <1>2, Slice
  <2>. QED  BY <1>2, <2>1
<1>5. ASSUME NEW n \in Nat, Whole(n), n + B <= m PROVE EncBlock(F, P, n)
  <2>1. EncBlock(f, p, n) /\ n + B <= Len(f)
    BY <1>1, <1>5, Sizes DEF Enciphered
  <2>2. \A o \in 1..B : F[n + o] = f[n + o] /\ P[n + o] = p[n + o]
    BY <1>1, <1>3, <1>4, <1>5, Sizes
  <2>3. n + B <= Len(p) /\ n + B <= Len(P)
    BY <1>4, <1>5, <2>1
  <2>. QED  BY <2>1, <2>2, <2>3, SameBlock
<1>. QED  BY <1>3, <1>4, <1>5 DEF Enciphered

-----------------------------------------------------------------------------
(* Types and the parts of a handle.                                        *)

Phases == {"down", "file", "iobuf", "key", "up", "closed"}

TypeInv ==
  /\ phase \in Phases
  /\ wkey \in Passwords \cup {NoKey} /\ pwd \in Passwords \cup {NoKey}
  /\ phase = "up" => wkey \in Passwords
  /\ texts \in Seq(Seq(Character))
  /\ \A k \in 1..Len(texts) : Len(texts[k]) < SINGLE_LOG_SIZE
  /\ file \in Seq(Cells) /\ plain \in Seq(Character) /\ Len(plain) = Len(file)
  /\ durable \in 0..Len(file)
  /\ left \in 0..Len(file)
  /\ result \in {"none", "reading", "0", "1"}
  /\ unwritten \in 0..BUFSIZ
  /\ losses \in Nat /\ faults \in Nat

\* What each step of the creation has allocated; file_handle_destory leaves the
\* path.
PartsInv ==
  /\ phase = "down" => mem = {}
  /\ phase = "file" => mem = {"handle"}
  /\ phase = "iobuf" => mem = {"handle", "file_path"}
  /\ phase = "key" => mem = {"handle", "file_path", "io_buf"}
  /\ phase = "up" => mem = Parts
  /\ phase = "closed" => mem = {"file_path"}

\* The file is whole blocks, each deciphered to its place in the plain text, but
\* for one loss that left a piece of a block.
FileInv ==
  losses <= 1 =>
    \/ losses = 1 /\ ~Whole(Len(file))
    \/ Whole(Len(file)) /\ Enciphered(file, plain)

TextInv ==
  losses = 0 => /\ Kept(plain) = FlattenSeq(Kepts(texts))
                /\ file = << >> => texts = << >>

\* log_file_decipher runs alone, on whole blocks, and has restored what is in
\* front of what is left.
ReadInv ==
  /\ result # "none" => phase \in {"down", "closed"}
  /\ result = "none" => out = << >> /\ left = 0
  /\ result \in {"none", "reading"} => unwritten = 0
  /\ result \in {"reading", "0"} => Whole(Len(file)) /\ Whole(left)
  /\ result = "reading" /\ Right /\ losses <= 1 =>
       out = Kept(SubSeq(plain, 1, Len(file) - left))
  /\ result = "0" => left = 0
  /\ result = "0" /\ Right /\ losses <= 1 =>
       out = SubSeq(Kept(plain), 1, Len(Kept(plain)) - unwritten)
  /\ faults = 0 => unwritten = 0
  /\ result = "1" /\ faults = 0 => file = << >> \/ ~Whole(Len(file))

Inv == TypeInv /\ PartsInv /\ FileInv /\ TextInv /\ ReadInv

LEMMA InitInv == Init => Inv
<1>. SUFFICES ASSUME Init PROVE Inv
  OBVIOUS
<1>. USE DEF Init
<1>1. Len(<< >>) = 0 /\ << >> \in Seq(Character) /\ << >> \in Seq(Cells)
      /\ << >> \in Seq(Seq(Character))
  BY EmptySeq
<1>2. TypeInv
  BY <1>1, Sizes DEF TypeInv, Phases
<1>3. PartsInv
  BY DEF PartsInv
<1>4. FileInv
  <2>1. Enciphered(file, plain)
    BY <1>1, Sizes DEF Enciphered
  <2>. QED  BY <1>1, <2>1, WholeZero DEF FileInv
<1>5. TextInv
  <2>1. Kepts(<< >>) = << >>
    BY <1>1 DEF Kepts
  <2>. QED  BY <2>1, KeptNone, FlattenEmpty DEF TextInv
<1>6. ReadInv
  BY DEF ReadInv
<1>. QED  BY <1>2, <1>3, <1>4, <1>5, <1>6 DEF Inv

\* The steps that leave the file and the reader alone.
LEMMA HandleSteps ==
  ASSUME Inv,
         CreateHandle \/ InitFile \/ InitFileFails \/ InitBuffer \/ InitBufferFails
           \/ InitKey \/ InitKeyFails \/ Destroy
  PROVE  Inv'
<1>. USE DEF CreateHandle, InitFile, InitFileFails, InitBuffer, InitBufferFails,
             InitKey, InitKeyFails, Destroy, DestroyHandle, Allocate, Abandon, Fault
<1>1. /\ UNCHANGED <<texts, file, plain, readVars, losses>>
      /\ faults' \in Nat /\ (faults' = 0 => faults = 0)
      /\ durable' = durable \/ durable' = Len(file)
      /\ result = "none" \/ phase' \in {"down", "closed"}
      /\ phase' \in Phases
      /\ phase' = "up" => wkey' \in Passwords
      /\ wkey' \in Passwords \cup {NoKey}
  BY DEF Inv, TypeInv, ReadInv, Phases, fileVars, readVars, handleVars
<1>2. Len(file) \in 0..Len(file)
  BY LenProperties DEF Inv, TypeInv
<1>3. TypeInv'
  BY <1>1, <1>2 DEF Inv, TypeInv, readVars
<1>4. PartsInv'
  BY DEF Inv, PartsInv, Parts
<1>5. FileInv' /\ TextInv'
  BY <1>1 DEF Inv, FileInv, TextInv
<1>6. ReadInv'
  BY <1>1 DEF Inv, ReadInv, Right, readVars
<1>. QED  BY <1>3, <1>4, <1>5, <1>6 DEF Inv

LEMMA LogKeeps ==
  ASSUME Inv, NEW n \in Nat \ {0}, NEW zeros, Log(n, zeros)
  PROVE  Inv'
<1>. USE DEF Inv
<1>1. PICK k \in Nat \ {0} : k = Len(texts) + 1
  BY LenProperties DEF TypeInv
<1>2. PICK text : text = Chars(k, Cut(n), zeros)
  OBVIOUS
<1>3. PICK msg : msg = Message(k, n, zeros)
  OBVIOUS
<1>4. /\ phase = "up" /\ n <= SINGLE_LOG_SIZE
      /\ texts' = Append(texts, text)
      /\ file' = file \o Encrypted(msg) /\ plain' = plain \o msg
      /\ UNCHANGED <<handleVars, durable, readVars, losses, faults>>
  BY <1>1, <1>2, <1>3 DEF Log, Formatted, Message, Cut
<1>5. /\ text \in Seq(Character) /\ Len(text) < SINGLE_LOG_SIZE
      /\ msg \in Seq(Character) /\ Len(msg) = AES_EX(n)
      /\ Kept(msg) = Kept(text)
  BY <1>2, <1>3, <1>4, MessagePadded
<1>6. Len(msg) \in Nat /\ Whole(Len(msg)) /\ Len(msg) >= n
  BY <1>5, RoundedUp
<1>7. PICK code : code = Encrypted(msg)
  OBVIOUS
<1>8. code \in Seq(Cells) /\ Len(code) = Len(msg) /\ Enciphered(code, msg)
  <2>1. wkey \in Passwords
    BY <1>4 DEF TypeInv
  <2>. QED  BY <1>5, <1>6, <1>7, <2>1, EncryptedBlocks
<1>9. /\ file \in Seq(Cells) /\ plain \in Seq(Character) /\ Len(plain) = Len(file)
      /\ Len(file) \in Nat
  BY LenProperties DEF TypeInv
<1>10. /\ file' \in Seq(Cells) /\ plain' \in Seq(Character)
       /\ Len(file') = Len(file) + Len(msg) /\ Len(plain') = Len(file) + Len(msg)
  <2>1. file' = file \o code
    BY <1>4, <1>7
  <2>2. file \o code \in Seq(Cells) /\ Len(file \o code) = Len(file) + Len(code)
    BY <1>8, <1>9, ConcatProperties
  <2>3. plain \o msg \in Seq(Character) /\ Len(plain \o msg) = Len(plain) + Len(msg)
    BY <1>5, <1>9, ConcatProperties
  <2>. QED  BY <1>4, <1>8, <1>9, <2>1, <2>2, <2>3
<1>11. result = "none" /\ result' = "none"
  BY <1>4 DEF ReadInv, readVars
<1>12. TypeInv'
  <2>1. /\ texts' \in Seq(Seq(Character)) /\ Len(texts') = Len(texts) + 1
        /\ \A i \in 1..Len(texts) : texts'[i] = texts[i]
        /\ texts'[Len(texts) + 1] = text /\ Len(texts) \in Nat
    BY <1>4, <1>5, AppendProperties, LenProperties DEF TypeInv
  <2>2. ASSUME NEW i \in 1..Len(texts') PROVE Len(texts'[i]) < SINGLE_LOG_SIZE
    <3>1. CASE i \in 1..Len(texts)
      BY <2>1, <3>1 DEF TypeInv
    <3>2. CASE i = Len(texts) + 1
      BY <1>5, <2>1, <3>2
    <3>. QED  BY <2>1, <3>1, <3>2
  <2>3. durable' \in 0..Len(file') /\ left' \in 0..Len(file')
    BY <1>4, <1>6, <1>9, <1>10 DEF TypeInv, readVars
  <2>. QED  BY <1>4, <1>10, <2>1, <2>2, <2>3 DEF TypeInv, handleVars, readVars
<1>13. PartsInv'
  BY <1>4 DEF PartsInv, handleVars
<1>14. FileInv'
  <2>1. SUFFICES ASSUME losses <= 1
                 PROVE  \/ losses = 1 /\ ~Whole(Len(file) + Len(msg))
                        \/ /\ Whole(Len(file) + Len(msg))
                           /\ Enciphered(file \o code, plain \o msg)
    BY <1>4, <1>7, <1>10 DEF FileInv
  <2>2. CASE losses = 1 /\ ~Whole(Len(file))
    <3>1. Whole(Len(msg) + Len(file)) <=> Whole(Len(file))
      BY <1>6, <1>9, WholeSum
    <3>2. Len(msg) + Len(file) = Len(file) + Len(msg)
      BY <1>6, <1>9
    <3>. QED  BY <2>2, <3>1, <3>2
  <2>3. CASE Whole(Len(file)) /\ Enciphered(file, plain)
    <3>1. Whole(Len(file) + Len(msg))
      BY <1>6, <1>9, <2>3, WholeSum
    <3>2. Enciphered(file \o code, plain \o msg)
      BY <1>5, <1>8, <1>9, <2>3, EncipheredAfter
    <3>. QED  BY <3>1, <3>2
  <2>. QED  BY <2>1, <2>2, <2>3 DEF FileInv
<1>15. TextInv'
  <2>1. SUFFICES ASSUME losses = 0
                 PROVE  /\ Kept(plain \o msg) = FlattenSeq(Kepts(Append(texts, text)))
                        /\ file' # << >>
    BY <1>4 DEF TextInv
  <2>2. Kept(plain \o msg) = Kept(plain) \o Kept(msg)
    <3>1. Whole(Len(plain))
      BY <1>9, <2>1 DEF FileInv
    <3>. QED  BY <1>5, <1>9, <3>1, KeptConcat
  <2>3. FlattenSeq(Kepts(Append(texts, text))) = FlattenSeq(Kepts(texts)) \o Kept(text)
    BY <1>5, KeptsAppend DEF TypeInv
  <2>4. file' # << >>
    BY <1>6, <1>9, <1>10, EmptySeq
  <2>. QED  BY <1>5, <2>1, <2>2, <2>3, <2>4 DEF TextInv
<1>16. ReadInv'
  BY <1>4, <1>11 DEF ReadInv, handleVars, readVars
<1>. QED  BY <1>12, <1>13, <1>14, <1>15, <1>16

\* What a stream buffer kept back is lost.
LEMMA LoseKeeps ==
  ASSUME Inv, Lose, result = "none", PartsInv', phase' \in Phases,
         wkey' = wkey, phase' = "up" => phase = "up", faults' \in Nat
  PROVE  Inv'
<1>. USE DEF Inv
<1>1. PICK m \in durable..Len(file) : /\ file' = SubSeq(file, 1, m)
                                      /\ plain' = SubSeq(plain, 1, m)
  BY DEF Lose
<1>2. losses' = losses + 1 /\ UNCHANGED <<texts, durable, readVars>>
  BY DEF Lose
<1>3. /\ file \in Seq(Cells) /\ plain \in Seq(Character) /\ Len(plain) = Len(file)
      /\ Len(file) \in Nat /\ m \in 0..Len(file) /\ losses \in Nat
      /\ durable \in 0..m
  BY LenProperties DEF TypeInv
<1>4. /\ file' \in Seq(Cells) /\ Len(file') = m
      /\ plain' \in Seq(Character) /\ Len(plain') = m
  <2>1. m \in Nat /\ m <= Len(file) /\ 1 <= m + 1 /\ (m + 1) - 1 = m
    BY <1>3
  <2>2. SubSeq(file, 1, m) \in Seq(Cells) /\ Len(SubSeq(file, 1, m)) = (m + 1) - 1
    BY <1>3, <2>1, Slice
  <2>3. SubSeq(plain, 1, m) \in Seq(Character) /\ Len(SubSeq(plain, 1, m)) = (m + 1) - 1
    BY <1>3, <2>1, Slice
  <2>. QED  BY <1>1, <2>1, <2>2, <2>3
<1>5. result' = "none" /\ left' = 0 /\ out' = << >> /\ unwritten' = 0
  BY <1>2 DEF ReadInv, TypeInv, readVars
<1>6. TypeInv'
  BY <1>2, <1>3, <1>4, <1>5, Sizes DEF TypeInv, readVars
<1>8. FileInv'
  <2>1. SUFFICES ASSUME losses = 0, Whole(m)
                 PROVE  Enciphered(SubSeq(file, 1, m), SubSeq(plain, 1, m))
    BY <1>1, <1>2, <1>3, <1>4 DEF FileInv
  <2>2. Enciphered(file, plain)
    BY <2>1 DEF FileInv
  <2>. QED  BY <1>3, <2>2, EncipheredCut
<1>9. TextInv'
  BY <1>2, <1>3 DEF TextInv
<1>10. ReadInv'
  BY <1>5 DEF ReadInv
<1>. QED  BY <1>6, <1>8, <1>9, <1>10

LEMMA LossKeeps ==
  ASSUME Inv, Crash \/ FlushFails \/ DestroyFails
  PROVE  Inv'
<1>. USE DEF Inv
<1>1. /\ Lose /\ phase \notin {"down", "closed"} /\ wkey' = wkey
      /\ phase' \in Phases /\ (phase' = "up" => phase = "up")
      /\ faults' \in Nat
  BY DEF Crash, FlushFails, DestroyFails, DestroyHandle, Fault, TypeInv, Phases, handleVars
<1>2. result = "none"
  BY <1>1 DEF ReadInv
<1>3. PartsInv'
  BY DEF Crash, FlushFails, DestroyFails, DestroyHandle, PartsInv, Parts, handleVars
<1>. QED  BY <1>1, <1>2, <1>3, LoseKeeps

-----------------------------------------------------------------------------
(* log_file_decipher.                                                      *)

LEMMA DecipherKeeps ==
  ASSUME Inv, NEW p \in Passwords, Decipher(p)
  PROVE  Inv'
<1>. USE DEF Inv
<1>1. /\ phase \in {"down", "closed"} /\ result = "none" /\ out = << >>
      /\ pwd' = p /\ left' = Len(file)
      /\ result' = IF file = << >> \/ Len(file) % B # 0 THEN "1" ELSE "reading"
      /\ unwritten = 0
      /\ UNCHANGED <<handleVars, fileVars, out, unwritten, losses, faults>>
  BY DEF Decipher, ReadInv
<1>2. Len(file) \in Nat /\ plain \in Seq(Character) /\ Len(plain) = Len(file)
  BY LenProperties DEF TypeInv
<1>3. Whole(Len(file)) <=> Len(file) % B = 0
  BY <1>2, WholeIsNoRemainder
<1>4. TypeInv'
  BY <1>1, <1>2 DEF TypeInv, handleVars, fileVars
<1>5. PartsInv' /\ FileInv' /\ TextInv'
  BY <1>1 DEF PartsInv, FileInv, TextInv, handleVars, fileVars
<1>6. Kept(SubSeq(plain, 1, Len(file) - Len(file))) = << >>
  <2>1. Len(file) - Len(file) = 0
    BY <1>2
  <2>2. SubSeq(plain, 1, 0) = << >>
    BY SubSeqEmpty
  <2>. QED  BY <2>1, <2>2, KeptNone
<1>7. ReadInv'
  <2>1. result' \in {"reading", "1"} /\ (result' = "reading" => Whole(Len(file)))
        /\ (result' = "1" => file = << >> \/ ~Whole(Len(file)))
    BY <1>1, <1>3
  <2>. QED  BY <1>1, <1>6, <2>1 DEF ReadInv, handleVars, fileVars
<1>. QED  BY <1>4, <1>5, <1>7

\* A block that is under the key gives back its text up to the first zero.
LEMMA BlockRestored ==
  ASSUME Inv, DecipherBlock, Right, losses <= 1
  PROVE  out' = Kept(SubSeq(plain, 1, (Len(file) - left) + B))
<1>. USE DEF Inv
<1>1. PICK n \in Nat : n = Len(file) - left
  <2>1. Len(file) \in Nat /\ left \in 0..Len(file)
    BY LenProperties DEF TypeInv
  <2>2. Len(file) - left \in Nat
    BY <2>1
  <2>. QED  BY <2>2
<1>2. /\ Len(file) \in Nat /\ left \in Nat /\ left > 0 /\ Whole(Len(file)) /\ Whole(left)
      /\ result = "reading" /\ plain \in Seq(Character) /\ Len(plain) = Len(file)
      /\ file \in Seq(Cells)
  <2>1. result = "reading" /\ left > 0
    BY DEF DecipherBlock
  <2>. QED  BY <2>1, LenProperties DEF TypeInv, ReadInv
<1>3. Whole(n) /\ n + B <= Len(file)
  <2>1. left + n = Len(file) /\ n < Len(file)
    BY <1>1, <1>2
  <2>2. Whole(left + n)
    BY <1>2, <2>1
  <2>3. Whole(n)
    BY <1>2, <2>2, WholeSum
  <2>. QED  BY <1>2, <2>1, <2>3, WholeStep
<1>4. EncBlock(file, plain, n)
  <2>1. Enciphered(file, plain)
    BY <1>2 DEF FileInv
  <2>. QED  BY <1>3, <2>1 DEF Enciphered
<1>5. PICK b \in Seq(Character) :
        /\ b = SubSeq(plain, n + 1, n + B) /\ Len(b) = B
        /\ \A o \in 1..B : b[o] = plain[n + o]
  <2>1. /\ SubSeq(plain, n + 1, n + B) \in Seq(Character)
        /\ Len(SubSeq(plain, n + 1, n + B)) = B
        /\ \A o \in 1..B : SubSeq(plain, n + 1, n + B)[o] = plain[n + o]
    BY <1>2, <1>3, BlockSlice
  <2>. QED  BY <2>1
<1>6. PICK bytes : /\ bytes = SubSeq(file, n + 1, n + B)
                   /\ \A o \in 1..B : bytes[o] = [key |-> pwd, block |-> b, off |-> o]
  <2>1. \A o \in 1..B : SubSeq(file, n + 1, n + B)[o] = file[n + o]
    BY <1>2, <1>3, BlockSlice
  <2>2. PICK k : \A o \in 1..B : file[n + o] = [key |-> k, block |-> b, off |-> o]
    BY <1>4, <1>5 DEF EncBlock
  <2>3. k = pwd
    <3>1. 1 \in 1..B /\ n + 1 \in 1..Len(file)
      BY <1>2, <1>3, Sizes
    <3>2. n + 1 \in DOMAIN file
      BY <1>2, <3>1, LenProperties
    <3>3. file[n + 1].key = pwd
      BY <3>2 DEF Right
    <3>4. file[n + 1] = [key |-> k, block |-> b, off |-> 1]
      BY <2>2, <3>1
    <3>. QED  BY <3>3, <3>4
  <2>. DEFINE w == SubSeq(file, n + 1, n + B)
  <2>4. ASSUME NEW o \in 1..B
        PROVE  w[o] = [key |-> pwd, block |-> b, off |-> o]
    BY <2>1, <2>2, <2>3, Zenon
  <2>5. w = SubSeq(file, n + 1, n + B)
    OBVIOUS
  <2>. HIDE DEF w
  <2>. QED  BY <2>4, <2>5, Zenon
<1>7. Deciphered(bytes) = {b}
  <2>1. 1 \in 1..B
    BY Sizes
  <2>2. bytes[1] = [key |-> pwd, block |-> b, off |-> 1]
    BY <1>6, <2>1, Zenon
  <2>3. bytes[1].block = b
    BY <2>2
  <2>. QED  BY <1>6, <2>3 DEF Deciphered
<1>8. out' = out \o SubSeq(b, 1, _real_len(b))
  BY <1>1, <1>6, <1>7 DEF DecipherBlock
<1>9. SubSeq(b, 1, _real_len(b)) = Kept(b)
  BY <1>5, BlockKept
<1>10. PICK a \in Seq(Character) : a = SubSeq(plain, 1, n) /\ Len(a) = n
  <2>1. n <= Len(plain) /\ 1 <= n + 1 /\ (n + 1) - 1 = n
    BY <1>2, <1>3, Sizes
  <2>2. SubSeq(plain, 1, n) \in Seq(Character) /\ Len(SubSeq(plain, 1, n)) = (n + 1) - 1
    BY <1>2, <2>1, Slice
  <2>. QED  BY <2>1, <2>2
<1>11. a \o b = SubSeq(plain, 1, n + B)
  <2>1. 1 \in 1..Len(plain) + 1 /\ n \in 1 - 1..Len(plain) /\ n + B \in n..Len(plain)
    BY <1>2, <1>3, Sizes
  <2>2. SubSeq(plain, 1, n) \o SubSeq(plain, n + 1, n + B) = SubSeq(plain, 1, n + B)
    BY <1>2, <2>1, ConcatAdjacentSubSeq
  <2>. QED  BY <1>5, <1>10, <2>2
<1>12. Kept(a \o b) = Kept(a) \o Kept(b)
  BY <1>3, <1>10, KeptConcat
<1>13. out = Kept(a)
  BY <1>1, <1>2, <1>10 DEF ReadInv
<1>. QED  BY <1>1, <1>8, <1>9, <1>11, <1>12, <1>13

LEMMA DecipherBlockKeeps ==
  ASSUME Inv, DecipherBlock
  PROVE  Inv'
<1>. USE DEF Inv
<1>1. /\ result = "reading" /\ left > 0 /\ left' = left - B /\ result' = result
      /\ unwritten = 0 /\ UNCHANGED <<handleVars, fileVars, pwd, unwritten, losses, faults>>
  BY DEF DecipherBlock, ReadInv
<1>2. /\ Len(file) \in Nat /\ left \in Nat /\ left <= Len(file)
      /\ Whole(Len(file)) /\ Whole(left)
  BY <1>1, LenProperties DEF TypeInv, ReadInv
<1>3. left - B \in Nat /\ Whole(left - B)
  BY <1>1, <1>2, WholeStep, WholeZero
<1>4. left' \in 0..Len(file) /\ Whole(left') /\ Len(file) - left' = (Len(file) - left) + B
  BY <1>1, <1>2, <1>3, Sizes
<1>5. TypeInv'
  BY <1>1, <1>4 DEF TypeInv, handleVars, fileVars
<1>6. PartsInv' /\ FileInv' /\ TextInv'
  BY <1>1 DEF PartsInv, FileInv, TextInv, handleVars, fileVars
<1>7. ASSUME Right', losses' <= 1
      PROVE  out' = Kept(SubSeq(plain', 1, Len(file') - left'))
  <2>1. Right /\ losses <= 1 /\ plain' = plain /\ file' = file
    BY <1>1, <1>7 DEF Right, fileVars
  <2>. QED  BY <1>4, <2>1, BlockRestored
<1>8. ReadInv'
  BY <1>1, <1>2, <1>4, <1>7 DEF ReadInv, handleVars, fileVars
<1>. QED  BY <1>5, <1>6, <1>8

LEMMA DecipherStops ==
  ASSUME Inv, DecipherFails \/ DecipherEnds \/ DecipherCloseFails
  PROVE  Inv'
<1>. USE DEF Inv
<1>1. PICK n \in 0..BUFSIZ : CloseOut(n) /\ (faults' = 0 => n = 0)
  <2>1. CASE DecipherFails
    BY <2>1 DEF DecipherFails, Fault, TypeInv
  <2>2. CASE DecipherEnds
    BY <2>2, Sizes DEF DecipherEnds
  <2>3. CASE DecipherCloseFails
    <3>1. PICK n \in 1..BUFSIZ : CloseOut(n)
      BY <2>3 DEF DecipherCloseFails
    <3>2. n \in 0..BUFSIZ /\ faults' # 0
      BY <2>3, Sizes DEF DecipherCloseFails, Fault, TypeInv
    <3>. QED  BY <3>1, <3>2
  <2>. QED  BY <2>1, <2>2, <2>3
<1>2. out' = SubSeq(out, 1, Len(out) - n) /\ unwritten' = n
  BY <1>1 DEF CloseOut
<1>3. /\ result = "reading" /\ result' \in {"0", "1"}
      /\ (result' = "0" => left = 0) /\ (result' = "1" => faults' # 0)
      /\ faults' \in Nat
      /\ UNCHANGED <<handleVars, fileVars, pwd, left, losses>>
  BY DEF DecipherFails, DecipherEnds, DecipherCloseFails, DecipherReturns, Fault, TypeInv
<1>4. TypeInv' /\ PartsInv' /\ FileInv' /\ TextInv'
  BY <1>2, <1>3 DEF TypeInv, PartsInv, FileInv, TextInv, handleVars, fileVars
<1>5. ASSUME result' = "0", Right', losses' <= 1
      PROVE  out' = SubSeq(Kept(plain'), 1, Len(Kept(plain')) - unwritten')
  <2>1. Right /\ losses <= 1 /\ left = 0 /\ plain' = plain
    BY <1>3, <1>5 DEF Right, fileVars
  <2>2. out = Kept(SubSeq(plain, 1, Len(file) - left))
    BY <1>3, <2>1 DEF ReadInv
  <2>3. Len(file) - left = Len(plain) /\ plain \in Seq(Character)
    BY <2>1, LenProperties DEF TypeInv
  <2>4. SubSeq(plain, 1, Len(plain)) = plain
    BY <2>3, SubSeqFull
  <2>. QED  BY <1>2, <2>1, <2>2, <2>3, <2>4
<1>6. ReadInv'
  BY <1>1, <1>2, <1>3, <1>5 DEF ReadInv, handleVars, fileVars
<1>. QED  BY <1>4, <1>6

LEMMA NextKeeps == Inv /\ [Next]_vars => Inv'
<1>. SUFFICES ASSUME Inv, [Next]_vars PROVE Inv'
  OBVIOUS
<1>1. ASSUME NEW n \in 1..SINGLE_LOG_SIZE + B, NEW zeros \in ZeroSets[n], Log(n, zeros)
      PROVE  Inv'
  <2>1. n \in Nat \ {0}
    BY Sizes
  <2>. QED  BY <1>1, <2>1, LogKeeps
<1>2. CASE UNCHANGED vars
  BY <1>2 DEF Inv, TypeInv, PartsInv, FileInv, TextInv, ReadInv, Right, vars,
              handleVars, fileVars, readVars
<1>. QED  BY <1>1, <1>2, HandleSteps, LossKeeps, DecipherKeeps,
             DecipherBlockKeeps, DecipherStops DEF Next

LEMMA Invariant == Spec => []Inv
BY InitInv, NextKeeps, PTL DEF Spec

\* Every variable keeps its type: a text always fits the buffer of a record with
\* its terminator, and log_file_decipher never counts below 0.
THEOREM TypeCorrect == Spec => []TypeOK
<1>1. Inv => TypeOK
  <2>1. SUFFICES ASSUME Inv PROVE TypeOK
    OBVIOUS
  <2>2. mem \subseteq Parts
    BY <2>1 DEF Inv, TypeInv, Phases, PartsInv, Parts
  <2>3. DOMAIN texts = 1..Len(texts)
    BY <2>1, LenProperties DEF Inv, TypeInv
  <2>. QED  BY <2>1, <2>2, <2>3 DEF Inv, TypeInv, Phases, TypeOK
<1>. QED  BY <1>1, Invariant, PTL

\* A handle has all its parts while it can be used, and nothing stays allocated
\* of one whose creation failed, whichever allocation did.
THEOREM CreatedWhole == Spec => []AllOrNothing
<1>1. Inv => AllOrNothing
  BY DEF Inv, PartsInv, AllOrNothing
<1>. QED  BY <1>1, Invariant, PTL

\* log_file_decipher with the right password gives back the text of every record,
\* each block of it up to its first zero, or what one loss of a stream buffer left
\* of them, or it refuses the file, whatever the sizes of blocks, records and
\* buffers, wherever the zeros are and wherever the file was cut; all that can be
\* missing when it returns 0 is the end its unchecked fclose failed to write, and
\* nothing is when no call fails.
THEOREM TextRestored == Spec => []Restored
<1>1. Inv => Restored
  <2>1. SUFFICES ASSUME Inv PROVE Restored
    OBVIOUS
  <2>2. ASSUME result = "0", Right, losses <= 1
        PROVE  out = SubSeq(Restorable, 1, Len(Restorable) - unwritten)
    <3>1. Restorable = Kept(plain)
      BY <2>1 DEF Inv, TextInv, Restorable, Kepts
    <3>. QED  BY <2>1, <2>2, <3>1 DEF Inv, ReadInv
  <2>3. result = "1" /\ losses = 0 /\ faults = 0 => texts = << >>
    BY <2>1 DEF Inv, ReadInv, FileInv, TextInv
  <2>4. faults = 0 => unwritten = 0
    BY <2>1 DEF Inv, ReadInv
  <2>. QED  BY <2>2, <2>3, <2>4 DEF Restored
<1>. QED  BY <1>1, Invariant, PTL
=============================================================================
