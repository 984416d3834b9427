--------------------------- MODULE Lz4FileProofs ---------------------------
(***************************************************************************)
(* Theorems about Lz4File, for every size of the source, every memory and  *)
(* every number of failing library calls.                                  *)
(***************************************************************************)
EXTENDS Lz4File, SequenceLemmas

-----------------------------------------------------------------------------
(* The sizes the search for memory goes through: whole and half steps, then *)
(* the powers of two below a step.                                         *)

HalfStep == Step \div 2

Powers == CHOOSE P \in SUBSET (1..Step) : Step \in P /\ Halving(P)

Whole(n) == n * Step
WholeAndHalf(n) == n * Step + HalfStep

Tried(r) == \/ r \in Powers
            \/ \E n \in Nat \ {0} : r = Whole(n) \/ r = WholeAndHalf(n)

LEMMA PowersExist ==
  /\ Powers \in SUBSET (1..Step)
  /\ Step \in Powers
  /\ \A n \in Powers : n = 1 \/ (n % 2 = 0 /\ n \div 2 \in Powers)
<1>1. \E P \in SUBSET (1..Step) : Step \in P /\ Halving(P)
  BY Lz4FileAssumption
<1>2. Powers \in SUBSET (1..Step) /\ Step \in Powers /\ Halving(Powers)
  BY ONLY <1>1 DEF Powers
<1>. QED  BY <1>2 DEF Halving

LEMMA HalfStepIs ==
  /\ HalfStep \in Nat /\ HalfStep >= 2
  /\ Step = 2 * HalfStep
  /\ HalfStep \in Powers
<1>1. Step \in Nat /\ Step >= 4
  BY Lz4FileAssumption
<1>2. Step % 2 = 0 /\ HalfStep \in Powers
  BY <1>1, PowersExist DEF HalfStep
<1>. QED  BY <1>1, <1>2 DEF HalfStep

\* A product of two numbers is at least as large as each of them.
LEMMA Multiple ==
  ASSUME NEW n \in Nat \ {0}, NEW s \in Nat
  PROVE  /\ n * s \in Nat /\ n * s >= s
         /\ n >= 2 => n * s >= 2 * s
         /\ (n - 1) * s = n * s - s
OBVIOUS

\* The next size is tried as well, and is at least half as large, or half a
\* step.
LEMMA SmallerTried ==
  ASSUME NEW r \in Nat, Tried(r), r >= 2
  PROVE  /\ Smaller(r) \in Nat
         /\ Tried(Smaller(r))
         /\ 2 * Smaller(r) = r \/ Smaller(r) >= HalfStep
         /\ Smaller(r) < r
         /\ r > Step => Smaller(r) = r - Step
         /\ r <= Step => Smaller(r) = r \div 2
<1>1. Step \in Nat /\ Step >= 4
  BY Lz4FileAssumption
<1>2. CASE r \in Powers
  <2>1. r <= Step /\ r % 2 = 0 /\ r \div 2 \in Powers
    BY <1>2, PowersExist
  <2>2. Smaller(r) = r \div 2
    BY <2>1, <1>1 DEF Smaller
  <2>. QED  BY <2>1, <2>2, <1>1 DEF Tried
<1>3. ASSUME NEW n \in Nat \ {0}, r = Whole(n) \/ r = WholeAndHalf(n)
      PROVE  /\ Smaller(r) \in Nat
             /\ Tried(Smaller(r))
             /\ 2 * Smaller(r) = r \/ Smaller(r) >= HalfStep
             /\ Smaller(r) < r
             /\ r > Step => Smaller(r) = r - Step
             /\ r <= Step => Smaller(r) = r \div 2
  <2>1. /\ n * Step \in Nat /\ n * Step >= Step
        /\ n >= 2 => n * Step >= 2 * Step
        /\ (n - 1) * Step = n * Step - Step
    BY <1>1, Multiple
  <2>2. CASE n = 1 /\ r = Whole(n)
    <3>1. r = Step
      BY <2>2, <1>1 DEF Whole
    <3>. QED  BY <3>1, <1>2, PowersExist
  <2>3. CASE n = 1 /\ r = WholeAndHalf(n)
    <3>1. r = Step + HalfStep
      BY <2>3, <1>1 DEF WholeAndHalf
    <3>2. Smaller(r) = HalfStep
      BY <3>1, <1>1, HalfStepIs DEF Smaller
    <3>. QED  BY <3>1, <3>2, <1>1, HalfStepIs DEF Tried
  <2>4. CASE n >= 2
    <3>1. r > Step
      BY <2>1, <2>4, <1>1, <1>3, HalfStepIs DEF Whole, WholeAndHalf
    <3>2. Smaller(r) = r - Step
      BY <3>1 DEF Smaller
    <3>3. Smaller(r) = Whole(n - 1) \/ Smaller(r) = WholeAndHalf(n - 1)
      BY <3>2, <2>1, <1>3, <1>1, HalfStepIs DEF Whole, WholeAndHalf
    <3>4. n - 1 \in Nat \ {0}
      BY <2>4
    <3>5. Smaller(r) >= HalfStep
      BY <3>2, <2>1, <2>4, <1>1, <1>3, HalfStepIs DEF Whole, WholeAndHalf
    <3>. QED  BY <3>1, <3>2, <3>3, <3>4, <3>5, <1>1 DEF Tried
  <2>5. n = 1 \/ n >= 2
    OBVIOUS
  <2>. QED  BY <2>2, <2>3, <2>4, <2>5, <1>3
<1>. QED  BY <1>2, <1>3 DEF Tried

-----------------------------------------------------------------------------
(* The size of a block.                                                    *)

\* While the search goes on the last size failed, or is the first; when it
\* ends, what it found leaves room for a header after the next size.
SearchInv ==
  /\ phase = "probe" =>
       /\ required \in Nat /\ Tried(required)
       /\ \/ required >= Step + HalfStep
          \/ required + Bound(required) > memory
  /\ phase = "keep" =>
       /\ required \in Nat /\ required >= 2 /\ required >= HeaderSize
       /\ Tried(required)
       /\ required + Bound(required) <= memory
  /\ BuffersFit

LEMMA Constants ==
  /\ Step \in Nat /\ HeaderSize \in Nat /\ HeaderSize >= 1
  /\ HeaderSize <= HalfStep
  /\ Expansion \in Nat /\ Expansion >= 2
  /\ MaxMem \in Nat /\ BUFSIZ \in Nat /\ MaxFaults \in Nat
  /\ \A s \in Sizes : s \in Nat
  /\ \A m \in Memories : m \in Nat /\ m >= 4 * HeaderSize + Expansion
<1>1. /\ HeaderSize \in 1..HalfStep /\ Step \in Nat
      /\ Expansion \in Nat \ {0, 1} /\ MaxMem \in Nat /\ BUFSIZ \in Nat /\ MaxFaults \in Nat
      /\ Sizes \subseteq Nat
      /\ Memories \subseteq {m \in Nat : m >= 4 * HeaderSize + Expansion}
  BY Lz4FileAssumption DEF HalfStep
<1>. QED  BY <1>1, HalfStepIs

LEMMA MeasureFinds ==
  ASSUME TypeOK, Measure
  PROVE  SearchInv'
<1>1. size \in Nat /\ Step \in Nat /\ Step >= 4
  BY Constants, Lz4FileAssumption DEF TypeOK
<1>. DEFINE n == size \div Step + 3
            top == (size \div Step + 1) * Step + 2 * Step
<1>2. n \in Nat \ {0} /\ n >= 3
  BY <1>1
<1>3. top = n * Step
  BY <1>1, <1>2
<1>4. Tried(top) /\ top \in Nat /\ top >= Step + HalfStep
  <2>1. n * Step \in Nat /\ n * Step >= 2 * Step
    BY <1>1, <1>2, Multiple
  <2>. QED  BY <2>1, <1>1, <1>2, <1>3, HalfStepIs DEF Tried, Whole
<1>5. Tried(MaxMem) /\ MaxMem \in Nat /\ MaxMem >= Step + HalfStep
  <2>1. PICK k \in 1..MaxMem : MaxMem = k * Step + HalfStep
    BY Lz4FileAssumption DEF HalfStep
  <2>2. k \in Nat \ {0} /\ k * Step \in Nat /\ k * Step >= Step
    BY <1>1, Multiple, Lz4FileAssumption
  <2>. QED  BY <2>1, <2>2, <1>1, HalfStepIs DEF Tried, WholeAndHalf
<1>6. required' = top \/ required' = MaxMem
  BY DEF Measure, MinOf
<1>7. phase' = "probe"
  BY DEF Measure
<1>8. Tried(required')
  BY <1>4, <1>5, <1>6
<1>. QED  BY <1>4, <1>5, <1>6, <1>7, <1>8 DEF SearchInv, BuffersFit, Tried

LEMMA ProbeFinds ==
  ASSUME TypeOK, SearchInv, Probe
  PROVE  SearchInv'
<1>1. /\ memory \in Nat /\ memory >= 4 * HeaderSize + Expansion
      /\ memory' = memory
  BY Constants DEF TypeOK, Probe
<1>2. required \in Nat /\ Tried(required) /\ required > 2 * HeaderSize
  BY <1>1, Constants, HalfStepIs DEF SearchInv, Probe, Bound
<1>3. /\ required' \in Nat /\ Tried(Smaller(required))
      /\ required' = Smaller(required)
      /\ 2 * required' = required \/ required' >= HalfStep
  BY <1>2, SmallerTried, Constants DEF Probe
<1>4. required' >= HeaderSize /\ required' >= 2
  BY <1>2, <1>3, Constants, HalfStepIs
<1>5. \/ phase' = "keep" /\ required' + Bound(required') <= memory
      \/ phase' = "probe" /\ ~(required' + Bound(required') <= memory)
  BY DEF Probe
<1>6. required' + Bound(required') \in Nat
  BY <1>3, Constants DEF Bound
<1>7. Tried(required')
  BY <1>3
<1>8. CASE phase' = "keep"
  BY <1>1, <1>3, <1>4, <1>5, <1>7, <1>8 DEF SearchInv, BuffersFit, Tried, Bound
<1>9. CASE phase' = "probe"
  <2>1. required' + Bound(required') > memory
    BY <1>1, <1>5, <1>6, <1>9
  <2>. QED  BY <1>1, <1>3, <1>7, <1>9, <2>1 DEF SearchInv, BuffersFit, Tried, Bound
<1>. QED  BY <1>5, <1>8, <1>9

LEMMA KeepFits ==
  ASSUME TypeOK, SearchInv, Keep
  PROVE  SearchInv' /\ available' \in Nat /\ required' \in Nat
<1>. DEFINE r == required  s == Smaller(required)
<1>1. /\ memory \in Nat /\ memory' = memory /\ size \in Nat /\ size' = size
      /\ required' = s
      /\ available' = IF s > size THEN size ELSE s
      /\ phase' = "compress"
  BY Constants DEF TypeOK, Keep
<1>2. /\ r \in Nat /\ r >= 2 /\ r >= HeaderSize /\ Tried(r)
      /\ r + (r + Expansion) <= memory
  BY DEF SearchInv, Keep, Bound
<1>3. /\ s \in Nat
      /\ r > Step => s = r - Step
      /\ r <= Step => s = r \div 2
  BY <1>2, SmallerTried
<1>4. s > 0 /\ s + (s + Expansion) + HeaderSize <= memory
  BY <1>1, <1>2, <1>3, Constants, HalfStepIs
<1>5. /\ available' \in Nat
      /\ available' + (available' + Expansion) + HeaderSize <= memory
      /\ size > 0 => available' > 0
  BY <1>1, <1>3, <1>4, Constants
<1>. QED  BY <1>1, <1>3, <1>5 DEF SearchInv, BuffersFit, Bound

-----------------------------------------------------------------------------
(* Where the blocks are in the source and in the compressed file.          *)

\* Where in the source the i-th block begins; past the last block, what the
\* compression has read.
FromOf(i) == IF i \in DOMAIN blocks THEN blocks[i].from ELSE pos

AtOf(i) == IF i \in DOMAIN blocks THEN blocks[i].at ELSE comp_file

\* The next block follows in the source, without a gap unless a call has
\* failed, and in the compressed file, where a complete block is as long as
\* its header says.
Placed(i) ==
  /\ blocks[i].from + blocks[i].uncomp <= FromOf(i + 1)
  /\ blocks[i].from + blocks[i].uncomp <= pos
  /\ faults = 0 => blocks[i].from + blocks[i].uncomp = FromOf(i + 1)
  /\ blocks[i].at < comp_file
  /\ blocks[i].whole =>
       AtOf(i + 1) = blocks[i].at + blocks[i].comp + HeaderSize

BlocksInv ==
  /\ AtOf(1) = 0
  /\ faults = 0 => FromOf(1) = 0
  /\ \A i \in DOMAIN blocks : Placed(i)

Writing == {"measure", "probe", "keep", "compress", "flush", "open"}

\* Nothing is restored while the source is compressed.
WriteInv ==
  /\ phase \in Writing => next = 1 /\ left = 0 /\ out = << >> /\ result = NULL
  /\ phase \in {"measure", "probe", "keep"} => pos = 0 /\ blocks = << >> /\ comp_file = 0
  /\ phase \in {"flush", "open", "read"} /\ faults = 0 => pos = size

\* The reader is at the beginning of a block, or at the end, and has restored
\* what comes before it.
ReadInv ==
  phase = "read" => /\ result = NULL
                    /\ next \in 1..Len(blocks) + 1
                    /\ left = comp_file - AtOf(next)
                    /\ \A i \in DOMAIN out : out[i] <= FromOf(next)
                    /\ faults = 0 => Len(out) = FromOf(next)

\* The restored file is in the order of the source, and complete when no call
\* has failed.
OrderInv ==
  /\ \A i, j \in DOMAIN out : i < j => out[i] < out[j]
  /\ result = 0 /\ faults = 0 => Len(out) = size

FileInv == TypeOK /\ SearchInv /\ BlocksInv /\ WriteInv /\ ReadInv /\ OrderInv

LEMMA InitFile == Init => FileInv
<1>. SUFFICES ASSUME Init
              PROVE  FileInv
  OBVIOUS
<1>1. /\ size \in Nat /\ 0 \in 0..size /\ BUFSIZ \in Nat /\ MaxFaults \in Nat
  BY Constants DEF Init
<1>2. TypeOK
  BY <1>1 DEF Init, TypeOK, NULL
<1>. QED  BY <1>2 DEF Init, FileInv, SearchInv, BuffersFit, BlocksInv, FromOf, AtOf,
                      WriteInv, Writing, ReadInv, OrderInv, NULL

-----------------------------------------------------------------------------
(* Compression.                                                            *)

\* A block goes behind those that are in the file.
LEMMA EmitAppends ==
  ASSUME TypeOK, BlocksInv,
         NEW n \in Nat \ {0}, n <= size - pos,
         NEW c \in Nat \ {0}, NEW kept \in 0..HeaderSize + c,
         Emit(n, c, kept),
         faults' = 0 => faults = 0 /\ kept = HeaderSize + c,
         size' = size
  PROVE  /\ pos' \in 0..size /\ comp_file' \in Nat /\ blocks' \in Seq(Block)
         /\ BlocksInv'
<1>. DEFINE b == [from |-> pos, uncomp |-> n, comp |-> c, at |-> comp_file,
                  whole |-> kept = HeaderSize + c]
<1>1. /\ pos \in Nat /\ size \in Nat /\ pos <= size /\ comp_file \in Nat
      /\ HeaderSize \in Nat /\ HeaderSize >= 1 /\ kept \in Nat
      /\ blocks \in Seq(Block) /\ Len(blocks) \in Nat
      /\ DOMAIN blocks = 1..Len(blocks)
  BY Constants, LenProperties DEF TypeOK
<1>2. /\ pos' = pos + n /\ comp_file' = comp_file + kept
      /\ blocks' = IF kept = 0 THEN blocks ELSE Append(blocks, b)
  BY DEF Emit
<1>3. /\ \A i \in DOMAIN blocks : blocks[i] \in Block
      /\ \A i \in DOMAIN blocks : /\ blocks[i].from \in Nat /\ blocks[i].uncomp \in Nat
                                  /\ blocks[i].comp \in Nat /\ blocks[i].at \in Nat
  <2>. SUFFICES ASSUME NEW i \in DOMAIN blocks
                PROVE  /\ blocks[i] \in Block
                       /\ blocks[i].from \in Nat /\ blocks[i].uncomp \in Nat
                       /\ blocks[i].comp \in Nat /\ blocks[i].at \in Nat
    OBVIOUS
  <2>1. blocks[i] \in Block
    BY <1>1, ElementOfSeq
  <2>. QED  BY <2>1 DEF Block
<1>4. b \in Block
  BY <1>1 DEF Block
<1>5. PICK k \in Nat : k = Len(blocks)
  BY <1>1
<1>6. /\ Append(blocks, b) \in Seq(Block)
      /\ DOMAIN Append(blocks, b) = 1..k + 1
      /\ \A i \in 1..k : Append(blocks, b)[i] = blocks[i]
      /\ Append(blocks, b)[k + 1] = b
  BY <1>1, <1>4, <1>5, AppendProperties, LenProperties
<1>7. pos' \in 0..size /\ comp_file' \in Nat /\ blocks' \in Seq(Block)
  BY <1>1, <1>2, <1>6
<1>8. CASE kept = 0
  <2>1. blocks' = blocks /\ pos' >= pos /\ comp_file' = comp_file /\ faults' # 0
    BY <1>1, <1>2, <1>8
  <2>2. ASSUME NEW i \in 1..k + 1
        PROVE  FromOf(i) \in Int /\ FromOf(i)' \in Int /\ FromOf(i)' >= FromOf(i)
    <3>1. CASE i \in DOMAIN blocks
      BY <1>3, <2>1, <3>1 DEF FromOf
    <3>2. CASE i \notin DOMAIN blocks
      BY <1>1, <1>7, <2>1, <3>2 DEF FromOf
    <3>. QED  BY <3>1, <3>2
  <2>3. ASSUME NEW i \in 1..k + 1
        PROVE  AtOf(i)' = AtOf(i)
    BY <2>1 DEF AtOf
  <2>4. ASSUME NEW i \in DOMAIN blocks'
        PROVE  Placed(i)'
    <3>1. i \in 1..k /\ i + 1 \in 1..k + 1
      BY <1>1, <1>5, <2>1
    <3>2. Placed(i)
      BY <2>1 DEF BlocksInv
    <3>3. /\ FromOf(i + 1) \in Int /\ FromOf(i + 1)' \in Int
          /\ FromOf(i + 1)' >= FromOf(i + 1)
          /\ AtOf(i + 1)' = AtOf(i + 1)
      BY <2>2, <2>3, <3>1
    <3>4. /\ blocks[i].from \in Nat /\ blocks[i].uncomp \in Nat
          /\ blocks'[i] = blocks[i] /\ pos' \in Nat
      <4>1. i \in DOMAIN blocks
        BY <2>1
      <4>2. blocks[i].from \in Nat /\ blocks[i].uncomp \in Nat
        BY <1>3, <4>1
      <4>3. pos' \in Nat
        BY <1>1, <1>7
      <4>. QED  BY <2>1, <4>2, <4>3
    <3>. QED  BY <1>1, <2>1, <3>2, <3>3, <3>4, SMTT(30) DEF Placed
  <2>5. AtOf(1)' = 0
    BY <2>3 DEF BlocksInv
  <2>. QED  BY <1>7, <2>1, <2>4, <2>5 DEF BlocksInv
<1>9. CASE kept # 0
  <2>1. blocks' = Append(blocks, b) /\ comp_file' > comp_file
    BY <1>1, <1>2, <1>9
  <2>2. /\ \A i \in 1..k : blocks'[i] = blocks[i]
        /\ blocks'[k + 1] = b
        /\ DOMAIN blocks' = 1..k + 1
    BY <1>6, <2>1
  <2>. HIDE DEF b
  <2>3. b.from = pos /\ b.at = comp_file
    BY DEF b
  <2>4. ASSUME NEW i \in 1..k + 1
        PROVE  FromOf(i)' = FromOf(i) /\ AtOf(i)' = AtOf(i)
    <3>1. CASE i \in 1..k
      <4>1. i \in DOMAIN blocks /\ i \in DOMAIN blocks' /\ blocks'[i] = blocks[i]
        BY <1>1, <1>5, <2>2, <3>1
      <4>. QED  BY <4>1 DEF FromOf, AtOf
    <3>2. CASE i = k + 1
      <4>1. i \notin DOMAIN blocks /\ i \in DOMAIN blocks' /\ blocks'[i] = b
        BY <1>1, <1>5, <2>2, <3>2
      <4>. QED  BY <4>1, <2>3 DEF FromOf, AtOf
    <3>. QED  BY <3>1, <3>2
  <2>5. AtOf(1)' = 0 /\ (faults' = 0 => FromOf(1)' = 0)
    BY <2>4 DEF BlocksInv
  <2>6. ASSUME NEW i \in 1..k
        PROVE  Placed(i)'
    <3>1. i \in DOMAIN blocks /\ Placed(i) /\ i + 1 \in 1..k + 1
      BY <1>1, <1>5 DEF BlocksInv
    <3>2. /\ FromOf(i + 1)' = FromOf(i + 1) /\ AtOf(i + 1)' = AtOf(i + 1)
          /\ blocks'[i] = blocks[i]
          /\ blocks[i].from \in Nat /\ blocks[i].uncomp \in Nat /\ blocks[i].at \in Nat
      BY <1>3, <2>2, <2>4, <3>1
    <3>3. /\ pos \in Nat /\ comp_file \in Nat
          /\ pos' >= pos /\ comp_file' > comp_file /\ pos' \in Nat /\ comp_file' \in Nat
      BY <1>1, <1>2, <2>1
    <3>4. Placed(i)
      BY <3>1
    <3>5. blocks[i].from + blocks[i].uncomp <= pos'
      BY <3>2, <3>3, <3>4 DEF Placed
    <3>6. blocks[i].at < comp_file'
      BY <3>2, <3>3, <3>4 DEF Placed
    <3>. QED  BY <3>2, <3>4, <3>5, <3>6 DEF Placed
  <2>7. Placed(k + 1)'
    <3>1. FromOf(k + 1 + 1)' = pos' /\ AtOf(k + 1 + 1)' = comp_file'
      <4>1. k + 1 + 1 \notin DOMAIN blocks'
        BY <2>2
      <4>. QED  BY <4>1 DEF FromOf, AtOf
    <3>2. /\ b.uncomp = n /\ b.comp = c
          /\ b.whole => kept = HeaderSize + c
      BY DEF b
    <3>3. /\ pos + n = pos' /\ pos' \in Nat
          /\ comp_file < comp_file' /\ comp_file' = comp_file + kept
          /\ comp_file \in Nat /\ HeaderSize \in Nat /\ kept \in Nat
      BY <1>1, <1>2, <2>1
    <3>4. blocks'[k + 1] = b
      BY <2>2
    <3>. QED  BY <2>3, <3>1, <3>2, <3>3, <3>4 DEF Placed
  <2>8. \A i \in DOMAIN blocks' : Placed(i)'
    <3>. SUFFICES ASSUME NEW i \in 1..k + 1
                  PROVE  Placed(i)'
      BY <2>2
    <3>1. i \in 1..k \/ i = k + 1
      OBVIOUS
    <3>. QED  BY <2>6, <2>7, <3>1
  <2>. QED  BY <1>7, <2>5, <2>8 DEF BlocksInv
<1>. QED  BY <1>7, <1>8, <1>9

\* The other actions leave the blocks where they are.
LEMMA BlocksStay ==
  ASSUME BlocksInv, UNCHANGED compVars, faults' = 0 => faults = 0
  PROVE  BlocksInv'
<1>1. blocks' = blocks /\ pos' = pos /\ comp_file' = comp_file
  BY DEF compVars
<1>2. ASSUME NEW i \in DOMAIN blocks'
      PROVE  Placed(i)'
  <2>1. Placed(i)
    BY <1>1 DEF BlocksInv
  <2>2. FromOf(i + 1)' = FromOf(i + 1) /\ AtOf(i + 1)' = AtOf(i + 1)
    BY <1>1 DEF FromOf, AtOf
  <2>. QED  BY <1>1, <2>1, <2>2 DEF Placed
<1>3. AtOf(1)' = AtOf(1) /\ FromOf(1)' = FromOf(1)
  BY <1>1 DEF FromOf, AtOf
<1>. QED  BY <1>2, <1>3 DEF BlocksInv

LEMMA MeasureKeeps == ASSUME FileInv, Measure PROVE FileInv'
<1>1. SearchInv'
  BY MeasureFinds DEF FileInv
<1>2. BlocksInv'
  BY BlocksStay DEF FileInv, Measure
<1>3. required' \in Nat
  BY <1>1 DEF SearchInv, Measure
<1>4. TypeOK'
  BY <1>3 DEF FileInv, TypeOK, Measure, compVars, readVars
<1>5. WriteInv' /\ ReadInv' /\ OrderInv'
  BY DEF FileInv, WriteInv, Writing, ReadInv, OrderInv, Measure, compVars, readVars
<1>. QED  BY <1>1, <1>2, <1>4, <1>5 DEF FileInv

LEMMA ProbeKeeps == ASSUME FileInv, Probe PROVE FileInv'
<1>1. SearchInv' /\ phase' \in {"probe", "keep"}
  BY ProbeFinds DEF FileInv, Probe
<1>2. BlocksInv'
  BY BlocksStay DEF FileInv, Probe
<1>3. required' \in Nat
  BY <1>1 DEF SearchInv
<1>4. TypeOK'
  BY <1>1, <1>3 DEF FileInv, TypeOK, Probe, compVars, readVars
<1>5. WriteInv' /\ ReadInv' /\ OrderInv'
  BY <1>1 DEF FileInv, WriteInv, Writing, ReadInv, OrderInv, Probe, compVars, readVars
<1>. QED  BY <1>1, <1>2, <1>4, <1>5 DEF FileInv

LEMMA KeepKeeps == ASSUME FileInv, Keep PROVE FileInv'
<1>1. SearchInv' /\ available' \in Nat /\ required' \in Nat
  BY KeepFits DEF FileInv
<1>2. BlocksInv'
  BY BlocksStay DEF FileInv, Keep
<1>4. TypeOK'
  BY <1>1 DEF FileInv, TypeOK, Keep, compVars, readVars
<1>5. WriteInv' /\ ReadInv' /\ OrderInv'
  BY DEF FileInv, WriteInv, Writing, ReadInv, OrderInv, Keep, compVars, readVars
<1>. QED  BY <1>1, <1>2, <1>4, <1>5 DEF FileInv

\* A failed malloc or fopen of lz4_file_compress ends the process.
LEMMA CompressOpenFailsKeeps == ASSUME FileInv, CompressOpenFails PROVE FileInv'
<1>1. faults' \in 0..MaxFaults /\ faults' # 0
  BY Constants DEF FileInv, TypeOK, CompressOpenFails, Fault
<1>2. BlocksInv'
  BY <1>1, BlocksStay DEF FileInv, CompressOpenFails
<1>3. TypeOK' /\ SearchInv'
  BY <1>1 DEF FileInv, TypeOK, SearchInv, BuffersFit, CompressOpenFails, memVars,
              compVars, readVars
<1>4. WriteInv' /\ ReadInv' /\ OrderInv'
  BY <1>1 DEF FileInv, WriteInv, Writing, ReadInv, OrderInv, CompressOpenFails,
              readVars
<1>. QED  BY <1>2, <1>3, <1>4 DEF FileInv

\* One turn of the loop of lz4_file_compress, whether its fwrite fails or not.
LEMMA EmitKeeps ==
  ASSUME FileInv, phase = "compress", phase' = "compress", BlockLen > 0,
         NEW c \in 1..Bound(BlockLen) - 1, NEW kept \in 0..HeaderSize + c,
         Emit(BlockLen, c, kept),
         faults' \in 0..MaxFaults,
         faults' = 0 => faults = 0 /\ kept = HeaderSize + c,
         UNCHANGED <<size, memory, memVars, readVars>>
  PROVE  FileInv'
<1>1. BlockLen \in Nat \ {0} /\ BlockLen <= size - pos /\ c \in Nat \ {0}
  BY Constants, SMTT(30) DEF FileInv, TypeOK, BlockLen, MinOf, Bound
<1>2. /\ pos' \in 0..size /\ comp_file' \in Nat /\ blocks' \in Seq(Block)
      /\ BlocksInv'
  BY <1>1, EmitAppends DEF FileInv
<1>3. TypeOK'
  BY <1>2 DEF FileInv, TypeOK, memVars, readVars
<1>4. SearchInv'
  BY DEF FileInv, SearchInv, BuffersFit, memVars
<1>5. WriteInv' /\ ReadInv' /\ OrderInv'
  BY DEF FileInv, WriteInv, Writing, ReadInv, OrderInv, readVars
<1>. QED  BY <1>2, <1>3, <1>4, <1>5 DEF FileInv

LEMMA CompressBlockKeeps == ASSUME FileInv, CompressBlock PROVE FileInv'
<1>1. PICK c \in 1..Bound(BlockLen) - 1 : Emit(BlockLen, c, HeaderSize + c)
  BY DEF CompressBlock
<1>2. HeaderSize + c \in 0..HeaderSize + c
  BY Constants
<1>3. faults' \in 0..MaxFaults
  BY DEF FileInv, TypeOK, CompressBlock
<1>. QED  BY <1>1, <1>2, <1>3, EmitKeeps DEF CompressBlock

LEMMA CompressShortKeeps == ASSUME FileInv, CompressShort PROVE FileInv'
<1>1. PICK c \in 1..Bound(BlockLen) - 1 :
        \E kept \in 0..HeaderSize + c - 1 : Emit(BlockLen, c, kept)
  BY DEF CompressShort
<1>5. PICK kept \in 0..HeaderSize + c - 1 : Emit(BlockLen, c, kept)
  BY <1>1
<1>2. kept \in 0..HeaderSize + c
  BY Constants
<1>3. faults' \in 0..MaxFaults /\ faults' # 0
  BY Constants DEF FileInv, TypeOK, CompressShort, Fault
<1>4. phase = "compress" /\ phase' = "compress" /\ BlockLen > 0
      /\ UNCHANGED <<size, memory, memVars, readVars>>
  BY DEF CompressShort
<1>. QED  BY <1>2, <1>3, <1>4, <1>5, EmitKeeps

LEMMA CompressCutKeeps == ASSUME FileInv, CompressCut PROVE FileInv'
<1>1. faults' \in 0..MaxFaults /\ faults' # 0
  BY Constants DEF FileInv, TypeOK, CompressCut, Fault
<1>2. BlocksInv'
  BY <1>1, BlocksStay DEF FileInv, CompressCut
<1>3. TypeOK'
  BY <1>1 DEF FileInv, TypeOK, CompressCut, memVars, compVars, readVars
<1>4. SearchInv'
  BY DEF FileInv, SearchInv, BuffersFit, CompressCut
<1>5. WriteInv' /\ ReadInv' /\ OrderInv'
  BY <1>1 DEF FileInv, WriteInv, Writing, ReadInv, OrderInv, CompressCut, readVars
<1>. QED  BY <1>2, <1>3, <1>4, <1>5 DEF FileInv

\* The whole source has been read: a file that is not empty has blocks that
\* are not empty.
LEMMA CompressEndsKeeps == ASSUME FileInv, CompressEnds PROVE FileInv'
<1>1. pos = size
  BY Constants DEF FileInv, TypeOK, SearchInv, BuffersFit, CompressEnds,
                   BlockLen, MinOf
<1>2. BlocksInv'
  BY BlocksStay DEF FileInv, CompressEnds
<1>3. TypeOK'
  BY DEF FileInv, TypeOK, CompressEnds, memVars, compVars, readVars
<1>4. SearchInv'
  BY DEF FileInv, SearchInv, BuffersFit, CompressEnds
<1>5. WriteInv' /\ ReadInv' /\ OrderInv'
  BY <1>1 DEF FileInv, WriteInv, Writing, ReadInv, OrderInv, CompressEnds,
              compVars, readVars
<1>. QED  BY <1>2, <1>3, <1>4, <1>5 DEF FileInv

LEMMA CompressClosesKeeps == ASSUME FileInv, CompressCloses PROVE FileInv'
<1>1. BlocksInv'
  BY BlocksStay DEF FileInv, CompressCloses
<1>2. TypeOK' /\ SearchInv'
  BY DEF FileInv, TypeOK, SearchInv, BuffersFit, CompressCloses, memVars, compVars,
         readVars
<1>3. WriteInv' /\ ReadInv' /\ OrderInv'
  BY DEF FileInv, WriteInv, Writing, ReadInv, OrderInv, CompressCloses, compVars,
         readVars
<1>. QED  BY <1>1, <1>2, <1>3 DEF FileInv

\* The end of the compressed file is missing: the blocks in front of it are where
\* they were.
LEMMA CutKeeps ==
  ASSUME TypeOK, BlocksInv, NEW end \in Nat, end < comp_file, CutAt(end),
         pos' = pos, faults' # 0
  PROVE  comp_file' \in Nat /\ blocks' \in Seq(Block) /\ BlocksInv'
<1>1. /\ pos \in Nat /\ comp_file \in Nat /\ HeaderSize \in Nat
      /\ blocks \in Seq(Block) /\ Len(blocks) \in Nat
      /\ DOMAIN blocks = 1..Len(blocks)
  BY Constants, LenProperties DEF TypeOK
<1>2. ASSUME NEW i \in DOMAIN blocks
      PROVE  /\ blocks[i] \in Block
             /\ blocks[i].from \in Nat /\ blocks[i].uncomp \in Nat
             /\ blocks[i].comp \in Nat /\ blocks[i].at \in Nat
  <2>1. blocks[i] \in Block
    BY <1>1, ElementOfSeq
  <2>. QED  BY <2>1 DEF Block
<1>. DEFINE Cut(i) == [blocks[i] EXCEPT !.whole =
                         @ /\ blocks[i].at + blocks[i].comp + HeaderSize <= end]
<1>3. PICK n \in 0..Len(blocks) :
        /\ \A i \in DOMAIN blocks : i <= n <=> blocks[i].at < end
        /\ blocks' = [i \in 1..n |-> Cut(i)]
  BY DEF CutAt
<1>4. comp_file' = end /\ n \in Nat /\ n <= Len(blocks)
  BY <1>1, <1>3 DEF CutAt
<1>5. ASSUME NEW i \in 1..n
      PROVE  /\ i \in DOMAIN blocks /\ i \in DOMAIN blocks' /\ Cut(i) \in Block
             /\ blocks'[i] = Cut(i)
             /\ blocks'[i].from = blocks[i].from /\ blocks'[i].uncomp = blocks[i].uncomp
             /\ blocks'[i].comp = blocks[i].comp /\ blocks'[i].at = blocks[i].at
             /\ blocks'[i].whole =>
                  /\ blocks[i].whole
                  /\ blocks[i].at + blocks[i].comp + HeaderSize <= end
  <2>1. i \in DOMAIN blocks
    BY <1>1, <1>4
  <2>2. blocks[i] \in Block
    BY <1>2, <2>1
  <2>3. /\ Cut(i) \in Block
        /\ Cut(i).from = blocks[i].from /\ Cut(i).uncomp = blocks[i].uncomp
        /\ Cut(i).comp = blocks[i].comp /\ Cut(i).at = blocks[i].at
        /\ Cut(i).whole = (blocks[i].whole
                             /\ blocks[i].at + blocks[i].comp + HeaderSize <= end)
    BY <2>2 DEF Block
  <2>. HIDE DEF Cut
  <2>. QED  BY <1>3, <2>1, <2>3
<1>6. blocks' \in Seq(Block) /\ DOMAIN blocks' = 1..n
  <2>1. blocks' \in [1..n -> Block]
    BY <1>3, <1>5
  <2>. QED  BY <1>4, <2>1, FunctionIsSeq
<1>. HIDE DEF Cut
<1>7. AtOf(1)' = 0
  <2>1. CASE n = 0
    <3>1. 1 \notin DOMAIN blocks'
      BY <1>6, <2>1
    <3>2. AtOf(1)' = end
      BY <1>4, <3>1 DEF AtOf
    <3>3. 1 \in DOMAIN blocks
      BY <1>1 DEF BlocksInv, AtOf
    <3>4. blocks[1].at = 0 /\ ~(blocks[1].at < end)
      BY <1>3, <2>1, <3>3 DEF BlocksInv, AtOf
    <3>. QED  BY <3>2, <3>4
  <2>2. CASE n # 0
    <3>1. 1 \in 1..n
      BY <1>4, <2>2
    <3>. QED  BY <1>5, <3>1 DEF BlocksInv, AtOf
  <2>. QED  BY <2>1, <2>2
<1>8. ASSUME NEW i \in 1..n
      PROVE  Placed(i)'
  <2>1. /\ i \in DOMAIN blocks /\ Placed(i) /\ blocks[i].at < end
    BY <1>3, <1>5 DEF BlocksInv
  <2>2. blocks'[i].from + blocks'[i].uncomp <= pos'
    BY <1>5, <2>1 DEF Placed
  <2>3. blocks'[i].at < comp_file'
    BY <1>4, <1>5, <2>1
  <2>4. CASE i + 1 \in 1..n
    <3>1. FromOf(i + 1)' = FromOf(i + 1) /\ AtOf(i + 1)' = AtOf(i + 1)
      BY <1>5, <2>4 DEF FromOf, AtOf
    <3>. QED  BY <1>5, <2>1, <2>2, <2>3, <3>1 DEF Placed
  <2>5. CASE i + 1 \notin 1..n
    <3>1. FromOf(i + 1)' = pos /\ AtOf(i + 1)' = end
      BY <1>4, <1>6, <2>5 DEF FromOf, AtOf
    <3>2. ASSUME blocks'[i].whole
          PROVE  end = blocks[i].at + blocks[i].comp + HeaderSize
      <4>1. /\ AtOf(i + 1) = blocks[i].at + blocks[i].comp + HeaderSize
            /\ AtOf(i + 1) <= end
        BY <1>5, <2>1, <3>2 DEF Placed
      <4>2. AtOf(i + 1) >= end
        <5>1. CASE i + 1 \in DOMAIN blocks
          BY <1>2, <1>3, <2>5, <5>1 DEF AtOf
        <5>2. CASE i + 1 \notin DOMAIN blocks
          BY <1>1, <5>2 DEF AtOf
        <5>. QED  BY <5>1, <5>2
      <4>3. AtOf(i + 1) \in Nat
        BY <1>1, <1>2 DEF AtOf
      <4>. QED  BY <4>1, <4>2, <4>3
    <3>. QED  BY <1>5, <2>2, <2>3, <3>1, <3>2 DEF Placed
  <2>. QED  BY <2>4, <2>5
<1>. QED  BY <1>4, <1>6, <1>7, <1>8 DEF BlocksInv

LEMMA CompressCloseFailsKeeps == ASSUME FileInv, CompressCloseFails PROVE FileInv'
<1>1. faults' \in 0..MaxFaults /\ faults' # 0
  BY Constants DEF FileInv, TypeOK, CompressCloseFails, Fault
<1>2. PICK n \in 1..MinOf(BUFSIZ, comp_file) : CutAt(comp_file - n)
  BY DEF CompressCloseFails
<1>3. comp_file - n \in Nat /\ comp_file - n < comp_file
  <2>1. comp_file \in Nat /\ BUFSIZ \in Nat
    BY Lz4FileAssumption DEF FileInv, TypeOK
  <2>. QED  BY <2>1 DEF MinOf
<1>4. comp_file' \in Nat /\ blocks' \in Seq(Block) /\ BlocksInv'
  BY <1>1, <1>2, <1>3, CutKeeps DEF FileInv, CompressCloseFails
<1>5. TypeOK' /\ SearchInv'
  BY <1>1, <1>4 DEF FileInv, TypeOK, SearchInv, BuffersFit, CompressCloseFails,
                    memVars, readVars
<1>6. WriteInv' /\ ReadInv' /\ OrderInv'
  BY <1>1 DEF FileInv, WriteInv, Writing, ReadInv, OrderInv, CompressCloseFails,
              readVars
<1>. QED  BY <1>4, <1>5, <1>6 DEF FileInv

-----------------------------------------------------------------------------
(* Restoring.                                                              *)

Ascending(s) == \A i, j \in DOMAIN s : i < j => s[i] < s[j]

Appended(m, s, f, n, t) ==
  /\ t \in Seq(1..m) /\ Ascending(t)
  /\ Len(t) = Len(s) + n
  /\ \A i \in DOMAIN t : t[i] <= f + n

\* A block is appended to what comes before it in the source.
LEMMA UnitsAppended ==
  ASSUME NEW m \in Nat, NEW s \in Seq(1..m), Ascending(s),
         NEW f \in Nat, NEW n \in Nat, f + n <= m,
         \A i \in DOMAIN s : s[i] <= f
  PROVE  Appended(m, s, f, n, s \o Units(f, n))
<1>. DEFINE u == Units(f, n)
            w == s \o u
<1>1. u \in Seq(1..m) /\ Len(u) = n
  BY DEF Units
<1>2. PICK k \in Nat : k = Len(s)
  BY LenProperties
<1>3. /\ w \in Seq(1..m) /\ Len(w) = k + n
      /\ DOMAIN w = 1..k + n /\ DOMAIN s = 1..k
      /\ \A i \in 1..k + n : w[i] = IF i <= k THEN s[i] ELSE u[i - k]
  BY <1>1, <1>2, ConcatProperties, LenProperties DEF Units
<1>4. ASSUME NEW i \in 1..k
      PROVE  w[i] = s[i] /\ w[i] \in Nat /\ w[i] <= f
  <2>1. s[i] \in 1..m /\ i \in 1..k + n /\ i \in DOMAIN s
    BY <1>3, ElementOfSeq
  <2>2. s[i] <= f /\ i <= k
    BY <2>1
  <2>3. w[i] = s[i]
    BY <1>3, <2>1, <2>2
  <2>. QED  BY <2>1, <2>2, <2>3
<1>5. ASSUME NEW i \in 1..k + n, i > k
      PROVE  w[i] = f + (i - k)
  <2>1. i - k \in 1..n /\ w[i] = u[i - k]
    BY <1>3, <1>5
  <2>. QED  BY <2>1 DEF Units
<1>. HIDE DEF w
<1>6. ASSUME NEW i \in 1..k + n, NEW j \in 1..k + n, i < j
      PROVE  w[i] < w[j]
  <2>1. CASE j <= k
    <3>1. i \in 1..k /\ j \in 1..k
      BY <1>6, <2>1
    <3>2. s[i] < s[j]
      BY <1>3, <1>6, <3>1 DEF Ascending
    <3>. QED  BY <1>4, <3>1, <3>2
  <2>2. CASE i <= k /\ j > k
    <3>1. i \in 1..k
      BY <2>2
    <3>2. w[i] \in Nat /\ w[i] <= f
      BY <1>4, <3>1
    <3>. QED  BY <1>5, <2>2, <3>2
  <2>3. CASE i > k
    <3>1. j > k
      BY <1>6, <2>3
    <3>2. w[i] = f + (i - k) /\ w[j] = f + (j - k)
      BY <1>5, <2>3, <3>1
    <3>. QED  BY <1>6, <3>2
  <2>. QED  BY <2>1, <2>2, <2>3
<1>7. ASSUME NEW i \in 1..k + n
      PROVE  w[i] <= f + n
  <2>1. CASE i <= k
    BY <1>4, <2>1
  <2>2. CASE i > k
    BY <1>5, <2>2
  <2>. QED  BY <2>1, <2>2
<1>8. Ascending(w)
  BY <1>3, <1>6 DEF Ascending
<1>9. Appended(m, s, f, n, w)
  BY <1>2, <1>3, <1>7, <1>8 DEF Appended
<1>. QED  BY <1>9 DEF w

\* What lz4_file_uncompress knows of the block it is at.
LEMMA BlockToRead ==
  ASSUME FileInv, phase = "read", left > 0
  PROVE  /\ next \in DOMAIN blocks /\ ThisBlock \in Block
         /\ ThisBlock.from + ThisBlock.uncomp <= pos
         /\ Placed(next)
         /\ FromOf(next) = ThisBlock.from /\ AtOf(next) = ThisBlock.at
<1>1. next \in DOMAIN blocks /\ blocks \in Seq(Block)
  BY DEF FileInv, TypeOK
<1>2. ThisBlock \in Block
  BY <1>1, ElementOfSeq DEF ThisBlock
<1>3. Placed(next)
  BY <1>1 DEF FileInv, BlocksInv
<1>. QED  BY <1>1, <1>2, <1>3 DEF Placed, FromOf, AtOf, ThisBlock

\* The invariants that do not speak of the reader.
LEMMA ReaderKeeps ==
  ASSUME FileInv,
         \/ phase \in {"open", "read"} /\ phase' \in {"read", "close", "died"}
         \/ phase = "close" /\ phase' = "done",
         faults' = 0 => faults = 0,
         UNCHANGED <<size, memory, memVars, compVars>>
  PROVE  SearchInv' /\ BlocksInv' /\ WriteInv'
<1>1. BlocksInv'
  BY BlocksStay DEF FileInv
<1>2. SearchInv'
  BY DEF FileInv, SearchInv, BuffersFit
<1>3. WriteInv'
  BY DEF FileInv, WriteInv, Writing, compVars
<1>. QED  BY <1>1, <1>2, <1>3

\* A failed fopen ends the process.
LEMMA OpenFailsKeeps == ASSUME FileInv, OpenFails PROVE FileInv'
<1>1. faults' \in 0..MaxFaults /\ faults' # 0
  BY Constants DEF FileInv, TypeOK, OpenFails, Fault
<1>2. SearchInv' /\ BlocksInv' /\ WriteInv'
  BY <1>1, ReaderKeeps DEF OpenFails
<1>3. TypeOK' /\ ReadInv' /\ OrderInv'
  BY <1>1 DEF FileInv, TypeOK, ReadInv, OrderInv, OpenFails, memVars, compVars,
              readVars
<1>. QED  BY <1>2, <1>3 DEF FileInv

LEMMA OpenKeeps == ASSUME FileInv, Open PROVE FileInv'
<1>1. SearchInv' /\ BlocksInv' /\ WriteInv'
  BY ReaderKeeps DEF Open
<1>2. /\ next = 1 /\ out = << >> /\ result = NULL /\ AtOf(1) = 0
      /\ comp_file \in Nat /\ blocks \in Seq(Block)
      /\ faults = 0 => FromOf(1) = 0
  BY DEF FileInv, WriteInv, Writing, TypeOK, BlocksInv, Open
<1>3. Len(blocks) \in Nat /\ DOMAIN blocks = 1..Len(blocks)
  BY <1>2, LenProperties
<1>4. left' > 0 => 1 \in DOMAIN blocks
  BY <1>2 DEF AtOf, Open
<1>5. TypeOK'
  BY <1>2, <1>4 DEF FileInv, TypeOK, Open, memVars, compVars
<1>6. ReadInv'
  <2>1. AtOf(1)' = 0 /\ FromOf(1)' = FromOf(1)
    BY <1>2 DEF AtOf, FromOf, Open, compVars
  <2>2. next' = 1 /\ out' = << >> /\ result' = NULL /\ left' = comp_file
        /\ comp_file' = comp_file /\ blocks' = blocks /\ faults' = faults
    BY <1>2 DEF Open, compVars
  <2>. QED  BY <1>2, <1>3, <2>1, <2>2 DEF ReadInv
<1>7. OrderInv'
  BY <1>2 DEF OrderInv, Open, NULL
<1>. QED  BY <1>1, <1>5, <1>6, <1>7 DEF FileInv

\* A block is restored behind what comes before it, and the reader gets to the
\* next one.
LEMMA RestoreKeeps ==
  ASSUME FileInv, phase = "read", left > 0, Accepted(ThisBlock),
         Restore(ThisBlock),
         UNCHANGED <<size, memory, memVars, compVars, faults>>
  PROVE  FileInv'
<1>. DEFINE b == ThisBlock
<1>1. /\ next \in DOMAIN blocks /\ b \in Block /\ b.from + b.uncomp <= pos
      /\ Placed(next)
      /\ FromOf(next) = b.from /\ AtOf(next) = b.at
  BY BlockToRead
<1>2. /\ b.from \in Nat /\ b.uncomp \in Nat /\ b.comp \in Nat /\ b.at \in Nat
      /\ b.whole
  BY <1>1 DEF Block, Accepted
<1>3. /\ pos \in Nat /\ size \in Nat /\ pos <= size /\ comp_file \in Nat
      /\ blocks \in Seq(Block) /\ Len(blocks) \in Nat
      /\ DOMAIN blocks = 1..Len(blocks)
      /\ out \in Seq(1..size) /\ next \in Nat
  BY Constants, LenProperties DEF FileInv, TypeOK
<1>4. /\ result = NULL /\ left = comp_file - b.at
      /\ \A i \in DOMAIN out : out[i] <= b.from
      /\ faults = 0 => Len(out) = b.from
  BY <1>1 DEF FileInv, ReadInv
<1>5. /\ out' \in Seq(1..size) /\ Ascending(out')
      /\ Len(out') = Len(out) + b.uncomp
      /\ \A i \in DOMAIN out' : out'[i] <= b.from + b.uncomp
  <2>1. Ascending(out)
    BY DEF FileInv, OrderInv, Ascending
  <2>2. b.from + b.uncomp <= size
    BY <1>1, <1>2, <1>3
  <2>3. out' = out \o Units(b.from, b.uncomp)
    BY DEF Restore, Units
  <2>4. \A i \in DOMAIN out : out[i] <= b.from
    BY <1>4
  <2>. HIDE DEF b
  <2>5. /\ size \in Nat /\ out \in Seq(1..size)
        /\ b.from \in Nat /\ b.uncomp \in Nat
    BY <1>2, <1>3
  <2>6. Appended(size, out, b.from, b.uncomp, out \o Units(b.from, b.uncomp))
    BY ONLY <2>1, <2>2, <2>4, <2>5, UnitsAppended
  <2>. QED  BY <2>3, <2>6 DEF Appended
<1>6. /\ FromOf(next + 1) \in Nat /\ b.from + b.uncomp <= FromOf(next + 1)
      /\ faults = 0 => FromOf(next + 1) = b.from + b.uncomp
      /\ AtOf(next + 1) = b.at + b.comp + HeaderSize
      /\ next + 1 \notin DOMAIN blocks => AtOf(next + 1) = comp_file
      /\ next + 1 \in DOMAIN blocks => AtOf(next + 1) < comp_file
  <2>1. /\ b.from + b.uncomp <= FromOf(next + 1)
        /\ faults = 0 => b.from + b.uncomp = FromOf(next + 1)
        /\ AtOf(next + 1) = b.at + b.comp + HeaderSize
    BY <1>1, <1>2 DEF Placed, ThisBlock
  <2>2. CASE next + 1 \in DOMAIN blocks
    <3>1. blocks[next + 1] \in Block /\ Placed(next + 1)
      BY <1>3, <2>2, ElementOfSeq DEF FileInv, BlocksInv
    <3>2. FromOf(next + 1) \in Nat /\ AtOf(next + 1) < comp_file
      BY <2>2, <3>1 DEF FromOf, AtOf, Placed, Block
    <3>. QED  BY <2>1, <2>2, <3>2
  <2>3. CASE next + 1 \notin DOMAIN blocks
    <3>1. FromOf(next + 1) = pos /\ AtOf(next + 1) = comp_file
      BY <2>3 DEF FromOf, AtOf
    <3>. QED  BY <1>3, <2>1, <2>3, <3>1
  <2>. QED  BY <2>2, <2>3
<1>7. /\ next' = next + 1 /\ left' = left - (b.comp + HeaderSize)
      /\ cap' \in Nat \cup {NULL}
      /\ phase' = "read" /\ result' = NULL
      /\ blocks' = blocks /\ pos' = pos /\ comp_file' = comp_file
      /\ size' = size /\ faults' = faults /\ unwritten' = unwritten
  BY <1>2, <1>4 DEF FileInv, TypeOK, Restore, Consumed, compVars
<1>. HIDE DEF b
<1>8. /\ HeaderSize \in Nat
      /\ left' = comp_file - AtOf(next + 1)
      /\ AtOf(next + 1) \in Nat
  <2>1. HeaderSize \in Nat
    BY Constants
  <2>2. /\ left' = left - (b.comp + HeaderSize) /\ left = comp_file - b.at
        /\ AtOf(next + 1) = b.at + b.comp + HeaderSize
    BY <1>4, <1>6, <1>7
  <2>3. b.comp \in Nat /\ b.at \in Nat /\ comp_file \in Nat
    BY <1>2, <1>3
  <2>. QED  BY ONLY <2>1, <2>2, <2>3
<1>9. left' \in Nat /\ (left' > 0 => next + 1 \in DOMAIN blocks)
  <2>1. comp_file \in Nat
    BY <1>3
  <2>. QED  BY <1>6, <1>8, <2>1
<1>10. TypeOK'
  BY <1>3, <1>5, <1>7, <1>9 DEF FileInv, TypeOK, memVars
<1>11. ReadInv'
  <2>1. FromOf(next)' = FromOf(next + 1) /\ AtOf(next)' = AtOf(next + 1)
    BY <1>7 DEF FromOf, AtOf
  <2>2. next' \in 1..Len(blocks') + 1
    BY <1>1, <1>3, <1>7
  <2>3. ASSUME NEW i \in DOMAIN out'
        PROVE  out'[i] <= FromOf(next)'
    <3>1. out'[i] \in Nat
      BY <1>3, <1>5, ElementOfSeq
    <3>. QED  BY <1>2, <1>5, <1>6, <2>1, <3>1
  <2>4. faults' = 0 => Len(out') = FromOf(next)'
    BY <1>2, <1>4, <1>5, <1>6, <1>7, <2>1
  <2>. QED  BY <1>7, <1>8, <2>1, <2>2, <2>3, <2>4 DEF ReadInv
<1>12. OrderInv'
  BY <1>5, <1>7 DEF OrderInv, Ascending, NULL
<1>13. SearchInv' /\ BlocksInv' /\ WriteInv'
  BY <1>7, ReaderKeeps
<1>. QED  BY <1>10, <1>11, <1>12, <1>13 DEF FileInv

LEMMA ReadBlockKeeps == ASSUME FileInv, ReadBlock PROVE FileInv'
BY RestoreKeeps DEF ReadBlock

\* The restored file stays as it is, or the block follows.
LEMMA ReadPastBufferKeeps == ASSUME FileInv, ReadPastBuffer PROVE FileInv'
<1>1. CASE Restore(ThisBlock)
  BY <1>1, RestoreKeeps DEF ReadPastBuffer
<1>2. CASE phase' = "died" /\ UNCHANGED readVars
  <2>1. SearchInv' /\ BlocksInv' /\ WriteInv'
    BY <1>2, ReaderKeeps DEF ReadPastBuffer
  <2>2. TypeOK' /\ ReadInv' /\ OrderInv'
    BY <1>2 DEF FileInv, TypeOK, ReadInv, OrderInv, ReadPastBuffer, memVars,
                compVars, readVars
  <2>. QED  BY <2>1, <2>2 DEF FileInv
<1>. QED  BY <1>1, <1>2 DEF ReadPastBuffer

LEMMA RejectKeeps == ASSUME FileInv, Reject PROVE FileInv'
<1>1. SearchInv' /\ BlocksInv' /\ WriteInv'
  BY ReaderKeeps DEF Reject, Return
<1>2. TypeOK' /\ ReadInv' /\ OrderInv'
  BY DEF FileInv, TypeOK, ReadInv, OrderInv, Reject, Return, memVars, compVars, NULL
<1>. QED  BY <1>1, <1>2 DEF FileInv

LEMMA RejectPastBufferKeeps == ASSUME FileInv, RejectPastBuffer PROVE FileInv'
<1>1. SearchInv' /\ BlocksInv' /\ WriteInv'
  BY ReaderKeeps DEF RejectPastBuffer
<1>2. TypeOK' /\ ReadInv' /\ OrderInv'
  BY DEF FileInv, TypeOK, ReadInv, OrderInv, RejectPastBuffer, memVars, compVars,
         readVars
<1>. QED  BY <1>1, <1>2 DEF FileInv

\* Part of a block is written.
LEMMA ReadFailsKeeps == ASSUME FileInv, ReadFails PROVE FileInv'
<1>. DEFINE b == ThisBlock
<1>1. faults' \in 0..MaxFaults /\ faults' # 0
  BY Constants DEF FileInv, TypeOK, ReadFails, Fault
<1>2. SearchInv' /\ BlocksInv' /\ WriteInv'
  BY <1>1, ReaderKeeps DEF ReadFails, Return
<1>3. PICK n \in 0..b.uncomp - 1 : out' = out \o Units(b.from, n)
  BY DEF ReadFails, Units
<1>4. /\ b.from \in Nat /\ b.uncomp \in Nat /\ b.from + b.uncomp <= pos
      /\ FromOf(next) = b.from
  BY BlockToRead DEF ReadFails, Block
<1>5. pos \in Nat /\ size \in Nat /\ pos <= size /\ out \in Seq(1..size)
  BY Constants DEF FileInv, TypeOK
<1>6. \A i \in DOMAIN out : out[i] <= b.from
  BY <1>4 DEF FileInv, ReadInv, ReadFails
<1>. HIDE DEF b
<1>7. out' \in Seq(1..size) /\ Ascending(out')
  <2>1. Ascending(out)
    BY DEF FileInv, OrderInv, Ascending
  <2>2. n \in Nat /\ b.from + n <= size
    BY <1>4, <1>5
  <2>3. Appended(size, out, b.from, n, out \o Units(b.from, n))
    BY ONLY <1>4, <1>5, <1>6, <2>1, <2>2, UnitsAppended
  <2>. QED  BY <1>3, <2>3 DEF Appended
<1>8. TypeOK'
  BY <1>1, <1>7 DEF FileInv, TypeOK, ReadFails, Return, memVars, compVars
<1>9. ReadInv' /\ OrderInv'
  BY <1>1, <1>7 DEF ReadInv, OrderInv, Ascending, ReadFails, Return
<1>. QED  BY <1>2, <1>8, <1>9 DEF FileInv

\* When nothing is left the reader is behind the last block.
LEMMA NothingLeft ==
  ASSUME FileInv, ReadEnds
  PROVE  left = 0 /\ next \notin DOMAIN blocks
<1>2. left = 0
  BY DEF FileInv, TypeOK, ReadEnds
<1>4. AtOf(next) = comp_file
  <2>1. left = comp_file - AtOf(next) /\ comp_file \in Nat /\ next \in Nat
    BY DEF FileInv, ReadInv, TypeOK, ReadEnds
  <2>2. AtOf(next) \in Nat
    <3>1. CASE next \in DOMAIN blocks
      <4>1. blocks[next] \in Block
        BY <3>1, ElementOfSeq DEF FileInv, TypeOK
      <4>. QED  BY <3>1, <4>1 DEF AtOf, Block
    <3>2. CASE next \notin DOMAIN blocks
      BY <2>1, <3>2 DEF AtOf
    <3>. QED  BY <3>1, <3>2
  <2>. QED  BY <1>2, <2>1, <2>2
<1>5. next \notin DOMAIN blocks
  <2>1. SUFFICES ASSUME next \in DOMAIN blocks
                 PROVE  FALSE
    OBVIOUS
  <2>2. blocks[next].at < comp_file /\ AtOf(next) = blocks[next].at
    BY <2>1 DEF FileInv, BlocksInv, Placed, AtOf
  <2>3. comp_file \in Nat
    BY DEF FileInv, TypeOK
  <2>. QED  BY <1>4, <2>2, <2>3
<1>. QED  BY <1>2, <1>5

LEMMA ReadEndsKeeps == ASSUME FileInv, ReadEnds PROVE FileInv'
<1>1. SearchInv' /\ BlocksInv' /\ WriteInv'
  BY ReaderKeeps DEF ReadEnds, Return
<1>2. left = 0 /\ next \notin DOMAIN blocks /\ result' = 0
  BY NothingLeft DEF ReadEnds, Return
<1>3. TypeOK' /\ ReadInv'
  BY <1>2 DEF FileInv, TypeOK, ReadInv, ReadEnds, Return, memVars, compVars
<1>6. faults = 0 => Len(out) = size
  BY <1>2 DEF FileInv, ReadInv, WriteInv, FromOf, ReadEnds
<1>7. OrderInv'
  BY <1>6 DEF FileInv, OrderInv, ReadEnds
<1>. QED  BY <1>1, <1>3, <1>7 DEF FileInv

LEMMA Beginning ==
  ASSUME NEW A, NEW s \in Seq(A), NEW k \in Nat, k <= Len(s)
  PROVE  /\ SubSeq(s, 1, k) \in Seq(A) /\ Len(SubSeq(s, 1, k)) = k
         /\ \A i \in 1..k : SubSeq(s, 1, k)[i] = s[i]
<1>1. /\ SubSeq(s, 1, k) \in Seq(A)
      /\ Len(SubSeq(s, 1, k)) = (k + 1) - 1
      /\ \A i \in 1..(k + 1) - 1 : SubSeq(s, 1, k)[i] = s[(1 - 1) + i]
  BY Slice
<1>. QED  BY <1>1

LEMMA ReadClosesKeeps == ASSUME FileInv, ReadCloses PROVE FileInv'
<1>1. SearchInv' /\ BlocksInv' /\ WriteInv'
  BY ReaderKeeps DEF ReadCloses
<1>2. TypeOK' /\ ReadInv' /\ OrderInv'
  BY DEF FileInv, TypeOK, ReadInv, OrderInv, ReadCloses, memVars, compVars, readVars
<1>. QED  BY <1>1, <1>2 DEF FileInv

\* The end of the restored file is missing.
LEMMA ReadCloseFailsKeeps == ASSUME FileInv, ReadCloseFails PROVE FileInv'
<1>1. faults' \in 0..MaxFaults /\ faults' # 0
  BY Constants DEF FileInv, TypeOK, ReadCloseFails, Fault
<1>2. SearchInv' /\ BlocksInv' /\ WriteInv'
  BY <1>1, ReaderKeeps DEF ReadCloseFails
<1>3. /\ out \in Seq(1..size) /\ Len(out) \in Nat /\ DOMAIN out = 1..Len(out)
      /\ BUFSIZ \in Nat /\ size \in Nat
  BY Constants, LenProperties, Lz4FileAssumption DEF FileInv, TypeOK
<1>4. PICK k \in Nat : k = Len(out) - unwritten'
  BY <1>3 DEF ReadCloseFails, MinOf
<1>5. unwritten' \in 0..BUFSIZ /\ k <= Len(out) /\ out' = SubSeq(out, 1, k)
  BY <1>3, <1>4 DEF ReadCloseFails, MinOf
<1>6. /\ out' \in Seq(1..size) /\ Len(out') = k
      /\ \A i \in 1..k : out'[i] = out[i]
  BY <1>3, <1>5, Beginning
<1>7. DOMAIN out' = 1..k
  BY <1>6, LenProperties
<1>8. TypeOK'
  BY <1>1, <1>5, <1>6 DEF FileInv, TypeOK, ReadCloseFails, memVars, compVars
<1>9. ReadInv'
  BY DEF ReadInv, ReadCloseFails
<1>10. OrderInv'
  <2>1. \A i, j \in 1..k : i \in DOMAIN out /\ j \in DOMAIN out
    BY <1>3, <1>5
  <2>. QED  BY <1>1, <1>6, <1>7, <2>1 DEF FileInv, OrderInv
<1>. QED  BY <1>2, <1>8, <1>9, <1>10 DEF FileInv

LEMMA StutterKeeps == ASSUME FileInv, UNCHANGED vars PROVE FileInv'
<1>1. BlocksInv'
  BY BlocksStay DEF FileInv, vars
<1>2. TypeOK' /\ SearchInv' /\ WriteInv'
  BY DEF FileInv, TypeOK, SearchInv, BuffersFit, WriteInv, Writing, vars, memVars,
         compVars, readVars
<1>3. ReadInv' /\ OrderInv'
  BY DEF FileInv, ReadInv, OrderInv, FromOf, AtOf, vars, compVars, readVars
<1>. QED  BY <1>1, <1>2, <1>3 DEF FileInv

\* The block size, the blocks and the restored file stay as the invariant
\* says, whatever the file, the memory and the calls that fail.
THEOREM FileInvariant == Spec => []FileInv
<1>1. FileInv /\ [Next]_vars => FileInv'
  <2>. SUFFICES ASSUME FileInv, [Next]_vars
                PROVE  FileInv'
    OBVIOUS
  <2>. QED
    BY MeasureKeeps, ProbeKeeps, KeepKeeps, CompressBlockKeeps, CompressShortKeeps,
       CompressOpenFailsKeeps, CompressCutKeeps, CompressEndsKeeps, OpenKeeps,
       OpenFailsKeeps, ReadBlockKeeps, ReadPastBufferKeeps, RejectKeeps,
       RejectPastBufferKeeps, ReadFailsKeeps, ReadEndsKeeps, CompressClosesKeeps,
       CompressCloseFailsKeeps, ReadClosesKeeps, ReadCloseFailsKeeps, StutterKeeps
       DEF Next
<1>. QED  BY <1>1, InitFile, PTL DEF Spec

-----------------------------------------------------------------------------
(* What the blocks hold.                                                   *)

LEMMA UnitsTyped ==
  ASSUME NEW f \in Nat, NEW n \in Nat
  PROVE  Units(f, n) \in Seq(Nat) /\ Len(Units(f, n)) = n
<1>1. Units(f, n) \in [1..n -> Nat]
  BY DEF Units
<1>. QED  BY <1>1, FunctionIsSeq

\* The units of a part of a block, and those of the rest.
LEMMA UnitsSplit ==
  ASSUME NEW f \in Nat, NEW n \in Nat, NEW m \in Nat, n <= m
  PROVE  Units(f, m) = Units(f, n) \o Units(f + n, m - n)
<1>. DEFINE p == Units(f, n)  q == Units(f + n, m - n)  t == Units(f, m)
<1>1. m - n \in Nat /\ f + n \in Nat /\ n + (m - n) = m
  OBVIOUS
<1>2. /\ p \in Seq(Nat) /\ Len(p) = n /\ q \in Seq(Nat) /\ Len(q) = m - n
      /\ t \in Seq(Nat) /\ Len(t) = m
  BY <1>1, UnitsTyped
<1>3. /\ \A i \in 1..n : p[i] = f + i
      /\ \A i \in 1..m - n : q[i] = f + n + i
      /\ \A i \in 1..m : t[i] = f + i
  BY DEF Units
<1>. HIDE DEF p, q, t
<1>4. /\ p \o q \in Seq(Nat) /\ Len(p \o q) = m
      /\ \A i \in 1..m : (p \o q)[i] = IF i <= n THEN p[i] ELSE q[i - n]
  <2>1. /\ p \o q \in Seq(Nat) /\ Len(p \o q) = Len(p) + Len(q)
        /\ \A i \in 1..Len(p) + Len(q) :
             (p \o q)[i] = IF i <= Len(p) THEN p[i] ELSE q[i - Len(p)]
    BY <1>2, ConcatProperties
  <2>2. Len(p) + Len(q) = m
    BY <1>1, <1>2
  <2>. QED  BY <1>2, <2>1, <2>2
<1>5. ASSUME NEW i \in 1..m
      PROVE  t[i] = (p \o q)[i]
  <2>1. i <= n => i \in 1..n
    OBVIOUS
  <2>2. i > n => i - n \in 1..m - n /\ f + n + (i - n) = f + i
    OBVIOUS
  <2>. QED  BY <1>3, <1>4, <2>1, <2>2
<1>6. t = p \o q
  BY <1>2, <1>4, <1>5, SeqEqual
<1>. QED  BY <1>6 DEF p, q, t

\* What the first n of some blocks hold.
Parts(bs, n) == [k \in 1..n |-> Units(bs[k].from, bs[k].uncomp)]

LEMMA PartsTyped ==
  ASSUME NEW bs \in Seq(Block), NEW n \in 0..Len(bs)
  PROVE  /\ Parts(bs, n) \in Seq(Seq(Nat)) /\ Len(Parts(bs, n)) = n
         /\ FlattenSeq(Parts(bs, n)) \in Seq(Nat)
<1>1. Len(bs) \in Nat /\ n \in Nat
  BY LenProperties
<1>2. ASSUME NEW k \in 1..n
      PROVE  Units(bs[k].from, bs[k].uncomp) \in Seq(Nat)
  <2>1. k \in 1..Len(bs)
    BY <1>1
  <2>2. bs[k] \in Block
    BY <2>1, ElementOfSeq
  <2>3. bs[k].from \in Nat /\ bs[k].uncomp \in Nat
    BY <2>2 DEF Block
  <2>. QED  BY <2>3, UnitsTyped
<1>3. Parts(bs, n) \in [1..n -> Seq(Nat)]
  BY <1>2 DEF Parts
<1>4. Parts(bs, n) \in Seq(Seq(Nat)) /\ Len(Parts(bs, n)) = n
  BY <1>1, <1>3, FunctionIsSeq
<1>5. FlattenSeq(Parts(bs, n)) \in Seq(Nat)
  BY <1>4, FlattenTyped
<1>. QED  BY <1>4, <1>5

LEMMA PrefixOfParts ==
  ASSUME NEW bs \in Seq(Block)
  PROVE  IsPrefix(<< >>, FlattenSeq(Parts(bs, Len(bs))))
<1>1. Len(bs) \in 0..Len(bs)
  BY LenProperties
<1>2. PICK t \in Seq(Nat) : t = FlattenSeq(Parts(bs, Len(bs)))
  BY <1>1, PartsTyped
<1>3. << >> \o t = t /\ << >> \in Seq(Nat)
  BY ConcatEmptySeq
<1>4. IsPrefix(<< >>, << >> \o t)
  BY <1>3, PrefixOfConcat
<1>. QED  BY <1>2, <1>3, <1>4

\* One block more holds its units more.
LEMMA StoredNext ==
  ASSUME blocks \in Seq(Block), NEW n \in Nat, n + 1 <= Len(blocks)
  PROVE  /\ Stored(n) \in Seq(Nat) /\ Stored(n + 1) \in Seq(Nat)
         /\ Units(blocks[n + 1].from, blocks[n + 1].uncomp) \in Seq(Nat)
         /\ Stored(n + 1)
              = Stored(n) \o Units(blocks[n + 1].from, blocks[n + 1].uncomp)
<1>. DEFINE U(k) == Units(blocks[k].from, blocks[k].uncomp)
            s == Parts(blocks, n)
            t == Parts(blocks, n + 1)
            e == U(n + 1)
<1>1. Len(blocks) \in Nat /\ n \in 0..Len(blocks) /\ n + 1 \in 0..Len(blocks)
  BY LenProperties
<1>2. Stored(n) = FlattenSeq(s) /\ Stored(n + 1) = FlattenSeq(t)
  BY DEF Stored, Parts
<1>3. /\ s \in Seq(Seq(Nat)) /\ Len(s) = n /\ Stored(n) \in Seq(Nat)
      /\ t \in Seq(Seq(Nat)) /\ Len(t) = n + 1 /\ Stored(n + 1) \in Seq(Nat)
  BY <1>1, <1>2, PartsTyped
<1>4. /\ \A k \in 1..n : s[k] = t[k]
      /\ t[n + 1] = e
  BY DEF Parts
<1>. HIDE DEF s, t, e
<1>5. e \in Seq(Nat)
  <2>1. n + 1 \in 1..Len(t)
    BY <1>3
  <2>. QED  BY <1>3, <1>4, <2>1, ElementOfSeq
<1>6. /\ Append(s, e) \in Seq(Seq(Nat)) /\ Len(Append(s, e)) = n + 1
      /\ \A k \in 1..n : Append(s, e)[k] = s[k]
      /\ Append(s, e)[n + 1] = e
  BY <1>3, <1>5, AppendProperties
<1>7. \A k \in 1..n + 1 : Append(s, e)[k] = t[k]
  <2>1. \A k \in 1..n + 1 : k \in 1..n \/ k = n + 1
    OBVIOUS
  <2>. QED  BY <1>4, <1>6, <2>1
<1>8. Append(s, e) = t
  BY <1>3, <1>6, <1>7, SeqEqual
<1>9. FlattenSeq(t) = FlattenSeq(s) \o e
  BY <1>3, <1>5, <1>8, FlattenAppend
<1>. QED  BY <1>2, <1>3, <1>5, <1>9 DEF e

\* Concatenation is associative.
LEMMA Associative ==
  \A x \in Seq(Nat), y \in Seq(Nat), z \in Seq(Nat) :
    (x \o y) \o z = x \o (y \o z)
BY ConcatAssociative, Z3T(60)

LEMMA ConcatTyped == \A x \in Seq(Nat), y \in Seq(Nat) : x \o y \in Seq(Nat)
BY ConcatProperties

\* The first two of four sequences come first.
LEMMA FirstOfFour ==
  ASSUME NEW x \in Seq(Nat), NEW y \in Seq(Nat), NEW z \in Seq(Nat),
         NEW rest \in Seq(Nat)
  PROVE  IsPrefix(x \o y, (x \o (y \o z)) \o rest)
<1>1. PICK w \in Seq(Nat) : w = x \o y
  BY ConcatTyped
<1>2. (x \o y) \o z = x \o (y \o z)
  BY Associative, ZenonT(60)
<1>3. x \o (y \o z) = w \o z
  BY <1>1, <1>2, Zenon
<1>4. PICK v \in Seq(Nat) : v = z \o rest
  BY ConcatTyped
<1>5. (w \o z) \o rest = w \o (z \o rest)
  BY Associative, ZenonT(60)
<1>6. IsPrefix(w, w \o v)
  BY PrefixOfConcat
<1>. QED  BY <1>1, <1>3, <1>4, <1>5, <1>6, Zenon

\* What the blocks hold begins with what the first of them hold.
LEMMA StoredRest ==
  ASSUME blocks \in Seq(Block), NEW n \in 0..Len(blocks)
  PROVE  \E rest \in Seq(Nat) : Stored(Len(blocks)) = Stored(n) \o rest
<1>. DEFINE all == Stored(Len(blocks))
            Begins(k) == \E rest \in Seq(Nat) : all = Stored(k) \o rest
            G == {d \in Nat : d <= Len(blocks) => Begins(Len(blocks) - d)}
<1>1. PICK len \in Nat : len = Len(blocks)
  BY LenProperties
<1>2. Begins(Len(blocks))
  <2>1. all \in Seq(Nat)
    BY <1>1, PartsTyped DEF Stored, Parts
  <2>2. all \o << >> = all /\ << >> \in Seq(Nat)
    BY <2>1, ConcatEmptySeq
  <2>. QED  BY <2>2
<1>3. ASSUME NEW k \in Nat, k + 1 <= len, Begins(k + 1)
      PROVE  Begins(k)
  <2>1. PICK rest \in Seq(Nat) : all = Stored(k + 1) \o rest
    BY <1>3
  <2>2. PICK x \in Seq(Nat) : x = Stored(k)
    BY <1>1, <1>3, StoredNext
  <2>3. PICK y \in Seq(Nat) : y = Units(blocks[k + 1].from, blocks[k + 1].uncomp)
    BY <1>1, <1>3, StoredNext
  <2>4. Stored(k + 1) = x \o y
    BY <1>1, <1>3, <2>2, <2>3, StoredNext
  <2>5. all = (x \o y) \o rest
    BY <2>1, <2>4
  <2>6. all = x \o (y \o rest) /\ y \o rest \in Seq(Nat)
    BY <2>5, Associative, ConcatTyped
  <2>. QED  BY <2>2, <2>6
<1>. HIDE DEF Begins
<1>4. 0 \in G
  <2>1. Len(blocks) - 0 = Len(blocks)
    BY <1>1
  <2>. QED  BY <1>2, <2>1
<1>5. ASSUME NEW d \in Nat, d \in G
      PROVE  d + 1 \in G
  <2>. SUFFICES ASSUME d + 1 <= len
                PROVE  Begins(len - (d + 1))
    BY <1>1
  <2>1. len - (d + 1) \in Nat /\ len - (d + 1) + 1 = len - d /\ d <= len
    OBVIOUS
  <2>2. Begins(len - d)
    BY <1>1, <1>5, <2>1
  <2>. QED  BY <1>3, <2>1, <2>2
<1>6. \A d \in Nat : d \in G
  <2>. HIDE DEF G
  <2>. QED  BY <1>4, <1>5, SetInduction
<1>7. len - n \in Nat /\ len - n <= len /\ len - (len - n) = n
  BY <1>1
<1>8. Begins(n)
  BY <1>1, <1>6, <1>7
<1>. QED  BY <1>8 DEF Begins

\* The reader has restored the blocks before the one it is at, and no other; what
\* is not written is missing when the restored file has been closed.
StoredInv ==
  /\ phase = "read" => out = Stored(next - 1)
  /\ IsPrefix(out, Stored(Len(blocks)))
  /\ result = 0 => Len(out) = Len(Stored(Len(blocks))) - unwritten
  /\ phase # "done" \/ faults = 0 => unwritten = 0

\* As long as nothing is read, nothing is restored.
LEMMA StoredBefore ==
  ASSUME FileInv, FileInv', StoredInv, phase \in Writing, [Next]_vars
  PROVE  StoredInv'
<1>1. out = << >> /\ result = NULL /\ next = 1 /\ unwritten = 0
  BY DEF FileInv, WriteInv, StoredInv, Writing
<1>2. UNCHANGED <<out, result, next, unwritten>>
  BY DEF Writing, Next, Measure, Probe, Keep, CompressBlock,
         CompressOpenFails, CompressShort, CompressCut, CompressEnds, CompressCloses,
         CompressCloseFails, Open, OpenFails,
         ReadBlock, ReadPastBuffer, Reject, RejectPastBuffer, ReadFails, ReadEnds,
         ReadCloses, ReadCloseFails, vars, readVars
<1>3. out' = << >> /\ result' # 0 /\ next' - 1 = 0 /\ unwritten' = 0
  BY <1>1, <1>2 DEF NULL
<1>4. Stored(0)' = << >>
  <2>1. Parts(blocks', 0) = << >>
    BY DEF Parts
  <2>. QED  BY <2>1, FlattenEmpty DEF Stored, Parts
<1>5. blocks' \in Seq(Block)
  BY DEF FileInv, TypeOK
<1>6. IsPrefix(<< >>, Stored(Len(blocks)))'
  BY <1>5, PrefixOfParts DEF Stored, Parts
<1>. QED  BY <1>3, <1>4, <1>6 DEF StoredInv

\* A block, or the beginning of one, is restored behind those before it.
LEMMA PartRestored ==
  ASSUME FileInv, StoredInv, phase = "read", left > 0,
         NEW n \in 0..ThisBlock.uncomp,
         out' = out \o Units(ThisBlock.from, n),
         blocks' = blocks, result' # 0, unwritten' = unwritten,
         phase' = "read" => n = ThisBlock.uncomp /\ next' = next + 1
  PROVE  StoredInv'
<1>1. /\ next \in 1..Len(blocks) /\ blocks \in Seq(Block) /\ Len(blocks) \in Nat
      /\ ThisBlock \in Block
  BY BlockToRead, LenProperties DEF FileInv, TypeOK
<1>2. PICK f \in Nat : f = ThisBlock.from
  BY <1>1 DEF Block
<1>3. PICK m \in Nat : m = ThisBlock.uncomp
  BY <1>1 DEF Block
<1>4. n \in Nat /\ n <= m /\ m - n \in Nat /\ f + n \in Nat
  BY <1>3
<1>5. PICK k \in Nat : k = next - 1
  BY <1>1
<1>6. k + 1 = next /\ k + 1 <= Len(blocks) /\ k + 1 \in 0..Len(blocks)
  BY <1>1, <1>5
<1>7. PICK x \in Seq(Nat) : x = Stored(k)
  BY <1>1, <1>6, StoredNext
<1>8. PICK y \in Seq(Nat) : y = Units(f, n)
  BY <1>4, UnitsTyped
<1>9. PICK z \in Seq(Nat) : z = Units(f + n, m - n)
  BY <1>4, UnitsTyped
<1>10. Units(f, m) = y \o z
  BY <1>4, <1>8, <1>9, UnitsSplit
<1>11. Stored(next) = x \o (y \o z)
  <2>1. Stored(k + 1) = Stored(k) \o Units(blocks[k + 1].from, blocks[k + 1].uncomp)
    BY <1>1, <1>6, StoredNext
  <2>. QED  BY <1>2, <1>3, <1>6, <1>7, <1>10, <2>1 DEF ThisBlock
<1>12. out' = x \o y /\ out' \in Seq(Nat)
  <2>1. out = x
    BY <1>5, <1>7 DEF StoredInv
  <2>2. out' = x \o y
    BY <1>2, <1>8, <2>1
  <2>. QED  BY <2>2, ConcatProperties
<1>13. PICK rest \in Seq(Nat) : Stored(Len(blocks)) = Stored(next) \o rest
  BY <1>1, <1>6, StoredRest
<1>14. IsPrefix(out', Stored(Len(blocks)))
  <2>1. Stored(Len(blocks)) = (x \o (y \o z)) \o rest
    BY <1>11, <1>13
  <2>. QED  BY <1>12, <2>1, FirstOfFour
<1>15. phase' = "read" => out' = Stored(next' - 1)
  <2>. SUFFICES ASSUME phase' = "read"
                PROVE  out' = Stored(next)
    BY <1>1
  <2>1. n = m
    BY <1>3
  <2>2. Stored(next) = x \o Units(f, m)
    BY <1>10, <1>11
  <2>. QED  BY <1>8, <1>12, <2>1, <2>2
<1>16. unwritten' = 0
  BY DEF StoredInv
<1>. QED  BY <1>14, <1>15, <1>16 DEF StoredInv, Stored

\* All blocks have been restored when nothing is left.
LEMMA StoredAtEnd ==
  ASSUME FileInv, StoredInv, ReadEnds
  PROVE  StoredInv'
<1>1. /\ phase = "read" /\ phase' = "close" /\ left = 0
      /\ out' = out /\ blocks' = blocks /\ unwritten' = 0
  BY DEF FileInv, TypeOK, ReadEnds, Return, compVars, StoredInv
<1>2. next \in 1..Len(blocks) + 1 /\ blocks \in Seq(Block) /\ Len(blocks) \in Nat
      /\ DOMAIN blocks = 1..Len(blocks)
  BY <1>1, LenProperties DEF FileInv, TypeOK, ReadInv
<1>3. next \notin DOMAIN blocks
  BY NothingLeft
<1>4. next - 1 = Len(blocks)
  BY <1>2, <1>3
<1>5. out' = Stored(Len(blocks))
  BY <1>1, <1>4 DEF StoredInv
<1>6. IsPrefix(out', Stored(Len(blocks)))
  BY <1>1 DEF StoredInv
<1>7. Len(out') \in Nat
  BY <1>1, LenProperties DEF FileInv, TypeOK
<1>8. Len(out') = Len(Stored(Len(blocks))) - unwritten'
  BY <1>1, <1>5, <1>7
<1>. QED  BY <1>1, <1>6, <1>8 DEF StoredInv, Stored

\* An end is missing of a file that was written.
LEMMA StoredCut ==
  ASSUME FileInv, StoredInv, ReadCloseFails
  PROVE  StoredInv'
<1>1. /\ out \in Seq(1..size) /\ Len(out) \in Nat /\ BUFSIZ \in Nat
      /\ blocks \in Seq(Block) /\ Len(blocks) \in 0..Len(blocks) /\ faults \in Nat
  BY LenProperties, Lz4FileAssumption DEF FileInv, TypeOK
<1>2. PICK t \in Seq(Nat) : t = Stored(Len(blocks))
  BY <1>1, PartsTyped DEF Stored, Parts
<1>3. /\ phase' = "done" /\ blocks' = blocks /\ result' = result
      /\ faults' # 0 /\ unwritten = 0
  BY <1>1 DEF ReadCloseFails, Fault, StoredInv, compVars
<1>4. PICK k \in Nat : k = Len(out) - unwritten'
  BY <1>1 DEF ReadCloseFails, MinOf
<1>5. /\ k <= Len(out) /\ out' = SubSeq(out, 1, k) /\ unwritten' \in Nat
  BY <1>1, <1>4 DEF ReadCloseFails, MinOf
<1>6. Len(t) \in Nat /\ Len(out) <= Len(t) /\ SubSeq(out, 1, Len(out)) = SubSeq(t, 1, Len(out))
  BY <1>2, LenProperties DEF StoredInv, IsPrefix
<1>7. \A i \in 1..k : out[i] = t[i]
  <2>1. /\ \A i \in 1..Len(out) : SubSeq(out, 1, Len(out))[i] = out[i]
        /\ \A i \in 1..Len(out) : SubSeq(t, 1, Len(out))[i] = t[i]
    BY <1>1, <1>2, <1>6, Beginning
  <2>. QED  BY <1>1, <1>5, <1>6, <2>1
<1>8. /\ out' \in Seq(1..size) /\ Len(out') = k
      /\ \A i \in 1..k : out'[i] = out[i]
  BY <1>1, <1>5, Beginning
<1>9. SubSeq(out', 1, k) = SubSeq(t, 1, k)
  <2>. DEFINE x == SubSeq(out', 1, k)  y == SubSeq(t, 1, k)
  <2>1. x \in Seq(1..size) /\ Len(x) = k /\ \A i \in 1..k : x[i] = out'[i]
    <3>1. PICK w \in Seq(1..size) : w = out'
      BY <1>8
    <3>2. k <= Len(w)
      BY <1>8, <3>1
    <3>3. /\ SubSeq(w, 1, k) \in Seq(1..size) /\ Len(SubSeq(w, 1, k)) = k
          /\ \A i \in 1..k : SubSeq(w, 1, k)[i] = w[i]
      BY <3>2, Beginning
    <3>. QED  BY <3>1, <3>3
  <2>2. y \in Seq(Nat) /\ Len(y) = k /\ \A i \in 1..k : y[i] = t[i]
    BY <1>1, <1>2, <1>5, <1>6, Beginning
  <2>. HIDE DEF x, y
  <2>3. \A i \in 1..k : x[i] = y[i]
    BY <1>7, <1>8, <2>1, <2>2
  <2>4. x = y
    BY <2>1, <2>2, <2>3, SeqEqual
  <2>. QED  BY <2>4 DEF x, y
<1>10. IsPrefix(out', t)
  BY <1>1, <1>5, <1>6, <1>8, <1>9 DEF IsPrefix
<1>11. result' = 0 => Len(out') = Len(t) - unwritten'
  BY <1>1, <1>2, <1>3, <1>4, <1>5, <1>6, <1>8 DEF StoredInv
<1>12. Stored(Len(blocks))' = t
  BY <1>2, <1>3 DEF Stored
<1>. QED  BY <1>3, <1>10, <1>11, <1>12 DEF StoredInv

LEMMA StoredSteps == FileInv /\ FileInv' /\ StoredInv /\ [Next]_vars => StoredInv'
<1>. SUFFICES ASSUME FileInv, FileInv', StoredInv, [Next]_vars
              PROVE  StoredInv'
  OBVIOUS
<1>1. CASE phase \in Writing
  BY <1>1, StoredBefore
<1>2. CASE ReadBlock \/ (ReadPastBuffer /\ Restore(ThisBlock))
  <2>1. /\ phase = "read" /\ left > 0 /\ phase' = "read" /\ blocks' = blocks
        /\ Restore(ThisBlock) /\ unwritten' = unwritten
    BY <1>2 DEF ReadBlock, ReadPastBuffer, Restore, compVars
  <2>2. /\ out' = out \o Units(ThisBlock.from, ThisBlock.uncomp)
        /\ next' = next + 1 /\ result' = result
    BY <2>1 DEF Restore
  <2>3. result' # 0
    BY <2>1, <2>2 DEF FileInv, ReadInv, NULL
  <2>4. PICK n \in 0..ThisBlock.uncomp : n = ThisBlock.uncomp
    BY <2>1, BlockToRead DEF Block
  <2>5. out' = out \o Units(ThisBlock.from, n)
    BY <2>2, <2>4
  <2>. QED  BY <2>1, <2>2, <2>3, <2>4, <2>5, PartRestored
<1>3. CASE ReadFails
  <2>1. PICK n \in 0..ThisBlock.uncomp - 1 : out' = out \o Units(ThisBlock.from, n)
    BY <1>3 DEF ReadFails
  <2>2. /\ phase = "read" /\ left > 0 /\ phase' # "read" /\ blocks' = blocks
        /\ result' # 0 /\ unwritten' = unwritten
    BY <1>3 DEF ReadFails, Return, compVars
  <2>3. n \in 0..ThisBlock.uncomp
    BY <2>2, BlockToRead DEF Block
  <2>. QED  BY <2>1, <2>2, <2>3, PartRestored
<1>4. CASE ReadEnds
  BY <1>4, StoredAtEnd
<1>5. CASE \/ Reject \/ RejectPastBuffer
           \/ ReadPastBuffer /\ phase' = "died" /\ UNCHANGED readVars
  <2>1. /\ phase = "read" /\ blocks' = blocks /\ out' = out /\ phase' # "read"
        /\ unwritten' = unwritten
    BY <1>5
       DEF Reject, RejectPastBuffer, ReadPastBuffer, Return, compVars, readVars
  <2>2. result = NULL
    BY <2>1 DEF FileInv, ReadInv
  <2>3. result' # 0
    BY <1>5, <2>2 DEF Reject, RejectPastBuffer, ReadPastBuffer, Return, readVars, NULL
  <2>. QED  BY <2>1, <2>3 DEF StoredInv, Stored
<1>6. CASE UNCHANGED vars
  BY <1>6 DEF StoredInv, Stored, vars, compVars, readVars
<1>7. CASE ReadCloses
  BY <1>7 DEF ReadCloses, StoredInv, Stored, compVars, readVars
<1>8. CASE ReadCloseFails
  BY <1>8, StoredCut
<1>. QED
  BY <1>1, <1>2, <1>3, <1>4, <1>5, <1>6, <1>7, <1>8
     DEF Next, Writing, Measure, Probe, Keep, CompressBlock, CompressOpenFails,
         CompressShort, CompressCut, CompressEnds, CompressCloses,
         CompressCloseFails, Open, OpenFails, ReadPastBuffer

\* The blocks before the one that is read are in the restored file, whatever
\* has failed.
THEOREM StoredInvariant == Spec => []StoredInv
<1>1. Init => StoredInv
  <2>. SUFFICES ASSUME Init
                PROVE  StoredInv
    OBVIOUS
  <2>1. /\ blocks \in Seq(Block) /\ out = << >> /\ phase # "read" /\ result # 0
        /\ unwritten = 0
    BY EmptySeq DEF Init, NULL
  <2>. QED  BY <2>1, PrefixOfParts DEF StoredInv, Stored, Parts
<1>. QED  BY <1>1, StoredSteps, FileInvariant, PTL DEF Spec

-----------------------------------------------------------------------------
(* The properties of Lz4File.                                              *)

\* Every variable keeps its type, and lz4_file_uncompress never reads a header
\* where there is none.
THEOREM Lz4FileTypeCorrect == Spec => []TypeOK
<1>1. FileInv => TypeOK
  BY DEF FileInv
<1>. QED  BY <1>1, FileInvariant, PTL

\* The buffers that lz4_file_compress allocates fit what _find_available_mem
\* found, and are not empty.
THEOREM BuffersAlwaysFit == Spec => []BuffersFit
<1>1. FileInv => BuffersFit
  BY DEF FileInv, SearchInv
<1>. QED  BY <1>1, FileInvariant, PTL

\* lz4_file_uncompress skips no block, whichever calls have failed: what it
\* writes is what the blocks hold up to some place, in the order of the source,
\* all of it when the result is 0, but for what a failed fclose did not write, and
\* the whole source when no call has failed.
THEOREM AlwaysRestored == Spec => []Restored
<1>1. FileInv /\ StoredInv => Restored
  BY DEF FileInv, OrderInv, StoredInv, Restored
<1>. QED  BY <1>1, FileInvariant, StoredInvariant, PTL

-----------------------------------------------------------------------------
(* A file that one block takes.                                            *)

OneBlock ==
  faults = 0 /\ available = size /\ size > 0 /\ size + Bound(size) - 1 <= MaxMem

NoBlock == pos = 0 /\ blocks = << >> /\ comp_file = 0

OnlyBlock ==
  /\ pos = size /\ Len(blocks) = 1
  /\ blocks[1].uncomp = size /\ blocks[1].comp < Bound(size) /\ blocks[1].whole
  /\ comp_file = HeaderSize + blocks[1].comp

\* The file is compressed into one block, which the reader accepts, and for
\* which it allocates its buffer.
OneBlockInv ==
  /\ phase \in Writing => cap = NULL
  /\ OneBlock =>
       /\ phase # "died" /\ result # 1
       /\ phase \in {"measure", "probe", "keep"} => NoBlock
       /\ phase = "compress" => NoBlock \/ OnlyBlock
       /\ phase \in {"flush", "open", "read"} => OnlyBlock
       /\ phase = "read" => (next = 1 /\ cap = NULL /\ left = comp_file) \/ left = 0

LEMMA BufferLater ==
  FileInv /\ OneBlockInv /\ [Next]_vars => (phase \in Writing => cap = NULL)'
BY DEF OneBlockInv, Writing, Next, Measure, Probe, Keep, CompressBlock,
       CompressOpenFails, CompressShort, CompressCut, CompressEnds, CompressCloses,
       CompressCloseFails, Open, OpenFails,
       ReadBlock, ReadPastBuffer, Reject, RejectPastBuffer, ReadFails, ReadEnds,
       ReadCloses, ReadCloseFails, Return, Restore, vars, readVars

LEMMA OneBlockStarts == Init => OneBlockInv
BY DEF Init, OneBlockInv, OneBlock, NoBlock, NULL, Writing

LEMMA OneBlockCompressed ==
  ASSUME FileInv, OneBlockInv, CompressBlock
  PROVE  OneBlockInv'
<1>. SUFFICES ASSUME OneBlock'
              PROVE  OneBlockInv'
  BY BufferLater DEF OneBlockInv, Next
<1>1. /\ phase = "compress" /\ phase' = "compress" /\ OneBlock
      /\ UNCHANGED <<size, available, cap, result, faults>>
  BY DEF CompressBlock, OneBlock, memVars, readVars
<1>2. /\ size \in Nat /\ pos \in 0..size /\ available \in Nat
      /\ HeaderSize \in Nat /\ Expansion \in Nat
  BY Constants DEF FileInv, TypeOK
<1>3. NoBlock
  <2>1. ~OnlyBlock
    BY <1>2 DEF CompressBlock, OnlyBlock, BlockLen, MinOf
  <2>. QED  BY <1>1, <2>1 DEF OneBlockInv
<1>4. BlockLen = size
  BY <1>1, <1>2, <1>3 DEF BlockLen, MinOf, NoBlock, OneBlock
<1>5. PICK c \in 1..Bound(size) - 1 : Emit(size, c, HeaderSize + c)
  BY <1>4 DEF CompressBlock
<1>6. /\ c \in Nat \ {0} /\ c < Bound(size) /\ HeaderSize + c # 0
  BY <1>2, <1>5 DEF Bound
<1>. DEFINE b == [from |-> pos, uncomp |-> size, comp |-> c, at |-> comp_file,
                  whole |-> HeaderSize + c = HeaderSize + c]
<1>7. blocks' = Append(<< >>, b) /\ pos' = size /\ comp_file' = HeaderSize + c
  BY <1>2, <1>3, <1>5, <1>6 DEF Emit, NoBlock
<1>8. b.uncomp = size /\ b.comp = c /\ b.whole
  OBVIOUS
<1>. HIDE DEF b
<1>9. Len(blocks') = 1 /\ blocks'[1] = b
  BY <1>7
<1>10. OnlyBlock'
  BY <1>1, <1>6, <1>7, <1>8, <1>9 DEF OnlyBlock, Bound
<1>. QED  BY <1>1, <1>10 DEF OneBlockInv, Writing

\* The reader takes the block, or is behind it.
LEMMA OneBlockRead ==
  ASSUME FileInv, OneBlockInv, OneBlock, phase = "read", left > 0
  PROVE  /\ next = 1 /\ cap = NULL /\ left = comp_file
         /\ ThisBlock = blocks[1] /\ Accepted(ThisBlock)
         /\ left - Consumed(ThisBlock) = 0
<1>1. /\ OnlyBlock /\ next = 1 /\ cap = NULL /\ left = comp_file
  BY DEF OneBlockInv, FileInv, TypeOK
<1>2. blocks[1] \in Block /\ HeaderSize \in Nat /\ size \in Nat /\ Expansion \in Nat
      /\ MaxMem \in Nat
  <2>1. 1 \in 1..Len(blocks) /\ blocks \in Seq(Block)
    BY <1>1 DEF OnlyBlock, FileInv, TypeOK
  <2>. QED  BY <2>1, ElementOfSeq, Constants, Lz4FileAssumption DEF FileInv, TypeOK
<1>3. PICK c \in Nat : c = blocks[1].comp
  BY <1>2 DEF Block
<1>4. c + HeaderSize = comp_file /\ c < size + Expansion
  BY <1>1, <1>2, <1>3 DEF OnlyBlock, Bound
<1>5. size + c <= MaxMem
  BY <1>2, <1>4 DEF OneBlock, Bound
<1>. QED  BY <1>1, <1>2, <1>3, <1>4, <1>5 DEF OnlyBlock, ThisBlock, Accepted, Consumed

LEMMA OneBlockSteps == FileInv /\ OneBlockInv /\ [Next]_vars => OneBlockInv'
<1>. SUFFICES ASSUME FileInv, OneBlockInv, [Next]_vars, OneBlock'
              PROVE  OneBlockInv'
  BY BufferLater DEF OneBlockInv
<1>0. /\ size \in Nat /\ pos \in 0..size /\ comp_file \in Nat /\ left \in Nat
      /\ faults \in Nat /\ HeaderSize \in Nat \ {0}
  BY Constants DEF FileInv, TypeOK
<1>1. CASE Measure \/ Probe
  BY <1>1 DEF Measure, Probe, FileInv, WriteInv, Writing, OneBlockInv, OneBlock,
              NoBlock, NULL, compVars, readVars
<1>2. CASE Keep
  <2>1. UNCHANGED compVars /\ UNCHANGED readVars /\ phase' = "compress" /\ phase = "keep"
    BY <1>2 DEF Keep
  <2>2. NoBlock /\ result = NULL
    BY <2>1 DEF FileInv, WriteInv, Writing, NoBlock
  <2>. QED  BY <2>1, <2>2 DEF OneBlockInv, NoBlock, NULL, Writing, compVars, readVars
<1>3. CASE CompressBlock
  BY <1>3, OneBlockCompressed
<1>4. CASE \/ CompressShort \/ CompressCut \/ CompressOpenFails \/ CompressCloseFails
           \/ OpenFails \/ ReadFails \/ ReadCloseFails
  BY <1>0, <1>4 DEF CompressShort, CompressCut, CompressOpenFails,
                    CompressCloseFails, OpenFails, ReadFails, ReadCloseFails, Fault,
                    OneBlock
<1>5. CASE CompressEnds
  <2>1. OneBlock /\ BlockLen = 0 /\ phase = "compress" /\ available = size
    BY <1>5 DEF CompressEnds, OneBlock, memVars
  <2>2. OnlyBlock
    BY <1>0, <2>1 DEF OneBlockInv, NoBlock, OneBlock, BlockLen, MinOf
  <2>. QED  BY <1>5, <2>1, <2>2 DEF CompressEnds, OneBlockInv, OnlyBlock, Writing,
                                    compVars, readVars
<1>6. CASE Open
  <2>1. OneBlock /\ phase = "open" /\ OnlyBlock /\ cap = NULL /\ next = 1
    BY <1>6 DEF Open, OneBlock, OneBlockInv, Writing, FileInv, WriteInv, memVars
  <2>2. comp_file > 0
    <3>1. blocks[1] \in Block
      <4>1. 1 \in 1..Len(blocks) /\ blocks \in Seq(Block)
        BY <2>1 DEF OnlyBlock, FileInv, TypeOK
      <4>. QED  BY <4>1, ElementOfSeq
    <3>. QED  BY <1>0, <2>1, <3>1 DEF OnlyBlock, Block
  <2>. QED  BY <1>6, <2>1, <2>2 DEF Open, OneBlockInv, OnlyBlock, Writing, compVars
<1>7. CASE ReadBlock
  <2>1. OneBlock /\ phase = "read" /\ left > 0 /\ Restore(ThisBlock)
    BY <1>7 DEF ReadBlock, OneBlock, memVars
  <2>2. left' = 0
    BY <2>1, OneBlockRead DEF Restore
  <2>. QED  BY <1>7, <2>1, <2>2 DEF ReadBlock, Restore, OneBlockInv, OnlyBlock,
                                    Writing, compVars
<1>8. CASE ReadPastBuffer \/ Reject \/ RejectPastBuffer
  BY <1>8, OneBlockRead DEF ReadPastBuffer, Reject, RejectPastBuffer, CutPastBuffer,
                            Accepted, OneBlock, memVars
<1>9. CASE ReadEnds
  <2>1. OneBlock /\ result' = 0 /\ phase' = "close"
    BY <1>0, <1>9 DEF ReadEnds, Return, OneBlock, memVars
  <2>. QED  BY <2>1 DEF OneBlockInv, Writing
<1>11. CASE CompressCloses \/ ReadCloses
  BY <1>11 DEF CompressCloses, ReadCloses, memVars, compVars, readVars, OneBlockInv,
               OneBlock, OnlyBlock, Writing
<1>10. CASE UNCHANGED vars
  BY <1>10 DEF vars, memVars, compVars, readVars, OneBlockInv, OneBlock, NoBlock,
               OnlyBlock, Writing
<1>. QED
  BY <1>1, <1>2, <1>3, <1>4, <1>5, <1>6, <1>7, <1>8, <1>9, <1>10, <1>11 DEF Next

\* A file for which one block was large enough, and whose block cannot be
\* longer than MAX_MEM with what LZ4 may add to it, is given back: neither the
\* assertion nor a test of lz4_file_uncompress stops it.
THEOREM OneBlockRestorable == Spec => []Restorable
<1>1. OneBlockInv => Restorable
  BY DEF OneBlockInv, OneBlock, Restorable
<1>. QED  BY <1>1, OneBlockStarts, OneBlockSteps, FileInvariant, PTL DEF Spec
=============================================================================
