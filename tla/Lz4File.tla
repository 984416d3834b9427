------------------------------ MODULE Lz4File ------------------------------
(***************************************************************************)
(* The compressed backups of lz4/lz4_file.c: the search for a block size   *)
(* that fits the memory, lz4_file_compress, which cuts the file into       *)
(* blocks with a header each, and lz4_file_uncompress, which reads them    *)
(* back into buffers sized by the headers.                                 *)
(*                                                                         *)
(* The source is the sequence 1..size of its units, so that a lost, moved  *)
(* or repeated unit is visible.  The codec is lossless, and MD5 tells a    *)
(* complete block from any other.                                          *)
(***************************************************************************)
EXTENDS Integers, Sequences, SequencesExt

CONSTANTS
  Sizes,        \* sizes of the source file
  Memories,     \* the most malloc can give at once
  Step,         \* 64 MB
  MaxMem,       \* MAX_MEM
  HeaderSize,   \* HEADER_SIZE
  Expansion,    \* what LZ4_compressBound adds to the size of a block
  BUFSIZ,       \* units the buffer of a stream may keep back
  MaxFaults     \* bound: library calls that fail

\* A set of numbers that can be halved down to 1 in it: powers of two.
Halving(P) == \A n \in P : n = 1 \/ (n % 2 = 0 /\ n \div 2 \in P)

\* 64 MB is a power of two, and MAX_MEM is 15 of them and a half.  The smallest
\* memory has room for a few headers.
ASSUME Lz4FileAssumption ==
  /\ Sizes \subseteq Nat
  /\ Step \in Nat /\ Step >= 4
  /\ \E P \in SUBSET (1..Step) : Step \in P /\ Halving(P)
  /\ \E n \in 1..MaxMem : MaxMem = n * Step + Step \div 2
  /\ MaxMem \in Nat
  /\ HeaderSize \in 1..Step \div 2
  /\ Expansion \in Nat \ {0, 1}
  /\ Memories \subseteq {m \in Nat : m >= 4 * HeaderSize + Expansion}
  /\ BUFSIZ \in Nat /\ MaxFaults \in Nat

VARIABLES
  size, memory,   \* of this run
  phase,
  required,       \* required_mem of _find_available_mem
  available,      \* available_size of lz4_file_compress
  pos,            \* units read from the source
  blocks,         \* the blocks in the compressed file
  comp_file,      \* size of the compressed file
  next,           \* the block lz4_file_uncompress is at
  cap,            \* size of src_buf, NULL before the first block
  left,           \* file_size of lz4_file_uncompress: what is still to read
  out,            \* the restored file
  result,         \* what lz4_file_uncompress returns
  unwritten,      \* history: units at the end of out that were not written
  faults          \* library calls that have failed

memVars == <<required, available>>
compVars == <<pos, blocks, comp_file>>
readVars == <<next, cap, left, out, result, unwritten>>
vars == <<size, memory, phase, memVars, compVars, readVars, faults>>

NULL == -1

Fault == faults < MaxFaults /\ faults' = faults + 1

MinOf(m, n) == IF m <= n THEN m ELSE n

\* LZ4_compressBound.
Bound(n) == n + Expansion

-----------------------------------------------------------------------------
(* The size of a block.                                                    *)

\* _find_available_mem starts two steps above the file.
Measure ==
  /\ phase = "measure"
  /\ required' = MinOf((size \div Step + 1) * Step + 2 * Step, MaxMem)
  /\ phase' = "probe"
  /\ UNCHANGED <<size, memory, available, compVars, readVars, faults>>

\* Mutant of Smaller: a size below one step is not halved.
SmallerNeverHalves(n) == IF n > Step THEN n - Step ELSE n

Smaller(n) == IF n > Step THEN n - Step ELSE n \div 2

\* One trial allocation.
Probe ==
  /\ phase = "probe"
  /\ required' = Smaller(required)
  /\ phase' = IF required' + Bound(required') <= memory THEN "keep" ELSE "probe"
  /\ UNCHANGED <<size, memory, available, compVars, readVars, faults>>

\* Mutant of Keep: no memory is kept back.
KeepNothing ==
  /\ phase = "keep"
  /\ available' = IF required > size THEN size ELSE required
  /\ phase' = "compress"
  /\ UNCHANGED <<size, memory, required, compVars, readVars, faults>>

\* Some memory is kept back; _select_mem_size takes the whole file if it fits.
Keep ==
  /\ phase = "keep"
  /\ required' = Smaller(required)
  /\ available' = IF required' > size THEN size ELSE required'
  /\ phase' = "compress"
  /\ UNCHANGED <<size, memory, compVars, readVars, faults>>

-----------------------------------------------------------------------------
(* lz4_file_compress.                                                      *)

\* What fread gets.
BlockLen == MinOf(available, size - pos)

\* A failed malloc or fopen is reported and the NULL is used all the same.
CompressOpenFails ==
  /\ phase = "compress"
  /\ pos = 0
  /\ Fault
  /\ phase' = "died"
  /\ UNCHANGED <<size, memory, memVars, compVars, readVars>>

\* A block of n units compressed to c, of which `kept' units with the header
\* reach the file, at its end.
Emit(n, c, kept) ==
  /\ pos' = pos + n
  /\ comp_file' = comp_file + kept
  /\ blocks' = IF kept = 0 THEN blocks
               ELSE Append(blocks, [from |-> pos, uncomp |-> n, comp |-> c,
                                    at |-> comp_file, whole |-> kept = HeaderSize + c])

CompressBlock ==
  /\ phase = "compress"
  /\ BlockLen > 0
  /\ \E c \in 1..Bound(BlockLen) - 1 : Emit(BlockLen, c, HeaderSize + c)
  /\ UNCHANGED <<size, memory, phase, memVars, readVars, faults>>

\* A short fwrite is reported, and the next block is written behind it.
CompressShort ==
  /\ phase = "compress"
  /\ BlockLen > 0
  /\ Fault
  /\ \E c \in 1..Bound(BlockLen) - 1 :
       \E kept \in 0..HeaderSize + c - 1 : Emit(BlockLen, c, kept)
  /\ UNCHANGED <<size, memory, phase, memVars, readVars>>

\* A failed fread is taken for the end of the source.
CompressCut ==
  /\ phase = "compress"
  /\ BlockLen > 0
  /\ Fault
  /\ phase' = "flush"
  /\ UNCHANGED <<size, memory, memVars, compVars, readVars>>

CompressEnds ==
  /\ phase = "compress"
  /\ BlockLen = 0
  /\ phase' = "flush"
  /\ UNCHANGED <<size, memory, memVars, compVars, readVars, faults>>

\* fclose(dst_fd).
CompressCloses ==
  /\ phase = "flush"
  /\ phase' = "open"
  /\ UNCHANGED <<size, memory, memVars, compVars, readVars, faults>>

\* The compressed file ends at `end': blocks behind it are gone, one that goes
\* beyond it is cut short.
CutAt(end) ==
  /\ comp_file' = end
  /\ \E n \in 0..Len(blocks) :
       /\ \A i \in DOMAIN blocks : i <= n <=> blocks[i].at < end
       /\ blocks' = [i \in 1..n |->
            [blocks[i] EXCEPT !.whole =
               @ /\ blocks[i].at + blocks[i].comp + HeaderSize <= end]]

\* The result of fclose(dst_fd) is not looked at: what its buffer kept back is
\* missing.
CompressCloseFails ==
  /\ phase = "flush"
  /\ Fault
  /\ \E n \in 1..MinOf(BUFSIZ, comp_file) : CutAt(comp_file - n)
  /\ phase' = "open"
  /\ UNCHANGED <<size, memory, memVars, pos, readVars>>

-----------------------------------------------------------------------------
(* lz4_file_uncompress.                                                    *)

\* assert(file_size > 0).
Open ==
  /\ phase = "open"
  /\ left' = comp_file
  /\ phase' = IF left' > 0 THEN "read" ELSE "died"
  /\ UNCHANGED <<size, memory, memVars, compVars, next, cap, out, result, unwritten,
                 faults>>

\* A failed fopen is reported and the NULL is used all the same.
OpenFails ==
  /\ phase = "open"
  /\ Fault
  /\ phase' = "died"
  /\ UNCHANGED <<size, memory, memVars, compVars, readVars>>

ThisBlock == blocks[next]

\* Mutant of Accepted: the bound of the compressed size is asked to fit.
AcceptedWithBound(b) == b.whole /\ b.uncomp + Bound(b.comp) <= MaxMem

\* _data_disassemble: the header, the sizes and the hash.  A block that was cut
\* short, with whatever follows it, fails on one of them.
Accepted(b) == b.whole /\ b.uncomp + b.comp <= MaxMem

\* The loop is left, and what is returned is known.
Return(r) == phase' = "close" /\ result' = r

\* Mutant of Consumed: the header is not counted.
ConsumedData(b) == b.comp

\* What a block takes off file_size.
Consumed(b) == b.comp + HeaderSize

\* The n units of the source behind the first `from'.
Units(from, n) == [i \in 1..n |-> from + i]

\* The block is decompressed into the restored file.
Restore(b) ==
  /\ out' = out \o Units(b.from, b.uncomp)
  /\ left' = left - Consumed(b)
  /\ next' = next + 1
  /\ cap' = IF cap = NULL THEN b.comp ELSE cap
  /\ UNCHANGED <<phase, result, unwritten>>

ReadBlock ==
  /\ phase = "read"
  /\ left > 0
  /\ Accepted(ThisBlock)
  /\ cap = NULL \/ ThisBlock.comp <= cap
  /\ Restore(ThisBlock)
  /\ UNCHANGED <<size, memory, memVars, compVars, faults>>

\* The buffer is as long as the compressed data of the first block: what is
\* read past its end destroys something or does not.
ReadPastBuffer ==
  /\ phase = "read"
  /\ left > 0
  /\ Accepted(ThisBlock)
  /\ cap # NULL /\ ThisBlock.comp > cap
  /\ \/ Restore(ThisBlock)
     \/ phase' = "died" /\ UNCHANGED readVars
  /\ UNCHANGED <<size, memory, memVars, compVars, faults>>

\* Mutant of Reject: the loop goes on with the next block.
RejectSkips ==
  /\ phase = "read"
  /\ left > 0
  /\ ~Accepted(ThisBlock)
  /\ left' = left - Consumed(ThisBlock)
  /\ next' = next + 1
  /\ UNCHANGED <<size, memory, phase, memVars, compVars, cap, out, result,
                 unwritten, faults>>

Reject ==
  /\ phase = "read"
  /\ left > 0
  /\ ~Accepted(ThisBlock)
  /\ Return(1)
  /\ UNCHANGED <<size, memory, memVars, compVars, next, cap, left, out, unwritten,
                 faults>>

\* Where the block that is read ends in the compressed file.
ThisEnd == IF next < Len(blocks) THEN blocks[next + 1].at ELSE comp_file

\* The data is read before the hash is looked at.  Of a block cut short behind
\* its header the sizes are its own, those of a cut header are what follows it.
CutPastBuffer(b) ==
  /\ ~b.whole
  /\ cap # NULL /\ b.at + HeaderSize + cap < comp_file
  /\ b.at + HeaderSize <= ThisEnd => b.comp > cap /\ b.uncomp + b.comp <= MaxMem

\* What is read past the end of the buffer destroys something.
RejectPastBuffer ==
  /\ phase = "read"
  /\ left > 0
  /\ CutPastBuffer(ThisBlock)
  /\ phase' = "died"
  /\ UNCHANGED <<size, memory, memVars, compVars, readVars, faults>>

\* A failed allocation, or an fwrite that writes part of the block.
ReadFails ==
  /\ phase = "read"
  /\ left > 0
  /\ Accepted(ThisBlock)
  /\ Fault
  /\ \E n \in 0..ThisBlock.uncomp - 1 : out' = out \o Units(ThisBlock.from, n)
  /\ Return(1)
  /\ UNCHANGED <<size, memory, memVars, compVars, next, cap, left, unwritten>>

ReadEnds ==
  /\ phase = "read"
  /\ left <= 0
  /\ Return(IF left # 0 THEN 1 ELSE 0)
  /\ UNCHANGED <<size, memory, memVars, compVars, next, cap, left, out, unwritten,
                 faults>>

\* fclose(dst_fd).
ReadCloses ==
  /\ phase = "close"
  /\ phase' = "done"
  /\ UNCHANGED <<size, memory, memVars, compVars, readVars, faults>>

\* The result does not depend on fclose(dst_fd).
ReadCloseFails ==
  /\ phase = "close"
  /\ Fault
  /\ unwritten' \in 1..MinOf(BUFSIZ, Len(out))
  /\ out' = SubSeq(out, 1, Len(out) - unwritten')
  /\ phase' = "done"
  /\ UNCHANGED <<size, memory, memVars, compVars, next, cap, left, result>>

-----------------------------------------------------------------------------
Init ==
  /\ size \in Sizes
  /\ memory \in Memories
  /\ phase = "measure"
  /\ required = 0 /\ available = 0
  /\ pos = 0 /\ blocks = << >> /\ comp_file = 0
  /\ next = 1 /\ cap = NULL /\ left = 0 /\ out = << >> /\ result = NULL
  /\ unwritten = 0 /\ faults = 0

Next == \/ Measure \/ Probe \/ Keep
        \/ CompressOpenFails
        \/ CompressBlock \/ CompressShort \/ CompressCut \/ CompressEnds
        \/ CompressCloses \/ CompressCloseFails
        \/ Open \/ OpenFails \/ ReadBlock \/ ReadPastBuffer
        \/ Reject \/ RejectPastBuffer \/ ReadFails \/ ReadEnds
        \/ ReadCloses \/ ReadCloseFails

Spec == Init /\ [][Next]_vars

\* One thread compresses, one restores: neither stops on its way.
FairSpec == Spec /\ WF_vars(Next)

-----------------------------------------------------------------------------
(* Properties.                                                             *)

Block == [from : Nat, uncomp : Nat \ {0}, comp : Nat \ {0}, at : Nat,
          whole : BOOLEAN]

\* Every variable has its type; a block to read exists as long as there is
\* something to read.
TypeOK ==
  /\ size \in Sizes /\ memory \in Memories
  /\ phase \in {"measure", "probe", "keep", "compress", "flush", "open", "read",
                "close", "done", "died"}
  /\ required \in Nat /\ available \in Nat
  /\ pos \in 0..size
  /\ blocks \in Seq(Block)
  /\ comp_file \in Nat
  /\ next \in Nat \ {0}
  /\ phase = "read" /\ left > 0 => next \in DOMAIN blocks
  /\ cap \in Nat \cup {NULL}
  /\ left \in Nat
  /\ out \in Seq(1..size)
  /\ result \in {NULL, 0, 1}
  /\ unwritten \in 0..BUFSIZ
  /\ faults \in 0..MaxFaults

\* The buffers of lz4_file_compress fit the memory in which the trial
\* allocation succeeded, header included, and a file that is not empty is given
\* blocks that are not empty either.
BuffersFit ==
  phase = "compress" =>
    /\ available + Bound(available) + HeaderSize <= memory
    /\ size > 0 => available > 0

\* What the first n blocks of the compressed file hold, cut short or not.
Stored(n) ==
  FlattenSeq([k \in 1..n |-> Units(blocks[k].from, blocks[k].uncomp)])

\* Whichever calls have failed, lz4_file_uncompress skips no block: the restored
\* file is what the blocks of the compressed file hold up to some place, in the
\* order of the source.  When the result is 0 it is all they hold, but for an end
\* that the unchecked fclose may have failed to write; when it is 0 and no call
\* has failed, it is the whole source, in however many blocks.
Restored ==
  /\ \A i, j \in DOMAIN out : i < j => out[i] < out[j]
  /\ IsPrefix(out, Stored(Len(blocks)))
  /\ result = 0 => Len(out) = Len(Stored(Len(blocks))) - unwritten
  /\ faults = 0 => unwritten = 0
  /\ result = 0 /\ faults = 0 => Len(out) = size

\* A file that one block takes, and that is not longer than half of MAX_MEM
\* with what LZ4 may add, is restored however badly it compresses.
Restorable ==
  (faults = 0 /\ available = size /\ size > 0
     /\ size + Bound(size) - 1 <= MaxMem)
    => phase # "died" /\ result # 1

\* The search for memory ends, and so do both loops.
Terminates == <>(phase \in {"done", "died"})
=============================================================================
