-------------------------------- MODULE Md5 --------------------------------
(***************************************************************************)
(* The digest of util/md5.c: MD5Update, which takes a message in pieces,   *)
(* MD5Final, the transform, and the two ways to call them: MD5Data, for    *)
(* passwords and blocks in memory, and MD5File_S, for log_file_md5.        *)
(*                                                                         *)
(* A word of 32 bits is a pair of halves of 16 bits.  The context keeps    *)
(* the blocks given to MD5Transform in place of buf, which is a function   *)
(* of them: Chain.                                                         *)
(***************************************************************************)
EXTENDS Bytes, Sequences, SequencesExt

CONSTANTS
  Messages,       \* sequences of bytes
  KnownDigests,   \* messages with their digests, from the test suite of RFC 1321
  Word,           \* values of bits[0] and of bits[1]: 2^32
  ReadSize        \* BUFSIZ

ASSUME Md5Assumption ==
  /\ Messages \subseteq Seq(Byte)
  /\ KnownDigests \subseteq Messages \X [1..16 -> Byte]
  /\ Word \in Nat \ {0} /\ Word % 512 = 0
  /\ (Word - 1) \div 2^16 < 2^16
  /\ ReadSize \in Nat \ {0}

VARIABLES
  message,   \* the content of the file, or the data
  ctx,       \* MD5_CTX
  fed,       \* bytes of the message given to MD5Update
  md5pc,     \* idle; open, read, text; data; done
  digest,    \* the digest array of the caller
  text,      \* what MD5File_S returns
  unread     \* open or read has failed

md5Vars == <<message, ctx, fed, md5pc, digest, text, unread>>

Unset == << >>   \* an array nobody has written: bytes of no meaning

-----------------------------------------------------------------------------
(* Words.                                                                  *)

Half == 2^16

AddWord(u, v) ==
  LET low == u[2] + v[2]
  IN <<(u[1] + v[1] + low \div Half) % Half, low % Half>>

AndHalf(x, y) == 256 * And(x \div 256, y \div 256) + And(x % 256, y % 256)

AndWord(u, v) == <<AndHalf(u[1], v[1]), AndHalf(u[2], v[2])>>

XorWord(u, v) ==
  LET both == AndWord(u, v)
  IN <<u[1] + v[1] - 2 * both[1], u[2] + v[2] - 2 * both[2]>>

NotWord(u) == <<Half - 1 - u[1], Half - 1 - u[2]>>

\* w << s | w >> (32 - s)
Rotate(u, s) ==
  LET v == IF s >= 16 THEN <<u[2], u[1]>> ELSE u
      n == s % 16
      turn(x, y) == ((x * 2^n) % Half) + (y \div 2^(16 - n))
  IN <<turn(v[1], v[2]), turn(v[2], v[1])>>

\* The words of bytes, and back, the low byte first.
Words(bytes) ==
  [i \in 1..Len(bytes) \div 4 |->
     <<256 * bytes[4 * i] + bytes[4 * i - 1], 256 * bytes[4 * i - 2] + bytes[4 * i - 3]>>]

WordBytes(u) == <<u[2] % 256, u[2] \div 256, u[1] % 256, u[1] \div 256>>

-----------------------------------------------------------------------------
(* MD5Transform.                                                           *)

InitialBuf == << <<\h6745, \h2301>>, <<\hEFCD, \hAB89>>, <<\h98BA, \hDCFE>>, <<\h1032, \h5476>> >>

F1(x, y, z) == XorWord(z, AndWord(x, XorWord(y, z)))

\* Mutant of F2: the arguments in the order of F1.
F2Unturned(x, y, z) == F1(x, y, z)

F2(x, y, z) == F1(z, x, y)
F3(x, y, z) == XorWord(x, XorWord(y, z))
\* y ^ (x | ~z): x | w is ~(~x & ~w).
F4(x, y, z) == XorWord(y, NotWord(AndWord(NotWord(x), z)))

Additive == <<
  <<\hD76A, \hA478>>, <<\hE8C7, \hB756>>, <<\h2420, \h70DB>>, <<\hC1BD, \hCEEE>>,
  <<\hF57C, \h0FAF>>, <<\h4787, \hC62A>>, <<\hA830, \h4613>>, <<\hFD46, \h9501>>,
  <<\h6980, \h98D8>>, <<\h8B44, \hF7AF>>, <<\hFFFF, \h5BB1>>, <<\h895C, \hD7BE>>,
  <<\h6B90, \h1122>>, <<\hFD98, \h7193>>, <<\hA679, \h438E>>, <<\h49B4, \h0821>>,
  <<\hF61E, \h2562>>, <<\hC040, \hB340>>, <<\h265E, \h5A51>>, <<\hE9B6, \hC7AA>>,
  <<\hD62F, \h105D>>, <<\h0244, \h1453>>, <<\hD8A1, \hE681>>, <<\hE7D3, \hFBC8>>,
  <<\h21E1, \hCDE6>>, <<\hC337, \h07D6>>, <<\hF4D5, \h0D87>>, <<\h455A, \h14ED>>,
  <<\hA9E3, \hE905>>, <<\hFCEF, \hA3F8>>, <<\h676F, \h02D9>>, <<\h8D2A, \h4C8A>>,
  <<\hFFFA, \h3942>>, <<\h8771, \hF681>>, <<\h6D9D, \h6122>>, <<\hFDE5, \h380C>>,
  <<\hA4BE, \hEA44>>, <<\h4BDE, \hCFA9>>, <<\hF6BB, \h4B60>>, <<\hBEBF, \hBC70>>,
  <<\h289B, \h7EC6>>, <<\hEAA1, \h27FA>>, <<\hD4EF, \h3085>>, <<\h0488, \h1D05>>,
  <<\hD9D4, \hD039>>, <<\hE6DB, \h99E5>>, <<\h1FA2, \h7CF8>>, <<\hC4AC, \h5665>>,
  <<\hF429, \h2244>>, <<\h432A, \hFF97>>, <<\hAB94, \h23A7>>, <<\hFC93, \hA039>>,
  <<\h655B, \h59C3>>, <<\h8F0C, \hCC92>>, <<\hFFEF, \hF47D>>, <<\h8584, \h5DD1>>,
  <<\h6FA8, \h7E4F>>, <<\hFE2C, \hE6E0>>, <<\hA301, \h4314>>, <<\h4E08, \h11A1>>,
  <<\hF753, \h7E82>>, <<\hBD3A, \hF235>>, <<\h2AD7, \hD2BB>>, <<\hEB86, \hD391>> >>

WordOrder == <<
  0, 1, 2, 3, 4, 5, 6, 7, 8, 9, 10, 11, 12, 13, 14, 15,
  1, 6, 11, 0, 5, 10, 15, 4, 9, 14, 3, 8, 13, 2, 7, 12,
  5, 8, 11, 14, 1, 4, 7, 10, 13, 0, 3, 6, 9, 12, 15, 2,
  0, 7, 14, 5, 12, 3, 10, 1, 8, 15, 6, 13, 4, 11, 2, 9 >>

Shifts == << <<7, 12, 17, 22>>, <<5, 9, 14, 20>>, <<4, 11, 16, 23>>, <<6, 10, 15, 21>> >>

\* Step i on the registers in the order in which it names them; the next step
\* names them rotated by one.
MD5STEP(i, r, in) ==
  LET w == r[1]  x == r[2]  y == r[3]  z == r[4]
      round == ((i - 1) \div 16) + 1
      f == CASE round = 1 -> F1(x, y, z)
             [] round = 2 -> F2(x, y, z)
             [] round = 3 -> F3(x, y, z)
             [] round = 4 -> F4(x, y, z)
      sum == AddWord(AddWord(w, f), AddWord(in[WordOrder[i] + 1], Additive[i]))
  IN <<z, AddWord(x, Rotate(sum, Shifts[round][((i - 1) % 4) + 1])), x, y>>

MD5Transform(buf, block) ==
  LET in == Words(block)
      step[i \in 0..64] == IF i = 0 THEN buf ELSE MD5STEP(i, step[i - 1], in)
      r == step[64]
  IN [k \in 1..4 |-> AddWord(buf[k], r[k])]

\* buf after the blocks.
Chain(blocks) ==
  LET buf[n \in 0..Len(blocks)] ==
        IF n = 0 THEN InitialBuf ELSE MD5Transform(buf[n - 1], blocks[n])
  IN buf[Len(blocks)]

-----------------------------------------------------------------------------
(* The context.                                                            *)

\* A byte nobody has written.
Garbage == 256

\* memcpy or memset to the buffer `in', from offset at.
Put(in, at, bytes) ==
  [k \in 1..64 |-> IF k - at \in DOMAIN bytes THEN bytes[k - at] ELSE in[k]]

Zeros(n) == [k \in 1..n |-> 0]

MD5Init == [bits |-> <<0, 0>>, in |-> [k \in 1..64 |-> Garbage], blocks |-> << >>]

\* Mutant of CountBits: no carry into the high word.
CountWithoutCarry(bits, len) ==
  <<(bits[1] + 8 * len) % Word, (bits[2] + len \div (Word \div 8)) % Word>>

\* Mutant of CountBits: the low word is wider than the code's.
CountUnbounded(bits, len) == <<bits[1] + 8 * len, bits[2] + len \div (Word \div 8)>>

\* len << 3 is added to the low word, len >> 29 and the carry to the high one.
CountBits(bits, len) ==
  LET low == (bits[1] + ((8 * len) % Word)) % Word
      carry == IF low < bits[1] THEN 1 ELSE 0
  IN <<low, (bits[2] + carry + len \div (Word \div 8)) % Word>>

Buffered(c) == (c.bits[1] \div 8) % 64

\* Leading bytes complete the buffered block if they are enough; then whole
\* blocks go through the buffer, and the rest stays in it.
MD5Update(c, data) ==
  LET t == Buffered(c)
      lead == IF t = 0 THEN 0 ELSE 64 - t
      n == (Len(data) - lead) \div 64
      whole == [k \in 1..n |-> SubSeq(data, lead + 64 * (k - 1) + 1, lead + 64 * k)]
      new == IF t = 0 THEN whole ELSE <<Put(c.in, t, SubSeq(data, 1, lead))>> \o whole
      rest == SubSeq(data, lead + 64 * n + 1, Len(data))
  IN IF t # 0 /\ Len(data) < lead
     THEN [c EXCEPT !.bits = CountBits(@, Len(data)), !.in = Put(@, t, data)]
     ELSE [bits |-> CountBits(c.bits, Len(data)),
           in |-> Put(IF new = << >> THEN c.in ELSE Last(new), 0, rest),
           blocks |-> c.blocks \o new]

\* The count of bits, in the last two words of a block.
CountBytes(bits) ==
  LET word(x) == WordBytes(<<x \div Half, x % Half>>)
  IN word(bits[1]) \o word(bits[2])

\* The padding fills two blocks when there is no room for the count.
PadBlocks(c, room) ==
  LET at == Buffered(c)
      count == 63 - at
      marked == Put(c.in, at, <<128>>)
  IN IF count < room
     THEN c.blocks \o <<Put(marked, at + 1, Zeros(count)),
                        Zeros(56) \o CountBytes(c.bits)>>
     ELSE Append(c.blocks, Put(Put(marked, at + 1, Zeros(count - 8)), 56, CountBytes(c.bits)))

\* Mutant of MD5Final: room for seven bytes is enough.
FinalSevenBytes(c) == PadBlocks(c, 7)

\* The blocks that MD5Final has made the digest of.
MD5Final(c) == PadBlocks(c, 8)

DigestOf(blocks) == FlattenSeq([k \in 1..4 |-> WordBytes(Chain(blocks)[k])])

-----------------------------------------------------------------------------
(* MD5File and MD5File_S.                                                  *)

FileOpens ==
  /\ md5pc = "open"
  /\ md5pc' = "read"
  /\ UNCHANGED <<message, ctx, fed, digest, text, unread>>

\* MD5File returns without a digest, and MD5File_S does not notice.
FileFails ==
  /\ md5pc \in {"open", "read"}
  /\ unread' = TRUE
  /\ md5pc' = "text"
  /\ UNCHANGED <<message, ctx, fed, digest, text>>

\* read may return less than it was asked for.
FileRead ==
  /\ md5pc = "read"
  /\ \E n \in 1..ReadSize :
       /\ fed + n <= Len(message)
       /\ ctx' = MD5Update(ctx, SubSeq(message, fed + 1, fed + n))
       /\ fed' = fed + n
  /\ UNCHANGED <<message, md5pc, digest, text, unread>>

FileEnds ==
  /\ md5pc = "read"
  /\ fed = Len(message)
  /\ ctx' = [ctx EXCEPT !.blocks = MD5Final(ctx)]
  /\ digest' = DigestOf(ctx'.blocks)
  /\ md5pc' = "text"
  /\ UNCHANGED <<message, fed, text, unread>>

\* Two digits a byte, the high half first; of an unset digest, any.
Format ==
  /\ md5pc = "text"
  /\ text' = FlattenSeq([i \in DOMAIN digest |-> <<digest[i] \div 16, digest[i] % 16>>])
  /\ md5pc' = "done"
  /\ UNCHANGED <<message, ctx, fed, digest, unread>>

\* MD5Data: everything in one call.
DataDigest ==
  /\ md5pc = "data"
  /\ ctx' = [MD5Update(ctx, message) EXCEPT !.blocks = MD5Final(MD5Update(ctx, message))]
  /\ fed' = Len(message)
  /\ digest' = DigestOf(ctx'.blocks)
  /\ md5pc' = "done"
  /\ UNCHANGED <<message, text, unread>>

Md5Idle ==
  /\ message = << >> /\ ctx = MD5Init /\ fed = 0
  /\ md5pc = "idle" /\ digest = Unset /\ text = Unset /\ unread = FALSE

Md5Call ==
  /\ message \in Messages
  /\ md5pc \in {"open", "data"}
  /\ ctx = MD5Init /\ fed = 0 /\ digest = Unset /\ text = Unset /\ unread = FALSE

Md5Next == FileOpens \/ FileFails \/ FileRead \/ FileEnds \/ Format \/ DataDigest

-----------------------------------------------------------------------------
(* Properties.                                                             *)

Md5TypeOK ==
  /\ ctx.bits \in (0..Word - 1) \X (0..Word - 1)
  /\ ctx.in \in [1..64 -> 0..Garbage]
  /\ \A k \in DOMAIN ctx.blocks : ctx.blocks[k] \in [1..64 -> Byte]
  /\ fed \in 0..Len(message)
  /\ md5pc \in {"idle", "open", "read", "text", "data", "done"}
  /\ digest = Unset \/ digest \in [1..16 -> Byte]
  /\ unread \in BOOLEAN

\* RFC 1321, 3.1 and 3.2: the message, a bit 1, zeros up to 56 modulo 64 bytes,
\* and the length in bits, in two words.
PaddedMessage ==
  LET n == Len(message)
      zeros == (119 - (n % 64)) % 64
      count == CountBytes(<<(8 * n) % Word, ((8 * n) \div Word) % Word>>)
  IN message \o <<128>> \o Zeros(zeros) \o count

\* However a message is cut into calls, the blocks and the buffer hold what was
\* given so far, and the two words count its bits.
StreamExact ==
  md5pc = "read" =>
    /\ FlattenSeq(ctx.blocks) \o SubSeq(ctx.in, 1, fed % 64) = SubSeq(message, 1, fed)
    /\ ctx.bits[1] + Word * ctx.bits[2] = (8 * fed) % (Word * Word)

\* A digest is that of the padded message; there is one unless a call failed,
\* and its text has its digits.
PaddingExact ==
  /\ digest # Unset => FlattenSeq(ctx.blocks) = PaddedMessage
  /\ md5pc = "done" => (digest = Unset <=> unread)
  /\ text # Unset => digest = [i \in 1..16 |-> 16 * text[2 * i - 1] + text[2 * i]]

\* The digest is the one RFC 1321 gives.
DigestExact ==
  digest # Unset => \A known \in KnownDigests : known[1] = message => known[2] = digest

=============================================================================
