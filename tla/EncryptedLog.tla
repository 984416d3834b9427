---------------------------- MODULE EncryptedLog ----------------------------
(***************************************************************************)
(* An encrypted log from the record to the restored text: the creation of  *)
(* the handle with its key, the padding of a record to whole blocks and    *)
(* its encryption in log/log_file.c, the bytes that reach the disk when    *)
(* the process dies or a stream cannot be closed, and log_file_decipher.   *)
(*                                                                         *)
(* A character is a record and a place in it, or the zero of a %c in the   *)
(* caller's format.  The cipher is abstract: a block that is complete and  *)
(* met with its key gives back what went in, any other piece of B bytes    *)
(* gives bytes of no meaning.                                              *)
(***************************************************************************)
EXTENDS Naturals, Sequences, SequencesExt, FiniteSets

CONSTANTS
  B,                \* AES_128: bytes in a block
  SINGLE_LOG_SIZE,  \* characters in the buffer of a record
  IoCap,            \* bytes the stream buffer of the log may keep back
  BUFSIZ,           \* bytes that of the restored file may keep back
  Passwords,
  MaxRecords,       \* bound: records logged
  MaxZeros,         \* bound: zeros in a text
  MaxLosses,        \* bound: losses of what a stream buffer kept back
  MaxFaults         \* bound: library calls that fail

ASSUME EncryptedLogAssumption ==
  /\ B \in Nat \ {0}
  /\ SINGLE_LOG_SIZE \in Nat \ {0}
  /\ {IoCap, BUFSIZ, MaxRecords, MaxZeros, MaxLosses, MaxFaults} \subseteq Nat

VARIABLES
  phase,     \* down, file, iobuf, key, up; closed: after file_handle_destory
  wkey,      \* the password the key schedule of the handle was made from
  mem,       \* what the handle has allocated
  texts,     \* history: the text of each record
  file,      \* the log file: bytes of encrypted blocks
  plain,     \* history: the character behind each byte of the file
  durable,   \* bytes of the file that were there before this handle
  pwd,       \* the password of log_file_decipher
  left,      \* in_filesize
  out,       \* the file written by log_file_decipher
  result,    \* none, reading, 0 or 1
  unwritten, \* history: characters at the end of out that were not written
  losses, faults

handleVars == <<phase, wkey, mem>>
fileVars == <<texts, file, plain, durable>>
readVars == <<pwd, left, out, result, unwritten>>
vars == <<handleVars, fileVars, readVars, losses, faults>>

NUL == <<0, 0>>
Garbage == <<0, 1>>   \* a character of no meaning
NoKey == "none"

Fault == faults < MaxFaults /\ faults' = faults + 1

-----------------------------------------------------------------------------
(* Creation.                                                               *)

\* _file_handle_create, up to the copy of the path in _file_init.
CreateHandle ==
  /\ phase = "down"
  /\ result = "none"
  /\ mem' = {"handle"}
  /\ phase' = "file"
  /\ durable' = Len(file)
  /\ UNCHANGED <<wkey, texts, file, plain, readVars, losses, faults>>

\* The part named is allocated next.
Allocate(at, part, then) ==
  /\ phase = at
  /\ mem' = mem \cup {part}
  /\ phase' = then
  /\ UNCHANGED <<fileVars, readVars, losses, faults>>

InitFile == Allocate("file", "file_path", "iobuf") /\ UNCHANGED wkey

InitBuffer == Allocate("iobuf", "io_buf", "key") /\ UNCHANGED wkey

\* _pwd_init.
InitKey ==
  /\ Allocate("key", "wkey", "up")
  /\ wkey' \in Passwords

\* malloc fails: what was allocated is freed, and there is no handle.
Abandon(at, freed) ==
  /\ phase = at
  /\ Fault
  /\ mem' = mem \ freed
  /\ phase' = "down"
  /\ UNCHANGED <<wkey, fileVars, readVars, losses>>

InitFileFails == Abandon("file", {"handle"})

InitBufferFails == Abandon("iobuf", {"file_path", "handle"})

\* Mutant of InitKeyFails: _iobuf_init leaves its buffer to the caller.
InitKeyFailsKeepsBuffer == Abandon("key", {"file_path", "handle"})

InitKeyFails == Abandon("key", {"io_buf", "file_path", "handle"})

-----------------------------------------------------------------------------
(* Writing.                                                                *)

\* n rounded up to whole blocks.
AES_EX(n) == ((n + B - 1) \div B) * B

\* The places of zeros in a text of n characters.
ZeroSets == [n \in 1..SINGLE_LOG_SIZE + B |->
               {zeros \in SUBSET (1..n) : Cardinality(zeros) <= MaxZeros}]

Chars(k, n, zeros) == [i \in 1..n |-> IF i \in zeros THEN NUL ELSE <<k, i>>]

\* Mutant of Formatted: vsprintf.
FormattedUncut(k, n, zeros) ==
  [chars |-> Chars(k, n, zeros), len |-> n, ok |-> n <= SINGLE_LOG_SIZE]

\* Mutant of Formatted: the length of the whole text is not tested.
FormattedUntested(k, n, zeros) ==
  [chars |-> Chars(k, IF n < SINGLE_LOG_SIZE THEN n ELSE SINGLE_LOG_SIZE - 1, zeros),
   len |-> n, ok |-> TRUE]

\* _log_write: vsnprintf keeps room for the terminator and returns the length
\* of the whole text, zeros included, so that a text of SINGLE_LOG_SIZE is cut
\* by a character and still passes the test.
Formatted(k, n, zeros) ==
  [chars |-> Chars(k, IF n < SINGLE_LOG_SIZE THEN n ELSE SINGLE_LOG_SIZE - 1, zeros),
   len |-> n, ok |-> n <= SINGLE_LOG_SIZE]

\* The buffer log_msg, zero behind the text; what is read behind its end.
log_msg(chars, i) ==
  IF i \in DOMAIN chars THEN chars[i]
  ELSE IF i <= AES_EX(SINGLE_LOG_SIZE) THEN NUL ELSE Garbage

\* The bytes of _buf_encrypt: each block a unit under the key.
Encrypted(msg) ==
  [i \in DOMAIN msg |->
     LET b == (i - 1) \div B
     IN [key |-> wkey, block |-> SubSeq(msg, b * B + 1, b * B + B), off |-> i - b * B]]

\* A record of n characters: _log_write, write_file with ENCRYPT.
Log(n, zeros) ==
  LET k == Len(texts) + 1
      text == Formatted(k, n, zeros)
      msg == [i \in 1..AES_EX(text.len) |-> log_msg(text.chars, i)]
  IN /\ phase = "up"
     /\ Len(texts) < MaxRecords
     /\ text.ok
     /\ texts' = Append(texts, text.chars)
     /\ file' = file \o Encrypted(msg)
     /\ plain' = plain \o msg
     /\ UNCHANGED <<handleVars, durable, readVars, losses, faults>>

\* file_handle_destory keeps the path.
DestroyHandle ==
  /\ phase = "up"
  /\ mem' = mem \ {"handle", "io_buf", "wkey"}
  /\ phase' = "closed"
  /\ UNCHANGED wkey

Destroy ==
  /\ DestroyHandle
  /\ UNCHANGED <<fileVars, readVars, losses, faults>>

\* At most the bytes in the stream buffer do not reach the file; a record or a
\* block may be cut.
Lose ==
  /\ losses < MaxLosses
  /\ losses' = losses + 1
  /\ \E n \in durable..Len(file) :
       /\ n + IoCap >= Len(file)
       /\ file' = SubSeq(file, 1, n)
       /\ plain' = SubSeq(plain, 1, n)
  /\ UNCHANGED <<texts, durable, readVars>>

\* The process dies.
Crash ==
  /\ phase \notin {"down", "closed"}
  /\ Lose
  /\ phase' = "down"
  /\ mem' = {}
  /\ UNCHANGED <<wkey, faults>>

\* fclose of the log fails in file_handle_flush or file_handle_destory, which
\* do not look at its result.
FlushFails ==
  /\ phase = "up"
  /\ Fault
  /\ Lose
  /\ UNCHANGED handleVars

DestroyFails ==
  /\ DestroyHandle
  /\ Fault
  /\ Lose

-----------------------------------------------------------------------------
(* log_file_decipher.                                                      *)

Decipher(p) ==
  /\ phase \in {"down", "closed"}
  /\ result = "none"
  /\ pwd' = p
  /\ left' = Len(file)
  /\ result' = IF file = << >> \/ Len(file) % B # 0 THEN "1" ELSE "reading"
  /\ UNCHANGED <<handleVars, fileVars, out, unwritten, losses, faults>>

\* inv_cipher gives any bytes for a piece that is no block of this key.
Deciphered(bytes) ==
  IF \A o \in 1..B : bytes[o] = [key |-> pwd, block |-> bytes[1].block, off |-> o]
  THEN {bytes[1].block}
  ELSE {[o \in 1..B |-> Garbage], [o \in 1..B |-> NUL]}

\* The characters in front of the first zero of a block.
_real_len(s) ==
  LET zeros == {i \in 1..B : s[i] = NUL}
  IN IF zeros = {} THEN B ELSE CHOOSE i \in 0..B - 1 : i + 1 \in zeros /\ \A j \in zeros : i < j

\* One turn of the loop of _file_decipher.
DecipherBlock ==
  /\ result = "reading"
  /\ left > 0
  /\ LET at == Len(file) - left
     IN \E s \in Deciphered(SubSeq(file, at + 1, at + B)) :
          out' = out \o SubSeq(s, 1, _real_len(s))
  /\ left' = left - B
  /\ UNCHANGED <<handleVars, fileVars, pwd, result, unwritten, losses, faults>>

\* fclose(fo) writes all but the last n characters of out.
CloseOut(n) ==
  /\ n <= Len(out)
  /\ out' = SubSeq(out, 1, Len(out) - n)
  /\ unwritten' = n

\* malloc, fopen, fread or fwrite fails.
DecipherFails ==
  /\ result = "reading"
  /\ Fault
  /\ result' = "1"
  /\ \E n \in 0..BUFSIZ : CloseOut(n)
  /\ UNCHANGED <<handleVars, fileVars, pwd, left, losses>>

\* The result does not depend on fclose(fo).
DecipherReturns ==
  /\ result = "reading"
  /\ left = 0
  /\ result' = "0"
  /\ UNCHANGED <<handleVars, fileVars, pwd, left, losses>>

DecipherEnds ==
  /\ DecipherReturns
  /\ CloseOut(0)
  /\ UNCHANGED faults

DecipherCloseFails ==
  /\ DecipherReturns
  /\ Fault
  /\ \E n \in 1..BUFSIZ : CloseOut(n)

-----------------------------------------------------------------------------
Init ==
  /\ phase = "down" /\ wkey = NoKey /\ mem = {}
  /\ texts = << >> /\ file = << >> /\ plain = << >> /\ durable = 0
  /\ pwd = NoKey /\ left = 0 /\ out = << >> /\ result = "none" /\ unwritten = 0
  /\ losses = 0 /\ faults = 0

Next ==
  \/ CreateHandle
  \/ InitFile \/ InitFileFails
  \/ InitBuffer \/ InitBufferFails
  \/ InitKey \/ InitKeyFails
  \/ \E n \in 1..SINGLE_LOG_SIZE + B : \E zeros \in ZeroSets[n] : Log(n, zeros)
  \/ FlushFails
  \/ Destroy \/ DestroyFails
  \/ Crash
  \/ \E p \in Passwords : Decipher(p)
  \/ DecipherBlock \/ DecipherFails \/ DecipherEnds \/ DecipherCloseFails

Spec == Init /\ [][Next]_vars

-----------------------------------------------------------------------------
(* Properties.                                                             *)

Parts == {"handle", "file_path", "io_buf", "wkey"}

\* Types; a text is shorter than the buffer of a record (vsnprintf in
\* _log_write), and log_file_decipher never counts below 0.
TypeOK ==
  /\ phase \in {"down", "file", "iobuf", "key", "up", "closed"}
  /\ wkey \in Passwords \cup {NoKey} /\ pwd \in Passwords \cup {NoKey}
  /\ mem \subseteq Parts
  /\ \A k \in DOMAIN texts : Len(texts[k]) < SINGLE_LOG_SIZE
  /\ Len(plain) = Len(file)
  /\ durable \in 0..Len(file)
  /\ left \in 0..Len(file)
  /\ result \in {"none", "reading", "0", "1"}
  /\ unwritten \in 0..BUFSIZ

\* A handle has all its parts or none, whichever allocation of
\* _file_handle_create fails.
AllOrNothing ==
  /\ phase = "up" => mem = Parts
  /\ phase = "down" => mem = {}

\* Every byte of the file was encrypted with the password now given.
Right == \A i \in DOMAIN file : file[i].key = pwd

\* The characters of a text that no zero of their own block stands in front of.
Kept(text) ==
  FlattenSeq([i \in DOMAIN text |->
    IF \E j \in ((i - 1) \div B) * B + 1..i : text[j] = NUL
    THEN << >> ELSE <<text[i]>>])

\* What log_file_decipher can give back of the log: the text of each record,
\* each block of it up to its first zero.  Once a stream buffer has been lost,
\* what had been written of them.
Restorable ==
  IF losses = 0 THEN FlattenSeq([k \in DOMAIN texts |-> Kept(texts[k])])
                ELSE Kept(plain)

\* log_file_decipher with the password of the log fails for no log, and when it
\* returns 0 it has given back the text of all records, character for
\* character, but for what stands behind a zero in a block and for an end its
\* own unchecked fclose may have failed to write.  When the log has lost a
\* stream buffer once, at any byte, it gives back what was written or refuses
\* the file.
Restored ==
  /\ result = "0" /\ Right /\ losses <= 1 =>
       out = SubSeq(Restorable, 1, Len(Restorable) - unwritten)
  /\ faults = 0 => unwritten = 0
  /\ result = "1" /\ losses = 0 /\ faults = 0 => texts = << >>

=============================================================================
