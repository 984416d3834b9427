--------------------------- MODULE LogFileProofs ---------------------------
(***************************************************************************)
(* Theorems about LogFile, for every set of threads, every configuration   *)
(* of the handle, every length of the records and every bound: first what  *)
(* the handle keeps (LogFile), then that the numbered backups are the      *)
(* queue of RotatingLog (LogFileRotation).                                 *)
(***************************************************************************)
EXTENDS LogFileRotation, SequenceLemmas, SequenceTheorems, FiniteSetTheorems, TLAPS

-----------------------------------------------------------------------------
(* The stream buffer.                                                      *)

LEMMA SubSeqTyped ==
  ASSUME NEW s \in Seq(Nat), NEW m \in Nat \ {0}, NEW n \in Nat, n <= Len(s)
  PROVE  /\ SubSeq(s, m, n) \in Seq(Nat)
         /\ Len(SubSeq(s, m, n)) = IF m <= n THEN n - m + 1 ELSE 0
<1>1. \A i \in m..n : s[i] \in Nat
  BY ElementOfSeq, LenProperties
<1>. QED  BY <1>1, SubSeqProperties

\* What leaves the buffer goes to the end of the file.
LEMMA DrainTyped ==
  ASSUME NEW f \in Seq(Nat), NEW b \in Seq(Nat), NEW k \in 0..Len(b)
  PROVE  /\ f \o SubSeq(b, 1, k) \in Seq(Nat)
         /\ Len(f \o SubSeq(b, 1, k)) = Len(f) + k
<1>1. Len(b) \in Nat
  BY LenProperties
<1>2. /\ SubSeq(b, 1, k) \in Seq(Nat)
      /\ Len(SubSeq(b, 1, k)) = k
  BY <1>1, SubSeqTyped
<1>. QED  BY <1>2, ConcatProperties

\* The file and the buffer grow by what is written, whatever stdio keeps.
LEMMA BufferedTyped ==
  ASSUME TypeOK, NEW data \in Seq(Nat), Buffered(data)
  PROVE  /\ file' \in Seq(Nat)
         /\ buf' \in Seq(Nat)
         /\ Len(file') + Len(buf') = Len(file) + Len(buf) + Len(data)
<1>. DEFINE stream == buf \o data
<1>1. PICK k \in 0..Len(stream) : /\ file' = file \o SubSeq(stream, 1, k)
                                  /\ buf' = SubSeq(stream, k + 1, Len(stream))
  BY DEF Buffered
<1>2. /\ file \in Seq(Nat) /\ buf \in Seq(Nat)
      /\ Len(file) \in Nat /\ Len(buf) \in Nat /\ Len(data) \in Nat
  BY LenProperties DEF TypeOK
<1>3. /\ stream \in Seq(Nat)
      /\ Len(stream) = Len(buf) + Len(data)
  BY <1>2, ConcatProperties
<1>4. file' \in Seq(Nat) /\ Len(file') = Len(file) + k
  BY <1>1, <1>2, <1>3, DrainTyped
<1>5. buf' \in Seq(Nat) /\ Len(buf') = Len(stream) - k
  <2>1. Len(stream) \in Nat /\ k \in Nat /\ k <= Len(stream)
    BY <1>2, <1>3
  <2>. HIDE DEF stream
  <2>2. /\ SubSeq(stream, k + 1, Len(stream)) \in Seq(Nat)
        /\ Len(SubSeq(stream, k + 1, Len(stream))) =
             IF k + 1 <= Len(stream) THEN Len(stream) - (k + 1) + 1 ELSE 0
    BY <1>3, <2>1, SubSeqTyped
  <2>. QED  BY <1>1, <2>1, <2>2
<1>. QED  BY <1>2, <1>3, <1>4, <1>5

-----------------------------------------------------------------------------
(* Type correctness.                                                       *)

LEMMA InitTyped == Init => TypeOK
<1>. SUFFICES ASSUME Init PROVE TypeOK
  OBVIOUS
<1>. USE LogFileAssumption
<1>1. << >> \in Seq(Nat)
  BY EmptySeq
<1>. QED  BY <1>1 DEF Init, TypeOK, CallLabels, StepLabels

LEMMA CallTyped ==
  ASSUME TypeOK, NEW t \in Threads, Call(t)
  PROVE  TypeOK'
<1>1. CASE CallFlush(t)
  BY <1>1 DEF CallFlush, Enter, At, TypeOK, CallLabels, StepLabels,
              diskVars, sizeVars, countVars
<1>2. CASE CallDestroy(t)
  BY <1>2 DEF CallDestroy, Enter, At, TypeOK, CallLabels, StepLabels,
              diskVars, sizeVars, countVars
<1>3. CASE \E n \in 1..MaxLen : CallWrite(t, n)
  <2>1. PICK n \in 1..MaxLen : CallWrite(t, n)
    BY <1>3
  <2>2. n \in Nat
    BY LogFileAssumption
  <2>3. written' \in Nat
    BY <2>1 DEF CallWrite, TypeOK
  <2>4. [i \in 1..n |-> written'] \in Seq(Nat)
    BY <2>2, <2>3
  <2>. QED
    BY <2>1, <2>3, <2>4 DEF CallWrite, Enter, At, TypeOK, CallLabels,
                            StepLabels, diskVars, sizeVars
<1>. QED  BY <1>1, <1>2, <1>3 DEF Call

\* The steps that do not touch the stream or the disk are typed by looking.
LEMMA ControlTyped ==
  ASSUME TypeOK, NEW t \in Threads,
         \/ Lock(t) \/ Unlock(t) \/ Open(t) \/ OpenFails(t) \/ CloseNull(t)
         \/ BackupDivides(t) \/ RenameFails(t) \/ CompressOpenFails(t)
         \/ CompressFails(t) \/ RemoveFails(t) \/ Count(t) \/ Free(t)
  PROVE  TypeOK'
<1>. USE LogFileAssumption, EmptySeq
     DEF TypeOK, CallLabels, StepLabels, At, Goto, Return, Fault, Die,
         AfterBackup, callVars, diskVars, sizeVars, countVars
<1>1. CASE Lock(t)               BY <1>1 DEF Lock
<1>2. CASE Unlock(t)             BY <1>2 DEF Unlock
<1>3. CASE Open(t)               BY <1>3 DEF Open
<1>4. CASE OpenFails(t)          BY <1>4 DEF OpenFails
<1>5. CASE CloseNull(t)          BY <1>5 DEF CloseNull
<1>6. CASE BackupDivides(t)      BY <1>6 DEF BackupDivides
<1>7. CASE RenameFails(t)        BY <1>7 DEF RenameFails
<1>8. CASE CompressOpenFails(t)
  <2>1. bak' \in [0..cfg.max_bak_num - 1 -> Seq(Nat)]
    BY <1>8 DEF CompressOpenFails
  <2>. QED  BY <1>8, <2>1 DEF CompressOpenFails
<1>9. CASE CompressFails(t)      BY <1>9 DEF CompressFails
<1>10. CASE RemoveFails(t)       BY <1>10 DEF RemoveFails
<1>11. CASE Count(t)             BY <1>11 DEF Count
<1>12. CASE Free(t)              BY <1>12 DEF Free
<1>. QED
  BY <1>1, <1>2, <1>3, <1>4, <1>5, <1>6, <1>7, <1>8, <1>9, <1>10, <1>11, <1>12

\* The steps that write the disk.
LEMMA BackupTyped ==
  ASSUME TypeOK, NEW t \in Threads,
         Rename(t) \/ CompressOpen(t) \/ Compress(t) \/ RemoveFile(t)
  PROVE  TypeOK'
<1>. USE EmptySeq
     DEF TypeOK, CallLabels, StepLabels, At, Goto, AfterBackup,
         callVars, diskVars, sizeVars, countVars
<1>1. CASE Rename(t)        BY <1>1 DEF Rename
<1>2. CASE CompressOpen(t)  BY <1>2 DEF CompressOpen
<1>3. CASE Compress(t)      BY <1>3 DEF Compress
<1>4. CASE RemoveFile(t)    BY <1>4 DEF RemoveFile
<1>. QED  BY <1>1, <1>2, <1>3, <1>4

LEMMA StreamTyped ==
  ASSUME TypeOK, NEW t \in Threads,
         Write(t) \/ WriteFails(t) \/ Close(t) \/ CloseFails(t)
  PROVE  TypeOK'
<1>1. msg[t] \in Seq(Nat) /\ Len(msg[t]) \in Nat
  BY LenProperties DEF TypeOK
<1>2. ASSUME NEW k \in 0..Len(buf), CloseStream(t, k)
      PROVE  file' \in Seq(Nat)
  BY <1>2, DrainTyped DEF CloseStream, TypeOK
<1>3. ASSUME NEW k \in 0..Len(buf), CloseStream(t, k), faults' \in Nat
      PROVE  TypeOK'
  <2>1. file' \in Seq(Nat)
    BY <1>2, <1>3
  <2>2. pc' \in [Threads -> CallLabels \cup StepLabels]
    BY <1>3 DEF CloseStream, Goto, AfterClose, TypeOK, CallLabels, StepLabels
  <2>. QED
    BY <1>3, <2>1, <2>2, EmptySeq DEF CloseStream, Goto, TypeOK, sizeVars
<1>4. Len(buf) \in Nat
  BY LenProperties DEF TypeOK
<1>5. CASE Write(t)
  <2>1. file' \in Seq(Nat) /\ buf' \in Seq(Nat)
    BY <1>1, <1>5, BufferedTyped DEF Write
  <2>2. accepted' \in Seq(Nat)
    BY <1>1, <1>5, ConcatProperties DEF Write, TypeOK
  <2>. QED
    BY <1>1, <1>5, <2>1, <2>2 DEF Write, Goto, TypeOK, CallLabels, StepLabels,
                                  countVars
<1>6. CASE WriteFails(t)
  <2>1. PICK n \in 0..Len(msg[t]) - 1 : Buffered(SubSeq(msg[t], 1, n))
    BY <1>6 DEF WriteFails
  <2>2. SubSeq(msg[t], 1, n) \in Seq(Nat)
    BY <1>1, SubSeqTyped
  <2>3. file' \in Seq(Nat) /\ buf' \in Seq(Nat)
    BY <2>1, <2>2, BufferedTyped
  <2>4. /\ Fault /\ Return(t)
        /\ UNCHANGED <<cfg, hstate, mutex, f_log, bak, sizeVars, accepted,
                       written, crashes, sessions>>
    BY <1>6 DEF WriteFails
  <2>5. << >> \in Seq(Nat)
    BY EmptySeq
  <2>6. /\ pc' \in [Threads -> CallLabels \cup StepLabels]
        /\ op' \in [Threads -> {"none", "write", "flush", "destroy"}]
        /\ msg' \in [Threads -> Seq(Nat)]
    BY <2>4, <2>5 DEF Return, TypeOK, CallLabels
  <2>7. bak' \in [0..cfg'.max_bak_num - 1 -> Seq(Nat)]
    BY <2>4 DEF TypeOK
  <2>8. /\ cfg' \in Configs
        /\ hstate' \in {"live", "freed", "faulted", "down"}
        /\ mutex' \in Threads \cup {NoThread}
        /\ f_log' \in BOOLEAN
    BY <2>4 DEF TypeOK
  <2>9. /\ accepted' \in Seq(Nat)
        /\ cur_file_size' \in Nat /\ cur_bak_num' \in Nat
        /\ written' \in Nat /\ faults' \in Nat
        /\ crashes' \in Nat /\ sessions' \in Nat
    BY <2>4 DEF Fault, TypeOK, sizeVars
  <2>. QED
    BY <2>3, <2>6, <2>7, <2>8, <2>9 DEF TypeOK
<1>7. CASE Close(t)
  BY <1>3, <1>4, <1>7, SMTT(30) DEF Close, TypeOK
<1>8. CASE CloseFails(t)
  <2>1. PICK k \in 0..Len(buf) - 1 : CloseStream(t, k)
    BY <1>8 DEF CloseFails
  <2>2. faults' \in Nat
    BY <1>8 DEF CloseFails, Fault, TypeOK
  <2>. QED  BY <1>3, <1>4, <2>1, <2>2
<1>. QED  BY <1>5, <1>6, <1>7, <1>8

LEMMA CrashTyped == TypeOK /\ Crash => TypeOK'
<1>. SUFFICES ASSUME TypeOK, Crash PROVE TypeOK'
  OBVIOUS
<1>1. file' \in Seq(Nat)
  BY DrainTyped DEF Crash, TypeOK
<1>2. << >> \in Seq(Nat)
  BY EmptySeq
<1>3. /\ hstate' = "down" /\ crashes' = crashes + 1
      /\ buf' = << >> /\ f_log' = FALSE /\ mutex' = NoThread
      /\ pc' = [t \in Threads |-> "idle"]
      /\ op' = [t \in Threads |-> "none"]
      /\ msg' = [t \in Threads |-> << >>]
      /\ UNCHANGED <<cfg, bak, sizeVars, accepted, written, faults, sessions>>
  BY DEF Crash
<1>4. pc' \in [Threads -> CallLabels \cup StepLabels]
  BY <1>3 DEF CallLabels
<1>5. op' \in [Threads -> {"none", "write", "flush", "destroy"}]
  BY <1>3
<1>6. msg' \in [Threads -> Seq(Nat)]
  BY <1>2, <1>3
<1>7. bak' \in [0..cfg'.max_bak_num - 1 -> Seq(Nat)]
  BY <1>3 DEF TypeOK
<1>8. /\ cfg' \in Configs
      /\ hstate' \in {"live", "freed", "faulted", "down"}
      /\ mutex' \in Threads \cup {NoThread}
      /\ f_log' \in BOOLEAN
  BY <1>3 DEF TypeOK
<1>9. /\ buf' \in Seq(Nat) /\ accepted' \in Seq(Nat)
      /\ cur_file_size' \in Nat /\ cur_bak_num' \in Nat
      /\ written' \in Nat /\ faults' \in Nat
      /\ crashes' \in Nat /\ sessions' \in Nat
  BY <1>2, <1>3 DEF TypeOK, sizeVars
<1>. QED
  BY <1>1, <1>4, <1>5, <1>6, <1>7, <1>8, <1>9 DEF TypeOK

LEMMA CreateTyped == TypeOK /\ Create => TypeOK'
<1>. SUFFICES ASSUME TypeOK, Create PROVE TypeOK'
  OBVIOUS
<1>1. cur_file_size' \in Nat
  BY LenProperties DEF Create, TypeOK
<1>. QED
  BY <1>1 DEF Create, TypeOK, callVars, diskVars

LEMMA NextTyped == TypeOK /\ [Next]_vars => TypeOK'
<1>. SUFFICES ASSUME TypeOK, [Next]_vars PROVE TypeOK'
  OBVIOUS
<1>1. ASSUME NEW t \in Threads, Call(t) \/ Lock(t) \/ Critical(t)
      PROVE  TypeOK'
  BY <1>1, CallTyped, ControlTyped, BackupTyped, StreamTyped DEF Critical
<1>2. CASE UNCHANGED vars
  BY <1>2 DEF vars, callVars, diskVars, sizeVars, countVars, TypeOK
<1>. QED  BY <1>1, <1>2, CrashTyped, CreateTyped DEF Next

\* Every variable keeps its type, with any number of threads and for any
\* configuration of the handle.
THEOREM TypeCorrect == Spec => []TypeOK
<1>1. Init => TypeOK
  BY InitTyped
<1>2. TypeOK /\ [Next]_vars => TypeOK'
  BY NextTyped
<1>. QED  BY <1>1, <1>2, PTL DEF Spec

-----------------------------------------------------------------------------
(* The mutex.                                                              *)

\* A handle that nobody uses leaves no mutex locked behind.
MutexInv == LockDiscipline /\ (hstate \in {"freed", "down"} => mutex = NoThread)

LEMMA InitMutex == Init => MutexInv
BY LogFileAssumption DEF Init, MutexInv, LockDiscipline, InCritical, StepLabels

\* Everything a thread does to the handle, it does as the owner of the mutex.
LEMMA CriticalOwns ==
  ASSUME MutexInv, NEW t \in Threads, Critical(t)
  PROVE  /\ hstate = "live" /\ mutex = t /\ InCritical(t)
         /\ \A u \in Threads \ {t} : ~InCritical(u)
<1>1. hstate = "live" /\ pc[t] \in StepLabels
  BY DEF Critical, At, StepLabels, Open, OpenFails, Write, WriteFails, Close,
         CloseFails, CloseStream, CloseNull, BackupDivides, Rename, RenameFails,
         CompressOpen, CompressOpenFails, Compress, CompressFails, RemoveFile,
         RemoveFails, Count, Free, Unlock
<1>. QED  BY <1>1 DEF MutexInv, LockDiscipline, InCritical

\* What the owner does next leaves the other threads where they are, and it
\* keeps the mutex until the end of the call, but for the error returns.
LEMMA CriticalMoves ==
  ASSUME TypeOK, MutexInv, NEW t \in Threads, Critical(t)
  PROVE  /\ \A u \in Threads \ {t} : pc'[u] = pc[u]
         /\ hstate' \in {"live", "faulted", "freed"}
         /\ \/ mutex' = NoThread /\ pc'[t] = "idle"
            \/ mutex' = t /\ hstate' # "freed" /\ pc'[t] \in StepLabels
            \/ mutex' = t /\ hstate' # "freed" /\ pc'[t] = "idle" /\ faults' > 0
<1>. USE CriticalOwns DEF At, Goto, Return, Die, Fault, TypeOK, callVars
<1>1. CASE Open(t)          BY <1>1 DEF Open, StepLabels
<1>2. CASE OpenFails(t)     BY <1>2 DEF OpenFails
<1>3. CASE Write(t)         BY <1>3 DEF Write, StepLabels
<1>4. CASE WriteFails(t)    BY <1>4 DEF WriteFails
<1>5. CASE \E k \in 0..Len(buf) : CloseStream(t, k)
  BY <1>5 DEF CloseStream, AfterClose, StepLabels
<1>6. CASE Close(t)
  BY <1>5, <1>6, LenProperties DEF Close
<1>7. CASE CloseFails(t)
  BY <1>5, <1>7, LenProperties DEF CloseFails
<1>8. CASE CloseNull(t)     BY <1>8 DEF CloseNull, StepLabels
<1>9. CASE BackupDivides(t) BY <1>9 DEF BackupDivides, StepLabels
<1>10. CASE Rename(t)       BY <1>10 DEF Rename, AfterBackup, StepLabels
<1>11. CASE RenameFails(t)  BY <1>11 DEF RenameFails, AfterBackup, StepLabels
<1>12. CASE CompressOpen(t) BY <1>12 DEF CompressOpen, StepLabels
<1>13. CASE CompressOpenFails(t)
  BY <1>13 DEF CompressOpenFails, StepLabels
<1>14. CASE Compress(t)     BY <1>14 DEF Compress, StepLabels
<1>15. CASE CompressFails(t)
  BY <1>15 DEF CompressFails, StepLabels
<1>16. CASE RemoveFile(t)   BY <1>16 DEF RemoveFile, AfterBackup, StepLabels
<1>17. CASE RemoveFails(t)  BY <1>17 DEF RemoveFails, AfterBackup, StepLabels
<1>18. CASE Count(t)        BY <1>18 DEF Count, StepLabels
<1>19. CASE Free(t)         BY <1>19 DEF Free
<1>20. CASE Unlock(t)       BY <1>20 DEF Unlock
<1>. QED
  BY <1>1, <1>2, <1>3, <1>4, <1>6, <1>7, <1>8, <1>9, <1>10, <1>11, <1>12,
     <1>13, <1>14, <1>15, <1>16, <1>17, <1>18, <1>19, <1>20 DEF Critical

\* A call starts without touching the mutex or what it protects.
LEMMA CallStarts ==
  ASSUME TypeOK, NEW t \in Threads, Call(t)
  PROVE  /\ hstate = "live" /\ pc[t] = "idle"
         /\ pc' = [pc EXCEPT ![t] = "lock"]
         /\ UNCHANGED <<cfg, hstate, mutex, f_log, buf, file, bak,
                        cur_file_size, cur_bak_num, accepted,
                        faults, crashes>>
BY DEF Call, CallWrite, CallFlush, CallDestroy, Enter, At, diskVars, sizeVars,
       countVars

LEMMA NextMutex == TypeOK /\ MutexInv /\ [Next]_vars => MutexInv'
<1>. SUFFICES ASSUME TypeOK, MutexInv, [Next]_vars PROVE MutexInv'
  OBVIOUS
<1>. USE DEF MutexInv, LockDiscipline, InCritical
<1>1. ASSUME NEW t \in Threads, Call(t) PROVE MutexInv'
  BY <1>1, CallStarts DEF TypeOK, StepLabels
<1>2. ASSUME NEW t \in Threads, Lock(t) PROVE MutexInv'
  BY <1>2, LogFileAssumption DEF Lock, At, Goto, TypeOK, StepLabels, countVars
<1>3. ASSUME NEW t \in Threads, Critical(t) PROVE MutexInv'
  <2>1. \A u \in Threads : u # t => ~InCritical(u) /\ ~InCritical(u)'
    BY <1>3, CriticalOwns, CriticalMoves
  <2>2. "idle" \notin StepLabels
    BY DEF StepLabels
  <2>. QED
    BY <1>3, <2>1, <2>2, CriticalMoves, LogFileAssumption
<1>4. CASE Crash
  BY <1>4, LogFileAssumption DEF Crash, StepLabels
<1>5. CASE Create
  BY <1>5 DEF Create, callVars
<1>6. CASE UNCHANGED vars
  BY <1>6 DEF vars, callVars, countVars
<1>. QED  BY <1>1, <1>2, <1>3, <1>4, <1>5, <1>6 DEF Next

\* _log_lock and _log_unlock exclude: only the owner of the mutex is between
\* them, and only an error return leaves the mutex locked behind.
THEOREM MutualExclusion == Spec => []LockDiscipline
<1>1. Init => TypeOK /\ MutexInv
  BY InitTyped, InitMutex
<1>2. TypeOK /\ MutexInv /\ [Next]_vars => (TypeOK /\ MutexInv)'
  BY NextTyped, NextMutex
<1>3. MutexInv => LockDiscipline
  BY DEF MutexInv
<1>. QED  BY <1>1, <1>2, <1>3, PTL DEF Spec

\* Once an error return of write_file has left the mutex locked, no thread
\* ever gets past _log_lock again before the process ends.
THEOREM LeakTheorem == Spec => LeakIsFinal
<1>1. Init => TypeOK /\ MutexInv
  BY InitTyped, InitMutex
<1>2. TypeOK /\ MutexInv /\ [Next]_vars => (TypeOK /\ MutexInv)'
  BY NextTyped, NextMutex
<1>3. ASSUME TypeOK, MutexInv, [Next]_vars, Leaked, hstate' # "down"
      PROVE  /\ Leaked'
             /\ UNCHANGED <<hstate, mutex, accepted, file, bak, buf, f_log,
                            cur_bak_num>>
  <2>1. PICK t \in Threads : mutex = t /\ pc[t] \in CallLabels
    BY <1>3 DEF Leaked
  <2>2. \A u \in Threads : ~InCritical(u)
    BY <1>3, <2>1 DEF MutexInv, LockDiscipline, InCritical, CallLabels,
                      StepLabels
  <2>3. ~Create /\ ~Crash
    BY <1>3, <2>1, LogFileAssumption DEF Create, Crash, MutexInv
  <2>4. \A u \in Threads : ~Lock(u) /\ ~Critical(u)
    BY <1>3, <2>1, <2>2, LogFileAssumption, CriticalOwns DEF Lock
  <2>5. ASSUME NEW u \in Threads, Call(u)
        PROVE  /\ Leaked'
               /\ UNCHANGED <<hstate, mutex, accepted, file, bak, buf, f_log,
                              cur_bak_num>>
    BY <1>3, <2>1, <2>5, CallStarts DEF Leaked, TypeOK, CallLabels
  <2>6. CASE UNCHANGED vars
    BY <1>3, <2>6 DEF vars, callVars, diskVars, sizeVars, Leaked
  <2>. QED  BY <1>3, <2>3, <2>4, <2>5, <2>6 DEF Next
<1>4. TypeOK /\ MutexInv /\ [Next]_vars
        => [(Leaked /\ hstate' # "down")
              => /\ Leaked'
                 /\ UNCHANGED <<hstate, mutex, accepted, file, bak, buf,
                                f_log, cur_bak_num>>]_vars
  BY <1>3
<1>. QED  BY <1>1, <1>2, <1>4, PTL DEF Spec, LeakIsFinal

-----------------------------------------------------------------------------
(* The stream.                                                             *)

RotateLabels == {"backup", "compress", "remove", "count", "free"}

\* A closed stream buffers nothing; a record is written to an open stream; a
\* file is backed up with the stream closed; a dead handle has no stream.
StreamInv ==
  /\ ~f_log => buf = << >>
  /\ \A t \in Threads : pc[t] = "write" => f_log
  /\ \A t \in Threads : pc[t] \in RotateLabels => ~f_log
  /\ hstate \in {"freed", "down"} => ~f_log

\* The other threads are outside of the functions of the handle, before and
\* after a step of the owner.
LEMMA OthersOutside ==
  ASSUME TypeOK, MutexInv, NEW t \in Threads, Critical(t),
         NEW u \in Threads, u # t
  PROVE  pc[u] \in CallLabels /\ pc'[u] = pc[u]
BY CriticalOwns, CriticalMoves DEF TypeOK, InCritical

LEMMA InitStream == Init => StreamInv
BY DEF Init, StreamInv, RotateLabels

LEMMA CriticalStream ==
  ASSUME TypeOK, MutexInv, StreamInv, NEW t \in Threads, Critical(t)
  PROVE  StreamInv'
<1>1. SUFFICES /\ (~f_log => buf = << >>)'
               /\ (pc[t] = "write" => f_log)'
               /\ (pc[t] \in RotateLabels => ~f_log)'
               /\ (hstate \in {"freed", "down"} => ~f_log)'
  BY OthersOutside DEF StreamInv, RotateLabels, CallLabels
<1>. USE DEF StreamInv, RotateLabels, At, Goto, Return, Die, TypeOK, callVars,
             AfterBackup
<1>2. CASE Open(t)          BY <1>2 DEF Open
<1>3. CASE OpenFails(t)     BY <1>3 DEF OpenFails
<1>4. CASE Write(t)         BY <1>4 DEF Write
<1>5. CASE WriteFails(t)    BY <1>5 DEF WriteFails
<1>6. CASE \E k \in 0..Len(buf) : CloseStream(t, k)
  BY <1>6 DEF CloseStream, AfterClose
<1>7. CASE Close(t)         BY <1>6, <1>7, LenProperties DEF Close
<1>8. CASE CloseFails(t)    BY <1>6, <1>8, LenProperties DEF CloseFails
<1>9. CASE CloseNull(t)     BY <1>9 DEF CloseNull
<1>10. CASE BackupDivides(t) BY <1>10 DEF BackupDivides
<1>11. CASE Rename(t)       BY <1>11 DEF Rename
<1>12. CASE RenameFails(t)  BY <1>12 DEF RenameFails
<1>13. CASE CompressOpen(t) BY <1>13 DEF CompressOpen
<1>14. CASE CompressOpenFails(t) BY <1>14 DEF CompressOpenFails
<1>15. CASE Compress(t)     BY <1>15 DEF Compress
<1>16. CASE CompressFails(t) BY <1>16 DEF CompressFails
<1>17. CASE RemoveFile(t)   BY <1>17 DEF RemoveFile
<1>18. CASE RemoveFails(t)  BY <1>18 DEF RemoveFails
<1>19. CASE Count(t)        BY <1>19 DEF Count
<1>20. CASE Free(t)         BY <1>20 DEF Free
<1>21. CASE Unlock(t)       BY <1>21 DEF Unlock
<1>. QED
  BY <1>2, <1>3, <1>4, <1>5, <1>7, <1>8, <1>9, <1>10, <1>11, <1>12, <1>13,
     <1>14, <1>15, <1>16, <1>17, <1>18, <1>19, <1>20, <1>21 DEF Critical

LEMMA NextStream == TypeOK /\ MutexInv /\ StreamInv /\ [Next]_vars => StreamInv'
<1>. SUFFICES ASSUME TypeOK, MutexInv, StreamInv, [Next]_vars PROVE StreamInv'
  OBVIOUS
<1>1. ASSUME NEW t \in Threads, Call(t) PROVE StreamInv'
  BY <1>1, CallStarts DEF StreamInv, RotateLabels, TypeOK
<1>2. ASSUME NEW t \in Threads, Lock(t) PROVE StreamInv'
  BY <1>2 DEF Lock, Goto, StreamInv, RotateLabels, TypeOK
<1>3. CASE Crash
  BY <1>3 DEF Crash, StreamInv, RotateLabels
<1>4. CASE Create
  BY <1>4 DEF Create, StreamInv, callVars
<1>5. CASE UNCHANGED vars
  BY <1>5 DEF vars, callVars, StreamInv
<1>. QED  BY <1>1, <1>2, <1>3, <1>4, <1>5, CriticalStream DEF Next

-----------------------------------------------------------------------------
(* The size of the log file.                                               *)

\* Without failures cur_file_size is right except between a backup and its
\* count, when the log file is empty.
SizeInv ==
  /\ SizeAccounting
  /\ faults = 0 => \A t \in Threads : pc[t] \in {"count", "free"} => file = << >>

LEMMA InitSize == Init => SizeInv
BY EmptySeq DEF Init, SizeInv, SizeAccounting

\* A step that fails a library call, or kills the process, owes nothing.
LEMMA FailedSize == ASSUME TypeOK, Fault PROVE SizeInv'
BY DEF Fault, SizeInv, SizeAccounting, TypeOK

LEMMA CriticalSize ==
  ASSUME TypeOK, MutexInv, StreamInv, SizeInv, NEW t \in Threads, Critical(t)
  PROVE  SizeInv'
<1>. DEFINE Moving(u) == pc[u] \in {"count", "free"}
<1>1. \A u \in Threads : u # t => ~Moving(u) /\ ~(Moving(u)')
  BY OthersOutside DEF CallLabels
<1>2. hstate = "live"
  BY CriticalOwns
<1>3. CASE faults # 0 /\ faults' # 0
  BY <1>3 DEF SizeInv, SizeAccounting
<1>4. CASE /\ UNCHANGED <<file, buf, cur_file_size, faults>>
           /\ ~Moving(t) /\ ~(Moving(t)')
  BY <1>1, <1>2, <1>4 DEF SizeInv, SizeAccounting
<1>5. CASE /\ Moving(t)' /\ file' = << >>
  BY <1>5, <1>1 DEF SizeInv, SizeAccounting
<1>. USE DEF At, Goto, Die, callVars, diskVars, sizeVars, countVars, TypeOK
<1>6. CASE \/ OpenFails(t) \/ WriteFails(t) \/ CloseFails(t) \/ RenameFails(t)
           \/ CompressOpenFails(t) \/ CompressFails(t) \/ RemoveFails(t)
  BY <1>6, FailedSize DEF OpenFails, WriteFails, CloseFails, RenameFails,
                          CompressOpenFails, CompressFails, RemoveFails
<1>7. CASE Open(t)          BY <1>4, <1>7 DEF Open
<1>8. CASE Write(t)
  <2>1. msg[t] \in Seq(Nat)
    OBVIOUS
  <2>2. Len(file') + Len(buf') = Len(file) + Len(buf) + Len(msg[t])
    BY <1>8, <2>1, BufferedTyped DEF Write
  <2>3. cur_file_size' = cur_file_size + Len(msg[t]) /\ faults' = faults
    BY <1>8 DEF Write
  <2>4. ~Moving(t) /\ ~(Moving(t)')
    BY <1>8 DEF Write
  <2>5. Len(file) \in Nat /\ Len(buf) \in Nat /\ Len(msg[t]) \in Nat
    BY <2>1, LenProperties
  <2>6. faults = 0 => cur_file_size = Len(file) + Len(buf)
    BY <1>1, <1>2, <2>4 DEF SizeInv, SizeAccounting
  <2>. QED
    BY <1>1, <2>2, <2>3, <2>4, <2>5, <2>6 DEF SizeInv, SizeAccounting
<1>9. CASE Close(t)
  <2>1. Len(buf) \in Nat /\ Len(file) \in Nat
    BY LenProperties
  <2>2. Len(file') + Len(buf') = Len(file) + Len(buf)
    BY <1>9, <2>1, DrainTyped, EmptySeq DEF Close, CloseStream
  <2>3. cur_file_size' = cur_file_size /\ faults' = faults
    BY <1>9 DEF Close, CloseStream
  <2>4. ~Moving(t) /\ ~(Moving(t)')
    BY <1>9 DEF Close, CloseStream, AfterClose
  <2>. QED
    BY <1>1, <1>2, <2>2, <2>3, <2>4 DEF SizeInv, SizeAccounting
<1>10. CASE CloseNull(t)     BY <1>4, <1>10 DEF CloseNull
<1>11. CASE BackupDivides(t) BY <1>4, <1>11 DEF BackupDivides
<1>12. CASE Rename(t)       BY <1>5, <1>12 DEF Rename, AfterBackup
<1>13. CASE CompressOpen(t) BY <1>4, <1>13 DEF CompressOpen
<1>14. CASE Compress(t)     BY <1>4, <1>14 DEF Compress
<1>15. CASE RemoveFile(t)   BY <1>5, <1>15 DEF RemoveFile, AfterBackup
<1>16. CASE Count(t)
  <2>1. pc[t] = "count" /\ buf = << >>
    BY <1>16 DEF Count, StreamInv, RotateLabels
  <2>2. cur_file_size' = 0 /\ UNCHANGED <<file, buf, faults>>
    BY <1>16 DEF Count
  <2>3. faults = 0 => file = << >>
    BY <2>1 DEF SizeInv
  <2>4. ~(Moving(t)')
    BY <1>16 DEF Count
  <2>. QED
    BY <1>1, <2>1, <2>2, <2>3, <2>4, EmptySeq DEF SizeInv, SizeAccounting
<1>17. CASE Free(t)
  BY <1>1, <1>17 DEF Free, Return, SizeInv, SizeAccounting
<1>18. CASE Unlock(t)       BY <1>4, <1>18 DEF Unlock, Return
<1>. QED
  BY <1>6, <1>7, <1>8, <1>9, <1>10, <1>11, <1>12, <1>13, <1>14, <1>15, <1>16,
     <1>17, <1>18 DEF Critical

LEMMA NextSize ==
  TypeOK /\ MutexInv /\ StreamInv /\ SizeInv /\ [Next]_vars => SizeInv'
<1>. SUFFICES ASSUME TypeOK, MutexInv, StreamInv, SizeInv, [Next]_vars
              PROVE  SizeInv'
  OBVIOUS
<1>1. ASSUME NEW t \in Threads, Call(t) PROVE SizeInv'
  BY <1>1, CallStarts DEF SizeInv, SizeAccounting, TypeOK
<1>2. ASSUME NEW t \in Threads, Lock(t) PROVE SizeInv'
  BY <1>2 DEF Lock, At, Goto, SizeInv, SizeAccounting, TypeOK, diskVars,
              sizeVars, countVars
<1>3. CASE Crash
  BY <1>3 DEF Crash, SizeInv, SizeAccounting
<1>4. CASE Create
  <2>1. buf = << >> /\ Len(file) \in Nat
    BY <1>4, LenProperties DEF Create, StreamInv, TypeOK
  <2>2. /\ cur_file_size' = Len(file) /\ UNCHANGED <<file, buf, pc, faults>>
    BY <1>4 DEF Create, callVars, diskVars
  <2>. QED
    BY <2>1, <2>2, EmptySeq DEF SizeInv, SizeAccounting
<1>5. CASE UNCHANGED vars
  BY <1>5 DEF vars, callVars, diskVars, sizeVars, countVars, SizeInv,
              SizeAccounting
<1>. QED  BY <1>1, <1>2, <1>3, <1>4, <1>5, CriticalSize DEF Next

\* The invariant the theorems on the data rest on.
DataInv == TypeOK /\ MutexInv /\ StreamInv /\ SizeInv

LEMMA DataInvariant == Spec => []DataInv
<1>1. Init => DataInv
  BY InitTyped, InitMutex, InitStream, InitSize DEF DataInv
<1>2. DataInv /\ [Next]_vars => DataInv'
  BY NextTyped, NextMutex, NextStream, NextSize DEF DataInv
<1>. QED  BY <1>1, <1>2, PTL DEF Spec

\* cur_file_size stays the size of the log file and its buffer, for every
\* interleaving of calls, deaths and new handles, without failing calls.
THEOREM SizeAccounted == Spec => []SizeAccounting
<1>1. DataInv => SizeAccounting
  BY DEF DataInv, SizeInv
<1>. QED  BY <1>1, DataInvariant, PTL

-----------------------------------------------------------------------------
(* Rotation loses nothing.                                                 *)

\* What remove(file_path) removes is kept, or not meant to be kept.
CopyInv ==
  \A t \in Threads :
    /\ pc[t] = "compress" => cfg.compress /\ cfg.max_bak_num > 0
    /\ pc[t] = "remove" =>
         \/ cfg.max_bak_num = 0
         \/ /\ cfg.compress /\ cfg.max_bak_num > 0
            /\ faults = 0 => bak[Slot] = file

LEMMA ConfigTyped ==
  TypeOK => /\ cfg.max_file_size \in Nat /\ cfg.max_bak_num \in Nat
            /\ cfg.io_cap \in Nat /\ cfg.compress \in BOOLEAN
BY LogFileAssumption DEF TypeOK, Config

\* The number of a backup is one of the max_bak_num.
LEMMA SlotInRange ==
  ASSUME TypeOK, cfg.max_bak_num > 0
  PROVE  Slot \in DOMAIN bak
<1>1. /\ cur_bak_num \in Nat /\ cfg.max_bak_num \in Nat \ {0}
      /\ DOMAIN bak = 0..cfg.max_bak_num - 1
  BY ConfigTyped DEF TypeOK
<1>2. \A a \in Nat, n \in Nat \ {0} : a % n \in 0..n - 1
  OBVIOUS
<1>. QED  BY <1>1, <1>2 DEF Slot

LEMMA CriticalCopy ==
  ASSUME DataInv, CopyInv, NEW t \in Threads, Critical(t)
  PROVE  CopyInv'
<1>. DEFINE Safe(u) ==
       /\ pc[u] = "compress" => cfg.compress /\ cfg.max_bak_num > 0
       /\ pc[u] = "remove" =>
            \/ cfg.max_bak_num = 0
            \/ /\ cfg.compress /\ cfg.max_bak_num > 0
               /\ faults = 0 => bak[Slot] = file
<1>. USE DEF DataInv
<1>1. Safe(t)' => CopyInv'
  BY OthersOutside DEF CopyInv, CallLabels
<1>2. CASE pc'[t] \notin {"compress", "remove"}
  BY <1>1, <1>2
<1>3. CASE Compress(t)
  <2>1. cfg.compress /\ cfg.max_bak_num > 0 /\ cfg' = cfg
    BY <1>3 DEF Compress, At, CopyInv
  <2>2. bak' = [bak EXCEPT ![Slot] = file] /\ file' = file /\ Slot' = Slot
    BY <1>3 DEF Compress, Slot, sizeVars
  <2>3. Slot \in DOMAIN bak
    BY <2>1, SlotInRange
  <2>4. bak'[Slot'] = file'
    BY <2>2, <2>3
  <2>5. pc'[t] = "remove"
    BY <1>3 DEF Compress, Goto, TypeOK
  <2>. QED  BY <1>1, <2>1, <2>4, <2>5
<1>4. CASE CompressFails(t)
  <2>1. cfg.compress /\ cfg.max_bak_num > 0 /\ cfg' = cfg
    BY <1>4 DEF CompressFails, At, CopyInv
  <2>2. faults' # 0
    BY <1>4 DEF CompressFails, Fault, TypeOK
  <2>3. pc'[t] = "remove"
    BY <1>4 DEF CompressFails, Goto, TypeOK
  <2>. QED  BY <1>1, <2>1, <2>2, <2>3
<1>5. CASE CompressOpen(t)
  BY <1>1, <1>5 DEF CompressOpen, Goto, TypeOK
<1>6. CASE CompressOpenFails(t)
  BY <1>2, <1>6 DEF CompressOpenFails, At, callVars
<1>7. ASSUME NEW k \in 0..Len(buf), CloseStream(t, k) PROVE CopyInv'
  BY <1>1, <1>7 DEF CloseStream, Goto, AfterClose, TypeOK
<1>8. CASE Close(t)       BY <1>7, <1>8, LenProperties DEF Close, TypeOK
<1>9. CASE CloseFails(t)
  BY <1>7, <1>9, LenProperties DEF CloseFails, TypeOK
<1>10. CASE \/ Open(t) \/ OpenFails(t) \/ Write(t) \/ WriteFails(t)
            \/ CloseNull(t) \/ BackupDivides(t) \/ Rename(t) \/ RenameFails(t)
            \/ RemoveFile(t) \/ RemoveFails(t) \/ Count(t) \/ Free(t)
            \/ Unlock(t)
  BY <1>2, <1>10 DEF Open, OpenFails, Write, WriteFails, CloseNull,
       BackupDivides, Rename, RenameFails, RemoveFile, RemoveFails, Count, Free,
       Unlock, At, Goto, Return, AfterBackup, TypeOK, callVars
<1>. QED  BY <1>3, <1>4, <1>5, <1>6, <1>8, <1>9, <1>10 DEF Critical

LEMMA InitCopy == Init => CopyInv
BY DEF Init, CopyInv

LEMMA NextCopy == DataInv /\ CopyInv /\ [Next]_vars => CopyInv'
<1>. SUFFICES ASSUME DataInv, CopyInv, [Next]_vars PROVE CopyInv'
  OBVIOUS
<1>1. ASSUME NEW t \in Threads, Call(t) PROVE CopyInv'
  BY <1>1, CallStarts DEF CopyInv, Slot, DataInv, TypeOK
<1>2. ASSUME NEW t \in Threads, Lock(t) PROVE CopyInv'
  BY <1>2 DEF Lock, Goto, CopyInv, Slot, DataInv, TypeOK, diskVars, sizeVars,
              countVars
<1>3. CASE Crash
  BY <1>3 DEF Crash, CopyInv
<1>4. CASE Create
  <2>1. \A u \in Threads : pc'[u] = pc[u] /\ pc[u] \notin StepLabels
    BY <1>4, LogFileAssumption DEF Create, callVars, DataInv, MutexInv,
                                   LockDiscipline, InCritical
  <2>. QED  BY <2>1 DEF CopyInv, StepLabels
<1>5. CASE UNCHANGED vars
  BY <1>5 DEF vars, callVars, diskVars, sizeVars, countVars, CopyInv, Slot
<1>. QED  BY <1>1, <1>2, <1>3, <1>4, <1>5, CriticalCopy DEF Next

\* A file that data is appended to does not become empty.
LEMMA AppendedNotEmpty ==
  ASSUME NEW f \in Seq(Nat), NEW b \in Seq(Nat), NEW k \in 0..Len(b), f # << >>
  PROVE  f \o SubSeq(b, 1, k) # << >>
BY DrainTyped, EmptySeq, LenProperties

LEMMA BufferedNotEmpty ==
  ASSUME TypeOK, NEW data \in Seq(Nat), Buffered(data), file # << >>
  PROVE  file' # << >>
<1>1. buf \o data \in Seq(Nat) /\ file \in Seq(Nat)
  BY ConcatProperties DEF TypeOK
<1>2. \E k \in 0..Len(buf \o data) : file' = file \o SubSeq(buf \o data, 1, k)
  BY DEF Buffered
<1>. QED  BY <1>1, <1>2, AppendedNotEmpty

LEMMA KeptInBackup ==
  ASSUME DataInv, CopyInv, [Next]_vars,
         faults' = 0 \/ ~cfg.compress, file # << >>, file' = << >>
  PROVE  \/ cfg.max_bak_num = 0
         \/ \E i \in DOMAIN bak' : bak'[i] = file
<1>. USE DEF DataInv
<1>1. ASSUME NEW t \in Threads, Rename(t)
      PROVE  \E i \in DOMAIN bak' : bak'[i] = file
  <2>1. Slot \in DOMAIN bak /\ bak' = [bak EXCEPT ![Slot] = file]
    BY <1>1, SlotInRange DEF Rename
  <2>. QED  BY <2>1 DEF TypeOK
<1>2. ASSUME NEW t \in Threads, RemoveFile(t)
      PROVE  cfg.max_bak_num = 0 \/ \E i \in DOMAIN bak' : bak'[i] = file
  <2>1. CASE cfg.max_bak_num > 0
    <3>1. bak' = bak /\ faults' = faults /\ pc[t] = "remove"
      BY <1>2 DEF RemoveFile, At, countVars
    <3>2. bak[Slot] = file
      BY <2>1, <3>1 DEF CopyInv
    <3>. QED  BY <2>1, <3>1, <3>2, SlotInRange
  <2>. QED  BY <2>1, ConfigTyped
<1>3. ASSUME NEW t \in Threads, Write(t) \/ WriteFails(t) PROVE FALSE
  <2>1. msg[t] \in Seq(Nat) /\ Len(msg[t]) \in Nat
    BY LenProperties DEF TypeOK
  <2>2. CASE Write(t)
    BY <2>1, <2>2, BufferedNotEmpty DEF Write
  <2>3. CASE WriteFails(t)
    <3>1. PICK n \in 0..Len(msg[t]) - 1 : Buffered(SubSeq(msg[t], 1, n))
      BY <2>3 DEF WriteFails
    <3>2. SubSeq(msg[t], 1, n) \in Seq(Nat)
      BY <2>1, SubSeqTyped
    <3>. QED  BY <3>1, <3>2, BufferedNotEmpty
  <2>. QED  BY <1>3, <2>2, <2>3
<1>4. ASSUME NEW t \in Threads, Close(t) \/ CloseFails(t) PROVE FALSE
  <2>1. Len(buf) \in Nat
    BY LenProperties DEF TypeOK
  <2>2. ASSUME NEW k \in 0..Len(buf), CloseStream(t, k) PROVE FALSE
    BY <2>2, AppendedNotEmpty DEF CloseStream, TypeOK
  <2>3. CASE Close(t)       BY <2>1, <2>2, <2>3 DEF Close
  <2>4. CASE CloseFails(t)  BY <2>1, <2>2, <2>4 DEF CloseFails
  <2>. QED  BY <1>4, <2>3, <2>4
<1>5. CASE Crash
  BY <1>5, AppendedNotEmpty DEF Crash, TypeOK
<1>6. ASSUME NEW t \in Threads, Call(t) \/ Lock(t) PROVE FALSE
  BY <1>6, CallStarts DEF Lock, diskVars
<1>7. ASSUME NEW t \in Threads,
             \/ Open(t) \/ OpenFails(t) \/ CloseNull(t) \/ BackupDivides(t)
             \/ RenameFails(t) \/ CompressOpen(t) \/ CompressOpenFails(t)
             \/ Compress(t) \/ CompressFails(t) \/ RemoveFails(t)
             \/ Count(t) \/ Free(t) \/ Unlock(t)
      PROVE  FALSE
  BY <1>7 DEF Open, OpenFails, CloseNull, BackupDivides, RenameFails,
       CompressOpen, CompressOpenFails, Compress, CompressFails, RemoveFails,
       Count, Free, Unlock, diskVars
<1>8. ~Create /\ ~(UNCHANGED vars)
  BY DEF Create, vars, diskVars
<1>. QED
  BY <1>1, <1>2, <1>3, <1>4, <1>5, <1>6, <1>7, <1>8 DEF Next, Critical

\* Wherever the process dies during a rotation, what was in the log file is
\* in the log file or in a backup.
THEOREM NothingLost == Spec => RotationKeepsFile
<1>1. Init => CopyInv
  BY InitCopy
<1>2. DataInv /\ CopyInv /\ [Next]_vars => CopyInv'
  BY NextCopy
<1>3. DataInv /\ CopyInv /\ [Next]_vars
        => [(/\ faults' = 0 \/ ~cfg.compress
             /\ file # << >> /\ file' = << >>)
              => \/ cfg.max_bak_num = 0
                 \/ \E i \in DOMAIN bak' : bak'[i] = file]_vars
  BY KeptInBackup
<1>. QED  BY <1>1, <1>2, <1>3, DataInvariant, PTL DEF Spec, RotationKeepsFile

-----------------------------------------------------------------------------
(* Files stay small.                                                       *)

\* What failures and deaths have added to the size of a file so far.
Slack == faults * FullFile + crashes * MaxLen

Size == Len(file) + Len(buf)

\* A thread is between the write that made the file too large and the end of
\* its rotation.
InRotation(t) ==
  op[t] = "write" /\ pc[t] \in {"close", "backup", "compress", "remove"}

BoundInv ==
  /\ \A t \in Threads : Len(msg[t]) <= MaxLen
  /\ \A t \in Threads : pc[t] \in {"open", "write"} => op[t] = "write"
  /\ Size <= cur_file_size + Slack
  /\ Size <= FullFile + Slack
  /\ (\A t \in Threads : ~InRotation(t)) => Size <= cfg.max_file_size + Slack
  /\ \A t \in Threads : pc[t] = "count" => Size <= Slack
  /\ \A i \in DOMAIN bak : Len(bak[i]) <= FullFile + Slack

LEMMA SlackTyped ==
  ASSUME TypeOK
  PROVE  /\ FullFile \in Nat /\ Slack \in Nat /\ Size \in Nat
         /\ MaxLen \in Nat /\ cfg.max_file_size \in Nat
         /\ FullFile = cfg.max_file_size + MaxLen
<1>1. /\ MaxLen \in Nat /\ cfg.max_file_size \in Nat
      /\ faults \in Nat /\ crashes \in Nat
  BY LogFileAssumption, ConfigTyped DEF TypeOK
<1>2. FullFile \in Nat
  BY <1>1 DEF FullFile
<1>3. \A a, b \in Nat : a * b \in Nat
  OBVIOUS
<1>4. Slack \in Nat
  BY <1>1, <1>2, <1>3 DEF Slack
<1>5. Size \in Nat
  BY LenProperties DEF Size, TypeOK
<1>. QED  BY <1>1, <1>2, <1>4, <1>5 DEF FullFile

\* A failure adds a full file, a death adds a record.
LEMMA SlackSteps ==
  ASSUME TypeOK, cfg' = cfg
  PROVE  /\ faults' = faults /\ crashes' = crashes => Slack' = Slack
         /\ faults' = faults + 1 /\ crashes' = crashes
              => Slack' = Slack + FullFile
         /\ faults' = faults /\ crashes' = crashes + 1
              => Slack' = Slack + MaxLen
         /\ FullFile' = FullFile
<1>1. /\ MaxLen \in Nat /\ FullFile \in Nat
      /\ faults \in Nat /\ crashes \in Nat
  BY SlackTyped DEF TypeOK
<1>2. FullFile' = FullFile
  BY DEF FullFile
<1>3. \A a, n \in Nat : (a + 1) * n = a * n + n /\ a * n \in Nat
  OBVIOUS
<1>4. Slack' = faults' * FullFile + crashes' * MaxLen
  BY <1>2 DEF Slack
<1>5. /\ (faults + 1) * FullFile = faults * FullFile + FullFile
      /\ (crashes + 1) * MaxLen = crashes * MaxLen + MaxLen
      /\ faults * FullFile \in Nat /\ crashes * MaxLen \in Nat
  BY <1>1, <1>3
<1>. QED  BY <1>1, <1>2, <1>4, <1>5 DEF Slack

LEMMA InitBound == Init => BoundInv
<1>. SUFFICES ASSUME Init PROVE BoundInv
  OBVIOUS
<1>1. TypeOK
  BY InitTyped
<1>2. Len(<< >>) = 0
  BY EmptySeq
<1>3. Size = 0
  BY <1>2 DEF Init, Size
<1>. QED
  BY <1>1, <1>2, <1>3, SlackTyped DEF Init, BoundInv, InRotation

\* All other steps of the owner make the log file smaller, or leave it alone,
\* and at most copy it to a backup.
LEMMA ShrinkBound ==
  ASSUME DataInv, BoundInv, NEW t \in Threads, NEW d \in Nat, NEW e \in Nat,
         cfg' = cfg, cur_file_size' = cur_file_size,
         Size' = Size - d, Slack' = Slack + e,
         \A i \in DOMAIN bak' : /\ i \in DOMAIN bak
                                /\ bak'[i] \in {bak[i], file, << >>},
         \A u \in Threads : u # t => /\ pc'[u] = pc[u] /\ op'[u] = op[u]
                                     /\ pc[u] \in CallLabels,
         \/ InRotation(t) => InRotation(t)'
         \/ Size - d <= Slack + e,
         pc'[t] = "count" => Size - d <= Slack + e,
         pc'[t] \in {"open", "write"} => op'[t] = "write",
         \A u \in Threads : Len(msg'[u]) <= MaxLen
  PROVE  BoundInv'
<1>. USE DEF DataInv
<1>1. /\ FullFile \in Nat /\ Slack \in Nat /\ Size \in Nat
      /\ cfg.max_file_size \in Nat /\ cur_file_size \in Nat
      /\ FullFile = cfg.max_file_size + MaxLen /\ MaxLen \in Nat
  BY SlackTyped DEF TypeOK
<1>2. FullFile' = FullFile
  BY DEF FullFile
<1>3. \A i \in DOMAIN bak' : Len(bak'[i]) <= FullFile + (Slack + e)
  <2>1. SUFFICES ASSUME NEW i \in DOMAIN bak'
                 PROVE  Len(bak'[i]) <= FullFile + (Slack + e)
    OBVIOUS
  <2>2. Len(bak[i]) \in Nat /\ Len(file) \in Nat /\ Len(buf) \in Nat
    BY LenProperties DEF TypeOK
  <2>3. Len(bak[i]) <= FullFile + Slack
    BY DEF BoundInv
  <2>4. Len(file) <= FullFile + Slack
    <3>1. Size <= FullFile + Slack
      BY DEF BoundInv
    <3>2. Len(file) <= Size
      BY <2>2 DEF Size
    <3>. QED  BY <1>1, <2>2, <3>1, <3>2
  <2>5. Len(<< >>) = 0
    BY EmptySeq
  <2>6. CASE bak'[i] = bak[i]  BY <1>1, <2>2, <2>3, <2>6, SMTT(30)
  <2>7. CASE bak'[i] = file    BY <1>1, <2>2, <2>4, <2>7
  <2>8. CASE bak'[i] = << >>   BY <1>1, <2>5, <2>8
  <2>. QED  BY <2>6, <2>7, <2>8
<1>4. /\ Size - d <= cur_file_size + (Slack + e)
      /\ Size - d <= FullFile + (Slack + e)
  <2>1. Size <= cur_file_size + Slack /\ Size <= FullFile + Slack
    BY DEF BoundInv
  <2>. QED  BY <1>1, <2>1
<1>5. (\A u \in Threads : ~(InRotation(u)'))
        => Size - d <= cfg.max_file_size + (Slack + e)
  <2>1. CASE Size - d <= Slack + e
    BY <1>1, <2>1, SMTT(30)
  <2>2. CASE InRotation(t) => InRotation(t)'
    <3>1. (\A u \in Threads : ~InRotation(u)) => Size <= cfg.max_file_size + Slack
      BY DEF BoundInv
    <3>2. (\A u \in Threads : ~InRotation(u))
            => Size - d <= cfg.max_file_size + (Slack + e)
      BY <1>1, <3>1, SMTT(30)
    <3>3. \A u \in Threads : u # t => ~InRotation(u)
      BY DEF InRotation, CallLabels
    <3>. QED  BY <2>2, <3>2, <3>3
  <2>. QED  BY <2>1, <2>2
<1>6. \A u \in Threads :
        /\ pc'[u] \in {"open", "write"} => op'[u] = "write"
        /\ pc'[u] = "count" => Size - d <= Slack + e
  BY DEF CallLabels
<1>. QED  BY <1>2, <1>3, <1>4, <1>5, <1>6 DEF BoundInv

\* The two steps that write a record, whole or in part.
LEMMA WriteBound ==
  ASSUME DataInv, BoundInv, NEW t \in Threads, Write(t) \/ WriteFails(t)
  PROVE  BoundInv'
<1>. USE DEF DataInv
<1>1. /\ pc[t] = "write" /\ op[t] = "write" /\ hstate = "live"
      /\ UNCHANGED <<cfg, bak, crashes>>
  BY DEF Write, WriteFails, At, BoundInv, countVars
<1>2. \A u \in Threads : ~InRotation(u)
  BY <1>1, OthersOutside DEF InRotation, CallLabels, Critical
<1>3. Size <= cfg.max_file_size + Slack
  BY <1>2 DEF BoundInv
<1>4. msg[t] \in Seq(Nat) /\ Len(msg[t]) \in Nat /\ Len(msg[t]) <= MaxLen
  BY LenProperties DEF BoundInv, TypeOK
<1>5. \A u \in Threads : u # t => pc'[u] = pc[u] /\ pc[u] \in CallLabels
  BY OthersOutside DEF Critical
<1>6. Len(<< >>) = 0
  BY EmptySeq
<1>7. CASE Write(t)
  <2>1. Size' = Size + Len(msg[t])
    BY <1>4, <1>7, BufferedTyped DEF Write, Size
  <2>2. /\ cur_file_size' = cur_file_size + Len(msg[t])
        /\ msg' = msg /\ op' = op
        /\ pc'[t] = IF cur_file_size' > cfg.max_file_size
                    THEN "close" ELSE "unlock"
    BY <1>7 DEF Write, Goto, TypeOK
  <2>3. Slack' = Slack /\ FullFile' = FullFile
    BY <1>1, <1>7, SlackSteps DEF Write, countVars
  <2>4. Size' <= cur_file_size' + Slack'
    BY <1>4, <2>1, <2>2, <2>3, SlackTyped, SMTT(30) DEF BoundInv, TypeOK
  <2>5. Size' <= FullFile' + Slack'
    BY <1>3, <1>4, <2>1, <2>3, SlackTyped, SMTT(30)
  <2>6. (\A u \in Threads : ~(InRotation(u)'))
           => Size' <= cfg'.max_file_size + Slack'
    <3>1. cur_file_size' \in Nat
      BY <1>4, <2>2 DEF TypeOK
    <3>2. CASE cur_file_size' > cfg.max_file_size
      BY <1>1, <2>2, <3>2 DEF InRotation
    <3>3. CASE ~(cur_file_size' > cfg.max_file_size)
      <4>1. cur_file_size + Len(msg[t]) <= cfg.max_file_size
        BY <1>4, <2>2, <3>1, <3>3, SlackTyped
      <4>2. Size <= cur_file_size + Slack /\ cur_file_size \in Nat
        BY DEF BoundInv, TypeOK
      <4>3. Size + Len(msg[t]) <= cfg.max_file_size + Slack
        BY <1>4, <4>1, <4>2, SlackTyped
      <4>4. cfg' = cfg
        BY <1>1
      <4>. QED  BY <2>1, <2>3, <4>3, <4>4
    <3>. QED  BY <3>2, <3>3
  <2>7. /\ \A u \in Threads : pc'[u] # "count"
        /\ \A u \in Threads : pc'[u] \in {"open", "write"} => op'[u] = "write"
    BY <1>5, <2>2 DEF CallLabels
  <2>. QED
    BY <1>1, <2>2, <2>3, <2>4, <2>5, <2>6, <2>7 DEF BoundInv
<1>8. CASE WriteFails(t)
  <2>1. PICK n \in 0..Len(msg[t]) - 1 : Buffered(SubSeq(msg[t], 1, n))
    BY <1>8 DEF WriteFails
  <2>2. SubSeq(msg[t], 1, n) \in Seq(Nat) /\ Len(SubSeq(msg[t], 1, n)) = n
    BY <1>4, SubSeqTyped
  <2>3. Size' = Size + n /\ n \in Nat /\ n <= MaxLen
    <3>1. n \in Nat /\ n <= MaxLen
      BY <1>4, SlackTyped
    <3>2. ASSUME NEW data \in Seq(Nat), Buffered(data)
          PROVE  Size' = Size + Len(data)
      BY <3>2, BufferedTyped DEF Size
    <3>. QED  BY <2>1, <2>2, <3>1, <3>2
  <2>4. Slack' = Slack + FullFile /\ FullFile' = FullFile
    BY <1>1, <1>8, SlackSteps DEF WriteFails, Fault
  <2>5. /\ cur_file_size' = cur_file_size /\ pc'[t] = "idle"
        /\ \A u \in Threads : Len(msg'[u]) <= MaxLen
    BY <1>6, <1>8, SlackTyped DEF WriteFails, Return, TypeOK, BoundInv, sizeVars
  <2>6. \A u \in Threads : pc'[u] \in CallLabels
    BY <1>5, <2>5 DEF CallLabels
  <2>7. /\ Size' <= cur_file_size' + Slack'
        /\ Size' <= FullFile' + Slack'
        /\ Size' <= cfg'.max_file_size + Slack'
    <3>1. /\ cur_file_size \in Nat /\ cur_file_size' = cur_file_size
          /\ Size <= cur_file_size + Slack
      BY <2>5 DEF BoundInv, TypeOK
    <3>2. cfg' = cfg
      BY <1>1
    <3>3. /\ FullFile \in Nat /\ Slack \in Nat /\ Size \in Nat
          /\ MaxLen \in Nat /\ cfg.max_file_size \in Nat
          /\ FullFile = cfg.max_file_size + MaxLen
      BY SlackTyped
    <3>4. /\ Size + n <= cfg.max_file_size + (Slack + FullFile)
          /\ Size + n <= cur_file_size + (Slack + FullFile)
          /\ Size + n <= FullFile + (Slack + FullFile)
      <4>1. n \in Nat /\ n <= MaxLen
        BY <2>3
      <4>2. cur_file_size \in Nat /\ Size <= cur_file_size + Slack
        BY <3>1
      <4>3. Size + n <= cfg.max_file_size + (Slack + FullFile)
        BY <1>3, <3>3, <4>1, SMTT(30)
      <4>4. Size + n <= cur_file_size + (Slack + FullFile)
        BY <3>3, <4>1, <4>2
      <4>5. Size + n <= FullFile + (Slack + FullFile)
        BY <3>3, <4>1, <4>3, SMTT(30)
      <4>. QED  BY <4>3, <4>4, <4>5
    <3>. QED  BY <2>3, <2>4, <3>1, <3>2, <3>4
  <2>8. \A i \in DOMAIN bak' : Len(bak'[i]) <= FullFile' + Slack'
    <3>1. \A i \in DOMAIN bak : Len(bak[i]) \in Nat
      BY LenProperties DEF TypeOK
    <3>. QED  BY <1>1, <2>4, <3>1, SlackTyped DEF BoundInv
  <2>. QED
    BY <2>5, <2>6, <2>7, <2>8 DEF BoundInv, CallLabels
<1>. QED  BY <1>7, <1>8

\* Closing the stream only moves data from the buffer to the file, or loses it.
LEMMA CloseBound ==
  ASSUME DataInv, BoundInv, NEW t \in Threads, Close(t) \/ CloseFails(t)
  PROVE  BoundInv'
<1>. USE DEF DataInv
<1>1. Len(buf) \in Nat /\ Len(file) \in Nat
  BY LenProperties DEF TypeOK
<1>2. PICK k \in 0..Len(buf) : CloseStream(t, k)
  <2>1. CASE Close(t)       BY <1>1, <2>1 DEF Close
  <2>2. CASE CloseFails(t)  BY <1>1, <2>2 DEF CloseFails
  <2>. QED  BY <2>1, <2>2
<1>3. PICK d \in Nat : Size' = Size - d
  <2>1. Size = Len(file) + Len(buf) /\ Size' = Len(file) + k
    <3>1. file' = file \o SubSeq(buf, 1, k) /\ buf' = << >>
      BY <1>2 DEF CloseStream
    <3>2. Len(file') = Len(file) + k /\ Len(buf') = 0
      BY <3>1, DrainTyped, EmptySeq DEF TypeOK
    <3>. QED  BY <1>1, <3>2 DEF Size
  <2>2. Len(buf) - k \in Nat /\ Size' = Size - (Len(buf) - k)
    BY <1>1, <2>1
  <2>. QED  BY <2>2
<1>4. /\ UNCHANGED <<cfg, bak, cur_file_size, crashes, op, msg>>
      /\ pc[t] = "close"
      /\ pc'[t] \in {"unlock", "remove", "backup"}
      /\ op[t] = "write" => pc'[t] \in {"remove", "backup"}
  BY <1>2 DEF CloseStream, Goto, At, AfterClose, TypeOK, sizeVars
<1>5. \A u \in Threads : u # t => pc'[u] = pc[u] /\ pc[u] \in CallLabels
  BY OthersOutside DEF Critical
<1>6. PICK e \in Nat : Slack' = Slack + e
  <2>1. Slack' = Slack + 0 \/ Slack' = Slack + FullFile
    BY <1>4, SlackSteps, SlackTyped DEF Close, CloseFails, Fault
  <2>. QED  BY <2>1, SlackTyped
<1>. QED
  BY <1>3, <1>4, <1>5, <1>6, ShrinkBound DEF InRotation, BoundInv

\* The steps of a rotation or of a destruction that touch files.
LEMMA BackupBound ==
  ASSUME DataInv, BoundInv, NEW t \in Threads,
         \/ Rename(t) \/ RenameFails(t) \/ CompressOpen(t)
         \/ CompressOpenFails(t) \/ Compress(t) \/ CompressFails(t)
         \/ RemoveFile(t) \/ RemoveFails(t)
  PROVE  BoundInv'
<1>. USE DEF DataInv
<1>1. /\ cfg' = cfg /\ cur_file_size' = cur_file_size /\ buf' = buf
      /\ op' = op /\ msg' = msg
      /\ crashes' = crashes
      /\ \A u \in Threads : u # t => pc'[u] = pc[u] /\ pc[u] \in CallLabels
      /\ pc'[t] \notin {"open", "write"}
  <2>1. \A u \in Threads : u # t => pc'[u] = pc[u] /\ pc[u] \in CallLabels
    BY OthersOutside DEF Critical
  <2>. QED
    BY <2>1 DEF Rename, RenameFails, CompressOpen, CompressOpenFails, Compress,
         CompressFails, RemoveFile, RemoveFails, At, Goto, Die, AfterBackup,
         TypeOK, callVars, diskVars, sizeVars, countVars
<1>2. buf = << >>
  BY DEF Rename, RenameFails, CompressOpen, CompressOpenFails, Compress,
         CompressFails, RemoveFile, RemoveFails, At, StreamInv, RotateLabels
<1>3. /\ FullFile \in Nat /\ Slack \in Nat /\ Size \in Nat
      /\ Size <= FullFile + Slack
  BY SlackTyped DEF BoundInv
<1>4. Size' = Len(file') + Len(<< >>)
  BY <1>1, <1>2 DEF Size
<1>5. \A u \in Threads : Len(msg'[u]) <= MaxLen
  BY <1>1 DEF BoundInv
<1>6. CASE Rename(t) \/ RemoveFile(t)
  <2>1. file' = << >> /\ faults' = faults
    BY <1>6 DEF Rename, RemoveFile, countVars
  <2>2. Size' = Size - Size
    BY <1>3, <1>4, <2>1, EmptySeq
  <2>3. Slack' = Slack + 0
    BY <1>1, <1>3, <2>1, SlackSteps
  <2>4. \A i \in DOMAIN bak' : i \in DOMAIN bak /\ bak'[i] \in {bak[i], file}
    BY <1>6 DEF Rename, RemoveFile, TypeOK
  <2>5. Size - Size <= Slack + 0
    BY <1>3
  <2>. QED  BY <1>1, <1>3, <1>5, <2>2, <2>3, <2>4, <2>5, ShrinkBound
<1>7. CASE CompressOpen(t) \/ Compress(t)
  <2>1. /\ file' = file /\ faults' = faults
        /\ pc[t] \in {"backup", "compress"} /\ pc'[t] \in {"compress", "remove"}
    BY <1>7 DEF CompressOpen, Compress, At, Goto, TypeOK, countVars
  <2>2. Size' = Size - 0
    BY <1>1, <1>3, <2>1 DEF Size
  <2>3. Slack' = Slack + 0
    BY <1>1, <1>3, <2>1, SlackSteps
  <2>4. \A i \in DOMAIN bak' :
           i \in DOMAIN bak /\ bak'[i] \in {bak[i], file, << >>}
    BY <1>7 DEF CompressOpen, Compress, TypeOK
  <2>5. InRotation(t) => InRotation(t)'
    BY <1>1, <2>1 DEF InRotation
  <2>. QED  BY <1>1, <1>5, <2>1, <2>2, <2>3, <2>4, <2>5, ShrinkBound
<1>8. CASE RenameFails(t) \/ CompressOpenFails(t) \/ CompressFails(t)
             \/ RemoveFails(t)
  <2>1. file' = file /\ faults' = faults + 1
    BY <1>8 DEF RenameFails, CompressOpenFails, CompressFails, RemoveFails,
                Fault, diskVars
  <2>2. Size' = Size - 0
    BY <1>1, <1>3, <2>1 DEF Size
  <2>3. Slack' = Slack + FullFile
    BY <1>1, <2>1, SlackSteps
  <2>4. Size - 0 <= Slack + FullFile
    BY <1>3
  <2>5. \A i \in DOMAIN bak' : i \in DOMAIN bak /\ bak'[i] \in {bak[i], file, << >>}
    <3>1. CASE bak' = bak
      BY <3>1
    <3>2. CASE bak' = [bak EXCEPT ![Slot] = << >>]
      BY <3>2
    <3>. QED
      BY <1>8, <3>1, <3>2 DEF RenameFails, CompressOpenFails, CompressFails,
                              RemoveFails, diskVars
  <2>. QED  BY <1>1, <1>3, <1>5, <2>1, <2>2, <2>3, <2>4, <2>5, ShrinkBound
<1>. QED  BY <1>6, <1>7, <1>8

\* The reset of cur_file_size.
LEMMA CountBound ==
  ASSUME DataInv, BoundInv, NEW t \in Threads, Count(t)
  PROVE  BoundInv'
<1>. USE DEF DataInv
<1>1. /\ cfg' = cfg /\ cur_file_size' = 0 /\ buf' = buf /\ file' = file
      /\ bak' = bak /\ op' = op /\ msg' = msg
      /\ faults' = faults /\ crashes' = crashes
      /\ pc[t] = "count" /\ pc'[t] = "unlock"
  BY DEF Count, At, Goto, TypeOK, diskVars, countVars
<1>2. \A u \in Threads : u # t => pc'[u] = pc[u] /\ pc[u] \in CallLabels
  BY OthersOutside DEF Critical
<1>3. Slack' = Slack /\ FullFile' = FullFile /\ Size' = Size
  BY <1>1, SlackSteps DEF Size
<1>4. Size <= 0 + Slack
  BY <1>1, SlackTyped DEF BoundInv
<1>5. Size <= cfg.max_file_size + Slack
  BY <1>4, SlackTyped
<1>. QED  BY <1>1, <1>2, <1>3, <1>4, <1>5 DEF BoundInv, CallLabels

\* The steps of the owner that move no data.
LEMMA ControlBound ==
  ASSUME DataInv, BoundInv, NEW t \in Threads,
         \/ Open(t) \/ OpenFails(t) \/ CloseNull(t) \/ BackupDivides(t)
         \/ Free(t) \/ Unlock(t)
  PROVE  BoundInv'
<1>. USE DEF DataInv
<1>1. /\ cfg' = cfg /\ cur_file_size' = cur_file_size /\ buf' = buf
      /\ file' = file /\ bak' = bak /\ crashes' = crashes
      /\ faults' \in {faults, faults + 1}
  BY DEF Open, OpenFails, CloseNull, BackupDivides, Free, Unlock, Fault,
         diskVars, sizeVars, countVars
<1>2. \A u \in Threads : u # t => /\ pc'[u] = pc[u] /\ op'[u] = op[u]
                                  /\ pc[u] \in CallLabels
  <2>1. \A u \in Threads : u # t => pc'[u] = pc[u] /\ pc[u] \in CallLabels
    BY OthersOutside DEF Critical
  <2>2. \A u \in Threads : u # t => op'[u] = op[u]
    BY DEF Open, OpenFails, CloseNull, BackupDivides, Free, Unlock, Goto,
           Return, TypeOK, callVars
  <2>. QED  BY <2>1, <2>2
<1>3. \A u \in Threads : Len(msg'[u]) <= MaxLen
  <2>1. Len(<< >>) = 0 /\ MaxLen \in Nat
    BY EmptySeq, SlackTyped
  <2>. QED
    BY <2>1 DEF Open, OpenFails, CloseNull, BackupDivides, Free, Unlock, Goto,
                Return, TypeOK, callVars, BoundInv
<1>4. /\ InRotation(t) => InRotation(t)'
      /\ pc'[t] # "count"
      /\ pc'[t] \in {"open", "write"} => op'[t] = "write"
  BY DEF Open, OpenFails, CloseNull, BackupDivides, Free, Unlock, At, Goto,
         Return, TypeOK, callVars, InRotation, BoundInv
<1>5. Size' = Size - 0
  BY <1>1, SlackTyped DEF Size
<1>6. PICK e \in Nat : Slack' = Slack + e
  <2>1. Slack' = Slack + 0 \/ Slack' = Slack + FullFile
    BY <1>1, SlackSteps, SlackTyped
  <2>. QED  BY <2>1, SlackTyped
<1>. QED  BY <1>1, <1>2, <1>3, <1>4, <1>5, <1>6, ShrinkBound

\* A call brings a record of at most MaxLen units.
LEMMA CallBound ==
  ASSUME DataInv, BoundInv, NEW t \in Threads, Call(t) \/ Lock(t)
  PROVE  BoundInv'
<1>. USE DEF DataInv
<1>1. /\ cfg' = cfg /\ cur_file_size' = cur_file_size /\ buf' = buf
      /\ file' = file /\ bak' = bak /\ faults' = faults /\ crashes' = crashes
  BY CallStarts DEF Lock, diskVars, sizeVars, countVars
<1>2. Slack' = Slack /\ FullFile' = FullFile /\ Size' = Size
  BY <1>1, SlackSteps DEF Size
<1>3. \A u \in Threads : Len(msg'[u]) <= MaxLen
  <2>1. CASE \E n \in 1..MaxLen : CallWrite(t, n)
    <3>1. PICK n \in 1..MaxLen : CallWrite(t, n)
      BY <2>1
    <3>2. msg'[t] = [i \in 1..n |-> written']
      BY <3>1 DEF CallWrite, TypeOK
    <3>3. Len(msg'[t]) = n /\ n <= MaxLen
      BY <3>2, SlackTyped
    <3>4. \A u \in Threads : u # t => msg'[u] = msg[u]
      BY <3>1 DEF CallWrite, TypeOK
    <3>. QED  BY <3>3, <3>4 DEF BoundInv
  <2>2. CASE CallFlush(t) \/ CallDestroy(t) \/ Lock(t)
    BY <2>2 DEF CallFlush, CallDestroy, Lock, Goto, BoundInv
  <2>. QED  BY <2>1, <2>2 DEF Call
<1>4. \A u \in Threads :
        /\ InRotation(u) => InRotation(u)'
        /\ pc'[u] # "count" \/ pc[u] = "count"
        /\ pc'[u] \in {"open", "write"} => op'[u] = "write"
  BY DEF Call, CallWrite, CallFlush, CallDestroy, Enter, At, Lock, Goto,
         InRotation, TypeOK, BoundInv
<1>. QED  BY <1>1, <1>2, <1>3, <1>4 DEF BoundInv

\* A death leaves at most the file of a rotation that had not begun.
LEMMA CrashBound == DataInv /\ BoundInv /\ Crash => BoundInv'
<1>. SUFFICES ASSUME DataInv, BoundInv, Crash PROVE BoundInv'
  OBVIOUS
<1>. USE DEF DataInv
<1>1. /\ cfg' = cfg /\ cur_file_size' = cur_file_size /\ bak' = bak
      /\ faults' = faults /\ crashes' = crashes + 1
      /\ pc' = [u \in Threads |-> "idle"] /\ msg' = [u \in Threads |-> << >>]
  BY DEF Crash, sizeVars
<1>2. Slack' = Slack + MaxLen /\ FullFile' = FullFile
  BY <1>1, SlackSteps
<1>3. /\ FullFile \in Nat /\ Slack \in Nat /\ Size \in Nat /\ MaxLen \in Nat
      /\ cfg.max_file_size \in Nat /\ FullFile = cfg.max_file_size + MaxLen
      /\ cur_file_size \in Nat
  BY SlackTyped DEF TypeOK
<1>4. PICK d \in Nat : Size' = Size - d
  <2>1. PICK k \in 0..Len(buf) : file' = file \o SubSeq(buf, 1, k)
    BY DEF Crash
  <2>2. buf' = << >>
    BY DEF Crash
  <2>3. Len(file') = Len(file) + k /\ Len(buf') = 0
    BY <2>1, <2>2, DrainTyped, EmptySeq DEF TypeOK
  <2>4. Len(file) \in Nat /\ Len(buf) \in Nat
    BY LenProperties DEF TypeOK
  <2>5. Len(buf) - k \in Nat /\ Size' = Size - (Len(buf) - k)
    BY <2>3, <2>4 DEF Size
  <2>. QED  BY <2>5
<1>5. /\ Size - d <= cur_file_size + (Slack + MaxLen)
      /\ Size - d <= FullFile + (Slack + MaxLen)
      /\ Size - d <= cfg.max_file_size + (Slack + MaxLen)
  <2>1. Size <= FullFile + Slack /\ Size <= cur_file_size + Slack
    BY DEF BoundInv
  <2>. QED  BY <1>3, <2>1
<1>6. \A i \in DOMAIN bak : Len(bak[i]) <= FullFile + (Slack + MaxLen)
  <2>1. \A i \in DOMAIN bak :
          Len(bak[i]) \in Nat /\ Len(bak[i]) <= FullFile + Slack
    BY LenProperties DEF TypeOK, BoundInv
  <2>. QED  BY <1>3, <2>1
<1>7. \A u \in Threads : Len(msg'[u]) <= MaxLen
  BY <1>1, <1>3, EmptySeq
<1>. QED  BY <1>1, <1>2, <1>4, <1>5, <1>6, <1>7 DEF BoundInv

\* A new handle starts from the size of the file it finds.
LEMMA CreateBound == DataInv /\ BoundInv /\ Create => BoundInv'
<1>. SUFFICES ASSUME DataInv, BoundInv, Create PROVE BoundInv'
  OBVIOUS
<1>. USE DEF DataInv
<1>1. /\ cfg' = cfg /\ cur_file_size' = Len(file) /\ bak' = bak /\ buf' = buf
      /\ file' = file /\ pc' = pc /\ op' = op /\ msg' = msg
      /\ faults' = faults /\ crashes' = crashes
  BY DEF Create, callVars, diskVars
<1>2. Slack' = Slack /\ FullFile' = FullFile /\ Size' = Size
  BY <1>1, SlackSteps DEF Size
<1>3. Size = Len(file) + 0 /\ Len(file) \in Nat
  BY EmptySeq, LenProperties DEF Size, Create, StreamInv, TypeOK
<1>4. Size <= Len(file) + Slack
  BY <1>3, SlackTyped
<1>. QED  BY <1>1, <1>2, <1>4 DEF BoundInv, InRotation

LEMMA NextBound == DataInv /\ BoundInv /\ [Next]_vars => BoundInv'
<1>. SUFFICES ASSUME DataInv, BoundInv, [Next]_vars PROVE BoundInv'
  OBVIOUS
<1>1. ASSUME NEW t \in Threads, Call(t) \/ Lock(t) \/ Critical(t)
      PROVE  BoundInv'
  BY <1>1, CallBound, WriteBound, CloseBound, BackupBound, CountBound,
     ControlBound DEF Critical
<1>2. CASE UNCHANGED vars
  <2>1. Slack' = Slack /\ FullFile' = FullFile /\ Size' = Size
    BY <1>2, SlackSteps DEF vars, diskVars, countVars, Size, DataInv
  <2>. QED
    BY <1>2, <2>1 DEF vars, callVars, diskVars, sizeVars, BoundInv, InRotation
<1>. QED  BY <1>1, <1>2, CrashBound, CreateBound DEF Next

\* However many threads write, rotate, die and start again, no file outgrows
\* the bound that max_file_size, the failures and the deaths give.
THEOREM FilesBounded == Spec => []SizeBound
<1>1. Init => BoundInv
  BY InitBound
<1>2. DataInv /\ BoundInv /\ [Next]_vars => BoundInv'
  BY NextBound
<1>3. DataInv /\ BoundInv => SizeBound
  <2>. SUFFICES ASSUME DataInv, BoundInv PROVE SizeBound
    OBVIOUS
  <2>1. /\ MaxLen \in Nat /\ FullFile \in Nat
        /\ faults \in Nat /\ crashes \in Nat
    BY SlackTyped DEF DataInv, TypeOK
  <2>2. \A a, n \in Nat : (a + 1) * n = a * n + n /\ a * n \in Nat
    OBVIOUS
  <2>3. (faults + 1) * FullFile + crashes * MaxLen = FullFile + Slack
    <3>1. /\ (faults + 1) * FullFile = faults * FullFile + FullFile
          /\ faults * FullFile \in Nat
      BY <2>1, <2>2
    <3>2. crashes * MaxLen \in Nat
      BY <2>1, <2>2
    <3>. QED  BY <2>1, <3>1, <3>2 DEF Slack
  <2>. QED  BY <2>3 DEF BoundInv, SizeBound, Size
<1>. QED  BY <1>1, <1>2, <1>3, DataInvariant, PTL DEF Spec

-----------------------------------------------------------------------------
(* A queue kept in slots that are numbered modulo n.                       *)

\* Two numbers less than n apart fall into different slots.
LEMMA ModDistinct ==
  ASSUME NEW n \in Nat \ {0}, NEW a \in Nat, NEW b \in Nat, a < b, b < a + n
  PROVE  a % n # b % n
<1>1. \A x \in Nat : /\ x = n * (x \div n) + (x % n)
                     /\ x \div n \in Nat /\ x % n \in Nat
  OBVIOUS
<1>2. SUFFICES ASSUME a % n = b % n PROVE FALSE
  OBVIOUS
<1>3. PICK p \in Nat : p = a \div n
  BY <1>1
<1>4. PICK q \in Nat : q = b \div n
  BY <1>1
<1>5. PICK r \in Nat : r = a % n
  BY <1>1
<1>6. a = n * p + r /\ b = n * q + r
  BY <1>1, <1>2, <1>3, <1>4, <1>5
<1>7. q > p
  <2>1. \A x \in Nat, y \in Nat : x <= y => n * x <= n * y
    OBVIOUS
  <2>2. ~(q <= p)
    BY <1>6, <2>1
  <2>. QED  BY <2>2
<1>8. n * q >= n * p + n
  <2>1. \A x \in Nat, y \in Nat : x + 1 <= y => n * x + n <= n * y
    <3>1. \A x \in Nat, y \in Nat : x <= y => n * x <= n * y
      OBVIOUS
    <3>2. \A x \in Nat : n * (x + 1) = n * x + n
      OBVIOUS
    <3>. QED  BY <3>1, <3>2
  <2>. QED  BY <1>7, <2>1
<1>9. n * p \in Nat /\ n * q \in Nat
  OBVIOUS
<1>. QED  BY <1>6, <1>8, <1>9

\* The last k elements of a queue of b, oldest first.
Queue(slots, n, b, k) == [i \in 1..k |-> slots[(b - k + i - 1) % n]]

LEMMA QueueLength ==
  ASSUME NEW slots, NEW n, NEW b, NEW k \in Nat
  PROVE  Len(Queue(slots, n, b, k)) = k
BY FunctionIsSeq DEF Queue

LEMMA QueueTyped ==
  ASSUME NEW A, NEW n \in Nat, NEW slots, \A i \in 0..n - 1 : slots[i] \in A,
         NEW b \in Nat, NEW k \in Nat, k <= b, k <= n
  PROVE  Queue(slots, n, b, k) \in Seq(A)
<1>1. ASSUME NEW i \in 1..k PROVE slots[(b - k + i - 1) % n] \in A
  <2>1. b - k + i - 1 \in Nat /\ n \in Nat \ {0}
    OBVIOUS
  <2>2. \A x \in Nat, y \in Nat \ {0} : x % y \in 0..y - 1
    OBVIOUS
  <2>. QED  BY <2>1, <2>2
<1>2. Queue(slots, n, b, k) \in [1..k -> A]
  BY <1>1 DEF Queue
<1>. QED  BY <1>2, FunctionIsSeq

\* g is f but for the slot of the next element, number b, which holds x.
Stored(g, f, n, b, x) ==
  g[b % n] = x /\ \A i \in 0..n - 1 : i # b % n => g[i] = f[i]

\* The slot of the next element is not one of the last n - 1.
LEMMA StoredElsewhere ==
  ASSUME NEW n \in Nat \ {0}, NEW f, NEW g, NEW x, NEW b \in Nat,
         Stored(g, f, n, b, x), NEW a \in Nat, a < b, b < a + n
  PROVE  g[a % n] = f[a % n]
<1>1. \A y \in Nat : y % n \in 0..n - 1
  OBVIOUS
<1>2. a % n # b % n
  BY ModDistinct
<1>. QED  BY <1>1, <1>2 DEF Stored

LEMMA QueueKeeps ==
  ASSUME NEW n \in Nat \ {0}, NEW f, NEW g, NEW x, NEW b \in Nat,
         Stored(g, f, n, b, x), NEW k \in Nat, k <= b, k < n
  PROVE  Queue(g, n, b, k) = Queue(f, n, b, k)
<1>1. ASSUME NEW i \in 1..k
      PROVE  g[(b - k + i - 1) % n] = f[(b - k + i - 1) % n]
  <2>1. PICK a \in Nat : a = b - k + i - 1
    OBVIOUS
  <2>2. a < b /\ b < a + n
    BY <2>1
  <2>3. g[a % n] = f[a % n]
    BY <2>2, StoredElsewhere, ZenonT(30)
  <2>. QED  BY <2>1, <2>3
<1>. QED  BY <1>1 DEF Queue

\* When its slot is taken, the oldest of n elements leaves the queue.
LEMMA QueueDrops ==
  ASSUME NEW n \in Nat \ {0}, NEW f, NEW g, NEW x,
         NEW b \in Nat, Stored(g, f, n, b, x), n <= b
  PROVE  Queue(g, n, b, n - 1) = Tail(Queue(f, n, b, n))
<1>1. PICK k \in Nat : k = n - 1
  OBVIOUS
<1>2. k <= b /\ k < n /\ k <= n
  BY <1>1
<1>. DEFINE s == Queue(f, n, b, n)
            t == Queue(f, n, b, k)
            A == {f[i] : i \in 0..n - 1}
<1>3. Queue(g, n, b, k) = t
  BY <1>2, QueueKeeps
<1>4. s \in Seq(A) /\ Len(s) = n
  <2>1. n \in Nat /\ n <= n
    OBVIOUS
  <2>3. \A i \in 0..n - 1 : f[i] \in A
    OBVIOUS
  <2>. HIDE DEF A
  <2>2. s \in Seq(A)
    BY <2>1, <2>3, QueueTyped
  <2>. QED  BY <2>1, <2>2, QueueLength
<1>5. t \in Seq(A) /\ Len(t) = k
  <2>2. \A i \in 0..n - 1 : f[i] \in A
    OBVIOUS
  <2>. HIDE DEF A
  <2>1. t \in Seq(A)
    BY <1>2, <2>2, QueueTyped
  <2>. QED  BY <2>1, QueueLength
<1>10. /\ \A i \in 1..n : s[i] = f[(b - n + i - 1) % n]
       /\ \A i \in 1..k : t[i] = f[(b - k + i - 1) % n]
  BY DEF Queue
<1>. HIDE DEF s, t, A
<1>6. s # << >>
  BY <1>4, EmptySeq
<1>7. /\ Tail(s) \in Seq(A) /\ Len(Tail(s)) = Len(s) - 1
      /\ \A i \in 1..Len(Tail(s)) : Tail(s)[i] = s[i + 1]
  BY <1>4, <1>6, HeadTailProperties
<1>8. ASSUME NEW i \in 1..k PROVE Tail(s)[i] = t[i]
  <2>1. Tail(s)[i] = f[(b - n + (i + 1) - 1) % n]
    BY <1>1, <1>4, <1>7, <1>10
  <2>2. t[i] = f[(b - k + i - 1) % n]
    BY <1>10
  <2>3. b - n + (i + 1) - 1 = b - k + i - 1
    BY <1>1
  <2>. QED  BY <2>1, <2>2, <2>3
<1>9. t = Tail(s)
  BY <1>1, <1>4, <1>5, <1>7, <1>8, SeqEqual
<1>. QED  BY <1>1, <1>3, <1>9 DEF s

\* What the slots hold, before and after x is stored.
Stock(f, n, x) == {f[i] : i \in 0..n - 1} \cup {x}

\* The queue with the new element x at its end: the number a of the queue is
\* in its slot.
Enqueued(f, g, n, b, k, x) ==
  /\ \A i \in 0..n - 1 : f[i] \in Stock(f, n, x) /\ g[i] \in Stock(f, n, x)
  /\ Append(Queue(f, n, b, k), x) \in Seq(Stock(f, n, x))
  /\ Len(Append(Queue(f, n, b, k), x)) = k + 1
  /\ \A a \in Nat : b - k <= a /\ a <= b /\ b < a + n =>
       Append(Queue(f, n, b, k), x)[a - (b - k) + 1] = g[a % n]

LEMMA QueueElements ==
  ASSUME NEW n \in Nat \ {0}, NEW f, NEW g, NEW x, NEW b \in Nat,
         Stored(g, f, n, b, x), NEW k \in Nat, k <= b, k <= n
  PROVE  Enqueued(f, g, n, b, k, x)
<1>. DEFINE A == Stock(f, n, x)
            s == Queue(f, n, b, k)
            u == Append(s, x)
<1>1. g[b % n] = x
  BY DEF Stored
<1>2. /\ x \in A
      /\ \A i \in 0..n - 1 : f[i] \in A /\ g[i] \in A
  BY DEF Stored, Stock
<1>. HIDE DEF A
<1>3. s \in Seq(A) /\ Len(s) = k
  <2>1. s \in Seq(A)
    BY <1>2, QueueTyped
  <2>. QED  BY <2>1, QueueLength
<1>4. \A i \in 1..k : s[i] = f[(b - k + i - 1) % n]
  BY DEF Queue
<1>. HIDE DEF s
<1>5. /\ u \in Seq(A) /\ Len(u) = k + 1
      /\ \A i \in 1..k : u[i] = s[i]
      /\ u[k + 1] = x
  BY <1>2, <1>3, AppendProperties
<1>. HIDE DEF u
<1>6. ASSUME NEW a \in Nat, b - k <= a, a <= b, b < a + n
      PROVE  u[a - (b - k) + 1] = g[a % n]
  <2>1. CASE a = b
    <3>1. a - (b - k) + 1 = k + 1
      BY <2>1
    <3>. QED  BY <1>1, <1>5, <2>1, <3>1
  <2>2. CASE a # b
    <3>1. a < b /\ a - (b - k) + 1 \in 1..k
      BY <1>6, <2>2
    <3>2. g[a % n] = f[a % n]
      <4>1. a < b /\ b < a + n
        BY <1>6, <3>1
      <4>2. a % n # b % n
        BY <4>1, ModDistinct
      <4>3. a % n \in 0..n - 1
        OBVIOUS
      <4>. QED  BY <4>2, <4>3 DEF Stored
    <3>3. b - k + (a - (b - k) + 1) - 1 = a
      OBVIOUS
    <3>4. s[a - (b - k) + 1] = f[a % n]
      BY <1>4, <3>1, <3>3
    <3>. QED  BY <1>5, <3>1, <3>2, <3>4
  <2>. QED  BY <2>1, <2>2
<1>. QED  BY <1>2, <1>5, <1>6 DEF s, u, A, Enqueued

\* A new element goes to the end of a queue that has room for it.
LEMMA QueueGrows ==
  ASSUME NEW n \in Nat \ {0}, NEW f, NEW g, NEW x, NEW b \in Nat,
         Stored(g, f, n, b, x), NEW k \in Nat, k <= b, k + 1 <= n
  PROVE  Queue(g, n, b + 1, k + 1) = Append(Queue(f, n, b, k), x)
<1>1. PICK c \in Nat : c = b + 1
  OBVIOUS
<1>2. PICK m \in Nat : m = k + 1
  OBVIOUS
<1>. DEFINE A == Stock(f, n, x)
            t == Queue(g, n, c, m)
            u == Append(Queue(f, n, b, k), x)
<1>3. /\ \A i \in 0..n - 1 : f[i] \in A /\ g[i] \in A
      /\ u \in Seq(A) /\ Len(u) = m
      /\ \A a \in Nat : b - k <= a /\ a <= b /\ b < a + n =>
           u[a - (b - k) + 1] = g[a % n]
  <2>1. k <= n
    OBVIOUS
  <2>2. Enqueued(f, g, n, b, k, x)
    BY <2>1, QueueElements
  <2>. QED  BY <1>2, <2>2 DEF Enqueued
<1>. HIDE DEF A, u
<1>4. t \in Seq(A) /\ Len(t) = m
  <2>1. m <= c /\ m <= n /\ n \in Nat
    BY <1>1, <1>2
  <2>2. t \in Seq(A)
    BY <1>3, <2>1, QueueTyped
  <2>. QED  BY <2>2, QueueLength
<1>5. \A i \in 1..m : t[i] = g[(c - m + i - 1) % n]
  BY DEF Queue
<1>. HIDE DEF t
<1>6. ASSUME NEW i \in 1..m PROVE t[i] = u[i]
  <2>1. PICK a \in Nat : a = c - m + i - 1
    BY <1>1, <1>2
  <2>2. b - k <= a /\ a <= b /\ b < a + n /\ a - (b - k) + 1 = i
    BY <1>1, <1>2, <2>1
  <2>. QED  BY <1>3, <1>5, <2>1, <2>2
<1>7. t = u
  BY <1>3, <1>4, <1>6, SeqEqual
<1>. QED  BY <1>1, <1>2, <1>7 DEF t, u

\* Of n + 1 elements the last n stay.
LEMMA QueueTurns ==
  ASSUME NEW n \in Nat \ {0}, NEW f, NEW g, NEW x, NEW b \in Nat,
         Stored(g, f, n, b, x), n <= b
  PROVE  Queue(g, n, b + 1, n) = SubSeq(Append(Queue(f, n, b, n), x), 2, n + 1)
<1>1. PICK c \in Nat : c = b + 1
  OBVIOUS
<1>2. PICK m \in Nat : m = n + 1
  OBVIOUS
<1>. DEFINE A == Stock(f, n, x)
            t == Queue(g, n, c, n)
            u == Append(Queue(f, n, b, n), x)
            v == SubSeq(u, 2, m)
<1>3. /\ \A i \in 0..n - 1 : f[i] \in A /\ g[i] \in A
      /\ u \in Seq(A) /\ Len(u) = m
      /\ \A a \in Nat : b - n <= a /\ a <= b /\ b < a + n =>
           u[a - (b - n) + 1] = g[a % n]
  <2>1. n <= n /\ n \in Nat
    OBVIOUS
  <2>2. Enqueued(f, g, n, b, n, x)
    BY <2>1, QueueElements
  <2>. QED  BY <1>2, <2>2 DEF Enqueued
<1>. HIDE DEF A, u
<1>4. t \in Seq(A) /\ Len(t) = n
  <2>1. n <= c /\ n <= n /\ n \in Nat
    BY <1>1
  <2>2. t \in Seq(A)
    BY <1>3, <2>1, QueueTyped
  <2>. QED  BY <2>1, <2>2, QueueLength
<1>5. \A i \in 1..n : t[i] = g[(c - n + i - 1) % n]
  BY DEF Queue
<1>6. /\ v \in Seq(A) /\ Len(v) = n
      /\ \A i \in 1..n : v[i] = u[i + 1]
  <2>1. 2 <= m + 1 /\ m <= Len(u) /\ (m + 1) - 2 = n
    BY <1>2, <1>3
  <2>2. /\ v \in Seq(A) /\ Len(v) = (m + 1) - 2
        /\ \A i \in 1..(m + 1) - 2 : v[i] = u[(2 - 1) + i]
    BY <1>3, <2>1, Slice
  <2>. QED  BY <2>1, <2>2
<1>. HIDE DEF t, v
<1>7. ASSUME NEW i \in 1..n PROVE t[i] = v[i]
  <2>1. PICK a \in Nat : a = c - n + i - 1
    BY <1>1
  <2>2. b - n <= a /\ a <= b /\ b < a + n /\ a - (b - n) + 1 = i + 1
    BY <1>1, <2>1
  <2>3. u[a - (b - n) + 1] = g[a % n]
    BY <1>3, <2>2
  <2>4. t[i] = g[a % n] /\ v[i] = u[i + 1]
    BY <1>5, <1>6, <2>1
  <2>. QED  BY <2>2, <2>3, <2>4
<1>8. t = v
  BY <1>4, <1>6, <1>7, SeqEqual
<1>. QED  BY <1>1, <1>2, <1>8 DEF t, u, v

-----------------------------------------------------------------------------
(* The calls.                                                              *)

\* The call a thread is in fits its step; a record has units; the owner of a
\* destroyed handle left no log file, unless a rename or a remove failed.
DoneInv ==
  /\ \A t \in Threads :
       /\ op[t] = "write" => msg[t] # << >>
       /\ pc[t] \in {"open", "write", "count"} => op[t] = "write"
       /\ pc[t] \in {"backup", "compress", "remove"} =>
            op[t] \in {"write", "destroy"}
       /\ pc[t] = "free" => op[t] = "destroy"
       /\ pc[t] = "remove" /\ cfg.max_bak_num = 0 => op[t] = "write"
       /\ op[t] = "none" <=> pc[t] = "idle"
  /\ faults = 0 /\ hstate = "freed" => file = << >>

LEMMA InitDone == Init => DoneInv
BY DEF Init, DoneInv

LEMMA CallDone ==
  ASSUME DataInv, DoneInv, NEW t \in Threads, Call(t)
  PROVE  DoneInv'
<1>1. hstate' = "live"
  BY CallStarts DEF DataInv
<1>. USE DEF DoneInv, DataInv, TypeOK, Enter, At
<1>2. CASE CallFlush(t)
  BY <1>1, <1>2 DEF CallFlush
<1>3. CASE CallDestroy(t)
  BY <1>1, <1>3 DEF CallDestroy
<1>4. ASSUME NEW n \in 1..MaxLen, CallWrite(t, n) PROVE DoneInv'
  <2>1. [i \in 1..n |-> written'] # << >>
    <3>1. n \in Nat /\ n # 0
      BY LogFileAssumption
    <3>2. Len([i \in 1..n |-> written']) = n
      BY <3>1, FunctionIsSeq
    <3>. QED  BY <3>1, <3>2, EmptySeq
  <2>. QED  BY <1>1, <1>4, <2>1 DEF CallWrite
<1>. QED  BY <1>2, <1>3, <1>4 DEF Call

LEMMA CriticalDone ==
  ASSUME DataInv, CopyInv, DoneInv, NEW t \in Threads, Critical(t)
  PROVE  DoneInv'
<1>. USE DEF DoneInv, DataInv, TypeOK, At, Goto, Return, Die, AfterBackup, Fault,
             callVars, diskVars, sizeVars, countVars
<1>1. hstate = "live"
  BY CriticalOwns
<1>2. CASE Open(t)          BY <1>1, <1>2 DEF Open
<1>3. CASE OpenFails(t)     BY <1>1, <1>3 DEF OpenFails
<1>4. CASE Write(t)         BY <1>1, <1>4 DEF Write
<1>5. CASE WriteFails(t)    BY <1>1, <1>5 DEF WriteFails
<1>6. ASSUME NEW k \in 0..Len(buf), CloseStream(t, k) PROVE DoneInv'
  BY <1>1, <1>6 DEF CloseStream, AfterClose
<1>7. CASE Close(t)         BY <1>6, <1>7, LenProperties DEF Close
<1>8. CASE CloseFails(t)    BY <1>6, <1>8, LenProperties DEF CloseFails
<1>9. CASE CloseNull(t)     BY <1>9 DEF CloseNull
<1>10. CASE BackupDivides(t) BY <1>10 DEF BackupDivides
<1>11. CASE Rename(t)       BY <1>1, <1>11 DEF Rename
<1>12. CASE RenameFails(t)  BY <1>1, <1>12 DEF RenameFails
<1>13. CASE CompressOpen(t) BY <1>1, <1>13 DEF CompressOpen
<1>14. CASE CompressOpenFails(t) BY <1>14 DEF CompressOpenFails
<1>15. CASE Compress(t)     BY <1>1, <1>15 DEF Compress, CopyInv
<1>16. CASE CompressFails(t) BY <1>1, <1>16 DEF CompressFails, CopyInv
<1>17. CASE RemoveFile(t)   BY <1>1, <1>17 DEF RemoveFile
<1>18. CASE RemoveFails(t)  BY <1>1, <1>18 DEF RemoveFails
<1>19. CASE Count(t)        BY <1>1, <1>19 DEF Count
<1>20. CASE Free(t)
  <2>1. faults = 0 => file = << >>
    BY <1>20 DEF Free, SizeInv
  <2>. QED  BY <1>20, <2>1 DEF Free
<1>21. CASE Unlock(t)       BY <1>1, <1>21 DEF Unlock
<1>. QED
  BY <1>2, <1>3, <1>4, <1>5, <1>7, <1>8, <1>9, <1>10, <1>11, <1>12, <1>13,
     <1>14, <1>15, <1>16, <1>17, <1>18, <1>19, <1>20, <1>21 DEF Critical

\* The inductive invariant of the theorems on rotation.
RotationInv == DataInv /\ CopyInv /\ DoneInv

LEMMA NextDone == RotationInv /\ [Next]_vars => DoneInv'
<1>. SUFFICES ASSUME RotationInv, [Next]_vars PROVE DoneInv'
  OBVIOUS
<1>. USE DEF RotationInv
<1>1. ASSUME NEW t \in Threads, Lock(t) PROVE DoneInv'
  BY <1>1 DEF Lock, At, Goto, DoneInv, DataInv, TypeOK, diskVars, countVars
<1>2. CASE Crash
  BY <1>2 DEF Crash, DoneInv
<1>3. CASE Create
  BY <1>3 DEF Create, DoneInv, callVars, diskVars
<1>4. CASE UNCHANGED vars
  BY <1>4 DEF vars, callVars, diskVars, countVars, DoneInv
<1>. QED  BY <1>1, <1>2, <1>3, <1>4, CallDone, CriticalDone DEF Next

LEMMA RotationInvariant == Spec => []RotationInv
<1>1. Init => RotationInv
  BY InitTyped, InitMutex, InitStream, InitSize, InitCopy, InitDone
     DEF RotationInv, DataInv
<1>2. RotationInv /\ [Next]_vars => RotationInv'
  BY NextTyped, NextMutex, NextStream, NextSize, NextCopy, NextDone
     DEF RotationInv, DataInv
<1>. QED  BY <1>1, <1>2, PTL DEF Spec

-----------------------------------------------------------------------------
(* The rotating log that the state of a handle stands for.                 *)

\* Where nobody is inside of the functions of the handle, nothing is moved.
LEMMA NobodyInside ==
  ASSUME DataInv, \A u \in Threads : ~InCritical(u)
  PROVE  /\ ~SomeAt({"compress"})
         /\ Moved <=> hstate = "freed"
BY DEF SomeAt, Moved, InCritical, StepLabels

\* In a step of the owner of the mutex, the owner alone says what is moved.
LEMMA OwnerInside ==
  ASSUME DataInv, NEW t \in Threads, Critical(t)
  PROVE  /\ SomeAt({"compress"}) <=> pc[t] = "compress"
         /\ SomeAt({"compress"})' <=> pc'[t] = "compress"
         /\ Moved <=> \/ pc[t] \in {"count", "free"}
                      \/ cfg.compress /\ cfg.max_bak_num > 0 /\ pc[t] = "remove"
         /\ Moved' <=> \/ hstate' = "freed"
                       \/ pc'[t] \in {"count", "free"}
                       \/ cfg'.compress /\ cfg'.max_bak_num > 0 /\ pc'[t] = "remove"
<1>1. \A u \in Threads : u # t => pc[u] \in CallLabels /\ pc'[u] \in CallLabels
  BY OthersOutside DEF DataInv
<1>2. hstate = "live"
  BY CriticalOwns DEF DataInv
<1>3. /\ SomeAt({"compress"}) <=> pc[t] = "compress"
      /\ SomeAt({"compress"})' <=> pc'[t] = "compress"
  BY <1>1 DEF SomeAt, CallLabels
<1>4. /\ SomeAt({"count", "free"}) <=> pc[t] \in {"count", "free"}
      /\ SomeAt({"count", "free"})' <=> pc'[t] \in {"count", "free"}
  BY <1>1 DEF SomeAt, CallLabels
<1>5. /\ SomeAt({"remove"}) <=> pc[t] = "remove"
      /\ SomeAt({"remove"})' <=> pc'[t] = "remove"
  BY <1>1 DEF SomeAt, CallLabels
<1>. QED  BY <1>2, <1>3, <1>4, <1>5 DEF Moved

\* How many backups are counted and how many of them are kept.
LEMMA KeptTyped ==
  ASSUME DataInv, CopyInv
  PROVE  /\ Backups \in Nat /\ Kept \in Nat
         /\ Kept <= Backups /\ Kept <= cfg.max_bak_num
<1>1. cur_bak_num \in Nat /\ cfg.max_bak_num \in Nat
  BY ConfigTyped DEF DataInv, TypeOK
<1>2. Backups \in Nat
  BY <1>1 DEF Backups
<1>3. SomeAt({"compress"}) => cfg.max_bak_num > 0
  BY DEF SomeAt, CopyInv
<1>. QED  BY <1>1, <1>2, <1>3 DEF Kept

LEMMA ClosedQueue ==
  ASSUME DataInv, CopyInv
  PROVE  /\ hstate # "down" =>
              ClosedGenerations = Queue(bak, cfg.max_bak_num, Backups, Kept)
         /\ Queue(bak, cfg.max_bak_num, Backups, Kept) \in Seq(Seq(Nat))
<1>1. hstate # "down" =>
        ClosedGenerations = Queue(bak, cfg.max_bak_num, Backups, Kept)
  BY DEF ClosedGenerations, Queue
<1>2. /\ cfg.max_bak_num \in Nat
      /\ \A i \in 0..cfg.max_bak_num - 1 : bak[i] \in Seq(Nat)
  BY ConfigTyped DEF DataInv, TypeOK
<1>3. Queue(bak, cfg.max_bak_num, Backups, Kept) \in Seq(Seq(Nat))
  BY <1>2, KeptTyped, QueueTyped
<1>. QED  BY <1>1, <1>3

LEMMA ClosedTyped ==
  ASSUME DataInv, CopyInv
  PROVE  ClosedGenerations \in Seq(Seq(Nat)) /\ CurrentGeneration \in Seq(Nat)
<1>1. << >> \in Seq(Seq(Nat)) /\ << >> \in Seq(Nat)
  BY EmptySeq
<1>2. file \o buf \in Seq(Nat)
  BY ConcatProperties DEF DataInv, TypeOK
<1>3. CASE hstate = "down"
  BY <1>1, <1>2, <1>3 DEF ClosedGenerations, CurrentGeneration
<1>4. CASE hstate # "down"
  BY <1>1, <1>2, <1>4, ClosedQueue DEF CurrentGeneration
<1>. QED  BY <1>3, <1>4

LEMMA InitRefines == Init => Rotating!Init
<1>. SUFFICES ASSUME Init PROVE Rotating!Init
  OBVIOUS
<1>1. cfg.max_bak_num \in Nat
  BY LogFileAssumption DEF Init, Config
<1>2. ~Moved /\ ~SomeAt({"compress"}) /\ hstate = "live"
  BY DEF Init, Moved, SomeAt
<1>3. CurrentGeneration = << >>
  BY <1>2, EmptySeq, ConcatEmptySeq DEF Init, CurrentGeneration
<1>4. Kept = 0
  BY <1>1, <1>2 DEF Kept, Backups, Init
<1>5. ClosedGenerations = << >>
  <2>1. ClosedGenerations = Queue(bak, cfg.max_bak_num, Backups, 0)
    BY <1>2, <1>4 DEF ClosedGenerations, Queue
  <2>2. /\ Queue(bak, cfg.max_bak_num, Backups, 0) \in Seq(Seq(Nat))
        /\ Len(Queue(bak, cfg.max_bak_num, Backups, 0)) = 0
    BY FunctionIsSeq DEF Queue
  <2>. QED  BY <2>1, <2>2, EmptySeq
<1>. QED  BY <1>1, <1>2, <1>3, <1>5 DEF Rotating!Init

-----------------------------------------------------------------------------
(* What a step does to the current generation.                             *)

\* A sequence is what is before and what is behind a place in it.
LEMMA CutAndJoin ==
  ASSUME NEW A, NEW s \in Seq(A), NEW k \in 0..Len(s)
  PROVE  /\ SubSeq(s, 1, k) \in Seq(A) /\ SubSeq(s, k + 1, Len(s)) \in Seq(A)
         /\ SubSeq(s, 1, k) \o SubSeq(s, k + 1, Len(s)) = s
<1>1. Len(s) \in Nat /\ k \in Nat /\ k <= Len(s)
  BY LenProperties
<1>2. PICK n \in Nat : n = Len(s)
  BY <1>1
<1>3. SubSeq(s, 1, k) \in Seq(A)
  BY <1>1, Slice
<1>4. SubSeq(s, k + 1, Len(s)) \in Seq(A)
  <2>1. PICK m \in Nat \ {0} : m = k + 1
    BY <1>1
  <2>2. m <= n + 1 /\ n <= Len(s)
    BY <1>1, <1>2, <2>1
  <2>3. SubSeq(s, m, n) \in Seq(A)
    BY <2>2, Slice
  <2>. QED  BY <1>2, <2>1, <2>3
<1>5. SubSeq(s, 1, n) = s
  BY <1>2, SubSeqFull
<1>6. SubSeq(s, 1, k) \o SubSeq(s, k + 1, n) = SubSeq(s, 1, n)
  <2>1. 1 \in 1..Len(s) + 1 /\ k \in 1 - 1..Len(s) /\ n \in k..Len(s)
    BY <1>1, <1>2
  <2>. QED  BY <2>1, ConcatAdjacentSubSeq
<1>. QED  BY <1>2, <1>3, <1>4, <1>5, <1>6

LEMMA ConcatUnits ==
  \A r \in Seq(Nat), s \in Seq(Nat), u \in Seq(Nat) :
    (r \o s) \o u = r \o (s \o u)
BY ConcatAssociative, Z3T(30)

\* Nothing is lost or overtaken between the buffer and the file.
LEMMA BufferedExtends ==
  ASSUME TypeOK, NEW data \in Seq(Nat), Buffered(data)
  PROVE  file' \o buf' = (file \o buf) \o data
<1>. DEFINE stream == buf \o data
<1>1. PICK k \in 0..Len(stream) : /\ file' = file \o SubSeq(stream, 1, k)
                                  /\ buf' = SubSeq(stream, k + 1, Len(stream))
  BY DEF Buffered
<1>2. file \in Seq(Nat) /\ buf \in Seq(Nat) /\ stream \in Seq(Nat)
  BY ConcatProperties DEF TypeOK
<1>. HIDE DEF stream
<1>. DEFINE a == SubSeq(stream, 1, k)
            b == SubSeq(stream, k + 1, Len(stream))
<1>3. a \in Seq(Nat) /\ b \in Seq(Nat) /\ a \o b = stream
  BY <1>2, CutAndJoin
<1>4. (file \o a) \o b = file \o stream
  <2>. HIDE DEF a, b
  <2>1. \A s \in Seq(Nat), u \in Seq(Nat) : (file \o s) \o u = file \o (s \o u)
    BY <1>2, ConcatUnits, Zenon
  <2>2. (file \o a) \o b = file \o (a \o b)
    BY <1>3, <2>1, Zenon
  <2>. QED  BY <1>3, <2>2
<1>5. file \o (buf \o data) = (file \o buf) \o data
  <2>1. \A s \in Seq(Nat), u \in Seq(Nat) : (file \o s) \o u = file \o (s \o u)
    BY <1>2, ConcatUnits, Zenon
  <2>. QED  BY <1>2, <2>1, Zenon
<1>. QED  BY <1>1, <1>4, <1>5 DEF stream

\* fclose moves the whole buffer to the file.
LEMMA CloseKeeps ==
  ASSUME TypeOK, NEW t \in Threads, Close(t)
  PROVE  file' \o buf' = file \o buf /\ buf' = << >>
<1>1. file' = file \o SubSeq(buf, 1, Len(buf)) /\ buf' = << >>
  BY DEF Close, CloseStream
<1>2. file \in Seq(Nat) /\ buf \in Seq(Nat) /\ Len(buf) \in Nat
  BY LenProperties DEF TypeOK
<1>3. SubSeq(buf, 1, Len(buf)) = buf
  BY <1>2, SubSeqFull
<1>4. file \o buf \in Seq(Nat)
  BY <1>2, ConcatProperties
<1>. QED  BY <1>1, <1>3, <1>4, ConcatEmptySeq

\* A crash leaves a prefix of the file with its buffer.
LEMMA CrashKeepsPrefix ==
  ASSUME TypeOK, NEW k \in 0..Len(buf)
  PROVE  IsPrefix(file \o SubSeq(buf, 1, k), file \o buf)
<1>1. file \in Seq(Nat) /\ buf \in Seq(Nat)
  BY DEF TypeOK
<1>. DEFINE a == SubSeq(buf, 1, k)
            b == SubSeq(buf, k + 1, Len(buf))
<1>2. a \in Seq(Nat) /\ b \in Seq(Nat) /\ a \o b = buf
  BY <1>1, CutAndJoin
<1>. HIDE DEF a, b
<1>3. file \o a \in Seq(Nat) /\ (file \o a) \o b = file \o buf
  <2>1. \A s \in Seq(Nat), u \in Seq(Nat) : (file \o s) \o u = file \o (s \o u)
    BY <1>1, ConcatUnits, Zenon
  <2>2. (file \o a) \o b = file \o (a \o b)
    BY <1>2, <2>1, Zenon
  <2>. QED  BY <1>1, <1>2, <2>2, ConcatProperties
<1>4. IsPrefix(file \o a, (file \o a) \o b)
  BY <1>2, <1>3, PrefixOfConcat
<1>. QED  BY <1>3, <1>4 DEF a

-----------------------------------------------------------------------------
(* What a step without failing calls does to the generations.              *)

Up == hstate \in {"live", "faulted"}

SameHandle == Up /\ Up' /\ cfg' = cfg

\* The generations stay as they are.
Stays ==
  /\ ClosedGenerations' = ClosedGenerations
  /\ CurrentGeneration' = CurrentGeneration
  /\ accepted' = accepted

\* A record is accepted at the end of the current generation.
Grows ==
  /\ ClosedGenerations' = ClosedGenerations
  /\ \E data \in Seq(Nat) \ {<< >>} :
       /\ CurrentGeneration' = CurrentGeneration \o data
       /\ accepted' = accepted \o data

\* The oldest of max_bak_num generations is dropped.
Drops ==
  /\ ClosedGenerations # << >>
  /\ Len(ClosedGenerations) = cfg.max_bak_num
  /\ ClosedGenerations' = Tail(ClosedGenerations)
  /\ CurrentGeneration' = CurrentGeneration
  /\ accepted' = accepted

\* The current generation becomes the newest backup, if there are backups.
Rotates ==
  LET all == Append(ClosedGenerations, CurrentGeneration) IN
  /\ ClosedGenerations' = IF Len(all) <= cfg.max_bak_num THEN all
                          ELSE SubSeq(all, Len(all) - cfg.max_bak_num + 1, Len(all))
  /\ CurrentGeneration' = << >>
  /\ accepted' = accepted

\* Steps that do not enter or leave a rotation.
LEMMA ClosedSame ==
  ASSUME Up, Up',
         \A u \in Threads : \A l \in {"compress", "remove", "count", "free"} :
           pc'[u] = l <=> pc[u] = l,
         UNCHANGED <<cfg, cur_bak_num, bak>>
  PROVE  /\ ClosedGenerations' = ClosedGenerations
         /\ Moved' <=> Moved
<1>1. /\ SomeAt({"compress"})' <=> SomeAt({"compress"})
      /\ SomeAt({"remove"})' <=> SomeAt({"remove"})
      /\ SomeAt({"count", "free"})' <=> SomeAt({"count", "free"})
  BY DEF SomeAt
<1>2. Moved' <=> Moved
  BY <1>1 DEF Moved, Up
<1>3. Backups' = Backups
  BY <1>2 DEF Backups
<1>4. Kept' = Kept
  BY <1>1, <1>3 DEF Kept
<1>. QED  BY <1>2, <1>3, <1>4 DEF ClosedGenerations, Up

LEMMA QuietStays ==
  ASSUME RotationInv, NEW t \in Threads,
         \/ Call(t) \/ Lock(t) \/ Open(t) \/ CloseNull(t) \/ BackupDivides(t)
         \/ Unlock(t)
  PROVE  SameHandle /\ Stays
<1>. USE DEF RotationInv, DataInv, TypeOK, At, Goto, Return, Die, Up,
             callVars, diskVars, sizeVars, countVars
<1>1. /\ Up /\ Up'
      /\ UNCHANGED <<cfg, cur_bak_num, bak, file, buf, accepted>>
      /\ \A u \in Threads : \A l \in {"compress", "remove", "count", "free"} :
           pc'[u] = l <=> pc[u] = l
  <2>1. CASE Call(t)          BY <2>1, CallStarts
  <2>2. CASE Lock(t)          BY <2>2 DEF Lock
  <2>3. CASE Open(t)          BY <2>3 DEF Open
  <2>4. CASE CloseNull(t)     BY <2>4 DEF CloseNull
  <2>5. CASE BackupDivides(t) BY <2>5 DEF BackupDivides
  <2>6. CASE Unlock(t)        BY <2>6 DEF Unlock
  <2>. QED  BY <2>1, <2>2, <2>3, <2>4, <2>5, <2>6
<1>2. ClosedGenerations' = ClosedGenerations /\ (Moved' <=> Moved)
  BY <1>1, ClosedSame
<1>. QED  BY <1>1, <1>2 DEF SameHandle, Stays, CurrentGeneration

LEMMA WriteGrows ==
  ASSUME RotationInv, NEW t \in Threads, Write(t)
  PROVE  SameHandle /\ Grows
<1>1. /\ pc[t] = "write" /\ hstate = "live"
      /\ UNCHANGED <<cfg, hstate, cur_bak_num, bak>>
      /\ pc' = [pc EXCEPT ![t] = pc'[t]] /\ pc'[t] \in {"close", "unlock"}
      /\ Buffered(msg[t]) /\ accepted' = accepted \o msg[t]
  BY DEF Write, At, Goto, RotationInv, DataInv, TypeOK
<1>2. msg[t] \in Seq(Nat) \ {<< >>}
  BY <1>1 DEF RotationInv, DataInv, TypeOK, DoneInv
<1>3. \A u \in Threads : \A l \in {"compress", "remove", "count", "free"} :
        pc'[u] = l <=> pc[u] = l
  BY <1>1 DEF RotationInv, DataInv, TypeOK
<1>4. ClosedGenerations' = ClosedGenerations /\ (Moved' <=> Moved)
  BY <1>1, <1>3, ClosedSame DEF Up
<1>5. ~Moved
  BY <1>1, OwnerInside DEF Critical, RotationInv
<1>6. file' \o buf' = (file \o buf) \o msg[t]
  BY <1>1, <1>2, BufferedExtends DEF RotationInv, DataInv
<1>7. CurrentGeneration' = CurrentGeneration \o msg[t]
  BY <1>4, <1>5, <1>6 DEF CurrentGeneration
<1>. QED  BY <1>1, <1>2, <1>4, <1>7 DEF SameHandle, Up, Grows

LEMMA CloseStays ==
  ASSUME RotationInv, NEW t \in Threads, Close(t)
  PROVE  SameHandle /\ Stays
<1>. USE DEF RotationInv, DataInv, TypeOK
<1>1. /\ pc[t] = "close" /\ hstate = "live"
      /\ UNCHANGED <<cfg, hstate, cur_bak_num, bak, accepted>>
      /\ pc'[t] \in {"unlock", "backup", "remove"}
      /\ pc'[t] = "remove" => cfg.max_bak_num = 0
  BY DEF Close, CloseStream, At, Goto, AfterClose, sizeVars
<1>2. /\ ~Moved /\ ~(Moved')
      /\ ~SomeAt({"compress"}) /\ ~(SomeAt({"compress"})')
  <2>1. ~(cfg'.max_bak_num > 0 /\ pc'[t] = "remove")
    BY <1>1
  <2>. QED  BY <1>1, <2>1, OwnerInside DEF Critical
<1>3. Backups' = Backups
  BY <1>1, <1>2 DEF Backups
<1>4. Kept' = Kept
  BY <1>1, <1>2, <1>3 DEF Kept
<1>5. ClosedGenerations' = ClosedGenerations
  BY <1>1, <1>3, <1>4 DEF ClosedGenerations
<1>6. CurrentGeneration' = CurrentGeneration
  BY <1>2, CloseKeeps DEF CurrentGeneration
<1>. QED  BY <1>1, <1>5, <1>6 DEF SameHandle, Up, Stays

LEMMA CountStays ==
  ASSUME RotationInv, NEW t \in Threads, Count(t), faults = 0
  PROVE  SameHandle /\ Stays
<1>. USE DEF RotationInv, DataInv, TypeOK
<1>1. /\ pc[t] = "count" /\ pc'[t] = "unlock" /\ hstate = "live"
      /\ UNCHANGED <<cfg, hstate, bak, accepted, file, buf>>
      /\ cur_bak_num' = cur_bak_num + 1
  BY DEF Count, At, Goto, diskVars
<1>2. /\ Moved /\ ~(Moved')
      /\ ~SomeAt({"compress"}) /\ ~(SomeAt({"compress"})')
  BY <1>1, OwnerInside DEF Critical
<1>3. Backups' = Backups
  BY <1>1, <1>2 DEF Backups
<1>4. Kept' = Kept
  BY <1>1, <1>2, <1>3 DEF Kept
<1>5. ClosedGenerations' = ClosedGenerations
  BY <1>1, <1>3, <1>4 DEF ClosedGenerations
<1>6. file = << >> /\ buf = << >>
  BY <1>1 DEF SizeInv, StreamInv, RotateLabels
<1>7. CurrentGeneration' = CurrentGeneration
  BY <1>1, <1>2, <1>6, EmptySeq, ConcatEmptySeq DEF CurrentGeneration
<1>. QED  BY <1>1, <1>5, <1>7 DEF SameHandle, Up, Stays

-----------------------------------------------------------------------------
(* The steps of a rotation.                                                *)

\* A write to the backup with the next number touches no other.
LEMMA SlotStored ==
  ASSUME TypeOK, cfg.max_bak_num > 0, NEW x, bak' = [bak EXCEPT ![Slot] = x]
  PROVE  Stored(bak', bak, cfg.max_bak_num, cur_bak_num, x)
<1>1. Slot \in DOMAIN bak
  BY SlotInRange
<1>. QED  BY <1>1 DEF Stored, Slot, TypeOK

\* The log file that has become the newest backup.
LEMMA BackupRotates ==
  ASSUME DataInv, CopyInv, Up, Up', cfg' = cfg, cur_bak_num' = cur_bak_num,
         accepted' = accepted, cfg.max_bak_num > 0, ~Moved, Moved',
         ~(SomeAt({"compress"})'),
         Stored(bak', bak, cfg.max_bak_num, cur_bak_num, CurrentGeneration)
  PROVE  Rotates
<1>1. PICK n \in Nat \ {0} : n = cfg.max_bak_num
  BY ConfigTyped DEF DataInv
<1>2. PICK b \in Nat : b = cur_bak_num
  BY DEF DataInv, TypeOK
<1>3. PICK k \in Nat : k = Kept
  BY KeptTyped
<1>. DEFINE s == Queue(bak, n, b, k)
            x == CurrentGeneration
<1>4. Backups = b /\ Backups' = b + 1 /\ k <= b /\ k <= n
  BY <1>1, <1>2, <1>3, KeptTyped DEF Backups
<1>5. ClosedGenerations = s
  BY <1>1, <1>3, <1>4, ClosedQueue DEF Up
<1>6. Kept' = IF k + 1 <= n THEN k + 1 ELSE n
  BY <1>1, <1>2, <1>3, <1>4 DEF Kept
<1>7. ClosedGenerations' = Queue(bak', n, b + 1, Kept')
  BY <1>1, <1>4 DEF ClosedGenerations, Queue, Up
<1>8. x \in Seq(Nat) /\ Stored(bak', bak, n, b, x)
  BY <1>1, <1>2, ClosedTyped
<1>. HIDE DEF x
<1>9. ASSUME k + 1 <= n
      PROVE  Queue(bak', n, b + 1, k + 1) = Append(s, x)
  BY <1>4, <1>8, <1>9, QueueGrows
<1>10. Len(Append(s, x)) = k + 1
  <2>1. s \in Seq(Seq(Nat))
    BY <1>1, <1>3, <1>4, ClosedQueue
  <2>2. Len(s) = k
    BY QueueLength
  <2>. HIDE DEF s
  <2>. QED  BY <1>8, <2>1, <2>2, AppendProperties
<1>11. ClosedGenerations' = IF Len(Append(s, x)) <= n THEN Append(s, x)
                            ELSE SubSeq(Append(s, x), Len(Append(s, x)) - n + 1,
                                        Len(Append(s, x)))
  <2>1. CASE k + 1 <= n
    BY <1>6, <1>7, <1>9, <1>10, <2>1
  <2>2. CASE ~(k + 1 <= n)
    <3>1. k = n /\ Kept' = n /\ n <= b /\ Len(Append(s, x)) = n + 1
      BY <1>4, <1>6, <1>10, <2>2
    <3>2. Queue(bak', n, b + 1, n) = SubSeq(Append(Queue(bak, n, b, n), x), 2, n + 1)
      BY <1>8, <3>1, QueueTurns
    <3>3. /\ ClosedGenerations' = SubSeq(Append(s, x), 2, n + 1)
          /\ n + 1 - n + 1 = 2
      BY <1>7, <3>1, <3>2
    <3>. QED  BY <2>2, <3>1, <3>3
  <2>. QED  BY <2>1, <2>2
<1>12. CurrentGeneration' = << >>
  BY DEF CurrentGeneration
<1>. QED  BY <1>1, <1>5, <1>11, <1>12 DEF Rotates, x

LEMMA RenameRotates ==
  ASSUME RotationInv, NEW t \in Threads, Rename(t)
  PROVE  SameHandle /\ Rotates
<1>1. /\ pc[t] = "backup" /\ hstate = "live" /\ hstate' = "live"
      /\ cfg.max_bak_num > 0
      /\ UNCHANGED <<cfg, cur_bak_num, accepted>>
      /\ pc'[t] \in {"count", "free"}
      /\ bak' = [bak EXCEPT ![Slot] = file]
  BY DEF Rename, At, Goto, AfterBackup, RotationInv, DataInv, TypeOK, sizeVars
<1>2. /\ ~Moved /\ Moved' /\ ~(SomeAt({"compress"})')
  BY <1>1, OwnerInside DEF Critical, RotationInv
<1>3. CurrentGeneration = file
  <2>1. buf = << >> /\ file \in Seq(Nat)
    BY <1>1 DEF RotationInv, DataInv, StreamInv, RotateLabels, TypeOK
  <2>. QED  BY <1>2, <2>1, ConcatEmptySeq DEF CurrentGeneration
<1>4. Stored(bak', bak, cfg.max_bak_num, cur_bak_num, file)
  BY <1>1, SlotStored DEF RotationInv, DataInv
<1>. QED
  BY <1>1, <1>2, <1>3, <1>4, BackupRotates DEF RotationInv, Up, SameHandle

LEMMA CompressRotates ==
  ASSUME RotationInv, NEW t \in Threads, Compress(t)
  PROVE  SameHandle /\ Rotates
<1>1. /\ pc[t] = "compress" /\ hstate = "live" /\ hstate' = "live"
      /\ cfg.max_bak_num > 0 /\ cfg.compress
      /\ UNCHANGED <<cfg, cur_bak_num, accepted>>
      /\ pc'[t] = "remove"
      /\ bak' = [bak EXCEPT ![Slot] = file]
  BY DEF Compress, At, Goto, RotationInv, DataInv, CopyInv, TypeOK, sizeVars
<1>2. /\ ~Moved /\ Moved' /\ ~(SomeAt({"compress"})')
  BY <1>1, OwnerInside DEF Critical, RotationInv
<1>3. CurrentGeneration = file
  <2>1. buf = << >> /\ file \in Seq(Nat)
    BY <1>1 DEF RotationInv, DataInv, StreamInv, RotateLabels, TypeOK
  <2>. QED  BY <1>2, <2>1, ConcatEmptySeq DEF CurrentGeneration
<1>4. Stored(bak', bak, cfg.max_bak_num, cur_bak_num, file)
  BY <1>1, SlotStored DEF RotationInv, DataInv
<1>. QED
  BY <1>1, <1>2, <1>3, <1>4, BackupRotates DEF RotationInv, Up, SameHandle

\* The compressor truncates the oldest of max_bak_num backups, or a file that
\* is no backup of this handle.
LEMMA CompressOpenDrops ==
  ASSUME RotationInv, NEW t \in Threads, CompressOpen(t)
  PROVE  SameHandle /\ (Stays \/ Drops)
<1>1. /\ pc[t] = "backup" /\ hstate = "live" /\ hstate' = "live"
      /\ cfg.max_bak_num > 0
      /\ UNCHANGED <<cfg, cur_bak_num, accepted, file, buf>>
      /\ pc'[t] = "compress"
      /\ bak' = [bak EXCEPT ![Slot] = << >>]
  BY DEF CompressOpen, At, Goto, RotationInv, DataInv, TypeOK, sizeVars
<1>2. /\ ~Moved /\ ~(Moved')
      /\ ~SomeAt({"compress"}) /\ SomeAt({"compress"})'
  BY <1>1, OwnerInside DEF Critical, RotationInv
<1>3. PICK n \in Nat \ {0} : n = cfg.max_bak_num
  BY <1>1, ConfigTyped DEF RotationInv, DataInv
<1>4. PICK b \in Nat : b = cur_bak_num
  BY DEF RotationInv, DataInv, TypeOK
<1>5. Stored(bak', bak, n, b, << >>)
  BY <1>1, <1>3, <1>4, SlotStored DEF RotationInv, DataInv
<1>6. CurrentGeneration' = CurrentGeneration
  BY <1>1, <1>2 DEF CurrentGeneration
<1>7. Backups = b /\ Backups' = b
  BY <1>1, <1>2, <1>4 DEF Backups
<1>8. ClosedGenerations = Queue(bak, n, b, Kept)
  BY <1>1, <1>3, <1>7, ClosedQueue DEF RotationInv
<1>9. ClosedGenerations' = Queue(bak', n, b, Kept')
  BY <1>1, <1>3, <1>7 DEF ClosedGenerations, Queue
<1>10. CASE b < n
  <2>1. Kept = b /\ Kept' = b
    BY <1>1, <1>2, <1>3, <1>7, <1>10 DEF Kept
  <2>2. Queue(bak', n, b, b) = Queue(bak, n, b, b)
    <3>1. b <= b
      OBVIOUS
    <3>. QED  BY <1>5, <1>10, <3>1, QueueKeeps
  <2>. QED
    BY <1>1, <1>6, <1>8, <1>9, <2>1, <2>2 DEF Up, SameHandle, Stays
<1>11. CASE n <= b
  <2>1. Kept = n /\ Kept' = n - 1
    BY <1>1, <1>2, <1>3, <1>7, <1>11 DEF Kept
  <2>2. Queue(bak', n, b, n - 1) = Tail(Queue(bak, n, b, n))
    BY <1>5, <1>11, QueueDrops
  <2>3. Len(Queue(bak, n, b, n)) = n
    BY QueueLength
  <2>4. ClosedGenerations # << >>
    BY <1>8, <2>1, <2>3, EmptySeq
  <2>. QED
    BY <1>1, <1>3, <1>6, <1>8, <1>9, <2>1, <2>2, <2>3, <2>4
       DEF Up, SameHandle, Drops
<1>. QED  BY <1>10, <1>11

\* The source of the compressed backup is removed, or the log file itself
\* where no backups are kept.
LEMMA RemoveRotates ==
  ASSUME RotationInv, NEW t \in Threads, RemoveFile(t), faults = 0
  PROVE  SameHandle /\ (Stays \/ (cfg.max_bak_num = 0 /\ Rotates))
<1>. USE DEF RotationInv
<1>1. /\ pc[t] = "remove" /\ hstate = "live" /\ hstate' = "live"
      /\ UNCHANGED <<cfg, cur_bak_num, accepted, bak, buf>>
      /\ pc'[t] \in {"count", "free"}
  BY DEF RemoveFile, At, Goto, AfterBackup, DataInv, TypeOK, sizeVars
<1>2. /\ ~SomeAt({"compress"}) /\ ~(SomeAt({"compress"})') /\ Moved'
      /\ Moved <=> cfg.compress /\ cfg.max_bak_num > 0
  BY <1>1, OwnerInside DEF Critical
<1>3. CASE cfg.max_bak_num > 0
  <2>1. Moved
    BY <1>1, <1>2, <1>3 DEF CopyInv
  <2>2. Backups' = Backups
    BY <1>1, <1>2, <2>1 DEF Backups
  <2>3. Kept' = Kept
    BY <1>1, <1>2, <2>2 DEF Kept
  <2>4. ClosedGenerations' = ClosedGenerations
    BY <1>1, <2>2, <2>3 DEF ClosedGenerations
  <2>5. CurrentGeneration' = CurrentGeneration
    BY <1>2, <2>1 DEF CurrentGeneration
  <2>. QED  BY <1>1, <2>4, <2>5 DEF SameHandle, Up, Stays
<1>4. CASE cfg.max_bak_num = 0
  <2>1. Kept = 0 /\ Kept' = 0
    <3>1. Backups \in Nat /\ Backups' \in Nat
      BY <1>1 DEF Backups, DataInv, TypeOK
    <3>. QED  BY <1>1, <1>2, <1>4, <3>1 DEF Kept
  <2>2. \A f, n, b : Queue(f, n, b, 0) = << >>
    <3>1. \A f, n, b : /\ Queue(f, n, b, 0) \in Seq(Nat)
                       /\ Len(Queue(f, n, b, 0)) = 0
      BY FunctionIsSeq DEF Queue
    <3>. QED  BY <3>1, EmptySeq
  <2>3. ClosedGenerations = << >> /\ ClosedGenerations' = << >>
    BY <1>1, <2>1, <2>2 DEF ClosedGenerations, Queue
  <2>. DEFINE all == Append(<< >>, CurrentGeneration)
  <2>4. Len(all) = 1 /\ all \in Seq(Seq(Nat))
    BY ClosedTyped, EmptySeq, AppendProperties
  <2>5. SubSeq(all, 2, 1) = << >>
    <3>1. 1 <= Len(all) /\ 2 <= 1 + 1 /\ (1 + 1) - 2 = 0
      BY <2>4
    <3>. HIDE DEF all
    <3>2. SubSeq(all, 2, 1) \in Seq(Seq(Nat)) /\ Len(SubSeq(all, 2, 1)) = 0
      BY <2>4, <3>1, Slice
    <3>. QED  BY <3>2, EmptySeq
  <2>6. CurrentGeneration' = << >>
    BY <1>2 DEF CurrentGeneration
  <2>. QED
    BY <1>1, <1>4, <2>3, <2>4, <2>5, <2>6 DEF SameHandle, Up, Rotates
<1>5. cfg.max_bak_num \in Nat
  BY ConfigTyped DEF DataInv
<1>. QED  BY <1>3, <1>4, <1>5

-----------------------------------------------------------------------------
(* The end of a handle and the next one.                                   *)

LEMMA FreeCloses ==
  ASSUME RotationInv, NEW t \in Threads, Free(t)
  PROVE  /\ Up /\ hstate' = "freed" /\ cfg' = cfg
         /\ Stays
<1>1. /\ pc[t] = "free" /\ hstate = "live" /\ hstate' = "freed"
      /\ UNCHANGED <<cfg, cur_bak_num, accepted, bak>>
      /\ pc'[t] = "idle"
  BY DEF Free, At, Return, RotationInv, DataInv, TypeOK, sizeVars, diskVars
<1>2. Moved /\ Moved' /\ ~SomeAt({"compress"}) /\ ~(SomeAt({"compress"})')
  BY <1>1, OwnerInside DEF Critical, RotationInv
<1>3. Backups' = Backups
  BY <1>1, <1>2 DEF Backups
<1>4. Kept' = Kept
  BY <1>1, <1>2, <1>3 DEF Kept
<1>5. ClosedGenerations' = ClosedGenerations
  BY <1>1, <1>3, <1>4 DEF ClosedGenerations
<1>6. CurrentGeneration' = CurrentGeneration
  BY <1>2 DEF CurrentGeneration
<1>. QED  BY <1>1, <1>5, <1>6 DEF Up, Stays

\* A crash inside of a rotation finds a log file that is empty, or that has
\* just been compressed into the newest backup.
LEMMA CrashShows ==
  ASSUME RotationInv, Crash, faults = 0
  PROVE  /\ Up /\ hstate' = "down" /\ cfg' = cfg
         /\ ClosedGenerations' = << >>
         /\ \/ IsPrefix(CurrentGeneration', CurrentGeneration)
            \/ /\ ClosedGenerations # << >>
               /\ CurrentGeneration' = Last(ClosedGenerations)
<1>. USE DEF RotationInv, DataInv
<1>1. /\ Up /\ hstate' = "down" /\ buf' = << >>
      /\ pc' = [u \in Threads |-> "idle"]
      /\ UNCHANGED <<cfg, cur_bak_num, bak>>
  BY DEF Crash, Up, sizeVars
<1>2. PICK k \in 0..Len(buf) : file' = file \o SubSeq(buf, 1, k)
  BY DEF Crash
<1>3. ~(Moved')
  BY <1>1 DEF Moved, SomeAt
<1>4. CurrentGeneration' = file'
  <2>1. file' \in Seq(Nat)
    BY <1>2, DrainTyped DEF TypeOK
  <2>. QED  BY <1>1, <1>3, <2>1, ConcatEmptySeq DEF CurrentGeneration
<1>5. ClosedGenerations' = << >>
  BY <1>1 DEF ClosedGenerations
<1>6. CASE ~Moved
  <2>1. IsPrefix(CurrentGeneration', CurrentGeneration)
    BY <1>2, <1>4, <1>6, CrashKeepsPrefix DEF CurrentGeneration
  <2>. QED  BY <1>1, <1>5, <2>1
<1>7. CASE SomeAt({"count", "free"})
  <2>1. PICK u \in Threads : pc[u] \in {"count", "free"}
    BY <1>7 DEF SomeAt
  <2>2. file = << >> /\ buf = << >>
    BY <2>1 DEF SizeInv, StreamInv, RotateLabels
  <2>3. ~Moved \/ CurrentGeneration = << >>
    BY DEF CurrentGeneration
  <2>4. file \o buf = << >>
    BY <2>2, EmptySeq, ConcatEmptySeq
  <2>5. CurrentGeneration = file \o buf
    BY <2>3, <2>4 DEF CurrentGeneration
  <2>6. IsPrefix(CurrentGeneration', CurrentGeneration)
    BY <1>2, <1>4, <2>5, CrashKeepsPrefix
  <2>. QED  BY <1>1, <1>5, <2>6
<1>8. CASE cfg.compress /\ cfg.max_bak_num > 0 /\ SomeAt({"remove"})
  <2>1. PICK u \in Threads : pc[u] = "remove"
    BY <1>8 DEF SomeAt
  <2>2. buf = << >> /\ bak[Slot] = file
    BY <1>8, <2>1 DEF StreamInv, RotateLabels, CopyInv
  <2>3. file' = file
    <3>1. SubSeq(buf, 1, k) = << >>
      BY <1>2, <2>2, EmptySeq, DrainTyped, Slice
    <3>. QED  BY <1>2, <3>1, ConcatEmptySeq DEF TypeOK
  <2>4. PICK n \in Nat \ {0} : n = cfg.max_bak_num
    BY <1>8, ConfigTyped
  <2>5. PICK b \in Nat : b = cur_bak_num
    BY DEF TypeOK
  <2>6. Moved /\ Backups = b + 1
    BY <1>8, <2>5 DEF Moved, Backups
  <2>7. ~SomeAt({"compress"})
    BY <2>1, LogFileAssumption DEF SomeAt, MutexInv, LockDiscipline, InCritical,
                                   StepLabels
  <2>8. Kept \in Nat \ {0} /\ Kept <= b + 1
    BY <2>4, <2>6, <2>7 DEF Kept
  <2>9. PICK m \in Nat \ {0} : m = Kept
    BY <2>8
  <2>10. ClosedGenerations = Queue(bak, n, b + 1, m)
    BY <1>1, <2>4, <2>6, <2>9, ClosedQueue DEF Up
  <2>11. Len(ClosedGenerations) = m
    BY <2>10, QueueLength
  <2>12. ClosedGenerations[m] = bak[b % n]
    <3>1. b + 1 - m + m - 1 = b
      OBVIOUS
    <3>2. ClosedGenerations[m] = bak[(b + 1 - m + m - 1) % n]
      BY <2>10 DEF Queue
    <3>. QED  BY <3>1, <3>2
  <2>13. ClosedGenerations # << >> /\ Last(ClosedGenerations) = file
    BY <2>2, <2>4, <2>5, <2>11, <2>12, EmptySeq DEF Last, Slot
  <2>. QED  BY <1>1, <1>4, <1>5, <2>3, <2>13
<1>9. hstate # "freed"
  BY <1>1 DEF Up
<1>. QED  BY <1>6, <1>7, <1>8, <1>9 DEF Moved

\* A new handle finds the log file and counts its backups from 0.
LEMMA CreateReopens ==
  ASSUME RotationInv, Create, faults = 0
  PROVE  /\ ~Up /\ Up' /\ cfg' = cfg
         /\ ClosedGenerations' = << >>
         /\ CurrentGeneration' = CurrentGeneration
<1>. USE DEF RotationInv, DataInv
<1>1. /\ hstate \in {"freed", "down"} /\ hstate' = "live" /\ cur_bak_num' = 0
      /\ UNCHANGED <<cfg, pc, buf, file, bak>>
  BY DEF Create, callVars, diskVars
<1>2. \A u \in Threads : pc[u] \notin StepLabels
  BY <1>1, LogFileAssumption DEF MutexInv, LockDiscipline, InCritical
<1>3. /\ ~(Moved') /\ ~(SomeAt({"compress"})')
      /\ Moved <=> hstate = "freed"
  BY <1>1, <1>2 DEF Moved, SomeAt, StepLabels
<1>4. Kept' = 0
  <2>1. cfg.max_bak_num \in Nat /\ Backups' = 0
    BY <1>1, <1>3, ConfigTyped DEF Backups
  <2>. QED  BY <1>1, <1>3, <2>1 DEF Kept
<1>5. ClosedGenerations' = << >>
  <2>1. ClosedGenerations' = Queue(bak', cfg'.max_bak_num, Backups', 0)
    BY <1>1, <1>4 DEF ClosedGenerations, Queue
  <2>2. \A f, n, b : /\ Queue(f, n, b, 0) \in Seq(Nat)
                     /\ Len(Queue(f, n, b, 0)) = 0
    BY FunctionIsSeq DEF Queue
  <2>. QED  BY <2>1, <2>2, EmptySeq
<1>6. CurrentGeneration' = CurrentGeneration
  <2>1. CASE hstate = "freed"
    <3>1. file = << >> /\ buf = << >>
      BY <2>1 DEF DoneInv, StreamInv
    <3>2. file \o buf = << >>
      BY <3>1, EmptySeq, ConcatEmptySeq
    <3>. QED  BY <1>1, <1>3, <2>1, <3>2 DEF CurrentGeneration
  <2>2. CASE hstate # "freed"
    BY <1>1, <1>3, <2>2 DEF CurrentGeneration
  <2>. QED  BY <2>1, <2>2
<1>. QED  BY <1>1, <1>5, <1>6 DEF Up

\* The steps that fail a library call count it.
LEMMA FailuresCounted ==
  ASSUME RotationInv, NEW t \in Threads,
         \/ OpenFails(t) \/ WriteFails(t) \/ CloseFails(t) \/ RenameFails(t)
         \/ CompressOpenFails(t) \/ CompressFails(t) \/ RemoveFails(t)
  PROVE  faults' # 0
BY DEF OpenFails, WriteFails, CloseFails, RenameFails, CompressOpenFails,
       CompressFails, RemoveFails, Fault, RotationInv, DataInv, TypeOK

\* What a thread does, without failing calls.
LEMMA ThreadStep ==
  ASSUME RotationInv, NEW t \in Threads, Call(t) \/ Lock(t) \/ Critical(t),
         faults = 0, faults' = 0
  PROVE  \/ SameHandle /\ (Stays \/ Grows \/ Drops \/ Rotates)
         \/ Up /\ hstate' = "freed" /\ cfg' = cfg /\ Stays
<1>1. CASE \/ Call(t) \/ Lock(t) \/ Open(t) \/ CloseNull(t) \/ BackupDivides(t)
           \/ Unlock(t)
  BY <1>1, QuietStays
<1>. QED
  BY <1>1, FailuresCounted, WriteGrows, CloseStays, CountStays, RenameRotates,
     CompressRotates, CompressOpenDrops, RemoveRotates, FreeCloses DEF Critical

-----------------------------------------------------------------------------
(* The refinement.                                                         *)

LEMMA UnchangedStays ==
  ASSUME UNCHANGED vars
  PROVE  Stays /\ cfg' = cfg /\ hstate' = hstate
<1>1. SomeAt({"compress"})' = SomeAt({"compress"}) /\ Moved' = Moved
  BY DEF vars, callVars, SomeAt, Moved
<1>2. Backups' = Backups /\ Kept' = Kept
  BY <1>1 DEF vars, sizeVars, Backups, Kept
<1>. QED
  BY <1>1, <1>2 DEF vars, diskVars, Stays, ClosedGenerations, CurrentGeneration

LEMMA StaysRefines ==
  ASSUME cfg' = cfg, Up' <=> Up, Stays
  PROVE  UNCHANGED Rotating!logVars
BY DEF Stays, Up, Rotating!logVars

LEMMA GrowsRefines ==
  ASSUME RotationInv, SameHandle, Grows
  PROVE  Rotating!Extend
<1>1. PICK data \in Seq(Nat) \ {<< >>} :
        CurrentGeneration' = CurrentGeneration \o data
  BY DEF Grows
<1>2. CurrentGeneration \in Seq(Nat)
  BY ClosedTyped DEF RotationInv
<1>3. IsStrictPrefix(CurrentGeneration, CurrentGeneration')
  BY <1>1, <1>2, PrefixOfConcat
<1>4. Rotating!IsStrictPrefix(CurrentGeneration, CurrentGeneration')
  BY <1>3 DEF IsStrictPrefix, IsPrefix, Rotating!IsStrictPrefix, Rotating!IsPrefix
<1>. QED  BY <1>4 DEF Grows, SameHandle, Up, Rotating!Extend

LEMMA RotatesRefines ==
  ASSUME SameHandle, Rotates
  PROVE  Rotating!Rotate
BY DEF SameHandle, Up, Rotates, Rotating!Rotate, Rotating!Newest

LEMMA DropsRefines ==
  ASSUME SameHandle, Drops
  PROVE  Rotating!DropOldest
BY DEF SameHandle, Up, Drops, Rotating!DropOldest

LEMMA CrashRefines ==
  ASSUME RotationInv, Crash, faults = 0
  PROVE  Rotating!Crash
<1>1. \A r, s : Rotating!IsPrefix(r, s) <=> IsPrefix(r, s)
  BY DEF IsPrefix, Rotating!IsPrefix
<1>2. \A s : Rotating!Last(s) = Last(s)
  BY DEF Last, Rotating!Last
<1>. QED  BY <1>1, <1>2, CrashShows DEF Up, Rotating!Crash

LEMMA NextRefines ==
  ASSUME RotationInv, [Next]_vars, faults = 0, faults' = 0
  PROVE  [Rotating!Next]_(Rotating!logVars)
<1>1. ASSUME NEW t \in Threads, Call(t) \/ Lock(t) \/ Critical(t)
      PROVE  Rotating!Next \/ UNCHANGED Rotating!logVars
  <2>1. CASE SameHandle /\ (Stays \/ Grows \/ Drops \/ Rotates)
    BY <2>1, StaysRefines, GrowsRefines, DropsRefines, RotatesRefines
       DEF SameHandle, Rotating!Next
  <2>2. CASE Up /\ hstate' = "freed" /\ cfg' = cfg /\ Stays
    BY <2>2 DEF Up, Stays, Rotating!Next, Rotating!Close
  <2>. QED  BY <1>1, <2>1, <2>2, ThreadStep
<1>2. CASE Crash
  BY <1>2, CrashRefines DEF Rotating!Next
<1>3. CASE Create
  BY <1>3, CreateReopens DEF Up, Rotating!Next, Rotating!Reopen
<1>4. CASE UNCHANGED vars
  BY <1>4, UnchangedStays, StaysRefines DEF Up
<1>. QED  BY <1>1, <1>2, <1>3, <1>4 DEF Next

\* Without failing library calls the handle is a rotating log: whatever the
\* threads, the sizes, the number of backups, the compressor, the deaths of
\* the process and the new handles, records are added at the end of the
\* current generation, generations are closed and dropped oldest first, and
\* only the most recent max_bak_num are kept.
THEOREM HandleIsRotatingLog ==
  Spec /\ [](faults = 0) => ImplementsRotatingLog
<1>1. Init => Rotating!Init
  BY InitRefines
<1>2. /\ RotationInv /\ faults = 0 /\ (faults = 0)'
      /\ [Next]_vars
      => [Rotating!Next]_(Rotating!logVars)
  BY NextRefines
<1>. QED
  BY <1>1, <1>2, RotationInvariant, PTL
     DEF Spec, ImplementsRotatingLog, Rotating!Spec

-----------------------------------------------------------------------------
(* What is retained is the end of what was accepted.                       *)

\* A thread does not count deaths or handles, and no failure is forgotten.
LEMMA CountersKept ==
  ASSUME RotationInv, NEW t \in Threads, Call(t) \/ Lock(t) \/ Critical(t)
  PROVE  /\ sessions' = sessions /\ crashes' = crashes
         /\ faults' = 0 => faults = 0
<1>. USE DEF countVars
<1>1. CASE Call(t)
  BY <1>1 DEF Call, CallWrite, CallFlush, CallDestroy
<1>2. CASE Lock(t)
  BY <1>2 DEF Lock
<1>3. CASE Critical(t)
  <2>1. CASE \/ OpenFails(t) \/ WriteFails(t) \/ CloseFails(t) \/ RenameFails(t)
             \/ CompressOpenFails(t) \/ CompressFails(t) \/ RemoveFails(t)
    BY <2>1, FailuresCounted DEF OpenFails, WriteFails, CloseFails, CloseStream,
         RenameFails, CompressOpenFails, CompressFails, RemoveFails
  <2>2. CASE \/ Open(t) \/ Write(t) \/ Close(t) \/ CloseNull(t)
             \/ BackupDivides(t) \/ Rename(t) \/ CompressOpen(t) \/ Compress(t)
             \/ RemoveFile(t) \/ Count(t) \/ Free(t) \/ Unlock(t)
    BY <2>2 DEF Open, Write, Close, CloseStream, CloseNull, BackupDivides,
         Rename, CompressOpen, Compress, RemoveFile, Count, Free, Unlock
  <2>. QED  BY <1>3, <2>1, <2>2 DEF Critical
<1>. QED  BY <1>1, <1>2, <1>3

\* Of Rotates: either all generations stay, or the oldest one goes.
LEMMA RotatesDropsOne ==
  ASSUME RotationInv, Up, Rotates
  PROVE  LET all == Append(ClosedGenerations, CurrentGeneration) IN
         /\ all \in Seq(Seq(Nat)) /\ all # << >>
         /\ Len(all) = Len(ClosedGenerations) + 1
         /\ \/ Len(all) <= cfg.max_bak_num /\ ClosedGenerations' = all
            \/ /\ Len(all) = cfg.max_bak_num + 1
               /\ ClosedGenerations' = Tail(all)
<1>. DEFINE s == ClosedGenerations
            all == Append(s, CurrentGeneration)
<1>1. s \in Seq(Seq(Nat)) /\ CurrentGeneration \in Seq(Nat)
  BY ClosedTyped DEF RotationInv
<1>2. PICK n \in Nat : n = cfg.max_bak_num
  BY ConfigTyped DEF RotationInv, DataInv
<1>3. Len(s) \in Nat /\ Len(s) <= n
  <2>1. PICK k \in Nat : k = Kept /\ k <= n
    BY <1>2, KeptTyped DEF RotationInv
  <2>2. ClosedGenerations = Queue(bak, cfg.max_bak_num, Backups, k)
    BY <2>1, ClosedQueue DEF RotationInv, Up
  <2>3. Len(ClosedGenerations) = k
    BY <2>2, QueueLength
  <2>. QED  BY <2>1, <2>3
<1>4. s' = IF Len(all) <= n THEN all ELSE SubSeq(all, Len(all) - n + 1, Len(all))
  BY <1>2 DEF Rotates
<1>. HIDE DEF s
<1>5. /\ all \in Seq(Seq(Nat)) /\ all # << >> /\ Len(all) = Len(s) + 1
  BY <1>1, AppendProperties
<1>6. CASE Len(all) <= n
  BY <1>2, <1>4, <1>5, <1>6 DEF s
<1>7. CASE ~(Len(all) <= n)
  <2>. HIDE DEF all
  <2>1. PICK m \in Nat \ {0} : m = Len(all)
    BY <1>3, <1>5
  <2>2. m = n + 1 /\ m - n + 1 = 2
    BY <1>3, <1>5, <1>7, <2>1
  <2>3. SubSeq(all, 2, m) = Tail(all)
    <3>1. 1 \in 1..Len(all) /\ m \in 1..Len(all)
      BY <2>1
    <3>2. Tail(SubSeq(all, 1, m)) = SubSeq(all, 1 + 1, m)
      BY <1>5, <3>1, HeadTailOfSubSeq
    <3>3. SubSeq(all, 1, m) = all
      BY <1>5, <2>1, SubSeqFull
    <3>. QED  BY <3>2, <3>3
  <2>4. s' = Tail(all)
    BY <1>4, <1>7, <2>1, <2>2, <2>3
  <2>. QED  BY <1>2, <1>5, <2>1, <2>2, <2>4 DEF s, all
<1>. QED  BY <1>6, <1>7

\* What was dropped, with what is retained, is what was accepted.
SuffixInv ==
  /\ sessions # 0
  /\ sessions = 1 /\ crashes = 0 /\ faults = 0 =>
       \E dropped \in Seq(Nat) : accepted = dropped \o Retained

LEMMA RetainedTyped ==
  ASSUME RotationInv
  PROVE  /\ ClosedGenerations \in Seq(Seq(Nat))
         /\ FlattenSeq(ClosedGenerations) \in Seq(Nat)
         /\ CurrentGeneration \in Seq(Nat)
         /\ Retained \in Seq(Nat)
<1>1. ClosedGenerations \in Seq(Seq(Nat)) /\ CurrentGeneration \in Seq(Nat)
  BY ClosedTyped DEF RotationInv
<1>2. FlattenSeq(ClosedGenerations) \in Seq(Nat)
  BY <1>1, FlattenTyped
<1>. QED  BY <1>1, <1>2, ConcatProperties DEF Retained

\* What a step does to what is retained.
LEMMA RetainedSteps ==
  ASSUME RotationInv, RotationInv'
  PROVE  /\ Stays => Retained' = Retained
         /\ Grows => \E data \in Seq(Nat) : /\ Retained' = Retained \o data
                                            /\ accepted' = accepted \o data
         /\ Drops => \E oldest \in Seq(Nat) : Retained = oldest \o Retained'
         /\ Up /\ Rotates =>
              \/ Retained' = Retained
              \/ /\ Len(ClosedGenerations) = cfg.max_bak_num
                 /\ \E oldest \in Seq(Nat) : Retained = oldest \o Retained'
<1>. DEFINE s == ClosedGenerations
            c == CurrentGeneration
            f == FlattenSeq(s)
<1>1. s \in Seq(Seq(Nat)) /\ f \in Seq(Nat) /\ c \in Seq(Nat)
  BY RetainedTyped
<1>2. Retained = f \o c /\ Retained' = FlattenSeq(s') \o c'
  BY DEF Retained
<1>3. ASSUME Stays PROVE Retained' = Retained
  BY <1>3 DEF Stays, Retained
<1>4. ASSUME Grows
      PROVE  \E data \in Seq(Nat) : /\ Retained' = Retained \o data
                                    /\ accepted' = accepted \o data
  <2>1. PICK data \in Seq(Nat) \ {<< >>} : /\ c' = c \o data /\ s' = s
                                           /\ accepted' = accepted \o data
    BY <1>4 DEF Grows
  <2>2. FlattenSeq(s') = f
    BY <2>1
  <2>. HIDE DEF s, c, f
  <2>3. f \o (c \o data) = (f \o c) \o data
    <3>1. \A u \in Seq(Nat), v \in Seq(Nat) : (f \o u) \o v = f \o (u \o v)
      BY <1>1, ConcatUnits, Zenon
    <3>. QED  BY <1>1, <3>1, Zenon
  <2>. QED  BY <1>2, <2>1, <2>2, <2>3
<1>5. ASSUME Drops
      PROVE  \E oldest \in Seq(Nat) : Retained = oldest \o Retained'
  <2>1. s # << >> /\ s' = Tail(s) /\ c' = c
    BY <1>5 DEF Drops
  <2>2. f = Head(s) \o FlattenSeq(Tail(s)) /\ Head(s) \in Seq(Nat)
    <3>. HIDE DEF s
    <3>. QED  BY <1>1, <2>1, FlattenTail, HeadTailProperties
  <2>3. FlattenSeq(Tail(s)) \in Seq(Nat)
    <3>. HIDE DEF s
    <3>1. Tail(s) \in Seq(Seq(Nat))
      BY <1>1, <2>1, HeadTailProperties
    <3>. QED  BY <3>1, FlattenTyped
  <2>. DEFINE h == Head(s)
              g == FlattenSeq(Tail(s))
  <2>4. (h \o g) \o c = h \o (g \o c)
    <3>1. h \in Seq(Nat) /\ g \in Seq(Nat) /\ c \in Seq(Nat)
      BY <1>1, <2>2, <2>3
    <3>. HIDE DEF h, g, c
    <3>2. \A u \in Seq(Nat), v \in Seq(Nat) : (h \o u) \o v = h \o (u \o v)
      BY <3>1, ConcatUnits, Zenon
    <3>. QED  BY <3>1, <3>2, Zenon
  <2>. QED  BY <1>2, <2>1, <2>2, <2>4
<1>6. ASSUME Up, Rotates
      PROVE  \/ Retained' = Retained
             \/ /\ Len(ClosedGenerations) = cfg.max_bak_num
                /\ \E oldest \in Seq(Nat) : Retained = oldest \o Retained'
  <2>. DEFINE all == Append(s, c)
  <2>1. /\ all \in Seq(Seq(Nat)) /\ all # << >> /\ Len(all) = Len(s) + 1
        /\ \/ s' = all
           \/ Len(all) = cfg.max_bak_num + 1 /\ s' = Tail(all)
    BY <1>6, RotatesDropsOne
  <2>2. FlattenSeq(all) = f \o c
    <3>. HIDE DEF s, c
    <3>. QED  BY <1>1, FlattenAppend DEF f
  <2>3. c' = << >>
    BY <1>6 DEF Rotates
  <2>4. ASSUME s' = all PROVE Retained' = Retained
    <3>1. Retained \in Seq(Nat)
      BY RetainedTyped
    <3>2. FlattenSeq(s') = Retained
      BY <1>2, <2>2, <2>4
    <3>. QED  BY <1>2, <2>3, <3>1, <3>2, ConcatEmptySeq
  <2>5. ASSUME Len(all) = cfg.max_bak_num + 1, s' = Tail(all)
        PROVE  /\ Len(s) = cfg.max_bak_num
               /\ \E oldest \in Seq(Nat) : Retained = oldest \o Retained'
    <3>1. Len(s) = cfg.max_bak_num
      <4>1. cfg.max_bak_num \in Nat /\ Len(s) \in Nat
        BY <1>1, LenProperties, ConfigTyped DEF RotationInv, DataInv
      <4>. QED  BY <2>1, <2>5, <4>1
    <3>2. FlattenSeq(all) = Head(all) \o FlattenSeq(Tail(all)) /\ Head(all) \in Seq(Nat)
      <4>. HIDE DEF all
      <4>. QED  BY <2>1, FlattenTail, HeadTailProperties
    <3>3. FlattenSeq(Tail(all)) \in Seq(Nat)
      <4>. HIDE DEF all
      <4>1. Tail(all) \in Seq(Seq(Nat))
        BY <2>1, HeadTailProperties
      <4>. QED  BY <4>1, FlattenTyped
    <3>4. Retained' = FlattenSeq(Tail(all))
      <4>1. FlattenSeq(s') = FlattenSeq(Tail(all))
        BY <2>5
      <4>. QED  BY <1>2, <2>3, <3>3, <4>1, ConcatEmptySeq
    <3>5. Retained = Head(all) \o Retained'
      BY <1>2, <2>2, <3>2, <3>4
    <3>. QED  BY <3>1, <3>2, <3>5
  <2>. QED  BY <2>1, <2>4, <2>5
<1>. QED  BY <1>3, <1>4, <1>5, <1>6

LEMMA InitSuffix == Init => SuffixInv
<1>. SUFFICES ASSUME Init PROVE SuffixInv
  OBVIOUS
<1>1. ClosedGenerations = << >> /\ CurrentGeneration = << >>
  BY InitRefines DEF Rotating!Init
<1>2. << >> \in Seq(Nat) /\ << >> \o << >> = << >>
  BY EmptySeq, ConcatEmptySeq
<1>3. Retained = << >>
  BY <1>1, <1>2, FlattenEmpty DEF Retained
<1>4. accepted = << >> \o Retained
  BY <1>2, <1>3 DEF Init
<1>5. \E dropped \in Seq(Nat) : accepted = dropped \o Retained
  BY <1>2, <1>4
<1>6. sessions = 1
  BY DEF Init
<1>. QED  BY <1>5, <1>6 DEF SuffixInv

LEMMA RetainedTypedNext == RotationInv' => (Retained \in Seq(Nat))'
<1>1. RotationInv => Retained \in Seq(Nat)
  BY RetainedTyped
<1>. QED  BY <1>1, PTL

LEMMA NextSuffix ==
  ASSUME RotationInv, RotationInv', SuffixInv, [Next]_vars
  PROVE  SuffixInv'
<1>1. CASE Crash
  <2>1. crashes' # 0 /\ sessions' = sessions
    BY <1>1 DEF Crash, RotationInv, DataInv, TypeOK
  <2>. QED  BY <2>1 DEF SuffixInv
<1>2. CASE Create
  <2>1. sessions' # 0 /\ sessions' # 1
    BY <1>2 DEF Create, SuffixInv, RotationInv, DataInv, TypeOK
  <2>. QED  BY <2>1 DEF SuffixInv
<1>3. CASE UNCHANGED vars
  <2>1. Retained' = Retained /\ accepted' = accepted
    BY <1>3, UnchangedStays, RetainedSteps DEF Stays
  <2>. QED  BY <1>3, <2>1 DEF vars, countVars, SuffixInv
<1>4. ASSUME NEW t \in Threads, Call(t) \/ Lock(t) \/ Critical(t)
      PROVE  SuffixInv'
  <2>1. sessions' = sessions /\ crashes' = crashes /\ (faults' = 0 => faults = 0)
    BY <1>4, CountersKept
  <2>2. SUFFICES ASSUME sessions = 1, crashes = 0, faults = 0, faults' = 0
                 PROVE  \E dropped \in Seq(Nat) : accepted' = dropped \o Retained'
    BY <2>1 DEF SuffixInv
  <2>3. PICK d \in Seq(Nat) : accepted = d \o Retained
    BY <2>2 DEF SuffixInv
  <2>4. Retained \in Seq(Nat) /\ Retained' \in Seq(Nat)
    <3>1. Retained \in Seq(Nat)
      BY RetainedTyped
    <3>2. (Retained \in Seq(Nat))'
      BY RetainedTypedNext
    <3>. QED  BY <3>1, <3>2
  <2>5. \/ Stays \/ Grows \/ Drops \/ (Up /\ Rotates)
    BY <1>4, <2>2, ThreadStep DEF SameHandle
  <2>6. CASE Retained' = Retained /\ accepted' = accepted
    BY <2>3, <2>6
  <2>7. CASE Grows
    <3>1. PICK data \in Seq(Nat) : /\ Retained' = Retained \o data
                                   /\ accepted' = accepted \o data
      BY <2>7, RetainedSteps
    <3>2. (d \o Retained) \o data = d \o (Retained \o data)
      <4>1. \A s \in Seq(Nat), u \in Seq(Nat) : (d \o s) \o u = d \o (s \o u)
        BY <2>3, ConcatUnits, Zenon
      <4>. QED  BY <2>4, <3>1, <4>1, Zenon
    <3>3. accepted' = d \o Retained'
      BY <2>3, <3>1, <3>2
    <3>. QED  BY <3>3
  <2>8. ASSUME NEW oldest \in Seq(Nat), Retained = oldest \o Retained',
               accepted' = accepted
        PROVE  \E dropped \in Seq(Nat) : accepted' = dropped \o Retained'
    <3>1. d \o (oldest \o Retained') = (d \o oldest) \o Retained'
      BY <2>3, <2>4, ConcatUnits
    <3>2. d \o oldest \in Seq(Nat)
      BY ConcatProperties
    <3>3. accepted' = (d \o oldest) \o Retained'
      BY <2>3, <2>8, <3>1
    <3>. QED  BY <3>2, <3>3
  <2>9. CASE Drops
    BY <2>8, <2>9, RetainedSteps DEF Drops
  <2>10. CASE Up /\ Rotates
    BY <2>6, <2>8, <2>10, RetainedSteps DEF Rotates
  <2>11. CASE Stays
    BY <2>6, <2>11, RetainedSteps DEF Stays
  <2>. QED  BY <2>5, <2>7, <2>9, <2>10, <2>11
<1>. QED  BY <1>1, <1>2, <1>3, <1>4 DEF Next

\* What is still in the backups, the log file and the buffer of the first
\* handle is the end of everything write_file has accepted: no unit is lost,
\* overtaken or duplicated in between.
THEOREM NewestRetained == Spec => []RetainedIsSuffix
<1>1. RotationInv /\ SuffixInv => RetainedIsSuffix
  BY RetainedTyped, SuffixOfConcat DEF SuffixInv, RetainedIsSuffix
<1>2. RotationInv /\ RotationInv' /\ SuffixInv /\ [Next]_vars => SuffixInv'
  BY NextSuffix
<1>. QED  BY <1>1, <1>2, InitSuffix, RotationInvariant, PTL DEF Spec

-----------------------------------------------------------------------------
(* How much is retained: what is dropped has max_bak_num full generations    *)
(* behind it.                                                                *)

\* The thread that destroys the handle is alone, and does not come back; a
\* record that starts a rotation has exceeded max_file_size, and only its
\* thread takes cur_file_size back.
CallsInv ==
  /\ \A t \in Threads :
       /\ op[t] = "destroy" => /\ pc[t] # "unlock"
                               /\ \A u \in Threads \ {t} : op[u] = "none"
       /\ op[t] = "write" /\ pc[t] \in {"close", "backup", "compress"} =>
            cur_file_size > cfg.max_file_size
       /\ pc[t] = "compress" => hstate = "live"
  /\ hstate = "down" => crashes # 0

LEMMA InitCalls == Init => CallsInv
BY DEF Init, CallsInv

LEMMA CallCalls ==
  ASSUME RotationInv, CallsInv, NEW t \in Threads, Call(t)
  PROVE  CallsInv'
<1>. USE DEF RotationInv, DataInv, TypeOK, DoneInv, CallsInv, Enter, At,
             sizeVars, countVars
<1>1. CASE CallFlush(t)
  BY <1>1 DEF CallFlush
<1>2. CASE CallDestroy(t)
  <2>1. \A u \in Threads \ {t} : op[u] = "none"
    BY <1>2 DEF CallDestroy
  <2>. QED  BY <1>2, <2>1 DEF CallDestroy
<1>3. ASSUME NEW n \in 1..MaxLen, CallWrite(t, n) PROVE CallsInv'
  BY <1>3 DEF CallWrite
<1>. QED  BY <1>1, <1>2, <1>3 DEF Call

LEMMA CriticalCalls ==
  ASSUME RotationInv, CallsInv, NEW t \in Threads, Critical(t)
  PROVE  CallsInv'
<1>1. \A u \in Threads : u # t => pc[u] \in CallLabels /\ pc'[u] = pc[u]
  BY OthersOutside DEF RotationInv, DataInv
<1>2. \A u \in Threads : u # t => op[u] # "destroy"
  <2>1. op[t] # "none"
    BY CriticalOwns DEF RotationInv, DataInv, DoneInv, InCritical, StepLabels
  <2>. QED  BY <2>1 DEF CallsInv
<1>3. hstate = "live"
  BY CriticalOwns DEF RotationInv, DataInv
<1>. USE DEF RotationInv, DataInv, TypeOK, DoneInv, CallsInv, CallLabels,
             At, Goto, Return, Die, AfterBackup, callVars, sizeVars, countVars
<1>4. CASE Open(t)          BY <1>1, <1>2, <1>4 DEF Open
<1>5. CASE OpenFails(t)     BY <1>1, <1>2, <1>5 DEF OpenFails
<1>6. CASE Write(t)         BY <1>1, <1>2, <1>6 DEF Write
<1>7. CASE WriteFails(t)    BY <1>1, <1>2, <1>7 DEF WriteFails
<1>8. ASSUME NEW k \in 0..Len(buf), CloseStream(t, k) PROVE CallsInv'
  BY <1>1, <1>2, <1>8 DEF CloseStream, AfterClose
<1>9. CASE Close(t)         BY <1>8, <1>9, LenProperties DEF Close
<1>10. CASE CloseFails(t)   BY <1>8, <1>10, LenProperties DEF CloseFails
<1>11. CASE CloseNull(t)    BY <1>1, <1>2, <1>11 DEF CloseNull
<1>12. CASE BackupDivides(t) BY <1>1, <1>2, <1>12 DEF BackupDivides
<1>13. CASE Rename(t)       BY <1>1, <1>2, <1>13 DEF Rename
<1>14. CASE RenameFails(t)  BY <1>1, <1>2, <1>14 DEF RenameFails
<1>15. CASE CompressOpen(t) BY <1>1, <1>2, <1>15 DEF CompressOpen
<1>16. CASE CompressOpenFails(t) BY <1>1, <1>2, <1>16 DEF CompressOpenFails
<1>17. CASE Compress(t)     BY <1>1, <1>2, <1>17 DEF Compress
<1>18. CASE CompressFails(t) BY <1>1, <1>2, <1>18 DEF CompressFails
<1>19. CASE RemoveFile(t)   BY <1>1, <1>2, <1>19 DEF RemoveFile
<1>20. CASE RemoveFails(t)  BY <1>1, <1>2, <1>20 DEF RemoveFails
<1>21. CASE Count(t)        BY <1>1, <1>2, <1>21 DEF Count
<1>22. CASE Free(t)         BY <1>1, <1>2, <1>22 DEF Free
<1>23. CASE Unlock(t)       BY <1>1, <1>2, <1>23 DEF Unlock
<1>. QED
  BY <1>4, <1>5, <1>6, <1>7, <1>9, <1>10, <1>11, <1>12, <1>13, <1>14, <1>15,
     <1>16, <1>17, <1>18, <1>19, <1>20, <1>21, <1>22, <1>23 DEF Critical

LEMMA NextCalls == RotationInv /\ CallsInv /\ [Next]_vars => CallsInv'
<1>. SUFFICES ASSUME RotationInv, CallsInv, [Next]_vars PROVE CallsInv'
  OBVIOUS
<1>1. ASSUME NEW t \in Threads, Lock(t) PROVE CallsInv'
  BY <1>1 DEF Lock, At, Goto, RotationInv, DataInv, TypeOK, DoneInv, CallsInv,
              sizeVars, countVars
<1>2. CASE Crash
  BY <1>2 DEF Crash, CallsInv, RotationInv, DataInv, TypeOK
<1>3. CASE Create
  <2>1. \A t \in Threads : pc[t] \in CallLabels
    <3>1. mutex = NoThread /\ \A t \in Threads : t # NoThread
      BY <1>3, LogFileAssumption DEF Create, RotationInv, DataInv, MutexInv
    <3>. QED
      BY <3>1 DEF RotationInv, DataInv, MutexInv, LockDiscipline, InCritical,
                  TypeOK
  <2>. QED  BY <1>3, <2>1 DEF Create, CallsInv, CallLabels, callVars
<1>4. CASE UNCHANGED vars
  BY <1>4 DEF vars, callVars, sizeVars, countVars, CallsInv
<1>. QED  BY <1>1, <1>2, <1>3, <1>4, CallCalls, CriticalCalls DEF Next

Destroyed == hstate = "freed" \/ \E t \in Threads : op[t] = "destroy"

\* A generation is closed with more than max_file_size units, except the one
\* that file_handle_destory closes.
FullGenerations ==
  \A i \in 1..Len(ClosedGenerations) :
    \/ Len(ClosedGenerations[i]) >= cfg.max_file_size + 1
    \/ i = Len(ClosedGenerations) /\ Destroyed /\ Moved

FirstHandle == sessions = 1 /\ crashes = 0 /\ faults = 0

FloorInv ==
  /\ CallsInv
  /\ FirstHandle =>
       /\ FullGenerations
       /\ Len(Retained) < Len(accepted) => Backups >= cfg.max_bak_num

\* The number of backups of a handle does not go back, and a handle that is
\* being destroyed remains so, with its file moved once it is moved.
LEMMA BackupsGrow ==
  ASSUME RotationInv, CallsInv, NEW t \in Threads,
         Call(t) \/ Lock(t) \/ Critical(t)
  PROVE  /\ cfg' = cfg /\ Backups' >= Backups
         /\ Destroyed /\ Moved => Destroyed' /\ Moved'
<1>. USE DEF RotationInv, DataInv, TypeOK, At, Goto, callVars, sizeVars
<1>1. CASE Call(t) \/ Lock(t)
  <2>1. /\ UNCHANGED <<cfg, hstate, cur_bak_num>>
        /\ pc[t] \in CallLabels /\ pc'[t] \in CallLabels \cup {"open", "close"}
        /\ \A u \in Threads \ {t} : pc'[u] = pc[u] /\ op'[u] = op[u]
        /\ op[t] = "destroy" => op'[t] = "destroy"
    <3>1. CASE CallFlush(t)   BY <3>1 DEF CallFlush, Enter, CallLabels, DoneInv
    <3>2. CASE CallDestroy(t) BY <3>2 DEF CallDestroy, Enter, CallLabels, DoneInv
    <3>3. ASSUME NEW n \in 1..MaxLen, CallWrite(t, n)
          PROVE  /\ UNCHANGED <<cfg, hstate, cur_bak_num>>
                 /\ pc[t] \in CallLabels /\ pc'[t] \in CallLabels
                 /\ \A u \in Threads \ {t} : pc'[u] = pc[u] /\ op'[u] = op[u]
                 /\ op[t] = "destroy" => op'[t] = "destroy"
      BY <3>3 DEF CallWrite, Enter, CallLabels, DoneInv
    <3>4. CASE Lock(t)        BY <3>4 DEF Lock, CallLabels
    <3>. QED  BY <1>1, <3>1, <3>2, <3>3, <3>4 DEF Call
  <2>2. Moved' <=> Moved
    BY <2>1 DEF Moved, SomeAt, CallLabels
  <2>3. Backups' = Backups /\ Backups \in Nat
    BY <2>1, <2>2 DEF Backups
  <2>4. Destroyed => Destroyed'
    <3>1. ASSUME NEW u \in Threads, op[u] = "destroy"
          PROVE  op'[u] = "destroy"
      BY <2>1, <3>1
    <3>. QED  BY <2>1, <3>1 DEF Destroyed
  <2>5. Backups' >= Backups
    BY <2>3
  <2>. QED  BY <2>1, <2>2, <2>4, <2>5
<1>2. CASE Critical(t)
  <2>. DEFINE away == \/ pc[t] \in {"count", "free"}
                      \/ cfg.compress /\ cfg.max_bak_num > 0 /\ pc[t] = "remove"
              awayNext == \/ hstate' = "freed" \/ pc'[t] \in {"count", "free"}
                          \/ /\ cfg.compress /\ cfg.max_bak_num > 0
                             /\ pc'[t] = "remove"
  <2>1. cfg' = cfg
    BY <1>2 DEF Critical, Open, OpenFails, Write, WriteFails, Close, CloseFails,
         CloseStream, CloseNull, BackupDivides, Rename, RenameFails, CompressOpen,
         CompressOpenFails, Compress, CompressFails, RemoveFile, RemoveFails,
         Count, Free, Unlock
  <2>2. (Moved <=> away) /\ (Moved' <=> awayNext)
    BY <1>2, <2>1, OwnerInside
  <2>3. CASE Count(t)
    <3>1. cur_bak_num' = cur_bak_num + 1 /\ away /\ op[t] = "write"
      BY <2>3 DEF Count, DoneInv
    <3>2. ~Destroyed
      BY <2>3, <3>1 DEF Destroyed, CallsInv, Count
    <3>3. Backups' >= Backups
      BY <2>2, <3>1 DEF Backups
    <3>. QED  BY <2>1, <3>2, <3>3
  <2>4. CASE Free(t)
    <3>1. cur_bak_num' = cur_bak_num /\ away /\ hstate' = "freed"
      BY <2>4 DEF Free
    <3>2. Backups' >= Backups
      BY <2>2, <3>1 DEF Backups
    <3>. QED  BY <2>1, <2>2, <3>1, <3>2 DEF Destroyed
  <2>5. CASE RemoveFile(t) \/ RemoveFails(t)
    <3>1. /\ cur_bak_num' = cur_bak_num /\ op' = op /\ hstate' = hstate
          /\ pc'[t] \in {"count", "free"}
      BY <2>5 DEF RemoveFile, RemoveFails, AfterBackup
    <3>2. Backups' >= Backups
      BY <2>2, <3>1 DEF Backups
    <3>. QED  BY <2>1, <2>2, <3>1, <3>2 DEF Destroyed
  <2>6. CASE \/ Open(t) \/ OpenFails(t) \/ Write(t) \/ WriteFails(t) \/ Close(t)
             \/ CloseFails(t) \/ CloseNull(t) \/ BackupDivides(t) \/ Rename(t)
             \/ RenameFails(t) \/ CompressOpen(t) \/ CompressOpenFails(t)
             \/ Compress(t) \/ CompressFails(t) \/ Unlock(t)
    <3>1. cur_bak_num' = cur_bak_num /\ ~away
      BY <2>6 DEF Open, OpenFails, Write, WriteFails, Close, CloseFails,
         CloseStream, CloseNull, BackupDivides, Rename, RenameFails, CompressOpen,
         CompressOpenFails, Compress, CompressFails, Unlock
    <3>2. Backups' >= Backups
      BY <2>2, <3>1 DEF Backups
    <3>. QED  BY <2>1, <2>2, <3>1, <3>2
  <2>. QED  BY <1>2, <2>3, <2>4, <2>5, <2>6 DEF Critical
<1>. QED  BY <1>1, <1>2

\* A record that starts a rotation closes a full generation.
LEMMA FullCurrent ==
  ASSUME RotationInv, CallsInv, NEW t \in Threads, faults = 0,
         op[t] = "write", pc[t] \in {"backup", "compress"}, hstate = "live",
         ~Moved
  PROVE  Len(CurrentGeneration) >= cfg.max_file_size + 1
<1>1. \A u \in Threads : pc[u] \notin {"count", "free"}
  BY DEF Moved, SomeAt
<1>2. cur_file_size = Len(file) + Len(buf)
  BY <1>1 DEF RotationInv, DataInv, SizeInv, SizeAccounting
<1>3. CurrentGeneration = file \o buf /\ Len(file \o buf) = Len(file) + Len(buf)
  BY ConcatProperties DEF CurrentGeneration, RotationInv, DataInv, TypeOK
<1>4. cur_file_size > cfg.max_file_size
  BY DEF CallsInv
<1>5. cur_file_size \in Nat /\ cfg.max_file_size \in Nat
  BY ConfigTyped DEF RotationInv, DataInv, TypeOK
<1>. QED  BY <1>2, <1>3, <1>4, <1>5

LEMMA NewGeneration ==
  ASSUME RotationInv, CallsInv, NEW t \in Threads, Rename(t) \/ Compress(t),
         faults = 0
  PROVE  /\ SameHandle /\ Rotates /\ ~Moved
         /\ \/ Len(CurrentGeneration) >= cfg.max_file_size + 1
            \/ Destroyed' /\ Moved'
<1>1. SameHandle /\ Rotates
  BY RenameRotates, CompressRotates
<1>2. /\ hstate = "live" /\ pc[t] \in {"backup", "compress"} /\ op' = op
      /\ op[t] \in {"write", "destroy"}
      /\ cfg' = cfg
      /\ \/ pc'[t] \in {"count", "free"}
         \/ pc'[t] = "remove" /\ cfg.compress /\ cfg.max_bak_num > 0
  BY DEF Rename, Compress, At, Goto, AfterBackup, RotationInv, DataInv, TypeOK,
         DoneInv, CopyInv
<1>3. ~Moved /\ Moved'
  BY <1>2, OwnerInside DEF Critical, RotationInv
<1>4. CASE op[t] = "write"
  BY <1>1, <1>2, <1>3, <1>4, FullCurrent
<1>5. CASE op[t] = "destroy"
  BY <1>1, <1>2, <1>3, <1>5 DEF Destroyed
<1>. QED  BY <1>2, <1>4, <1>5

\* What a step of a thread does to the generations, and when.
LEMMA GenerationStep ==
  ASSUME RotationInv, CallsInv, NEW t \in Threads,
         Call(t) \/ Lock(t) \/ Critical(t), faults = 0, faults' = 0
  PROVE  \/ Stays
         \/ Grows
         \/ Drops /\ ~Moved
         \/ Up /\ Rotates /\ cfg.max_bak_num = 0
         \/ /\ Up /\ Rotates /\ ~Moved
            /\ \/ Len(CurrentGeneration) >= cfg.max_file_size + 1
               \/ Destroyed' /\ Moved'
<1>1. CASE \/ Call(t) \/ Lock(t) \/ Open(t) \/ CloseNull(t) \/ BackupDivides(t)
           \/ Unlock(t)
  BY <1>1, QuietStays
<1>2. CASE CompressOpen(t)
  <2>1. pc[t] = "backup"
    BY <1>2 DEF CompressOpen, At
  <2>2. ~Moved
    BY <1>2, <2>1, OwnerInside DEF Critical, RotationInv
  <2>. QED  BY <1>2, <2>2, CompressOpenDrops
<1>. QED
  BY <1>1, <1>2, FailuresCounted, WriteGrows, CloseStays, CountStays,
     NewGeneration, RemoveRotates, FreeCloses DEF Critical, SameHandle

LEMMA ClosedLength ==
  ASSUME RotationInv
  PROVE  /\ Len(ClosedGenerations) <= cfg.max_bak_num
         /\ hstate # "down" => Len(ClosedGenerations) = Kept
<1>1. Kept \in Nat /\ Kept <= cfg.max_bak_num /\ cfg.max_bak_num \in Nat
  BY KeptTyped, ConfigTyped DEF RotationInv, DataInv
<1>2. CASE hstate = "down"
  BY <1>1, <1>2, EmptySeq DEF ClosedGenerations
<1>3. CASE hstate # "down"
  BY <1>1, <1>3, ClosedQueue, QueueLength DEF RotationInv
<1>. QED  BY <1>2, <1>3

LEMMA ClosedNext ==
  RotationInv' => /\ (ClosedGenerations \in Seq(Seq(Nat)))'
                  /\ (Len(ClosedGenerations) <= cfg.max_bak_num)'
<1>1. RotationInv => ClosedGenerations \in Seq(Seq(Nat))
  BY RetainedTyped
<1>2. RotationInv => Len(ClosedGenerations) <= cfg.max_bak_num
  BY ClosedLength
<1>. QED  BY <1>1, <1>2, PTL

\* Each kind of step keeps the closed generations full.
LEMMA FullSteps ==
  ASSUME RotationInv, RotationInv', FullGenerations, cfg' = cfg,
         Destroyed /\ Moved => Destroyed' /\ Moved'
  PROVE  /\ ClosedGenerations' = ClosedGenerations => FullGenerations'
         /\ Drops /\ ~Moved => FullGenerations'
         /\ Up /\ Rotates /\ cfg.max_bak_num = 0 => FullGenerations'
         /\ /\ Up /\ Rotates /\ ~Moved
            /\ \/ Len(CurrentGeneration) >= cfg.max_file_size + 1
               \/ Destroyed' /\ Moved'
            => FullGenerations'
<1>. DEFINE s == ClosedGenerations
            m == cfg.max_file_size + 1
            away == Destroyed' /\ Moved'
<1>1. s \in Seq(Seq(Nat)) /\ s' \in Seq(Seq(Nat)) /\ CurrentGeneration \in Seq(Nat)
  BY RetainedTyped, ClosedNext
<1>2. (\A i \in 1..Len(s') : Len(s'[i]) >= m \/ (i = Len(s') /\ away))
        => FullGenerations'
  BY DEF FullGenerations
<1>3. ~Moved => \A i \in 1..Len(s) : Len(s[i]) >= m
  BY DEF FullGenerations
<1>4. ASSUME s' = s PROVE FullGenerations'
  <2>1. \A i \in 1..Len(s') : Len(s'[i]) >= m \/ (i = Len(s') /\ away)
    BY <1>4 DEF FullGenerations
  <2>. QED  BY <1>2, <2>1
<1>5. ASSUME Drops, ~Moved PROVE FullGenerations'
  <2>1. s' = Tail(s) /\ s # << >>
    BY <1>5 DEF Drops
  <2>2. \A i \in 1..Len(s) : Len(s[i]) >= m
    BY <1>3, <1>5
  <2>3. \A i \in 1..Len(s') : Len(s'[i]) >= m
    <3>. HIDE DEF s, m
    <3>. QED  BY <1>1, <2>1, <2>2, HeadTailProperties, LenProperties
  <2>. QED  BY <1>2, <2>3
<1>6. ASSUME Up, Rotates, cfg.max_bak_num = 0 PROVE FullGenerations'
  <2>1. Len(s') <= 0
    BY <1>6, ClosedNext
  <2>2. \A i \in 1..Len(s') : FALSE
    <3>. HIDE DEF s
    <3>. QED  BY <1>1, <2>1, LenProperties
  <2>. QED  BY <1>2, <2>2
<1>7. ASSUME Up, Rotates, ~Moved, Len(CurrentGeneration) >= m \/ away
      PROVE  FullGenerations'
  <2>. DEFINE all == Append(s, CurrentGeneration)
  <2>1. /\ all \in Seq(Seq(Nat)) /\ all # << >> /\ Len(all) = Len(s) + 1
        /\ s' = all \/ s' = Tail(all)
    BY <1>7, RotatesDropsOne
  <2>2. \A i \in 1..Len(s) : Len(s[i]) >= m
    BY <1>3, <1>7
  <2>3. \A i \in 1..Len(all) : Len(all[i]) >= m \/ (i = Len(all) /\ away)
    <3>1. /\ \A i \in 1..Len(s) : all[i] = s[i]
          /\ all[Len(s) + 1] = CurrentGeneration
      <4>. HIDE DEF s
      <4>. QED  BY <1>1, AppendProperties
    <3>2. Len(s) \in Nat
      <4>. HIDE DEF s
      <4>. QED  BY <1>1, LenProperties
    <3>3. Len(CurrentGeneration) >= m \/ away
      BY <1>7
    <3>4. Len(all) = Len(s) + 1
      BY <2>1
    <3>. HIDE DEF s, m, all, away
    <3>5. \A i \in 1..Len(all) : i \in 1..Len(s) \/ i = Len(s) + 1
      BY <3>2, <3>4
    <3>6. \A i \in 1..Len(s) : Len(all[i]) >= m
      BY <2>2, <3>1
    <3>7. Len(all[Len(s) + 1]) >= m \/ away
      BY <3>1, <3>3
    <3>. QED  BY <3>4, <3>5, <3>6, <3>7
  <2>4. \A i \in 1..Len(s') : Len(s'[i]) >= m \/ (i = Len(s') /\ away)
    <3>1. CASE s' = all
      BY <2>3, <3>1
    <3>2. CASE s' = Tail(all)
      <4>. HIDE DEF s, m, all, away
      <4>. QED  BY <1>1, <2>1, <2>3, <3>2, HeadTailProperties, LenProperties
    <3>. QED  BY <2>1, <3>1, <3>2
  <2>. QED  BY <1>2, <2>4
<1>. QED  BY <1>4, <1>5, <1>6, <1>7

LEMMA InitFloor == Init => FloorInv
<1>. SUFFICES ASSUME Init PROVE FloorInv
  OBVIOUS
<1>1. ClosedGenerations = << >> /\ CurrentGeneration = << >>
  BY InitRefines DEF Rotating!Init
<1>2. FullGenerations
  BY <1>1, EmptySeq DEF FullGenerations
<1>3. Retained = << >> /\ accepted = << >>
  BY <1>1, FlattenEmpty, EmptySeq, ConcatEmptySeq DEF Retained, Init
<1>. QED  BY <1>2, <1>3, EmptySeq, InitCalls DEF FloorInv

LEMMA NextFloor ==
  ASSUME RotationInv, RotationInv', SuffixInv, FloorInv, [Next]_vars
  PROVE  FloorInv'
<1>1. CallsInv'
  BY NextCalls DEF FloorInv
<1>2. CASE Crash \/ Create
  <2>1. ~(FirstHandle')
    BY <1>2 DEF Crash, Create, FirstHandle, SuffixInv, RotationInv, DataInv,
                TypeOK
  <2>. QED  BY <1>1, <2>1 DEF FloorInv
<1>3. CASE UNCHANGED vars
  <2>1. /\ Retained' = Retained /\ accepted' = accepted /\ cfg' = cfg
        /\ ClosedGenerations' = ClosedGenerations
    BY <1>3, UnchangedStays, RetainedSteps DEF Stays
  <2>2. Backups' = Backups /\ Moved' = Moved /\ Destroyed' = Destroyed
    BY <1>3 DEF vars, callVars, sizeVars, Backups, Moved, SomeAt, Destroyed
  <2>3. FirstHandle' <=> FirstHandle
    BY <1>3 DEF vars, countVars, FirstHandle
  <2>. QED  BY <1>1, <2>1, <2>2, <2>3 DEF FloorInv, FullGenerations
<1>4. ASSUME NEW t \in Threads, Call(t) \/ Lock(t) \/ Critical(t), FirstHandle'
      PROVE  /\ FullGenerations'
             /\ Len(Retained') < Len(accepted') => Backups' >= cfg'.max_bak_num
  <2>1. FirstHandle /\ faults = 0 /\ faults' = 0
    BY <1>4, CountersKept DEF FirstHandle
  <2>2. /\ CallsInv /\ FullGenerations
        /\ Len(Retained) < Len(accepted) => Backups >= cfg.max_bak_num
    BY <2>1 DEF FloorInv
  <2>3. /\ cfg' = cfg /\ Backups' >= Backups
        /\ Destroyed /\ Moved => Destroyed' /\ Moved'
    BY <1>4, <2>2, BackupsGrow
  <2>4. \/ Stays
        \/ Grows
        \/ Drops /\ ~Moved
        \/ Up /\ Rotates /\ cfg.max_bak_num = 0
        \/ /\ Up /\ Rotates /\ ~Moved
           /\ \/ Len(CurrentGeneration) >= cfg.max_file_size + 1
              \/ Destroyed' /\ Moved'
    BY <1>4, <2>1, <2>2, GenerationStep
  <2>5. FullGenerations'
    BY <2>2, <2>3, <2>4, FullSteps DEF Stays, Grows
  <2>6. /\ Backups \in Nat /\ Backups' \in Nat /\ cfg.max_bak_num \in Nat
        /\ Kept \in Nat /\ Kept <= Backups
    <3>1. cur_bak_num' \in Nat
      BY DEF RotationInv, DataInv, TypeOK
    <3>2. Backups' \in Nat
      <4>1. Backups' = cur_bak_num' + 1 \/ Backups' = cur_bak_num' + 0
        BY DEF Backups
      <4>. QED  BY <3>1, <4>1
    <3>. QED  BY <3>2, KeptTyped, ConfigTyped DEF RotationInv, DataInv
  <2>7. ASSUME Len(ClosedGenerations) = cfg.max_bak_num
        PROVE  Backups >= cfg.max_bak_num
    <3>1. hstate # "down"
      BY <1>1, <2>1, <2>2 DEF CallsInv, FirstHandle
    <3>. QED  BY <2>6, <2>7, <3>1, ClosedLength
  <2>8. \/ Retained' = Retained /\ accepted' = accepted
        \/ \E data \in Seq(Nat) : /\ Retained' = Retained \o data
                                  /\ accepted' = accepted \o data
        \/ Backups >= cfg.max_bak_num
    BY <2>4, <2>7, RetainedSteps DEF Stays, Drops, Rotates
  <2>9. /\ Retained \in Seq(Nat) /\ accepted \in Seq(Nat)
        /\ Len(Retained) \in Nat /\ Len(accepted) \in Nat
    BY RetainedTyped, LenProperties DEF RotationInv, DataInv, TypeOK
  <2>10. ASSUME Len(Retained') < Len(accepted')
         PROVE  Backups >= cfg.max_bak_num
    <3>1. CASE Retained' = Retained /\ accepted' = accepted
      BY <2>2, <2>10, <3>1
    <3>2. ASSUME NEW data \in Seq(Nat), Retained' = Retained \o data,
                 accepted' = accepted \o data
          PROVE  Backups >= cfg.max_bak_num
      <4>1. /\ Len(Retained') = Len(Retained) + Len(data)
            /\ Len(accepted') = Len(accepted) + Len(data)
            /\ Len(data) \in Nat
        BY <2>9, <3>2, ConcatProperties, LenProperties
      <4>. QED  BY <2>2, <2>9, <2>10, <4>1
    <3>. QED  BY <2>8, <3>1, <3>2
  <2>11. Len(Retained') < Len(accepted') => Backups' >= cfg'.max_bak_num
    BY <2>3, <2>6, <2>10
  <2>. QED  BY <2>5, <2>11
<1>5. ASSUME NEW t \in Threads, Call(t) \/ Lock(t) \/ Critical(t)
      PROVE  FloorInv'
  BY <1>1, <1>4, <1>5 DEF FloorInv
<1>. QED  BY <1>2, <1>3, <1>5 DEF Next

LEMMA ProductSteps ==
  ASSUME NEW n \in Nat, NEW m \in Nat
  PROVE  /\ n * m \in Nat /\ (n - 1) * m = n * m - m
         /\ n # 0 => n * m >= m
OBVIOUS

\* The closed generations are as long as they are many, and the newest may be
\* left out.
LEMMA GenerationsLength ==
  ASSUME NEW s \in Seq(Seq(Nat)), NEW m \in Nat,
         \A i \in 1..Len(s) : Len(s[i]) >= m \/ i = Len(s)
  PROVE  Len(FlattenSeq(s)) >= (Len(s) - 1) * m
<1>1. FlattenSeq(s) \in Seq(Nat) /\ Len(FlattenSeq(s)) \in Nat /\ Len(s) \in Nat
  BY FlattenTyped, LenProperties
<1>2. CASE s = << >>
  <2>1. Len(s) = 0
    BY <1>2, EmptySeq
  <2>2. (0 - 1) * m <= 0
    OBVIOUS
  <2>. QED  BY <1>1, <2>1, <2>2
<1>3. CASE s # << >>
  <2>1. PICK k \in Nat : Len(s) = k + 1
    <3>1. Len(s) # 0
      BY <1>3, EmptySeq
    <3>2. Len(s) - 1 \in Nat /\ Len(s) = (Len(s) - 1) + 1
      BY <1>1, <3>1
    <3>. QED  BY <3>2
  <2>. DEFINE front == SubSeq(s, 1, k)
  <2>2. /\ front \in Seq(Seq(Nat)) /\ Len(front) = k
        /\ \A i \in 1..k : front[i] = s[i]
    <3>1. 1 <= k + 1 /\ k <= Len(s) /\ (k + 1) - 1 = k
      BY <2>1
    <3>2. /\ SubSeq(s, 1, k) \in Seq(Seq(Nat))
          /\ Len(SubSeq(s, 1, k)) = (k + 1) - 1
          /\ \A i \in 1..(k + 1) - 1 : SubSeq(s, 1, k)[i] = s[(1 - 1) + i]
      BY <3>1, Slice
    <3>3. \A i \in 1..k : (1 - 1) + i = i
      OBVIOUS
    <3>. QED  BY <3>1, <3>2, <3>3
  <2>3. s = Append(front, s[k + 1]) /\ s[k + 1] \in Seq(Nat)
    <3>. HIDE DEF front
    <3>1. s[k + 1] \in Seq(Nat)
      BY <2>1, ElementOfSeq
    <3>2. /\ Append(front, s[k + 1]) \in Seq(Seq(Nat))
          /\ Len(Append(front, s[k + 1])) = k + 1
          /\ \A i \in 1..k : Append(front, s[k + 1])[i] = front[i]
          /\ Append(front, s[k + 1])[k + 1] = s[k + 1]
      BY <2>2, <3>1, AppendProperties
    <3>3. \A i \in 1..k + 1 : i \in 1..k \/ i = k + 1
      OBVIOUS
    <3>4. \A i \in 1..Len(s) : s[i] = Append(front, s[k + 1])[i]
      BY <2>1, <2>2, <3>2, <3>3
    <3>5. Len(s) = Len(Append(front, s[k + 1]))
      BY <2>1, <3>2
    <3>. QED  BY <3>1, <3>2, <3>4, <3>5, SeqEqual
  <2>4. FlattenSeq(s) = FlattenSeq(front) \o s[k + 1]
    <3>. HIDE DEF front
    <3>1. PICK last \in Seq(Nat) : last = s[k + 1]
      BY <2>3
    <3>. QED  BY <2>2, <2>3, <3>1, FlattenAppend
  <2>5. Len(FlattenSeq(front)) >= k * m
    <3>1. \A i \in 1..Len(front) : Len(front[i]) >= m
      <4>1. \A i \in 1..k : i \in 1..Len(s) /\ i # Len(s)
        BY <2>1
      <4>. HIDE DEF front
      <4>. QED  BY <2>2, <4>1
    <3>. HIDE DEF front
    <3>2. Len(FlattenSeq(front)) >= Len(front) * m
      BY <2>2, <3>1, FlattenLength
    <3>. QED  BY <2>2, <3>2
  <2>6. Len(FlattenSeq(s)) >= Len(FlattenSeq(front))
    <3>. HIDE DEF front
    <3>1. FlattenSeq(front) \in Seq(Nat)
      BY <2>2, FlattenTyped
    <3>2. /\ Len(FlattenSeq(s)) = Len(FlattenSeq(front)) + Len(s[k + 1])
          /\ Len(FlattenSeq(front)) \in Nat /\ Len(s[k + 1]) \in Nat
      BY <2>3, <2>4, <3>1, ConcatProperties, LenProperties
    <3>. QED  BY <3>2
  <2>7. Len(s) - 1 = k
    BY <2>1
  <2>8. k * m \in Nat /\ Len(FlattenSeq(front)) \in Nat
    <3>. HIDE DEF front
    <3>. QED  BY <2>2, FlattenTyped, LenProperties, ProductSteps
  <2>9. (Len(s) - 1) * m = k * m
    BY <2>7
  <2>. HIDE DEF front
  <2>. QED  BY <1>1, <2>5, <2>6, <2>8, <2>9
<1>. QED  BY <1>2, <1>3

LEMMA FloorHolds ==
  ASSUME RotationInv, FloorInv
  PROVE  RetentionFloor
<1>. DEFINE m == cfg.max_file_size + 1
            n == cfg.max_bak_num
            s == ClosedGenerations
            full == n - IF Destroyed THEN 1 ELSE 0
<1>1. SUFFICES ASSUME FirstHandle, Len(Retained) < Len(accepted)
               PROVE  Len(Retained) >= full * m
  BY DEF RetentionFloor, FirstHandle, Destroyed
<1>2. /\ CallsInv /\ FullGenerations /\ Backups >= n /\ hstate # "down"
  BY <1>1 DEF FloorInv, CallsInv, FirstHandle
<1>3. m \in Nat /\ n \in Nat /\ Backups \in Nat
  BY ConfigTyped, KeptTyped DEF RotationInv, DataInv
<1>4. /\ s \in Seq(Seq(Nat)) /\ FlattenSeq(s) \in Seq(Nat)
      /\ CurrentGeneration \in Seq(Nat)
      /\ Len(Retained) = Len(FlattenSeq(s)) + Len(CurrentGeneration)
      /\ Len(FlattenSeq(s)) \in Nat /\ Len(CurrentGeneration) \in Nat
  BY RetainedTyped, ConcatProperties, LenProperties DEF Retained
<1>5. n * m \in Nat /\ (n - 1) * m = n * m - m
  <2>. HIDE DEF n, m
  <2>. QED  BY <1>3, ProductSteps
<1>6. /\ full = n => full * m = n * m
      /\ full = n - 1 => full * m = n * m - m
  <2>. HIDE DEF n, m, full
  <2>. QED  BY <1>5
<1>7. CASE SomeAt({"compress"})
  <2>1. PICK t \in Threads : pc[t] = "compress"
    BY <1>7 DEF SomeAt
  <2>2. hstate = "live" /\ n > 0
    BY <1>2, <2>1 DEF CallsInv, RotationInv, CopyInv
  <2>3. ~Moved
    BY <2>1, <2>2 DEF Moved, SomeAt, RotationInv, DataInv, MutexInv,
                      LockDiscipline, InCritical, StepLabels
  <2>4. Len(s) = n - 1
    <3>1. Kept = n - 1
      BY <1>2, <1>3, <1>7, <2>2 DEF Kept
    <3>. QED  BY <1>2, <3>1, ClosedLength
  <2>5. Len(FlattenSeq(s)) >= (n - 1) * m
    <3>1. \A i \in 1..Len(s) : Len(s[i]) >= m
      BY <1>2, <2>3 DEF FullGenerations
    <3>2. Len(FlattenSeq(s)) >= Len(s) * m
      <4>. HIDE DEF s, m
      <4>. QED  BY <1>3, <1>4, <3>1, FlattenLength
    <3>. QED  BY <2>4, <3>2
  <2>6. CASE Destroyed
    <3>1. full = n - 1
      BY <2>6
    <3>. HIDE DEF n, m, s, full
    <3>. QED  BY <1>3, <1>4, <1>5, <1>6, <2>5, <3>1
  <2>7. CASE ~Destroyed
    <3>1. full = n
      BY <1>3, <2>7
    <3>2. op[t] = "write"
      BY <2>1, <2>7 DEF Destroyed, RotationInv, DoneInv
    <3>3. Len(CurrentGeneration) >= m
      BY <1>1, <1>2, <2>1, <2>2, <2>3, <3>2, FullCurrent DEF FirstHandle
    <3>. HIDE DEF n, m, s, full
    <3>. QED  BY <1>3, <1>4, <1>5, <1>6, <2>5, <3>1, <3>3
  <2>. QED  BY <2>6, <2>7
<1>8. CASE ~SomeAt({"compress"})
  <2>1. Len(s) = n
    <3>1. Kept = n
      BY <1>2, <1>3, <1>8 DEF Kept
    <3>. QED  BY <1>2, <3>1, ClosedLength
  <2>2. CASE Destroyed
    <3>1. full = n - 1
      BY <2>2
    <3>2. \A i \in 1..Len(s) : Len(s[i]) >= m \/ i = Len(s)
      BY <1>2 DEF FullGenerations
    <3>3. Len(FlattenSeq(s)) >= (Len(s) - 1) * m
      <4>. HIDE DEF s, m
      <4>. QED  BY <1>3, <1>4, <3>2, GenerationsLength
    <3>. HIDE DEF n, m, s, full
    <3>. QED  BY <1>3, <1>4, <1>5, <1>6, <2>1, <3>1, <3>3
  <2>3. CASE ~Destroyed
    <3>1. full = n
      BY <1>3, <2>3
    <3>2. \A i \in 1..Len(s) : Len(s[i]) >= m
      BY <1>2, <2>3 DEF FullGenerations
    <3>3. Len(FlattenSeq(s)) >= Len(s) * m
      <4>. HIDE DEF s, m
      <4>. QED  BY <1>3, <1>4, <3>2, FlattenLength
    <3>. HIDE DEF n, m, s, full
    <3>. QED  BY <1>3, <1>4, <1>5, <1>6, <2>1, <3>1, <3>3
  <2>. QED  BY <2>2, <2>3
<1>. QED  BY <1>7, <1>8

\* Nothing is dropped before max_bak_num generations of more than
\* max_file_size units are kept, one less once the handle is being destroyed.
THEOREM FloorKept == Spec => []RetentionFloor
<1>1. Init => SuffixInv /\ FloorInv
  BY InitSuffix, InitFloor
<1>2. /\ RotationInv /\ RotationInv' /\ SuffixInv /\ FloorInv /\ [Next]_vars
      => SuffixInv' /\ FloorInv'
  BY NextSuffix, NextFloor
<1>3. RotationInv /\ FloorInv => RetentionFloor
  BY FloorHolds
<1>. QED  BY <1>1, <1>2, <1>3, RotationInvariant, PTL DEF Spec

-----------------------------------------------------------------------------
(* Where a record is stored.                                                 *)

LEMMA HoldersFinite ==
  ASSUME TypeOK, NEW r
  PROVE  IsFiniteSet(Holders(r))
<1>1. cfg.max_bak_num \in Nat
  BY ConfigTyped
<1>2. Holders(r) \in SUBSET (-1..cfg.max_bak_num - 1)
  <2>1. DOMAIN bak = 0..cfg.max_bak_num - 1
    BY DEF TypeOK
  <2>. QED  BY <1>1, <2>1 DEF Holders
<1>3. IsFiniteSet(-1..cfg.max_bak_num - 1)
  BY <1>1, FS_Interval
<1>. QED  BY <1>2, <1>3, FS_Subset

LEMMA HoldersFiniteNext == TypeOK' => (\A r : IsFiniteSet(Holders(r)))'
<1>1. TypeOK => \A r : IsFiniteSet(Holders(r))
  BY HoldersFinite
<1>. QED  BY <1>1, PTL

\* One file more or less.
LEMMA CardinalitySteps ==
  ASSUME NEW S, IsFiniteSet(S), NEW T, IsFiniteSet(T)
  PROVE  /\ Cardinality(S) \in Nat /\ Cardinality(T) \in Nat
         /\ T \subseteq S => Cardinality(T) <= Cardinality(S)
         /\ \A x : T \subseteq S \cup {x} => Cardinality(T) <= Cardinality(S) + 1
         /\ \A x, y : x \in S /\ T \subseteq (S \ {x}) \cup {y} =>
              Cardinality(T) <= Cardinality(S)
<1>1. Cardinality(S) \in Nat /\ Cardinality(T) \in Nat
  BY FS_CardinalityType
<1>2. ASSUME T \subseteq S PROVE Cardinality(T) <= Cardinality(S)
  BY <1>2, FS_Subset
<1>3. ASSUME NEW x, T \subseteq S \cup {x}
      PROVE  Cardinality(T) <= Cardinality(S) + 1
  <2>1. /\ IsFiniteSet(S \cup {x})
        /\ \/ Cardinality(S \cup {x}) = Cardinality(S) + 1
           \/ Cardinality(S \cup {x}) = Cardinality(S)
    BY <1>1, FS_AddElement
  <2>2. Cardinality(T) <= Cardinality(S \cup {x})
    BY <1>3, <2>1, FS_Subset
  <2>. QED  BY <1>1, <2>1, <2>2
<1>4. ASSUME NEW x, NEW y, x \in S, T \subseteq (S \ {x}) \cup {y}
      PROVE  Cardinality(T) <= Cardinality(S)
  <2>1. IsFiniteSet(S \ {x}) /\ Cardinality(S \ {x}) = Cardinality(S) - 1
    BY <1>4, FS_RemoveElement
  <2>2. /\ IsFiniteSet((S \ {x}) \cup {y})
        /\ \/ Cardinality((S \ {x}) \cup {y}) = Cardinality(S \ {x}) + 1
           \/ Cardinality((S \ {x}) \cup {y}) = Cardinality(S \ {x})
    BY <2>1, FS_AddElement
  <2>3. Cardinality(T) <= Cardinality((S \ {x}) \cup {y})
    BY <1>4, <2>2, FS_Subset
  <2>. QED  BY <1>1, <2>1, <2>2, <2>3
<1>. QED  BY <1>1, <1>2, <1>3, <1>4

\* No step but the acceptance of a record and the two ways to fill a backup
\* puts units into a file where they were not.
Shrinks == \A r \in Nat : Holders(r)' \subseteq Holders(r)

LEMMA FilesShrink ==
  ASSUME Range(file' \o buf') \subseteq Range(file \o buf),
         DOMAIN bak' = DOMAIN bak,
         \A i \in DOMAIN bak : Range(bak'[i]) \subseteq Range(bak[i])
  PROVE  Shrinks
BY DEF Shrinks, Holders

LEMMA RangeOfConcat ==
  \A s \in Seq(Nat), e \in Seq(Nat) : Range(s \o e) = Range(s) \cup Range(e)
<1>1. ASSUME NEW s \in Seq(Nat), NEW e \in Seq(Nat)
      PROVE  Range(s \o e) = Range(s) \cup Range(e)
  BY RangeConcatenation
<1>. QED  BY <1>1

LEMMA RangeOfParts ==
  ASSUME NEW f \in Seq(Nat), NEW b \in Seq(Nat), NEW k \in 0..Len(b)
  PROVE  /\ Range(SubSeq(b, 1, k)) \subseteq Range(b)
         /\ Range((f \o SubSeq(b, 1, k)) \o << >>) \subseteq Range(f \o b)
         /\ Range(<< >> \o << >>) = {}
<1>1. /\ SubSeq(b, 1, k) \in Seq(Nat) /\ SubSeq(b, k + 1, Len(b)) \in Seq(Nat)
      /\ SubSeq(b, 1, k) \o SubSeq(b, k + 1, Len(b)) = b
  BY CutAndJoin
<1>2. Range(SubSeq(b, 1, k)) \subseteq Range(b)
  <2>1. Range(SubSeq(b, 1, k) \o SubSeq(b, k + 1, Len(b)))
          = Range(SubSeq(b, 1, k)) \cup Range(SubSeq(b, k + 1, Len(b)))
    BY <1>1, RangeOfConcat
  <2>. QED  BY <1>1, <2>1
<1>3. /\ Range(f \o SubSeq(b, 1, k)) = Range(f) \cup Range(SubSeq(b, 1, k))
      /\ Range(f \o b) = Range(f) \cup Range(b)
  BY <1>1, RangeOfConcat
<1>4. (f \o SubSeq(b, 1, k)) \o << >> = f \o SubSeq(b, 1, k)
  BY <1>1, ConcatProperties, ConcatEmptySeq
<1>5. << >> \o << >> = << >> /\ Range(<< >>) = {}
  BY EmptySeq, ConcatEmptySeq DEF Range
<1>. QED  BY <1>2, <1>3, <1>4, <1>5

\* The log file does not count while its compressed copy is complete and it
\* only waits to be removed.
Removing == cfg.compress /\ SomeAt({"remove"})

Copies(r) == IF Removing THEN Holders(r) \ {-1} ELSE Holders(r)

Allowed == 1 + IF cfg.compress THEN crashes + faults ELSE 0

Pending == {"idle", "lock", "open", "write"}

\* A record that has not been written yet is nowhere, and is the record of one
\* thread only.
OnceInv ==
  /\ \A t \in Threads : \A r \in Range(msg[t]) :
       /\ r <= written
       /\ \A u \in Threads \ {t} : r \notin Range(msg[u])
       /\ pc[t] \in Pending => Holders(r) = {}
  /\ \A r \in Nat : Holders(r) # {} => r <= written
  /\ \A r \in Nat : Cardinality(Copies(r)) <= Allowed

LEMMA AllowedTyped == TypeOK => Allowed \in Nat /\ Allowed >= 1
BY ConfigTyped DEF Allowed, TypeOK

LEMMA AllowedNext == TypeOK' => (Allowed \in Nat)'
<1>1. TypeOK => Allowed \in Nat
  BY AllowedTyped
<1>. QED  BY <1>1, PTL

LEMMA InitOnce == Init => OnceInv
<1>. SUFFICES ASSUME Init PROVE OnceInv
  OBVIOUS
<1>1. Range(<< >>) = {} /\ << >> \o << >> = << >>
  BY EmptySeq, ConcatEmptySeq DEF Range
<1>2. \A r : Holders(r) = {}
  BY <1>1 DEF Init, Holders
<1>3. \A r : Copies(r) = {}
  BY <1>2 DEF Copies
<1>4. \A r : Cardinality(Copies(r)) <= Allowed
  <2>1. Cardinality({}) = 0 /\ Allowed \in Nat
    BY FS_EmptySet, AllowedTyped, InitTyped
  <2>2. 0 <= Allowed
    BY <2>1
  <2>. QED  BY <1>3, <2>1, <2>2
<1>5. \A t \in Threads : Range(msg[t]) = {}
  BY <1>1 DEF Init
<1>. QED  BY <1>2, <1>4, <1>5 DEF OnceInv

LEMMA ShrinkFresh ==
  ASSUME TypeOK, OnceInv, Shrinks, written' = written,
         \A u \in Threads :
           \/ msg'[u] = << >>
           \/ msg'[u] = msg[u] /\ (pc'[u] \in Pending => pc[u] \in Pending)
  PROVE  /\ \A t \in Threads : \A r \in Range(msg'[t]) :
              /\ r <= written'
              /\ \A u \in Threads \ {t} : r \notin Range(msg'[u])
              /\ pc'[t] \in Pending => Holders(r)' = {}
         /\ \A r \in Nat : Holders(r)' # {} => r <= written'
<1>1. Range(<< >>) = {}
  BY EmptySeq DEF Range
<1>2. \A u \in Threads : Range(msg'[u]) \subseteq Range(msg[u])
  BY <1>1
<1>3. \A u \in Threads : Range(msg[u]) \subseteq Nat
  BY RangeOfSeq DEF TypeOK
<1>4. ASSUME NEW t \in Threads, NEW r \in Range(msg'[t])
      PROVE  /\ r <= written'
             /\ \A u \in Threads \ {t} : r \notin Range(msg'[u])
             /\ pc'[t] \in Pending => Holders(r)' = {}
  <2>1. r \in Range(msg[t]) /\ r \in Nat /\ msg'[t] = msg[t]
    BY <1>1, <1>2, <1>3, <1>4
  <2>2. pc'[t] \in Pending => pc[t] \in Pending
    BY <1>1, <1>4
  <2>3. Holders(r)' \subseteq Holders(r)
    BY <2>1 DEF Shrinks
  <2>. QED  BY <1>2, <2>1, <2>2, <2>3 DEF OnceInv
<1>5. \A r \in Nat : Holders(r)' # {} => r <= written'
  BY DEF OnceInv, Shrinks
<1>. QED  BY <1>4, <1>5

LEMMA ShrinkOnce ==
  ASSUME TypeOK, TypeOK', OnceInv, Shrinks, cfg' = cfg, Allowed' >= Allowed,
         \/ Removing => Removing'
         \/ Range(file' \o buf') = {}
         \/ cfg.compress /\ Allowed' >= Allowed + 1
  PROVE  \A r \in Nat : Cardinality(Copies(r)') <= Allowed'
<1>. TAKE r \in Nat
<1>1. Cardinality(Copies(r)) <= Allowed
  BY DEF OnceInv
<1>2. IsFiniteSet(Holders(r)) /\ IsFiniteSet(Holders(r)')
  BY HoldersFinite, HoldersFiniteNext
<1>3. /\ Copies(r) \subseteq Holders(r) /\ Copies(r)' \subseteq Holders(r)'
      /\ Holders(r) \subseteq Copies(r) \cup {-1}
      /\ Holders(r)' \subseteq Holders(r)
  BY DEF Copies, Shrinks
<1>4. IsFiniteSet(Copies(r)) /\ IsFiniteSet(Copies(r)')
  BY <1>2, <1>3, FS_Subset
<1>5. Cardinality(Copies(r)) \in Nat /\ Cardinality(Copies(r)') \in Nat
  BY <1>4, FS_CardinalityType
<1>6. Allowed \in Nat /\ Allowed' \in Int
  <2>1. crashes' \in Nat /\ faults' \in Nat
    BY DEF TypeOK
  <2>2. Allowed' = 1 + (crashes' + faults') \/ Allowed' = 1 + 0
    BY DEF Allowed
  <2>. QED  BY <2>1, <2>2, AllowedTyped
<1>7. ASSUME Copies(r)' \subseteq Copies(r)
      PROVE  Cardinality(Copies(r)') <= Allowed'
  <2>1. Cardinality(Copies(r)') <= Cardinality(Copies(r))
    BY <1>4, <1>7, FS_Subset
  <2>. QED  BY <1>1, <1>5, <1>6, <2>1
<1>8. CASE Removing => Removing'
  <2>1. Copies(r)' \subseteq Copies(r)
    BY <1>3, <1>8 DEF Copies
  <2>. QED  BY <1>7, <2>1
<1>9. CASE Range(file' \o buf') = {}
  <2>1. -1 \notin Holders(r)'
    <3>1. DOMAIN bak' = 0..cfg'.max_bak_num - 1 /\ cfg.max_bak_num \in Nat
      BY ConfigTyped DEF TypeOK
    <3>. QED  BY <1>9, <3>1 DEF Holders
  <2>2. Copies(r)' \subseteq Copies(r)
    BY <1>3, <2>1 DEF Copies
  <2>. QED  BY <1>7, <2>2
<1>10. CASE Allowed' >= Allowed + 1
  <2>1. Copies(r)' \subseteq Copies(r) \cup {-1}
    BY <1>3
  <2>2. Cardinality(Copies(r)') <= Cardinality(Copies(r)) + 1
    BY <1>4, <2>1, CardinalitySteps
  <2>. QED  BY <1>1, <1>5, <1>6, <1>10, <2>2
<1>. QED  BY <1>8, <1>9, <1>10

\* The steps that put nothing anywhere.
LEMMA ControlShrinks ==
  ASSUME UNCHANGED <<file, buf, bak>>
  PROVE  Shrinks
BY FilesShrink

LEMMA DrainShrinks ==
  ASSUME TypeOK, NEW k \in 0..Len(buf), file' = file \o SubSeq(buf, 1, k),
         buf' = << >>, bak' = bak
  PROVE  Shrinks
<1>1. Range((file \o SubSeq(buf, 1, k)) \o << >>) \subseteq Range(file \o buf)
  BY RangeOfParts DEF TypeOK
<1>. QED  BY <1>1, FilesShrink

LEMMA CompressOpenShrinks ==
  ASSUME RotationInv, NEW t \in Threads, CompressOpen(t) \/ CompressOpenFails(t)
  PROVE  Shrinks
<1>1. UNCHANGED <<file, buf>> /\ bak' \in {bak, [bak EXCEPT ![Slot] = << >>]}
  BY DEF CompressOpen, CompressOpenFails
<1>2. Range(<< >>) = {}
  BY EmptySeq DEF Range
<1>3. DOMAIN bak' = DOMAIN bak /\ \A i \in DOMAIN bak : bak'[i] = bak[i] \/ bak'[i] = << >>
  BY <1>1
<1>. QED  BY <1>1, <1>2, <1>3, FilesShrink

LEMMA RemoveShrinks ==
  ASSUME RotationInv, NEW t \in Threads, RemoveFile(t)
  PROVE  Shrinks /\ Range(file' \o buf') = {}
<1>1. buf = << >>
  BY DEF RemoveFile, At, RotationInv, DataInv, StreamInv, RotateLabels
<1>2. file' = << >> /\ buf' = << >> /\ bak' = bak
  BY <1>1 DEF RemoveFile
<1>3. << >> \o << >> = << >> /\ Range(<< >>) = {}
  BY EmptySeq, ConcatEmptySeq DEF Range
<1>. QED  BY <1>2, <1>3, FilesShrink

\* In a step of the owner, the owner alone says whether a file is being
\* removed.
LEMMA OwnerRemoving ==
  ASSUME DataInv, NEW t \in Threads, Critical(t)
  PROVE  /\ SomeAt({"remove"}) <=> pc[t] = "remove"
         /\ SomeAt({"remove"})' <=> pc'[t] = "remove"
<1>1. \A u \in Threads : u # t => pc[u] \in CallLabels /\ pc'[u] \in CallLabels
  BY OthersOutside DEF DataInv
<1>. QED  BY <1>1 DEF SomeAt, CallLabels

LEMMA OnceParts ==
  ASSUME \A t \in Threads : \A r \in Range(msg'[t]) :
           /\ r <= written'
           /\ \A u \in Threads \ {t} : r \notin Range(msg'[u])
           /\ pc'[t] \in Pending => Holders(r)' = {},
         \A r \in Nat : Holders(r)' # {} => r <= written',
         \A r \in Nat : Cardinality(Copies(r)') <= Allowed'
  PROVE  OnceInv'
BY DEF OnceInv

LEMMA ShrinkStep ==
  ASSUME TypeOK, TypeOK', OnceInv, Shrinks, written' = written, cfg' = cfg,
         \A u \in Threads :
           \/ msg'[u] = << >>
           \/ msg'[u] = msg[u] /\ (pc'[u] \in Pending => pc[u] \in Pending),
         Allowed' >= Allowed,
         \/ Removing => Removing'
         \/ Range(file' \o buf') = {}
         \/ cfg.compress /\ Allowed' >= Allowed + 1
  PROVE  OnceInv'
BY ShrinkFresh, ShrinkOnce, OnceParts

\* A failed call allows for one more copy of a compressing handle.
LEMMA AllowedSteps ==
  ASSUME TypeOK, cfg' = cfg, crashes' = crashes
  PROVE  /\ faults' = faults => Allowed' = Allowed
         /\ faults' = faults + 1 =>
              /\ Allowed' >= Allowed
              /\ cfg.compress => Allowed' >= Allowed + 1
BY DEF TypeOK, Allowed

\* The steps of the owner that neither write nor close nor fill a backup.
LEMMA QuietOnce ==
  ASSUME RotationInv, TypeOK', OnceInv, NEW t \in Threads,
         \/ Open(t) \/ OpenFails(t) \/ CloseNull(t) \/ BackupDivides(t)
         \/ RenameFails(t) \/ CompressFails(t)
         \/ RemoveFails(t) \/ Count(t) \/ Free(t) \/ Unlock(t)
  PROVE  OnceInv'
<1>. USE DEF At, Goto, Return, Die, Fault, callVars, diskVars, sizeVars, countVars,
             TypeOK
<1>1. TypeOK /\ DataInv
  BY DEF RotationInv, DataInv
<1>2. /\ UNCHANGED <<file, buf, bak, written, cfg, crashes>>
      /\ faults' = faults \/ faults' = faults + 1
      /\ \A u \in Threads :
           \/ msg'[u] = << >>
           \/ msg'[u] = msg[u] /\ (pc'[u] \in Pending => pc[u] \in Pending)
      /\ pc[t] = "remove" => faults' = faults + 1
  <2>1. CASE Open(t)          BY <1>1, <2>1 DEF Open, Pending
  <2>2. CASE OpenFails(t)     BY <1>1, <2>2 DEF OpenFails
  <2>3. CASE CloseNull(t)     BY <1>1, <2>3 DEF CloseNull
  <2>4. CASE BackupDivides(t) BY <1>1, <2>4 DEF BackupDivides
  <2>5. CASE RenameFails(t)   BY <1>1, <2>5 DEF RenameFails, AfterBackup, Pending
  <2>6. CASE CompressFails(t) BY <1>1, <2>6 DEF CompressFails, Pending
  <2>7. CASE RemoveFails(t)   BY <1>1, <2>7 DEF RemoveFails, AfterBackup, Pending
  <2>8. CASE Count(t)         BY <1>1, <2>8 DEF Count, Pending
  <2>9. CASE Free(t)          BY <1>1, <2>9 DEF Free
  <2>10. CASE Unlock(t)       BY <1>1, <2>10 DEF Unlock
  <2>. QED  BY <2>1, <2>2, <2>3, <2>4, <2>5, <2>6, <2>7, <2>8, <2>9, <2>10
<1>3. Shrinks
  BY <1>2, ControlShrinks
<1>4. Removing => pc[t] = "remove" /\ cfg.compress
  BY <1>1, OwnerRemoving DEF Removing, Critical
<1>5. /\ Allowed' >= Allowed
      /\ pc[t] = "remove" /\ cfg.compress => Allowed' >= Allowed + 1
  BY <1>1, <1>2, AllowedSteps, AllowedTyped
<1>. QED  BY <1>1, <1>2, <1>3, <1>4, <1>5, ShrinkStep

LEMMA DrainOnce ==
  ASSUME RotationInv, TypeOK', OnceInv, NEW t \in Threads,
         \/ Close(t) \/ CloseFails(t) \/ CompressOpen(t) \/ CompressOpenFails(t)
         \/ RemoveFile(t)
  PROVE  OnceInv'
<1>. USE DEF At, Goto, Fault, diskVars, sizeVars, countVars
<1>1. TypeOK /\ DataInv
  BY DEF RotationInv, DataInv
<1>2. ASSUME NEW k \in 0..Len(buf), CloseStream(t, k),
             faults' = faults \/ faults' = faults + 1
      PROVE  /\ Shrinks
             /\ UNCHANGED <<written, cfg, crashes, msg>>
             /\ \A u \in Threads : pc'[u] \in Pending => pc[u] \in Pending
             /\ faults' = faults \/ faults' = faults + 1
             /\ pc[t] # "remove"
  BY <1>1, <1>2, DrainShrinks DEF CloseStream, TypeOK, AfterClose, Pending
<1>3. /\ Shrinks
      /\ UNCHANGED <<written, cfg, crashes, msg>>
      /\ \A u \in Threads : pc'[u] \in Pending => pc[u] \in Pending
      /\ faults' = faults \/ faults' = faults + 1
      /\ pc[t] # "remove" \/ Range(file' \o buf') = {}
  <2>1. CASE Close(t)
    BY <1>1, <1>2, <2>1, LenProperties, SMTT(30) DEF Close, TypeOK
  <2>2. CASE CloseFails(t)
    <3>1. PICK k \in 0..Len(buf) - 1 : CloseStream(t, k)
      BY <2>2 DEF CloseFails
    <3>2. k \in 0..Len(buf)
      BY <1>1, LenProperties DEF TypeOK
    <3>3. faults' = faults + 1
      BY <2>2 DEF CloseFails
    <3>. QED  BY <1>2, <3>1, <3>2, <3>3
  <2>3. CASE CompressOpen(t)
    BY <1>1, <2>3, CompressOpenShrinks DEF CompressOpen, TypeOK, Pending
  <2>4. CASE CompressOpenFails(t)
    BY <1>1, <2>4, CompressOpenShrinks DEF CompressOpenFails, callVars, TypeOK
  <2>5. CASE RemoveFile(t)
    BY <1>1, <2>5, RemoveShrinks DEF RemoveFile, TypeOK, AfterBackup, Pending
  <2>. QED  BY <2>1, <2>2, <2>3, <2>4, <2>5
<1>4. Removing => pc[t] = "remove"
  BY <1>1, OwnerRemoving DEF Removing, Critical
<1>5. Allowed' >= Allowed
  BY <1>1, <1>3, AllowedSteps, AllowedTyped
<1>. QED  BY <1>1, <1>3, <1>4, <1>5, ShrinkStep

\* The backup in the slot takes what the log file holds.
LEMMA FillHolders ==
  ASSUME RotationInv, cfg.max_bak_num > 0, buf = << >>, buf' = << >>,
         bak' = [bak EXCEPT ![Slot] = file], NEW r \in Nat
  PROVE  /\ file' = << >> => Holders(r)' \subseteq (Holders(r) \ {-1}) \cup {Slot}
         /\ file' \in {file, << >>} /\ -1 \notin Holders(r) =>
              Holders(r)' \subseteq Holders(r)
         /\ file' = file => Holders(r)' \subseteq Holders(r) \cup {Slot}
         /\ Holders(r) = {} /\ file' \in {file, << >>} => Holders(r)' = {}
<1>1. /\ file \in Seq(Nat) /\ file \o << >> = file /\ << >> \o << >> = << >>
      /\ Range(<< >>) = {}
  BY EmptySeq, ConcatEmptySeq DEF RotationInv, DataInv, TypeOK, Range
<1>2. DOMAIN bak' = DOMAIN bak /\ -1 \notin DOMAIN bak
  BY ConfigTyped DEF RotationInv, DataInv, TypeOK
<1>3. \A i \in DOMAIN bak : bak'[i] = IF i = Slot THEN file ELSE bak[i]
  BY <1>2
<1>4. r \in Range(file) <=> -1 \in Holders(r)
  BY <1>1, <1>2 DEF Holders
<1>5. \A i \in DOMAIN bak' : i \in Holders(r)' <=> r \in Range(bak'[i])
  BY <1>2 DEF Holders
<1>6. \A i \in DOMAIN bak : i \in Holders(r) <=> r \in Range(bak[i])
  BY <1>2 DEF Holders
<1>7. /\ Holders(r)' \subseteq DOMAIN bak \cup {-1}
      /\ Holders(r) \subseteq DOMAIN bak \cup {-1}
  BY <1>2 DEF Holders
<1>8. /\ file' = << >> => -1 \notin Holders(r)'
      /\ file' = file /\ -1 \in Holders(r)' => -1 \in Holders(r)
  BY <1>1, <1>2, <1>4 DEF Holders
<1>9. \A i \in DOMAIN bak :
        i \in Holders(r)' => i \in Holders(r) \/ (i = Slot /\ -1 \in Holders(r))
  BY <1>2, <1>3, <1>4, <1>5, <1>6
<1>. QED  BY <1>2, <1>7, <1>8, <1>9

LEMMA FillOnce ==
  ASSUME RotationInv, TypeOK', OnceInv, NEW t \in Threads,
         Rename(t) \/ Compress(t)
  PROVE  OnceInv'
<1>1. TypeOK /\ DataInv
  BY DEF RotationInv, DataInv
<1>2. /\ pc[t] \in {"backup", "compress"} /\ cfg.max_bak_num > 0
      /\ buf = << >> /\ buf' = << >> /\ bak' = [bak EXCEPT ![Slot] = file]
      /\ UNCHANGED <<cfg, written, crashes, faults, msg>>
      /\ \A u \in Threads : pc'[u] \in Pending => pc[u] \in Pending
      /\ \/ ~cfg.compress /\ file' = << >>
         \/ cfg.compress /\ file' = file /\ pc'[t] = "remove"
  BY <1>1, SMTT(30) DEF Rename, Compress, At, Goto, AfterBackup, sizeVars, countVars, Pending,
              RotationInv, CopyInv, DataInv, StreamInv, RotateLabels, TypeOK
<1>3. file' \in {file, << >>}
  BY <1>2
<1>4. ASSUME NEW u \in Threads, NEW r \in Range(msg'[u])
      PROVE  /\ r <= written'
             /\ \A v \in Threads \ {u} : r \notin Range(msg'[v])
             /\ pc'[u] \in Pending => Holders(r)' = {}
  <2>1. r \in Nat /\ r \in Range(msg[u])
    BY <1>1, <1>2, <1>4, RangeOfSeq DEF TypeOK
  <2>2. Holders(r) = {} => Holders(r)' = {}
    BY <1>2, <1>3, <2>1, FillHolders
  <2>. QED  BY <1>2, <2>1, <2>2 DEF OnceInv
<1>5. ASSUME NEW r \in Nat, Holders(r)' # {} PROVE r <= written'
  <2>1. Holders(r) # {}
    BY <1>2, <1>3, <1>5, FillHolders
  <2>. QED  BY <1>2, <2>1 DEF OnceInv
<1>6. ASSUME NEW r \in Nat PROVE Cardinality(Copies(r)') <= Allowed'
  <2>1. IsFiniteSet(Holders(r)) /\ IsFiniteSet(Holders(r)')
    BY <1>1, HoldersFinite, HoldersFiniteNext
  <2>2. Allowed' = Allowed /\ Allowed \in Nat
    BY <1>1, <1>2, AllowedSteps, AllowedTyped
  <2>3. Copies(r) = Holders(r)
    BY <1>1, <1>2, OwnerRemoving DEF Copies, Removing, Critical
  <2>4. Cardinality(Holders(r)) <= Allowed
    BY <2>3 DEF OnceInv
  <2>5. /\ file' = << >> => Holders(r)' \subseteq (Holders(r) \ {-1}) \cup {Slot}
        /\ file' \in {file, << >>} /\ -1 \notin Holders(r) =>
              Holders(r)' \subseteq Holders(r)
        /\ file' = file => Holders(r)' \subseteq Holders(r) \cup {Slot}
    BY <1>2, FillHolders
  <2>6. CASE ~cfg.compress /\ file' = << >>
    <3>1. Copies(r)' = Holders(r)'
      BY <1>2, <2>6 DEF Copies, Removing
    <3>2. Cardinality(Holders(r)') <= Cardinality(Holders(r))
      BY <2>1, <2>5, <2>6, CardinalitySteps
    <3>3. Cardinality(Holders(r)') \in Nat /\ Cardinality(Holders(r)) \in Nat
      BY <2>1, FS_CardinalityType
    <3>. QED  BY <2>2, <2>4, <3>1, <3>2, <3>3
  <2>7. CASE cfg.compress /\ file' = file /\ pc'[t] = "remove"
    <3>1. Copies(r)' = Holders(r)' \ {-1}
      BY <1>1, <1>2, <2>7, OwnerRemoving DEF Copies, Removing, Critical
    <3>2. CASE -1 \in Holders(r)
      <4>1. Copies(r)' \subseteq (Holders(r) \ {-1}) \cup {Slot}
        BY <2>5, <2>7, <3>1
      <4>2. IsFiniteSet(Copies(r)')
        BY <2>1, <3>1, FS_RemoveElement
      <4>3. /\ Cardinality(Copies(r)') <= Cardinality(Holders(r))
            /\ Cardinality(Copies(r)') \in Nat /\ Cardinality(Holders(r)) \in Nat
        BY <2>1, <3>2, <4>1, <4>2, CardinalitySteps
      <4>. QED  BY <2>2, <2>4, <4>3
    <3>3. CASE -1 \notin Holders(r)
      <4>1. Copies(r)' \subseteq Holders(r)
        BY <2>5, <2>7, <3>1, <3>3
      <4>2. /\ Cardinality(Copies(r)') <= Cardinality(Holders(r))
            /\ Cardinality(Copies(r)') \in Nat /\ Cardinality(Holders(r)) \in Nat
        BY <2>1, <4>1, FS_Subset, FS_CardinalityType
      <4>. QED  BY <2>2, <2>4, <4>2
    <3>. QED  BY <3>2, <3>3
  <2>. QED  BY <1>2, <2>6, <2>7
<1>. QED  BY <1>4, <1>5, <1>6, OnceParts

\* A record goes to the log file when it is nowhere yet.
LEMMA WriteHolders ==
  ASSUME TypeOK, NEW data \in Seq(Nat), Buffered(data), bak' = bak, NEW r \in Nat
  PROVE  /\ Holders(r)' \subseteq Holders(r) \cup {-1}
         /\ r \notin Range(data) => Holders(r)' = Holders(r)
<1>1. file' \o buf' = (file \o buf) \o data /\ file \o buf \in Seq(Nat)
  BY BufferedExtends, ConcatProperties DEF TypeOK
<1>2. Range(file' \o buf') = Range(file \o buf) \cup Range(data)
  <2>1. \A s \in Seq(Nat) : Range(s \o data) = Range(s) \cup Range(data)
    BY RangeOfConcat
  <2>. QED  BY <1>1, <2>1
<1>. QED  BY <1>2 DEF Holders

LEMMA WriteOnce ==
  ASSUME RotationInv, TypeOK', OnceInv, NEW t \in Threads,
         Write(t) \/ WriteFails(t)
  PROVE  OnceInv'
<1>1. TypeOK /\ DataInv
  BY DEF RotationInv, DataInv
<1>2. /\ pc[t] = "write" /\ UNCHANGED <<cfg, bak, written, crashes>>
      /\ faults' = faults \/ faults' = faults + 1
      /\ pc'[t] \in {"close", "unlock", "idle"}
      /\ \A u \in Threads \ {t} : pc'[u] = pc[u] /\ msg'[u] = msg[u]
      /\ msg'[t] = << >> \/ (msg'[t] = msg[t] /\ pc'[t] \notin Pending)
  BY <1>1 DEF Write, WriteFails, At, Goto, Return, Fault, TypeOK, countVars, Pending
<1>3. PICK data \in Seq(Nat) : Buffered(data) /\ Range(data) \subseteq Range(msg[t])
  <2>1. msg[t] \in Seq(Nat)
    BY <1>1 DEF TypeOK
  <2>2. CASE Write(t)
    BY <2>1, <2>2 DEF Write
  <2>3. CASE WriteFails(t)
    <3>1. PICK n \in 0..Len(msg[t]) - 1 : Buffered(SubSeq(msg[t], 1, n))
      BY <2>3 DEF WriteFails
    <3>2. n \in 0..Len(msg[t])
      BY <2>1, LenProperties
    <3>3. SubSeq(msg[t], 1, n) \in Seq(Nat)
      BY <2>1, <3>2, CutAndJoin
    <3>4. Range(SubSeq(msg[t], 1, n)) \subseteq Range(msg[t])
      BY <2>1, <3>2, RangeOfParts
    <3>. QED  BY <3>1, <3>3, <3>4
  <2>. QED  BY <2>2, <2>3
<1>4. Range(msg[t]) \subseteq Nat /\ Range(<< >>) = {}
  <2>1. msg[t] \in Seq(Nat)
    BY <1>1 DEF TypeOK
  <2>2. Range(<< >>) = {}
    BY EmptySeq DEF Range
  <2>. QED  BY <2>1, <2>2, RangeOfSeq
<1>5. ASSUME NEW r \in Nat
      PROVE  /\ r \notin Range(msg[t]) => Holders(r)' = Holders(r)
             /\ r \in Range(msg[t]) => /\ Holders(r)' \subseteq {-1}
                                       /\ Holders(r) = {}
                                       /\ r <= written
  <2>1. /\ Holders(r)' \subseteq Holders(r) \cup {-1}
        /\ r \notin Range(data) => Holders(r)' = Holders(r)
    BY <1>1, <1>2, <1>3, WriteHolders
  <2>2. r \in Range(msg[t]) => Holders(r) = {} /\ r <= written
    BY <1>2 DEF OnceInv, Pending
  <2>. QED  BY <1>3, <2>1, <2>2
<1>6. ASSUME NEW u \in Threads, NEW r \in Range(msg'[u])
      PROVE  /\ r <= written'
             /\ \A v \in Threads \ {u} : r \notin Range(msg'[v])
             /\ pc'[u] \in Pending => Holders(r)' = {}
  <2>1. \A v \in Threads : Range(msg'[v]) \subseteq Range(msg[v])
    BY <1>2, <1>4
  <2>2. r \in Nat /\ r \in Range(msg[u])
    BY <1>1, <1>6, <2>1, RangeOfSeq DEF TypeOK
  <2>3. r <= written' /\ \A v \in Threads \ {u} : r \notin Range(msg'[v])
    BY <1>2, <2>1, <2>2 DEF OnceInv
  <2>4. pc'[u] \in Pending => Holders(r)' = {}
    <3>1. CASE u = t
      BY <1>2, <1>4, <1>6, <3>1
    <3>2. CASE u # t
      BY <1>2, <1>5, <2>2, <3>2 DEF OnceInv
    <3>. QED  BY <3>1, <3>2
  <2>. QED  BY <2>3, <2>4
<1>7. ASSUME NEW r \in Nat, Holders(r)' # {} PROVE r <= written'
  BY <1>2, <1>5, <1>7 DEF OnceInv
<1>8. ASSUME NEW r \in Nat PROVE Cardinality(Copies(r)') <= Allowed'
  <2>1. Allowed' >= Allowed /\ Allowed \in Nat /\ Allowed >= 1 /\ Allowed' \in Nat
    <3>1. Allowed' = Allowed \/ Allowed' >= Allowed
      BY <1>1, <1>2, AllowedSteps
    <3>. QED  BY <1>1, <3>1, AllowedNext, AllowedTyped
  <2>2. Copies(r) = Holders(r) /\ Copies(r)' = Holders(r)'
    BY <1>1, <1>2, OwnerRemoving DEF Copies, Removing, Critical
  <2>3. CASE r \notin Range(msg[t])
    <3>1. Cardinality(Copies(r)') = Cardinality(Copies(r))
      BY <1>5, <2>2, <2>3
    <3>2. Cardinality(Copies(r)) \in Nat /\ Cardinality(Copies(r)) <= Allowed
      BY <1>1, <2>2, HoldersFinite, FS_CardinalityType DEF OnceInv
    <3>. QED  BY <2>1, <3>1, <3>2
  <2>4. CASE r \in Range(msg[t])
    <3>1. Copies(r)' \in SUBSET {-1}
      BY <1>5, <2>2, <2>4
    <3>2. IsFiniteSet({-1}) /\ Cardinality({-1}) = 1
      BY FS_Singleton
    <3>3. Cardinality(Copies(r)') <= 1 /\ Cardinality(Copies(r)') \in Nat
      BY <3>1, <3>2, FS_Subset, FS_CardinalityType
    <3>. QED  BY <2>1, <3>3
  <2>. QED  BY <2>3, <2>4
<1>. QED  BY <1>6, <1>7, <1>8, OnceParts

LEMMA CallWriteOnce ==
  ASSUME TypeOK, TypeOK', OnceInv, NEW t \in Threads, NEW n \in 1..MaxLen,
         CallWrite(t, n)
  PROVE  OnceInv'
<1>1. /\ pc[t] = "idle" /\ pc' = [pc EXCEPT ![t] = "lock"]
      /\ written' = written + 1 /\ written \in Nat
      /\ msg' = [msg EXCEPT ![t] = [i \in 1..n |-> written']]
      /\ UNCHANGED <<cfg, file, buf, bak, faults, crashes>>
  BY DEF CallWrite, Enter, At, diskVars, TypeOK
<1>2. Range(msg'[t]) \subseteq {written + 1}
  <2>1. msg'[t] = [i \in 1..n |-> written + 1]
    BY <1>1 DEF TypeOK
  <2>. QED  BY <2>1 DEF Range
<1>3. \A u \in Threads \ {t} : msg'[u] = msg[u] /\ pc'[u] = pc[u]
  BY <1>1 DEF TypeOK
<1>4. \A r : Holders(r)' = Holders(r)
  BY <1>1 DEF Holders
<1>5. Allowed' = Allowed
  BY <1>1, AllowedSteps
<1>6. Removing' <=> Removing
  BY <1>1 DEF Removing, SomeAt, TypeOK
<1>7. \A u \in Threads : Range(msg[u]) \subseteq Nat
  BY RangeOfSeq DEF TypeOK
<1>8. ASSUME NEW u \in Threads, NEW r \in Range(msg'[u])
      PROVE  /\ r <= written'
             /\ \A v \in Threads \ {u} : r \notin Range(msg'[v])
             /\ pc'[u] \in Pending => Holders(r)' = {}
  <2>1. CASE u = t
    <3>1. r = written + 1 /\ r \in Nat
      BY <1>1, <1>2, <1>8, <2>1
    <3>2. ~(r <= written)
      BY <1>1, <3>1
    <3>3. \A v \in Threads \ {t} : r \notin Range(msg'[v])
      BY <1>3, <3>2 DEF OnceInv
    <3>4. Holders(r)' = {}
      BY <1>4, <3>1, <3>2 DEF OnceInv
    <3>. QED  BY <1>1, <2>1, <3>1, <3>3, <3>4
  <2>2. CASE u # t
    <3>1. r \in Range(msg[u]) /\ r \in Nat
      BY <1>3, <1>7, <1>8, <2>2
    <3>2. /\ r <= written /\ \A v \in Threads \ {u} : r \notin Range(msg[v])
          /\ pc[u] \in Pending => Holders(r) = {}
      BY <3>1 DEF OnceInv
    <3>3. r <= written' /\ r # written + 1
      BY <1>1, <3>1, <3>2
    <3>4. \A v \in Threads \ {u} : r \notin Range(msg'[v])
      BY <1>2, <1>3, <3>2, <3>3
    <3>. QED  BY <1>3, <1>4, <2>2, <3>2, <3>3, <3>4
  <2>. QED  BY <2>1, <2>2
<1>9. ASSUME NEW r \in Nat, Holders(r)' # {} PROVE r <= written'
  BY <1>1, <1>4, <1>9 DEF OnceInv
<1>10. ASSUME NEW r \in Nat PROVE Cardinality(Copies(r)') <= Allowed'
  <2>1. Copies(r)' = Copies(r)
    BY <1>4, <1>6 DEF Copies
  <2>. QED  BY <1>5, <2>1 DEF OnceInv
<1>. QED  BY <1>8, <1>9, <1>10, OnceParts

\* The steps outside of the mutex, and the steps of the process.
LEMMA OutsideOnce ==
  ASSUME RotationInv, TypeOK', OnceInv,
         \/ \E t \in Threads : CallFlush(t) \/ CallDestroy(t) \/ Lock(t)
         \/ Create
         \/ UNCHANGED vars
  PROVE  OnceInv'
<1>. USE DEF Enter, At, Goto, callVars, diskVars, sizeVars, countVars
<1>1. TypeOK
  BY DEF RotationInv, DataInv
<1>2. /\ UNCHANGED <<file, buf, bak, msg, cfg, written, faults, crashes>>
      /\ \A u \in Threads : /\ pc'[u] \in Pending => pc[u] \in Pending
                            /\ pc[u] = "remove" => pc'[u] = "remove"
  <2>1. ASSUME NEW t \in Threads, CallFlush(t) \/ CallDestroy(t) \/ Lock(t)
        PROVE  /\ UNCHANGED <<file, buf, bak, msg, cfg, written, faults, crashes>>
               /\ \A u \in Threads : /\ pc'[u] \in Pending => pc[u] \in Pending
                                     /\ pc[u] = "remove" => pc'[u] = "remove"
    BY <1>1, <2>1 DEF CallFlush, CallDestroy, Lock, TypeOK, Pending
  <2>2. CASE Create           BY <2>2 DEF Create
  <2>3. CASE UNCHANGED vars   BY <2>3 DEF vars
  <2>. QED  BY <2>1, <2>2, <2>3
<1>3. Shrinks
  BY <1>2, ControlShrinks
<1>4. Removing => Removing'
  BY <1>2 DEF Removing, SomeAt
<1>5. Allowed' >= Allowed
  BY <1>1, <1>2, AllowedSteps, AllowedTyped
<1>. QED  BY <1>1, <1>2, <1>3, <1>4, <1>5, ShrinkStep

LEMMA CrashOnce ==
  ASSUME RotationInv, TypeOK', OnceInv, Crash
  PROVE  OnceInv'
<1>1. TypeOK
  BY DEF RotationInv, DataInv
<1>2. /\ UNCHANGED <<bak, cfg, written, faults>> /\ crashes' = crashes + 1
      /\ buf' = << >> /\ msg' = [t \in Threads |-> << >>]
  BY DEF Crash
<1>3. Shrinks
  BY <1>1, <1>2, DrainShrinks DEF Crash
<1>4. /\ Allowed' >= Allowed
      /\ cfg.compress => Allowed' >= Allowed + 1
  BY <1>1, <1>2, ConfigTyped DEF Allowed, TypeOK
<1>5. Removing => cfg.compress
  BY DEF Removing
<1>. QED  BY <1>1, <1>2, <1>3, <1>4, <1>5, ShrinkStep

LEMMA NextOnce == RotationInv /\ OnceInv /\ [Next]_vars => OnceInv'
<1>. SUFFICES ASSUME RotationInv, OnceInv, [Next]_vars PROVE OnceInv'
  OBVIOUS
<1>1. TypeOK'
  BY NextTyped DEF RotationInv, DataInv
<1>2. ASSUME NEW t \in Threads, Call(t) \/ Lock(t) PROVE OnceInv'
  <2>1. CASE CallFlush(t) \/ CallDestroy(t) \/ Lock(t)
    BY <1>1, <2>1, OutsideOnce
  <2>2. ASSUME NEW n \in 1..MaxLen, CallWrite(t, n) PROVE OnceInv'
    BY <1>1, <2>2, CallWriteOnce DEF RotationInv, DataInv
  <2>. QED  BY <1>2, <2>1, <2>2 DEF Call
<1>3. ASSUME NEW t \in Threads, Critical(t) PROVE OnceInv'
  BY <1>1, <1>3, QuietOnce, DrainOnce, FillOnce, WriteOnce DEF Critical
<1>4. CASE Crash
  BY <1>1, <1>4, CrashOnce
<1>5. CASE Create \/ UNCHANGED vars
  BY <1>1, <1>5, OutsideOnce
<1>. QED  BY <1>2, <1>3, <1>4, <1>5 DEF Next

LEMMA OnceHolds ==
  ASSUME RotationInv, OnceInv
  PROVE  StoredOnce
<1>. SUFFICES ASSUME NEW r \in 1..written
              PROVE  Cardinality(Holders(r)) <=
                       1 + IF cfg.compress
                           THEN crashes + faults
                                  + (IF SomeAt({"remove"}) THEN 1 ELSE 0)
                           ELSE 0
  BY DEF StoredOnce
<1>1. TypeOK /\ r \in Nat
  BY DEF RotationInv, DataInv, TypeOK
<1>2. Cardinality(Copies(r)) <= Allowed /\ Allowed \in Nat
  BY <1>1, AllowedTyped DEF OnceInv
<1>3. IsFiniteSet(Holders(r)) /\ IsFiniteSet(Copies(r))
  BY <1>1, HoldersFinite, FS_RemoveElement DEF Copies
<1>4. Cardinality(Copies(r)) \in Nat /\ Cardinality(Holders(r)) \in Nat
  BY <1>3, FS_CardinalityType
<1>5. crashes \in Nat /\ faults \in Nat
  BY <1>1 DEF TypeOK
<1>6. CASE Removing
  <2>1. Holders(r) \subseteq Copies(r) \cup {-1}
    BY <1>6 DEF Copies
  <2>2. Cardinality(Holders(r)) <= Cardinality(Copies(r)) + 1
    BY <1>3, <2>1, CardinalitySteps
  <2>. QED  BY <1>2, <1>4, <1>5, <1>6, <2>2 DEF Removing, Allowed
<1>7. CASE ~Removing
  <2>1. Copies(r) = Holders(r)
    BY <1>7 DEF Copies
  <2>. QED  BY <1>2, <1>4, <1>5, <1>7, <2>1 DEF Removing, Allowed
<1>. QED  BY <1>6, <1>7

\* A record is never cut or copied over two files by a handle that renames;
\* one that compresses leaves one more copy for each crash and each failed
\* call, through every interleaving of threads, rotations and failures.
THEOREM NothingDuplicated == Spec => []StoredOnce
<1>1. RotationInv /\ OnceInv => StoredOnce
  BY OnceHolds
<1>. QED  BY <1>1, InitOnce, NextOnce, RotationInvariant, PTL DEF Spec

=============================================================================
