------------------------------ MODULE LogFile ------------------------------
(***************************************************************************)
(* A file handle of the logger (log/log_file.c), shared by the threads of  *)
(* one process: write_file, file_handle_flush and file_handle_destory      *)
(* under the handle's mutex, the rotation of the log file into numbered    *)
(* backups, the stdio buffer between fwrite and the disk, the failures of  *)
(* the C library the code checks or ignores, the death of the process at   *)
(* any step, and a new handle on the same path.                            *)
(*                                                                         *)
(* Data is a sequence of units (bytes, or 16-byte blocks of an encrypted   *)
(* log).  The units of a record all carry the number of the record, so a   *)
(* torn, lost, duplicated or reordered record is visible.                  *)
(***************************************************************************)
EXTENDS Integers, Sequences

CONSTANTS
  Threads,      \* threads that use the handle
  NoThread,     \* owner of the unlocked mutex
  Configs,      \* the arguments of file_handle_create
  MaxLen,       \* the longest record (SINGLE_LOG_SIZE)
  MaxWrites,    \* bound: calls of write_file
  MaxFaults,    \* bound: library calls that fail
  MaxCrashes,   \* bound: deaths of the process
  MaxSessions   \* bound: handles created on the path, one after the other

Config == [max_file_size : Nat, max_bak_num : Nat,
           io_cap : Nat, compress : BOOLEAN]

ASSUME LogFileAssumption ==
  /\ NoThread \notin Threads
  /\ Configs \subseteq Config
  /\ MaxLen \in Nat \ {0}
  /\ MaxWrites \in Nat /\ MaxFaults \in Nat
  /\ MaxCrashes \in Nat /\ MaxSessions \in Nat

VARIABLES
  cfg,            \* max_file_size, max_bak_num, io_cap and cflag of the handle
  hstate,         \* "live", "freed", "faulted" (fatal signal), "down" (dead)
  mutex,          \* its owner, or NoThread
  pc, op, msg,    \* per thread: next step, call in progress, record to write
  f_log,          \* f_log # NULL: the stream is open
  buf,            \* units in the stream's buffer (io_buf)
  file,           \* units in the log file on disk; << >> also when removed
  bak,            \* units in <file>.bak0 .. <file>.bak<max_bak_num - 1>
  cur_file_size, cur_bak_num,
  accepted,       \* history: units of the records fwrite took in full
  written, faults, crashes, sessions   \* counters, for the bounds

callVars  == <<pc, op, msg>>
diskVars  == <<file, bak>>
sizeVars  == <<cur_file_size, cur_bak_num>>
countVars == <<written, faults, crashes, sessions>>
vars == <<cfg, hstate, mutex, callVars, f_log, buf, diskVars, sizeVars,
          accepted, countVars>>

-----------------------------------------------------------------------------
(* Calls.                                                                  *)

At(t, label) == hstate = "live" /\ pc[t] = label

Goto(t, label) == /\ pc' = [pc EXCEPT ![t] = label]
                  /\ UNCHANGED <<op, msg>>

\* The call ends; whether the mutex was released is the caller's business.
Return(t) == /\ pc' = [pc EXCEPT ![t] = "idle"]
             /\ op' = [op EXCEPT ![t] = "none"]
             /\ msg' = [msg EXCEPT ![t] = << >>]

\* A library call fails, which a run allows MaxFaults times.
Fault == faults < MaxFaults /\ faults' = faults + 1

\* A NULL stream or a division by zero: the kernel raises a fatal signal.
Die == hstate' = "faulted"

\* A thread enters a call.  Nobody uses a handle that is being destroyed.
Enter(t, o) == /\ At(t, "idle")
               /\ \A u \in Threads : op[u] # "destroy"
               /\ pc' = [pc EXCEPT ![t] = "lock"]
               /\ op' = [op EXCEPT ![t] = o]

CallWrite(t, n) ==
  /\ written < MaxWrites
  /\ Enter(t, "write")
  /\ written' = written + 1
  /\ msg' = [msg EXCEPT ![t] = [i \in 1..n |-> written']]
  /\ UNCHANGED <<cfg, hstate, mutex, f_log, buf, diskVars, sizeVars,
                 accepted, faults, crashes, sessions>>

CallFlush(t) ==
  /\ Enter(t, "flush")
  /\ UNCHANGED <<cfg, hstate, mutex, msg, f_log, buf, diskVars, sizeVars,
                 accepted, countVars>>

\* The owner destroys the handle when no other thread is inside a call.
CallDestroy(t) ==
  /\ \A u \in Threads \ {t} : pc[u] = "idle"
  /\ Enter(t, "destroy")
  /\ UNCHANGED <<cfg, hstate, mutex, msg, f_log, buf, diskVars, sizeVars,
                 accepted, countVars>>

\* Mutant of Lock: a recursive mutex.
LockRecursive(t) ==
  /\ At(t, "lock")
  /\ mutex \in {NoThread, t}
  /\ mutex' = t
  /\ Goto(t, IF op[t] = "write" THEN "open" ELSE "close")
  /\ UNCHANGED <<cfg, hstate, f_log, buf, diskVars, sizeVars, accepted,
                 countVars>>

\* _log_lock; flush and destroy close the stream first.
Lock(t) ==
  /\ At(t, "lock")
  /\ mutex = NoThread
  /\ mutex' = t
  /\ Goto(t, IF op[t] = "write" THEN "open" ELSE "close")
  /\ UNCHANGED <<cfg, hstate, f_log, buf, diskVars, sizeVars, accepted,
                 countVars>>

\* Mutant of Unlock: a return that skips _log_unlock.
UnlockSkipped(t) ==
  /\ At(t, "unlock")
  /\ Return(t)
  /\ UNCHANGED <<cfg, hstate, mutex, f_log, buf, diskVars, sizeVars, accepted,
                 countVars>>

Unlock(t) ==
  /\ At(t, "unlock")
  /\ mutex' = NoThread
  /\ Return(t)
  /\ UNCHANGED <<cfg, hstate, f_log, buf, diskVars, sizeVars, accepted,
                 countVars>>

-----------------------------------------------------------------------------
(* write_file, up to the test of the file size.                            *)

\* _file_handle_request: fopen in append mode unless the stream is open.
Open(t) ==
  /\ At(t, "open")
  /\ f_log' = TRUE
  /\ Goto(t, "write")
  /\ UNCHANGED <<cfg, hstate, mutex, buf, diskVars, sizeVars, accepted,
                 countVars>>

\* fopen fails, or fopen succeeds and setvbuf fails: write_file returns with
\* the mutex locked.
OpenFails(t) ==
  /\ At(t, "open")
  /\ ~f_log
  /\ Fault
  /\ f_log' \in BOOLEAN
  /\ Return(t)
  /\ UNCHANGED <<cfg, hstate, mutex, buf, diskVars, sizeVars, accepted,
                 written, crashes, sessions>>

\* stdio takes `data' behind what it buffers: at most io_cap units stay in
\* the buffer, the others are on disk.
Buffered(data) ==
  LET stream == buf \o data IN
  \E k \in 0..Len(stream) :
    /\ Len(stream) - k <= cfg.io_cap
    /\ file' = file \o SubSeq(stream, 1, k)
    /\ buf' = SubSeq(stream, k + 1, Len(stream))

\* Mutant of Write: the size is tested before the record is counted.
WriteTestsFirst(t) ==
  /\ At(t, "write")
  /\ Buffered(msg[t])
  /\ accepted' = accepted \o msg[t]
  /\ cur_file_size' = cur_file_size + Len(msg[t])
  /\ Goto(t, IF cur_file_size > cfg.max_file_size THEN "close" ELSE "unlock")
  /\ UNCHANGED <<cfg, hstate, mutex, f_log, bak, cur_bak_num, countVars>>

Write(t) ==
  /\ At(t, "write")
  /\ Buffered(msg[t])
  /\ accepted' = accepted \o msg[t]
  /\ cur_file_size' = cur_file_size + Len(msg[t])
  /\ Goto(t, IF cur_file_size' > cfg.max_file_size THEN "close" ELSE "unlock")
  /\ UNCHANGED <<cfg, hstate, mutex, f_log, bak, cur_bak_num, countVars>>

\* fwrite takes only part of the record: write_file returns with the mutex
\* locked and the size not counted.
WriteFails(t) ==
  /\ At(t, "write")
  /\ Fault
  /\ \E n \in 0..Len(msg[t]) - 1 : Buffered(SubSeq(msg[t], 1, n))
  /\ Return(t)
  /\ UNCHANGED <<cfg, hstate, mutex, f_log, bak, sizeVars, accepted,
                 written, crashes, sessions>>

-----------------------------------------------------------------------------
(* fclose, the first step of flush, destroy and _update_file.  The early   *)
(* return of _update_file on a closed stream is dead code: its only caller *)
(* has just written to the stream.                                         *)

\* Mutants of AfterClose: flush returns with the mutex locked; a handle with
\* one backup behaves as one without.
AfterCloseLocked(t) ==
  CASE op[t] = "flush" -> "idle"
    [] op[t] = "write" /\ cfg.max_bak_num = 0 -> "remove"
    [] OTHER -> "backup"

AfterCloseOneBackup(t) ==
  CASE op[t] = "flush" -> "unlock"
    [] op[t] = "write" /\ cfg.max_bak_num <= 1 -> "remove"
    [] OTHER -> "backup"

AfterClose(t) ==
  CASE op[t] = "flush" -> "unlock"
    [] op[t] = "write" /\ cfg.max_bak_num = 0 -> "remove"
    [] OTHER -> "backup"

\* The stream is closed and the first k units of its buffer reach the disk.
CloseStream(t, k) ==
  /\ At(t, "close")
  /\ f_log
  /\ f_log' = FALSE
  /\ file' = file \o SubSeq(buf, 1, k)
  /\ buf' = << >>
  /\ Goto(t, AfterClose(t))
  /\ UNCHANGED <<cfg, hstate, mutex, bak, sizeVars, accepted,
                 written, crashes, sessions>>

\* Mutant of Close: f_log is set to NULL without fclose.
CloseForgotten(t) == CloseStream(t, 0) /\ UNCHANGED faults

Close(t) == CloseStream(t, Len(buf)) /\ UNCHANGED faults

\* The last write of fclose fails; its result is not looked at.
CloseFails(t) == Fault /\ \E k \in 0..Len(buf) - 1 : CloseStream(t, k)

\* flush or destroy of a handle whose stream is closed: fclose(NULL).
CloseNull(t) ==
  /\ At(t, "close")
  /\ ~f_log
  /\ Die
  /\ UNCHANGED <<cfg, mutex, callVars, f_log, buf, diskVars, sizeVars,
                 accepted, countVars>>

-----------------------------------------------------------------------------
(* _backup_file and the rest of _update_file and file_handle_destory.      *)

Slot == cur_bak_num % cfg.max_bak_num

AfterBackup(t) == IF op[t] = "destroy" THEN "free" ELSE "count"

\* destroy computes cur_bak_num % max_bak_num without looking at max_bak_num.
BackupDivides(t) ==
  /\ At(t, "backup")
  /\ cfg.max_bak_num = 0
  /\ Die
  /\ UNCHANGED <<cfg, mutex, callVars, f_log, buf, diskVars, sizeVars,
                 accepted, countVars>>

\* Mutants of Rename: the number of the backup is not reduced modulo
\* max_bak_num; the file is copied.
RenameUnbounded(t) ==
  /\ At(t, "backup")
  /\ cfg.max_bak_num > 0 /\ ~cfg.compress
  /\ bak' = [i \in DOMAIN bak \cup {cur_bak_num} |->
               IF i = cur_bak_num THEN file ELSE bak[i]]
  /\ file' = << >>
  /\ Goto(t, AfterBackup(t))
  /\ UNCHANGED <<cfg, hstate, mutex, f_log, buf, sizeVars, accepted,
                 countVars>>

RenameCopies(t) ==
  /\ At(t, "backup")
  /\ cfg.max_bak_num > 0 /\ ~cfg.compress
  /\ bak' = [bak EXCEPT ![Slot] = file]
  /\ Goto(t, AfterBackup(t))
  /\ UNCHANGED <<cfg, hstate, mutex, f_log, buf, file, sizeVars, accepted,
                 countVars>>

Rename(t) ==
  /\ At(t, "backup")
  /\ cfg.max_bak_num > 0 /\ ~cfg.compress
  /\ bak' = [bak EXCEPT ![Slot] = file]
  /\ file' = << >>
  /\ Goto(t, AfterBackup(t))
  /\ UNCHANGED <<cfg, hstate, mutex, f_log, buf, sizeVars, accepted,
                 countVars>>

\* The result of rename is not looked at.
RenameFails(t) ==
  /\ At(t, "backup")
  /\ cfg.max_bak_num > 0 /\ ~cfg.compress
  /\ Fault
  /\ Goto(t, AfterBackup(t))
  /\ UNCHANGED <<cfg, hstate, mutex, f_log, buf, diskVars, sizeVars,
                 accepted, written, crashes, sessions>>

\* Mutant of CompressOpen: the source is removed before it is compressed.
RemoveSourceFirst(t) ==
  /\ At(t, "backup")
  /\ cfg.max_bak_num > 0 /\ cfg.compress
  /\ bak' = [bak EXCEPT ![Slot] = << >>]
  /\ file' = << >>
  /\ Goto(t, "compress")
  /\ UNCHANGED <<cfg, hstate, mutex, f_log, buf, sizeVars, accepted,
                 countVars>>

\* lz4_file_compress opens the backup with "w+": what it held is gone, and
\* what it holds until the end of the copy cannot be decompressed.
CompressOpen(t) ==
  /\ At(t, "backup")
  /\ cfg.max_bak_num > 0 /\ cfg.compress
  /\ bak' = [bak EXCEPT ![Slot] = << >>]
  /\ Goto(t, "compress")
  /\ UNCHANGED <<cfg, hstate, mutex, f_log, buf, file, sizeVars, accepted,
                 countVars>>

\* A failed malloc or fopen is reported and the NULL is used all the same, after
\* the backup has been opened with "w+", unless that fopen is what failed.
CompressOpenFails(t) ==
  /\ At(t, "backup")
  /\ cfg.max_bak_num > 0 /\ cfg.compress
  /\ Fault
  /\ Die
  /\ bak' \in {bak, [bak EXCEPT ![Slot] = << >>]}
  /\ UNCHANGED <<cfg, mutex, callVars, f_log, buf, file, sizeVars,
                 accepted, written, crashes, sessions>>

Compress(t) ==
  /\ At(t, "compress")
  /\ bak' = [bak EXCEPT ![Slot] = file]
  /\ Goto(t, "remove")
  /\ UNCHANGED <<cfg, hstate, mutex, f_log, buf, file, sizeVars, accepted,
                 countVars>>

\* A short fwrite of a block is reported, a failed last write by fclose is not,
\* and the source is removed anyway.  A backup that is cut short counts as empty.
CompressFails(t) ==
  /\ At(t, "compress")
  /\ Fault
  /\ Goto(t, "remove")
  /\ UNCHANGED <<cfg, hstate, mutex, f_log, buf, diskVars, sizeVars,
                 accepted, written, crashes, sessions>>

\* remove(file_path): after the compression, or instead of a backup.
RemoveFile(t) ==
  /\ At(t, "remove")
  /\ file' = << >>
  /\ Goto(t, AfterBackup(t))
  /\ UNCHANGED <<cfg, hstate, mutex, f_log, buf, bak, sizeVars, accepted,
                 countVars>>

\* The result of remove is not looked at.
RemoveFails(t) ==
  /\ At(t, "remove")
  /\ Fault
  /\ Goto(t, AfterBackup(t))
  /\ UNCHANGED <<cfg, hstate, mutex, f_log, buf, diskVars, sizeVars,
                 accepted, written, crashes, sessions>>

\* Mutant of Count: cur_bak_num is not incremented.
CountForgotten(t) ==
  /\ At(t, "count")
  /\ cur_file_size' = 0
  /\ Goto(t, "unlock")
  /\ UNCHANGED <<cfg, hstate, mutex, f_log, buf, diskVars, cur_bak_num,
                 accepted, countVars>>

Count(t) ==
  /\ At(t, "count")
  /\ cur_bak_num' = cur_bak_num + 1
  /\ cur_file_size' = 0
  /\ Goto(t, "unlock")
  /\ UNCHANGED <<cfg, hstate, mutex, f_log, buf, diskVars, accepted,
                 countVars>>

\* free, trace_remove_handle, unlock and destruction of the mutex.
Free(t) ==
  /\ At(t, "free")
  /\ hstate' = "freed"
  /\ mutex' = NoThread
  /\ Return(t)
  /\ UNCHANGED <<cfg, f_log, buf, diskVars, sizeVars, accepted, countVars>>

-----------------------------------------------------------------------------
(* The process and the next handle.                                        *)

\* The process ends, at any step of any thread, by exit or by a signal.  An
\* exit flushes the whole buffer, a kill loses what stdio had not written.
Crash ==
  /\ hstate \in {"live", "faulted"}
  /\ crashes < MaxCrashes
  /\ crashes' = crashes + 1
  /\ hstate' = "down"
  /\ \E k \in 0..Len(buf) : file' = file \o SubSeq(buf, 1, k)
  /\ buf' = << >>
  /\ f_log' = FALSE
  /\ mutex' = NoThread
  /\ pc' = [t \in Threads |-> "idle"]
  /\ op' = [t \in Threads |-> "none"]
  /\ msg' = [t \in Threads |-> << >>]
  /\ UNCHANGED <<cfg, bak, sizeVars, accepted, written, faults, sessions>>

\* Mutant of Create: the size of an existing file is not read.
CreateEmpty ==
  /\ hstate \in {"freed", "down"}
  /\ sessions < MaxSessions
  /\ sessions' = sessions + 1
  /\ hstate' = "live"
  /\ cur_file_size' = 0
  /\ cur_bak_num' = 0
  /\ UNCHANGED <<cfg, mutex, callVars, f_log, buf, diskVars, accepted,
                 written, faults, crashes>>

\* _file_handle_create on a path that may exist: the size comes from the
\* disk, the number of the next backup starts again at 0.
Create ==
  /\ hstate \in {"freed", "down"}
  /\ sessions < MaxSessions
  /\ sessions' = sessions + 1
  /\ hstate' = "live"
  /\ cur_file_size' = Len(file)
  /\ cur_bak_num' = 0
  /\ UNCHANGED <<cfg, mutex, callVars, f_log, buf, diskVars, accepted,
                 written, faults, crashes>>

Init ==
  /\ cfg \in Configs
  /\ hstate = "live"
  /\ mutex = NoThread
  /\ pc = [t \in Threads |-> "idle"]
  /\ op = [t \in Threads |-> "none"]
  /\ msg = [t \in Threads |-> << >>]
  /\ f_log = FALSE
  /\ buf = << >>
  /\ file = << >>
  /\ bak = [i \in 0..cfg.max_bak_num - 1 |-> << >>]
  /\ cur_file_size = 0
  /\ cur_bak_num = 0
  /\ accepted = << >>
  /\ written = 0 /\ faults = 0 /\ crashes = 0
  /\ sessions = 1

Call(t) == CallFlush(t) \/ CallDestroy(t) \/ \E n \in 1..MaxLen : CallWrite(t, n)

\* What the thread that holds the mutex does next.
Critical(t) ==
  \/ Open(t) \/ OpenFails(t) \/ Write(t) \/ WriteFails(t)
  \/ Close(t) \/ CloseFails(t) \/ CloseNull(t)
  \/ BackupDivides(t) \/ Rename(t) \/ RenameFails(t)
  \/ CompressOpen(t) \/ CompressOpenFails(t)
  \/ Compress(t) \/ CompressFails(t)
  \/ RemoveFile(t) \/ RemoveFails(t)
  \/ Count(t) \/ Free(t) \/ Unlock(t)

Next == Crash \/ Create \/ \E t \in Threads : Call(t) \/ Lock(t) \/ Critical(t)

Spec == Init /\ [][Next]_vars

\* A thread that holds the mutex runs on; nobody need call, and no waiting
\* thread is sure to win the mutex.
FairSpec == Spec /\ \A t \in Threads : WF_vars(Critical(t))
-----------------------------------------------------------------------------
(* Properties.                                                             *)

CallLabels == {"idle", "lock"}
StepLabels == {"open", "write", "close", "backup", "compress", "remove",
               "count", "free", "unlock"}

\* Every variable has its type.
TypeOK ==
  /\ cfg \in Configs
  /\ hstate \in {"live", "freed", "faulted", "down"}
  /\ mutex \in Threads \cup {NoThread}
  /\ pc \in [Threads -> CallLabels \cup StepLabels]
  /\ op \in [Threads -> {"none", "write", "flush", "destroy"}]
  /\ msg \in [Threads -> Seq(Nat)]
  /\ f_log \in BOOLEAN
  /\ buf \in Seq(Nat)
  /\ file \in Seq(Nat)
  /\ bak \in [0..cfg.max_bak_num - 1 -> Seq(Nat)]
  /\ cur_file_size \in Nat
  /\ cur_bak_num \in Nat
  /\ accepted \in Seq(Nat)
  /\ written \in Nat /\ faults \in Nat
  /\ crashes \in Nat /\ sessions \in Nat

InCritical(t) == pc[t] \in StepLabels

\* Only the owner of the mutex is past _log_lock, in every function of the
\* handle; and the owner is past it, unless a library call has failed: the
\* error returns of write_file (lines 294 and 300) are the only ones that
\* leave the mutex locked.
LockDiscipline ==
  \A t \in Threads : /\ InCritical(t) => mutex = t
                     /\ mutex = t => InCritical(t) \/ faults > 0

\* cur_file_size, which decides on rotation and is kept apart from the file,
\* is the size of what the log file and the stream buffer hold, through
\* flushes, rotations, deaths of the process and new handles, as long as no
\* library call fails.  Between the backup and the reset of the counter the
\* two differ, under the mutex.
SizeAccounting ==
  (/\ hstate = "live" /\ faults = 0
   /\ \A t \in Threads : pc[t] \notin {"count", "free"})
     => cur_file_size = Len(file) + Len(buf)

\* A log file that has just been rotated: the size that triggers the rotation
\* and the record that exceeded it.
FullFile == cfg.max_file_size + MaxLen

\* log.h calls max_file_size the "max size of every log file", which the code does
\* not keep: write_file compares after the write.  How far beyond it a file can
\* grow: by no more than the record that triggers the rotation, by one record for
\* each death of the process between the write of such a record and its rotation
\* (the new handle takes the oversized file as it is and rotates it after its first
\* record), and by one more full file for each rename or remove that fails (the
\* code resets cur_file_size all the same).
SizeBound ==
  LET bound == (faults + 1) * FullFile + crashes * MaxLen IN
  /\ Len(file) + Len(buf) <= bound
  /\ \A i \in DOMAIN bak : Len(bak[i]) <= bound

\* Units leave the log file only for a backup that holds all of them (the
\* compressed copy is complete before the source is removed), or when no
\* backups are kept: a death of the process at any step of a rotation loses
\* nothing that was on disk in the log file.  A handle that renames keeps this
\* even when library calls fail; one that compresses does not.
RotationKeepsFile ==
  [][ (/\ faults' = 0 \/ ~cfg.compress
       /\ file # << >> /\ file' = << >>)
        => \/ cfg.max_bak_num = 0
           \/ \E i \in DOMAIN bak' : bak'[i] = file ]_vars

\* A thread returned from write_file with the mutex locked.
Leaked == \E t \in Threads : mutex = t /\ pc[t] \in CallLabels

\* After such a return the handle is dead: until the process ends nothing is
\* accepted, rotated, flushed or freed through it, by any thread.
LeakIsFinal ==
  [][ (Leaked /\ hstate' # "down")
        => /\ Leaked'
           /\ UNCHANGED <<hstate, mutex, accepted, file, bak, buf, f_log,
                          cur_bak_num>> ]_vars

\* Without failing library calls a locked mutex is unlocked again, whatever
\* the other threads do, unless a fatal signal stops the holder.
LockReleased ==
  (hstate = "live" /\ mutex # NoThread)
    ~> (mutex = NoThread \/ hstate # "live" \/ faults > 0)
=============================================================================
