-------------------------- MODULE LogFileRotation --------------------------
(***************************************************************************)
(* LogFile implements RotatingLog: the backups, whose numbers are          *)
(* cur_bak_num % max_bak_num, are a queue of the newest generations, and   *)
(* the log file with its stream buffer is the current generation.          *)
(***************************************************************************)
EXTENDS LogFile, SequencesExt

SomeAt(labels) == \E t \in Threads : pc[t] \in labels

\* The log file is in its backup, but cur_bak_num does not say so (destroy
\* never counts its backup).
Moved == \/ hstate = "freed"
         \/ SomeAt({"count", "free"})
         \/ cfg.compress /\ cfg.max_bak_num > 0 /\ SomeAt({"remove"})

Backups == cur_bak_num + IF Moved THEN 1 ELSE 0

\* A backup that lz4_file_compress has opened holds nothing yet.
Kept == LET room == IF SomeAt({"compress"}) THEN cfg.max_bak_num - 1
                                            ELSE cfg.max_bak_num
        IN  IF Backups < room THEN Backups ELSE room

\* The backups of this session, oldest first.
ClosedGenerations ==
  IF hstate = "down" THEN << >>
  ELSE [i \in 1..Kept |-> bak[(Backups - Kept + i - 1) % cfg.max_bak_num]]

CurrentGeneration == IF Moved THEN << >> ELSE file \o buf

Rotating == INSTANCE RotatingLog WITH
              keep <- cfg.max_bak_num,
              up <- hstate \in {"live", "faulted"},
              closed <- ClosedGenerations,
              current <- CurrentGeneration

\* Without failing library calls, every step of the threads, of the death of
\* the process and of a new handle is a step of the rotating log: records are
\* added at the end, backups are dropped oldest first and only to make room,
\* and a crash loses a tail of the current generation or leaves the one just
\* compressed also as the log file.
ImplementsRotatingLog == Rotating!Spec

Retained == FlattenSeq(ClosedGenerations) \o CurrentGeneration

\* The units still in the backups, the log file and the buffer of the first
\* handle are the most recent ones accepted, all of them and in the order of
\* acceptance.
RetainedIsSuffix ==
  sessions = 1 /\ crashes = 0 /\ faults = 0 => IsSuffix(Retained, accepted)

\* Something is dropped only while max_bak_num full generations of more than
\* max_file_size units are kept, besides the current one.  Destroying the
\* handle spends one of them on a generation that may be short.
RetentionFloor ==
  LET destroyed == hstate = "freed" \/ \E t \in Threads : op[t] = "destroy"
      full == cfg.max_bak_num - IF destroyed THEN 1 ELSE 0
  IN  (/\ sessions = 1 /\ crashes = 0 /\ faults = 0
       /\ Len(Retained) < Len(accepted))
        => Len(Retained) >= full * (cfg.max_file_size + 1)

\* The files that hold units of a record: -1 is the log file with its buffer,
\* i is the backup number i.
Holders(record) ==
  (IF record \in Range(file \o buf) THEN {-1} ELSE {})
    \cup {i \in DOMAIN bak : record \in Range(bak[i])}

\* A record never spreads over two files: a rotation does not cut it, a crash
\* or a failed call does not duplicate it, as long as the handle renames.  A
\* handle that compresses can leave one more copy for each crash between the
\* compression and the removal of its source, and for each failed removal.
StoredOnce ==
  \A record \in 1..written :
    Cardinality(Holders(record)) <=
      1 + IF cfg.compress
          THEN crashes + faults + (IF SomeAt({"remove"}) THEN 1 ELSE 0)
          ELSE 0
=============================================================================
