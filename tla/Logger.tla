------------------------------- MODULE Logger -------------------------------
(***************************************************************************)
(* The front end of the logger (log.c, log.h, log/log_stream.c): threads   *)
(* log through a list of file and stream handles that can grow while they  *)
(* do, flush it and destroy it.  A file handle is what LogFile makes of it *)
(* here: write_file, file_handle_flush and file_handle_destory are atomic, *)
(* for they run under the mutex of the handle, and no library call fails.  *)
(*                                                                         *)
(* A record is its number; its level, and the list it was logged to, are   *)
(* history.  A handle is created once: the program has these handles.      *)
(***************************************************************************)
EXTENDS Integers, Sequences, SequencesExt, FiniteSets

CONSTANTS
  Threads,
  Files, Streams,     \* the handles, by tag: F_MODE and S_MODE
  Configs,            \* LOG_FILE_LEVEL, LOG_STREAM_LEVEL, and the streams
                      \* argument of stream_handle_create
  MaxRecords          \* bound: records logged

Levels == 0..3        \* LOG_DEBUG, LOG_INFO, LOG_WARN, LOG_ERROR
LOG_CLOSE == 9
Flags == {1, 2, 4, 8} \* DEBUG_STDERR, ..., ERROR_STDERR: a set of bits
Handles == Files \cup Streams
Console == {"stdout", "stderr"}
Sinks == Files \cup Console

Config == [file_level : Levels \cup {LOG_CLOSE},
           stream_level : Levels \cup {LOG_CLOSE},
           streams : SUBSET Flags]

ASSUME LoggerAssumption ==
  /\ Files \cap Streams = {} /\ Handles \cap Console = {}
  /\ Configs \subseteq Config
  /\ MaxRecords \in Nat

VARIABLES
  cfg,
  lhs,            \* the program's list of handles, first to last
  made,           \* the handles created so far
  f_log,          \* the files whose stream is open
  sink,           \* per sink: the records it has been given
  disk,           \* per sink: how many of them are past its stdio buffer
  pc,             \* per thread: idle, or the loop it is in
  it,             \* per thread: the part of the list still to visit
  record,         \* per thread: the record it is logging
  asked,          \* per thread: history, the list it flushes or destroys,
                  \* and the lengths of the sinks when it was called
  log,            \* history, per record: its level and its list
  crashed         \* fclose of a closed stream: SIGSEGV

sinkVars == <<f_log, sink, disk>>
listVars == <<lhs, made>>
callVars == <<pc, it, record, asked>>
vars == <<cfg, listVars, sinkVars, callVars, log, crashed>>

-----------------------------------------------------------------------------
(* The macros of log.h.                                                    *)

F_MODE == "file"
S_MODE == "stream"

tag(h) == IF h \in Files THEN F_MODE ELSE S_MODE

GET_MODE(ll) ==
  IF cfg.file_level < ll
  THEN IF cfg.stream_level < ll THEN {F_MODE, S_MODE} ELSE {F_MODE}
  ELSE {S_MODE}

\* The calls that are not compiled out: UNUSED.
Compiled(ll) ==
  IF ll = 3 THEN cfg.file_level # LOG_CLOSE \/ cfg.stream_level # LOG_CLOSE
            ELSE cfg.file_level <= ll \/ cfg.stream_level <= ll

\* The bits that are set in i + 1, which stream_handle_create tests for level i.
BitsOfLevel(i) == {b \in Flags : ((i + 1) \div b) % 2 = 1}

StreamOf(ll) ==
  IF cfg.streams \cap BitsOfLevel(ll) # {} THEN "stderr" ELSE "stdout"

-----------------------------------------------------------------------------
Idle(t) == ~crashed /\ pc[t] = "idle"

Alone(t) == \A u \in Threads \ {t} : pc[u] = "idle"

\* A thread is given the list as it is, and keeps the pointer.
Enter(t, label) ==
  /\ Idle(t)
  /\ pc' = [pc EXCEPT ![t] = label]
  /\ it' = [it EXCEPT ![t] = lhs]

Nothing == [list |-> << >>, given |-> [s \in Sinks |-> 0]]

Asks(t) == asked' = [asked EXCEPT ![t] = [list |-> lhs,
                                          given |-> [s \in Sinks |-> Len(sink[s])]]]

\* Mutant of Goto: the loop does not look for the end of the list.
GotoPastEnd(t, rest) ==
  /\ it' = [it EXCEPT ![t] = rest]
  /\ UNCHANGED <<pc, record, asked>>

Goto(t, rest) ==
  /\ it' = [it EXCEPT ![t] = rest]
  /\ IF rest = << >>
     THEN /\ pc' = [pc EXCEPT ![t] = "idle"]
          /\ record' = [record EXCEPT ![t] = 0]
          /\ asked' = [asked EXCEPT ![t] = Nothing]
     ELSE UNCHANGED <<pc, record, asked>>

\* file_handle_create or stream_handle_create, and add_to_handle_list: the new
\* node becomes the head.
add_to_handle_list(t, h) ==
  /\ Idle(t)
  /\ h \notin made /\ made' = made \cup {h}
  /\ \A u \in Threads : pc[u] # "destroy"
  /\ lhs' = <<h>> \o lhs
  /\ UNCHANGED <<cfg, sinkVars, callVars, log, crashed>>

\* _log_write with a list: a text that does not fit, like a NULL list or
\* format, returns without a step.
LogWrite(t, ll) ==
  /\ Len(log) < MaxRecords
  /\ Compiled(ll)
  /\ lhs # << >>
  /\ Enter(t, "write")
  /\ record' = [record EXCEPT ![t] = Len(log) + 1]
  /\ log' = Append(log, [level |-> ll, list |-> lhs])
  /\ UNCHANGED <<cfg, listVars, sinkVars, asked, crashed>>

Give(s, r) == sink' = [sink EXCEPT ![s] = Append(@, r)]

LevelOf(t) == log[record[t]].level

\* Mutant of Visited: a handle that is passed over ends the loop.
VisitedStops(t) ==
  IF tag(Head(it[t])) \in GET_MODE(LevelOf(t)) THEN Tail(it[t]) ELSE << >>

Visited(t) == Tail(it[t])

\* write_file; the record may fill the file, which is then written, closed and
\* rotated, or leave any part of the buffer unwritten.
VisitFile(t) ==
  /\ ~crashed /\ pc[t] = "write"
  /\ LET h == Head(it[t]) IN
       /\ h \in Files /\ F_MODE \in GET_MODE(LevelOf(t))
       /\ Give(h, record[t])
       /\ \/ disk' = disk /\ f_log' = f_log \cup {h}
          \/ disk' = [disk EXCEPT ![h] = Len(sink'[h])] /\ f_log' = f_log \ {h}
  /\ Goto(t, Visited(t))
  /\ UNCHANGED <<cfg, listVars, log, crashed>>

\* write_stream; stderr is not buffered.
VisitStream(t) ==
  /\ ~crashed /\ pc[t] = "write"
  /\ Head(it[t]) \in Streams /\ S_MODE \in GET_MODE(LevelOf(t))
  /\ LET s == StreamOf(LevelOf(t)) IN
       /\ Give(s, record[t])
       /\ disk' = IF s = "stderr" THEN [disk EXCEPT ![s] = Len(sink'[s])] ELSE disk
  /\ Goto(t, Visited(t))
  /\ UNCHANGED <<cfg, listVars, f_log, log, crashed>>

\* The tag is not in the mode.
VisitOther(t) ==
  /\ ~crashed /\ pc[t] = "write"
  /\ tag(Head(it[t])) \notin GET_MODE(LevelOf(t))
  /\ Goto(t, Visited(t))
  /\ UNCHANGED <<cfg, listVars, sinkVars, log, crashed>>

\* Mutant of FlushConsole: stdout is flushed only if the list starts with a
\* stream handle.
FlushConsoleTested(t) ==
  /\ lhs # << >> /\ Enter(t, "flush") /\ Asks(t)
  /\ disk' = IF Head(lhs) \in Streams
             THEN [disk EXCEPT !["stdout"] = Len(sink["stdout"])] ELSE disk
  /\ UNCHANGED <<cfg, listVars, f_log, sink, record, log, crashed>>

\* log_flush: fflush(stdout), then the list.
FlushConsole(t) ==
  /\ lhs # << >> /\ Enter(t, "flush") /\ Asks(t)
  /\ disk' = [disk EXCEPT !["stdout"] = Len(sink["stdout"])]
  /\ UNCHANGED <<cfg, listVars, f_log, sink, record, log, crashed>>

\* log_flush of a NULL list.
FlushNoList(t) ==
  /\ Idle(t) /\ lhs = << >>
  /\ disk' = [disk EXCEPT !["stdout"] = Len(sink["stdout"])]
  /\ UNCHANGED <<cfg, listVars, f_log, sink, callVars, log, crashed>>

\* file_handle_flush closes the stream.
FlushFile(t) ==
  /\ ~crashed /\ pc[t] = "flush"
  /\ LET h == Head(it[t]) IN
       /\ h \in f_log
       /\ disk' = [disk EXCEPT ![h] = Len(sink[h])]
       /\ f_log' = f_log \ {h}
  /\ Goto(t, Tail(it[t]))
  /\ UNCHANGED <<cfg, listVars, sink, log, crashed>>

\* The loop ends at the first handle that is not a file.
FlushEnds(t) ==
  /\ ~crashed /\ pc[t] = "flush"
  /\ Head(it[t]) \in Streams
  /\ Goto(t, << >>)
  /\ UNCHANGED <<cfg, listVars, sinkVars, log, crashed>>

\* log_destory, by the owner of the list when no other thread uses it: the
\* program drops the list, whose nodes are never freed.
LogDestory(t) ==
  /\ lhs # << >>
  /\ Alone(t)
  /\ Enter(t, "destroy") /\ Asks(t)
  /\ lhs' = << >>
  /\ UNCHANGED <<cfg, made, sinkVars, record, log, crashed>>

\* file_handle_destory closes the stream, stream_handle_destory flushes stdout.
DestroyHandle(t) ==
  /\ ~crashed /\ pc[t] = "destroy"
  /\ LET h == Head(it[t])
         s == IF h \in Files THEN h ELSE "stdout" IN
       /\ h \in Files => h \in f_log
       /\ disk' = [disk EXCEPT ![s] = Len(sink[s])]
       /\ f_log' = f_log \ {h}
  /\ Goto(t, Tail(it[t]))
  /\ UNCHANGED <<cfg, listVars, sink, log, crashed>>

\* Flush or destruction of a file whose stream is closed: fclose(NULL).
CloseNull(t) ==
  /\ ~crashed /\ pc[t] \in {"flush", "destroy"}
  /\ Head(it[t]) \in Files \ f_log
  /\ crashed' = TRUE
  /\ UNCHANGED <<cfg, listVars, sinkVars, callVars, log>>

-----------------------------------------------------------------------------
Init ==
  /\ cfg \in Configs
  /\ lhs = << >> /\ made = {}
  /\ f_log = {}
  /\ sink = [s \in Sinks |-> << >>]
  /\ disk = [s \in Sinks |-> 0]
  /\ pc = [t \in Threads |-> "idle"]
  /\ it = [t \in Threads |-> << >>]
  /\ record = [t \in Threads |-> 0]
  /\ asked = [t \in Threads |-> Nothing]
  /\ log = << >>
  /\ crashed = FALSE

Step(t) == \/ VisitFile(t) \/ VisitStream(t) \/ VisitOther(t)
           \/ FlushFile(t) \/ FlushEnds(t) \/ DestroyHandle(t) \/ CloseNull(t)

Call(t) == \/ FlushConsole(t) \/ FlushNoList(t) \/ LogDestory(t)
           \/ \E h \in Handles : add_to_handle_list(t, h)
           \/ \E ll \in Levels : LogWrite(t, ll)

Next == \E t \in Threads : Call(t) \/ Step(t)

Spec == Init /\ [][Next]_vars

-----------------------------------------------------------------------------
(* Properties.                                                             *)

Lists == {l \in Seq(Handles) : IsInjective(l)}

\* Every variable has its type; nothing is past a buffer that was not given to
\* it; and a thread in a loop has a handle to visit.
TypeOK ==
  /\ cfg \in Configs
  /\ lhs \in Lists /\ Range(lhs) \subseteq made /\ made \subseteq Handles
  /\ f_log \in SUBSET Files
  /\ sink \in [Sinks -> Seq(1..Len(log))]
  /\ \A s \in Sinks : disk[s] \in 0..Len(sink[s])
  /\ pc \in [Threads -> {"idle", "write", "flush", "destroy"}]
  /\ \A t \in Threads : /\ it[t] \in Lists /\ asked[t].list \in Lists
                        /\ pc[t] # "idle" => it[t] # << >>
  /\ record \in [Threads -> 0..Len(log)]
  /\ \A t \in Threads, s \in Sinks : asked[t].given[s] \in 0..Len(sink[s])
  /\ log \in Seq([level : Levels, list : Lists])
  /\ crashed \in BOOLEAN

SinkOf(h, ll) == IF h \in Files THEN h ELSE StreamOf(ll)

\* The handles of the record's list that give it to sink s.
Givers(r, s) ==
  {h \in Range(log[r].list) : /\ tag(h) \in GET_MODE(log[r].level)
                              /\ SinkOf(h, log[r].level) = s}

Copies(r, s) == Cardinality({i \in DOMAIN sink[s] : sink[s][i] = r})

InProgress(r) == \E t \in Threads : pc[t] = "write" /\ record[t] = r

\* When _log_write returns the record is in every handle of the list it was
\* given whose tag is in its mode, once, and nowhere else, whatever the other
\* threads log, flush or add to the list.
Delivered ==
  \A r \in DOMAIN log : \A s \in Sinks :
    IF InProgress(r) THEN Copies(r, s) <= Cardinality(Givers(r, s))
                     ELSE Copies(r, s) = Cardinality(Givers(r, s))

Saved(t, sinks) == \A s \in sinks : disk'[s] >= asked[t].given[s]

\* The file handles before the first stream handle.
LeadingFiles(list) ==
  {list[i] : i \in {n \in DOMAIN list : \A m \in 1..n : list[m] \in Files}}

Returns(t, label) == pc[t] = label /\ pc'[t] = "idle"

\* What stdout and the leading file handles had been given before a log_flush
\* is past their buffers when it returns, whatever is logged meanwhile; and
\* log_destory leaves nothing in the buffer of any file handle of the list.
SavedOnReturn ==
  [][ \A t \in Threads :
        /\ Returns(t, "flush") => Saved(t, LeadingFiles(asked[t].list) \cup {"stdout"})
        /\ Returns(t, "destroy") => Saved(t, Range(asked[t].list) \cap Files) ]_vars
=============================================================================
