---------------------------- MODULE RotatingLog ----------------------------
(***************************************************************************)
(* What one file handle of the logger promises about the data it accepts,  *)
(* without threads, buffers or file names: a log cut into generations.     *)
(* The current generation grows at its end; a rotation closes it; at most  *)
(* `keep' closed generations are kept, and they are dropped oldest first.  *)
(* A crash or a reopen forgets which generation is the oldest.             *)
(***************************************************************************)
EXTENDS Naturals, Sequences, SequencesExt

VARIABLES
  keep,      \* how many closed generations are kept (max_bak_num)
  up,        \* a handle is open on the log
  closed,    \* the closed generations of this session, oldest first
  current    \* the generation being written

logVars == <<keep, up, closed, current>>

\* The last `keep' elements of s.
Newest(s) == IF Len(s) <= keep THEN s
             ELSE SubSeq(s, Len(s) - keep + 1, Len(s))

Init == /\ keep \in Nat
        /\ up = TRUE
        /\ closed = << >>
        /\ current = << >>

\* One record is added at the end of the current generation.
Extend == /\ up
          /\ IsStrictPrefix(current, current')
          /\ UNCHANGED <<keep, up, closed>>

\* The oldest generation makes room for the one about to be closed.
DropOldest == /\ up
              /\ closed # << >>
              /\ Len(closed) = keep
              /\ closed' = Tail(closed)
              /\ UNCHANGED <<keep, up, current>>

\* The current generation is closed and an empty one is started.
Rotate == /\ up
          /\ closed' = Newest(Append(closed, current))
          /\ current' = << >>
          /\ UNCHANGED <<keep, up>>

\* The handle is destroyed.
Close == /\ up
         /\ up' = FALSE
         /\ UNCHANGED <<keep, closed, current>>

\* A crash loses at most the tail of the current generation, or shows the
\* generation that was just closed a second time.
Crash == /\ up
         /\ up' = FALSE
         /\ \/ IsPrefix(current', current)
            \/ closed # << >> /\ current' = Last(closed)
         /\ closed' = << >>
         /\ UNCHANGED keep

\* A new session on the same path starts counting its generations afresh.
Reopen == /\ ~up
          /\ up' = TRUE
          /\ closed' = << >>
          /\ UNCHANGED <<keep, current>>

Next == Extend \/ DropOldest \/ Rotate \/ Close \/ Crash \/ Reopen

Spec == Init /\ [][Next]_logVars
=============================================================================
