----------------------------- MODULE Timekeeper -----------------------------
(***************************************************************************)
(* The pool of timers of util/timer.c: TIMEKEEPER_NUM slots shared by the  *)
(* threads of a process, the lazy initialisation that runs before the      *)
(* mutex is taken, and the destruction that resets it.                     *)
(*                                                                         *)
(* A thread starts one timer at a time and uses only the timer it started, *)
(* as the sample program does.  The time stored in a slot is abstracted to *)
(* the thread that stored it.                                              *)
(***************************************************************************)
EXTENDS Integers, FiniteSets

CONSTANTS
  Threads,
  NoThread,         \* owner of the unlocked mutex; the time in a clear slot
  TIMEKEEPER_NUM,   \* number of timers
  MaxDestroys       \* bound: calls of timekeeper_destory

ASSUME TimekeeperAssumption ==
  /\ IsFiniteSet(Threads)
  /\ NoThread \notin Threads
  /\ TIMEKEEPER_NUM \in Nat \ {0}
  /\ MaxDestroys \in Nat

Slots == 0..TIMEKEEPER_NUM - 1
None == -1          \* no timer: the result of a start that failed

VARIABLES
  is_initialized, sync,   \* _is_initialized, _timekeeper_sync
  mutex,                  \* owner of _timekeeper_mutex
  is_ref, start,          \* per slot: in use, and whose start time it holds
  pc, op,                 \* per thread: next step and call in progress
  slot,                   \* per thread: argument n, or index i of start_auto
  thnd,                   \* per thread: the timer it has started, or None
  failed, manual,         \* history: a start_auto returned -1; start_man used
  destroys                \* calls of timekeeper_destory, for the bound

poolVars == <<is_initialized, sync, is_ref, start>>
callVars == <<pc, op, slot>>
userVars == <<thnd, failed, manual, destroys>>
vars == <<poolVars, mutex, callVars, userVars>>

Goto(t, label) == /\ pc' = [pc EXCEPT ![t] = label]
                  /\ UNCHANGED <<op, slot>>

\* Every call that locks begins with _timekeeper_initialize.
Enter(t, o, n) == /\ pc[t] = "idle"
                  /\ pc' = [pc EXCEPT ![t] = "init"]
                  /\ op' = [op EXCEPT ![t] = o]
                  /\ slot' = [slot EXCEPT ![t] = n]

Return(t) == /\ pc' = [pc EXCEPT ![t] = "idle"]
             /\ op' = [op EXCEPT ![t] = "none"]
             /\ slot' = [slot EXCEPT ![t] = 0]

-----------------------------------------------------------------------------
(* The calls.                                                              *)

StartMan(t, n) ==
  /\ thnd[t] = None
  /\ Enter(t, "man", n)
  /\ manual' = TRUE
  /\ UNCHANGED <<poolVars, mutex, thnd, failed, destroys>>

\* Mutant of StartAuto: the first timer is 1, since timer.h calls it positive.
StartAutoPositive(t) ==
  /\ thnd[t] = None
  /\ Enter(t, "auto", 1)
  /\ UNCHANGED <<poolVars, mutex, userVars>>

StartAuto(t) ==
  /\ thnd[t] = None
  /\ Enter(t, "auto", 0)
  /\ UNCHANGED <<poolVars, mutex, userVars>>

\* shutoff first reads the clock; a failure returns -4 with the timer running.
Shutoff(t) ==
  /\ thnd[t] # None
  /\ Enter(t, "shutoff", thnd[t])
  /\ UNCHANGED <<poolVars, mutex, userVars>>

Destory(t) ==
  /\ destroys < MaxDestroys
  /\ Enter(t, "destory", 0)
  /\ destroys' = destroys + 1
  /\ UNCHANGED <<poolVars, mutex, thnd, failed, manual>>

-----------------------------------------------------------------------------
(* _timekeeper_initialize, without the mutex.                              *)

ReadFlag(t) ==
  /\ pc[t] = "init"
  /\ Goto(t, IF is_initialized THEN "lock" ELSE "inc")
  /\ UNCHANGED <<poolVars, mutex, userVars>>

\* Mutant of Increment: every thread that finds the flag unset initialises.
IncrementUntested(t) ==
  /\ pc[t] = "inc"
  /\ sync' = sync + 1
  /\ Goto(t, "clear")
  /\ UNCHANGED <<is_initialized, is_ref, start, mutex, userVars>>

\* Mutant of Increment: the old value is tested, not the new one.
IncrementTestsOld(t) ==
  /\ pc[t] = "inc"
  /\ sync' = sync + 1
  /\ Goto(t, IF sync = 1 THEN "clear" ELSE "wait")
  /\ UNCHANGED <<is_initialized, is_ref, start, mutex, userVars>>

\* atomic_inc: the thread that makes it 1 initialises, the others wait.
Increment(t) ==
  /\ pc[t] = "inc"
  /\ sync' = sync + 1
  /\ Goto(t, IF sync' = 1 THEN "clear" ELSE "wait")
  /\ UNCHANGED <<is_initialized, is_ref, start, mutex, userVars>>

\* memset of the slots.
ClearSlots == /\ is_ref' = [n \in Slots |-> FALSE]
              /\ start' = [n \in Slots |-> NoThread]

Clear(t) ==
  /\ pc[t] = "clear"
  /\ ClearSlots
  /\ Goto(t, "mark")
  /\ UNCHANGED <<is_initialized, sync, mutex, userVars>>

Mark(t) ==
  /\ pc[t] = "mark"
  /\ is_initialized' = TRUE
  /\ Goto(t, "lock")
  /\ UNCHANGED <<sync, is_ref, start, mutex, userVars>>

\* while (!_is_initialized) sleep(0): the thread passes once the flag is set.
Spin(t) ==
  /\ pc[t] = "wait"
  /\ is_initialized
  /\ Goto(t, "lock")
  /\ UNCHANGED <<poolVars, mutex, userVars>>

-----------------------------------------------------------------------------
(* Under the mutex: the flag is tested again, a destroyed pool initialised,  *)
(* then the slot is read or written and the mutex released.                *)

Lock(t) ==
  /\ pc[t] = "lock"
  /\ mutex = NoThread
  /\ mutex' = t
  /\ IF is_initialized
     THEN UNCHANGED <<is_initialized, is_ref, start>>
     ELSE ClearSlots /\ is_initialized' = TRUE
  /\ Goto(t, "locked")
  /\ UNCHANGED <<sync, userVars>>

Critical(t, ops) == /\ pc[t] = "locked" /\ op[t] \in ops
                    /\ mutex' = NoThread

\* Mutant of Get: a timer in use is started again.
GetUntested(t) ==
  /\ Critical(t, {"man", "auto"})
  /\ is_ref' = [is_ref EXCEPT ![slot[t]] = TRUE]
  /\ start' = [start EXCEPT ![slot[t]] = t]
  /\ thnd' = [thnd EXCEPT ![t] = slot[t]]
  /\ Return(t)
  /\ UNCHANGED <<is_initialized, sync, failed, manual, destroys>>

\* _timekeeper_get of a timer that is not in use.
Get(t) ==
  /\ Critical(t, {"man", "auto"})
  /\ ~is_ref[slot[t]]
  /\ is_ref' = [is_ref EXCEPT ![slot[t]] = TRUE]
  /\ start' = [start EXCEPT ![slot[t]] = t]
  /\ thnd' = [thnd EXCEPT ![t] = slot[t]]
  /\ Return(t)
  /\ UNCHANGED <<is_initialized, sync, failed, manual, destroys>>

\* Mutant of NextSlot: the loop runs one slot too far.
NextSlotPastEnd(t) == IF slot[t] \in Slots THEN slot[t] + 1 ELSE None

\* The slot start_auto tries after the one in use, or None after the last.
NextSlot(t) == IF slot[t] + 1 \in Slots THEN slot[t] + 1 ELSE None

\* The timer is in use: start_auto tries the next one ...
GetNext(t) ==
  /\ Critical(t, {"auto"})
  /\ is_ref[slot[t]]
  /\ NextSlot(t) # None
  /\ pc' = [pc EXCEPT ![t] = "init"]
  /\ slot' = [slot EXCEPT ![t] = NextSlot(t)]
  /\ UNCHANGED <<poolVars, op, userVars>>

\* ... and returns -1 after the last; start_man returns -2.
GetFails(t) ==
  /\ Critical(t, {"man", "auto"})
  /\ is_ref[slot[t]]
  /\ op[t] = "auto" => NextSlot(t) = None
  /\ failed' = (failed \/ op[t] = "auto")
  /\ Return(t)
  /\ UNCHANGED <<poolVars, thnd, manual, destroys>>

\* shutoff ends the timer that the thread started.
Release(t) ==
  /\ Critical(t, {"shutoff"})
  /\ is_ref' = [is_ref EXCEPT ![slot[t]] = FALSE]
  /\ thnd' = [thnd EXCEPT ![t] = None]
  /\ Return(t)
  /\ UNCHANGED <<is_initialized, sync, start, failed, manual, destroys>>

Reset(t) ==
  /\ Critical(t, {"destory"})
  /\ is_initialized' = FALSE
  /\ Return(t)
  /\ UNCHANGED <<sync, is_ref, start, userVars>>

-----------------------------------------------------------------------------
Init ==
  /\ is_initialized = FALSE
  /\ sync = 0
  /\ mutex = NoThread
  /\ is_ref = [n \in Slots |-> FALSE]
  /\ start = [n \in Slots |-> NoThread]
  /\ pc = [t \in Threads |-> "idle"]
  /\ op = [t \in Threads |-> "none"]
  /\ slot = [t \in Threads |-> 0]
  /\ thnd = [t \in Threads |-> None]
  /\ failed = FALSE
  /\ manual = FALSE
  /\ destroys = 0

Call(t) == \/ StartAuto(t) \/ Shutoff(t) \/ Destory(t)
           \/ \E n \in Slots : StartMan(t, n)

Step(t) == \/ ReadFlag(t) \/ Increment(t) \/ Clear(t) \/ Mark(t) \/ Spin(t)
           \/ Lock(t) \/ Get(t) \/ GetNext(t) \/ GetFails(t)
           \/ Release(t) \/ Reset(t)

Next == \E t \in Threads : Call(t) \/ Step(t)

Spec == Init /\ [][Next]_vars

\* A thread inside a call runs on; no thread need make a call.
FairSpec == Spec /\ \A t \in Threads : WF_vars(Step(t))

-----------------------------------------------------------------------------
(* Properties.                                                             *)

\* Every variable has its type.
TypeOK ==
  /\ is_initialized \in BOOLEAN
  /\ sync \in Nat
  /\ mutex \in Threads \cup {NoThread}
  /\ is_ref \in [Slots -> BOOLEAN]
  /\ start \in [Slots -> Threads \cup {NoThread}]
  /\ pc \in [Threads -> {"idle", "init", "inc", "clear", "mark", "wait",
                         "lock", "locked"}]
  /\ op \in [Threads -> {"none", "man", "auto", "shutoff", "destory"}]
  /\ slot \in [Threads -> Slots]
  /\ thnd \in [Threads -> Slots \cup {None}]
  /\ failed \in BOOLEAN
  /\ manual \in BOOLEAN
  /\ destroys \in Nat

\* Until the pool is destroyed, no two threads have started the same timer.
SlotExclusive ==
  destroys = 0 =>
    \A t, u \in Threads : t # u /\ thnd[t] # None => thnd[t] # thnd[u]

\* Until the pool is destroyed, the slots in use are those of the running
\* timers, none is lost, and each holds the start time of its own timer, which
\* timekeeper_pause reads without the mutex: no late initialisation and no
\* other thread writes a running timer.
TimersOwned ==
  destroys = 0 =>
    /\ \A n \in Slots : is_ref[n] => \E t \in Threads : thnd[t] = n
    /\ \A t \in Threads : thnd[t] # None =>
         is_ref[thnd[t]] /\ start[thnd[t]] = t

\* start_auto looks at one slot after the other and never at all of them at
\* once; nevertheless it finds a timer when there are as many timers as
\* threads and all of them use start_auto.
AutoSucceeds ==
  (/\ destroys = 0 /\ ~manual
   /\ Cardinality(Threads) <= TIMEKEEPER_NUM)
    => ~failed

\* A thread that waits for the initialisation by another one goes on, as long
\* as the pool is not destroyed.
WaitersProceed ==
  \A t \in Threads : pc[t] = "wait" ~> (pc[t] # "wait" \/ destroys > 0)

\* timer.c says of a thread that finds the counter above 1 that it only has to
\* wait until another thread has initialised.
WaitersAlwaysProceed ==
  \A t \in Threads : pc[t] = "wait" ~> pc[t] # "wait"
=============================================================================
