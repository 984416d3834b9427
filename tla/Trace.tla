------------------------------- MODULE Trace -------------------------------
(***************************************************************************)
(* The registry of file handles and the signal handler of util/trace.c:    *)
(* threads create handles, write through them and destroy them, and fatal  *)
(* signals interrupt the threads at any step and run signal_hadle_fun on   *)
(* their stacks, under the same g_mutex as the registry.                   *)
(*                                                                         *)
(* The handler gives each handle_file_t of the registry to log_flush as if *)
(* it were a list of handles: what log_flush takes for the first handle is *)
(* the key schedule wkey, which is NULL unless the log is encrypted.       *)
(*                                                                         *)
(* The handler also allocates and writes to stderr and stdout: it waits    *)
(* for the locks of the C library, which a thread interrupted inside one   *)
(* of its calls (malloc, free, fwrite, fprintf) never gives back.          *)
(***************************************************************************)
EXTENDS Naturals, Sequences, SequencesExt, Functions

CONSTANTS
  Threads,
  NoThread,      \* owner of a lock that is free
  Handles,
  Sentinel,      \* the node with NULL data that trace_init creates
  MaxSignals     \* bound: signals sent to the process

ASSUME TraceAssumption ==
  /\ NoThread \notin Threads
  /\ Sentinel \notin Handles
  /\ MaxSignals \in Nat

Signals == {"TERM", "SEGV"}   \* sent by others; raised by the program

\* Why a signal may fail to end the process: it met a thread that owned
\* g_mutex, or a lock of the C library; the handler read through a NULL or
\* freed key, or faulted on a stack of more than 100 frames.
Reasons == {"mutex", "library", "handle", "stack"}

VARIABLES
  encrypted,         \* the handles created with ENCRYPT
  hstate,            \* per handle: none, new, live, closing, keyless, freed
  buffered,          \* the handles with records in their stream buffer
  g_mutex,
  libc,              \* the interrupted thread that owns a lock of the library
  g_handle_list,     \* data of the nodes, first to last; << >> for NULL
  is_initialized,    \* _is_initialized
  installed,         \* the signal handler has been installed
  pc, handle,        \* per thread: next step of a call, and its handle
  next,              \* per thread: next pointer of the node being inserted
  handlers,          \* per thread: its signal handlers, innermost last
  alive,             \* the process runs
  printed,           \* trace_print has run
  signals,           \* number of signals sent
  doomed             \* history: the reasons met

listVars == <<g_handle_list, is_initialized, installed>>
callVars == <<pc, handle, next>>
endVars == <<libc, alive, printed, signals, doomed>>
vars == <<encrypted, hstate, buffered, g_mutex, listVars, callVars, handlers,
          endVars>>

-----------------------------------------------------------------------------
(* util/list.c: a list is the sequence of the data of its nodes.           *)

list_create(data) == <<data>>

list_insert_beginning(list, data) == <<data>> \o list

list_remove_by_data(list, data) == RemoveFirst(list, data)

list_destroy == << >>

-----------------------------------------------------------------------------
(* The program, in a thread that runs no handler.                          *)

At(t, label) == alive /\ handlers[t] = << >> /\ pc[t] = label

Goto(t, label) == pc' = [pc EXCEPT ![t] = label]

Enter(t, h, from, to, label) ==
  /\ At(t, "idle")
  /\ hstate[h] = from
  /\ hstate' = [hstate EXCEPT ![h] = to]
  /\ handle' = [handle EXCEPT ![t] = h]
  /\ Goto(t, label)

\* _file_handle_create, up to trace_add_handle.
Create(t, h) ==
  /\ Enter(t, h, "none", "new", "addLock")
  /\ UNCHANGED <<encrypted, buffered, g_mutex, listVars, next, handlers,
                 endVars>>

\* A record that stays in the stream buffer.
Write(t, h) ==
  /\ At(t, "idle")
  /\ hstate[h] = "live"
  /\ buffered' = buffered \cup {h}
  /\ UNCHANGED <<encrypted, hstate, g_mutex, listVars, callVars, handlers,
                 endVars>>

\* file_handle_destory, up to the backup: fclose writes the buffer.
Destroy(t, h) ==
  /\ Enter(t, h, "live", "closing", "freeKey")
  /\ buffered' = buffered \ {h}
  /\ UNCHANGED <<encrypted, g_mutex, listVars, next, handlers, endVars>>

\* free(fh->wkey), while the handle is still in the registry.
FreeKey(t) ==
  /\ At(t, "freeKey")
  /\ hstate' = [hstate EXCEPT ![handle[t]] = "keyless"]
  /\ Goto(t, "removeLock")
  /\ UNCHANGED <<encrypted, buffered, g_mutex, listVars, handle, next,
                 handlers, endVars>>

\* Mutant of Lock: g_mutex is not taken.
LockForgotten(t) ==
  /\ At(t, "addLock") \/ At(t, "removeLock")
  /\ Goto(t, IF pc[t] = "addLock" THEN "addInit" ELSE "remove")
  /\ UNCHANGED <<encrypted, hstate, buffered, g_mutex, listVars, handle, next,
                 handlers, endVars>>

\* trace_add_handle and trace_remove_handle lock g_mutex.
Lock(t) ==
  /\ At(t, "addLock") \/ At(t, "removeLock")
  /\ g_mutex = NoThread
  /\ g_mutex' = t
  /\ Goto(t, IF pc[t] = "addLock" THEN "addInit" ELSE "remove")
  /\ UNCHANGED <<encrypted, hstate, buffered, listVars, handle, next, handlers,
                 endVars>>

\* trace_init; the next pointer of the new node is the old head.
AddInit(t) ==
  /\ At(t, "addInit")
  /\ g_handle_list' = IF is_initialized THEN g_handle_list
                                          ELSE list_create(Sentinel)
  /\ is_initialized' = TRUE
  /\ installed' = TRUE
  /\ next' = [next EXCEPT ![t] = g_handle_list']
  /\ Goto(t, "addLink")
  /\ UNCHANGED <<encrypted, hstate, buffered, g_mutex, handle, handlers,
                 endVars>>

\* The new node becomes the head of the list.
AddLink(t) ==
  /\ At(t, "addLink")
  /\ g_handle_list' = list_insert_beginning(next[t], handle[t])
  /\ next' = [next EXCEPT ![t] = << >>]
  /\ Goto(t, "addUnlock")
  /\ UNCHANGED <<encrypted, hstate, buffered, g_mutex, is_initialized,
                 installed, handle, handlers, endVars>>

AddUnlock(t) ==
  /\ At(t, "addUnlock")
  /\ g_mutex' = NoThread
  /\ hstate' = [hstate EXCEPT ![handle[t]] = "live"]
  /\ Goto(t, "idle")
  /\ UNCHANGED <<encrypted, buffered, listVars, handle, next, handlers,
                 endVars>>

\* Mutant of RemoveNode: the list is destroyed, _is_initialized is not reset.
RemoveResetForgotten(t) ==
  /\ At(t, "remove")
  /\ LET rest == list_remove_by_data(g_handle_list, handle[t]) IN
       g_handle_list' = IF rest = <<Sentinel>> THEN list_destroy ELSE rest
  /\ Goto(t, "removeUnlock")
  /\ UNCHANGED <<encrypted, hstate, buffered, g_mutex, is_initialized,
                 installed, handle, next, handlers, endVars>>

\* list_remove_by_data; a list with only its sentinel is destroyed.
RemoveNode(t) ==
  /\ At(t, "remove")
  /\ LET rest == list_remove_by_data(g_handle_list, handle[t])
         empty == rest = <<Sentinel>>
     IN  /\ g_handle_list' = IF empty THEN list_destroy ELSE rest
         /\ is_initialized' = (is_initialized /\ ~empty)
  /\ Goto(t, "removeUnlock")
  /\ UNCHANGED <<encrypted, hstate, buffered, g_mutex, installed, handle, next,
                 handlers, endVars>>

\* Mutant of RemoveUnlock: g_mutex stays locked.
RemoveUnlockForgotten(t) ==
  /\ At(t, "removeUnlock")
  /\ Goto(t, "free")
  /\ UNCHANGED <<encrypted, hstate, buffered, g_mutex, listVars, handle, next,
                 handlers, endVars>>

RemoveUnlock(t) ==
  /\ At(t, "removeUnlock")
  /\ g_mutex' = NoThread
  /\ Goto(t, "free")
  /\ UNCHANGED <<encrypted, hstate, buffered, listVars, handle, next, handlers,
                 endVars>>

\* free(fh).
Free(t) ==
  /\ At(t, "free")
  /\ hstate' = [hstate EXCEPT ![handle[t]] = "freed"]
  /\ Goto(t, "idle")
  /\ UNCHANGED <<encrypted, buffered, g_mutex, listVars, handle, next,
                 handlers, endVars>>

-----------------------------------------------------------------------------
(* signal_hadle_fun.                                                       *)

progVars == <<encrypted, hstate, listVars, callVars>>

Top(t) == Last(handlers[t])

Running(t, label) == alive /\ handlers[t] # << >> /\ Top(t).pc = label

SetTop(t, label, it) ==
  handlers' = [handlers EXCEPT
                 ![t] = Append(Front(@), [Top(t) EXCEPT !.pc = label, !.it = it])]

\* Mutant of Blocked: handlers installed without blocking their signal.
BlockedNever(t, s) == FALSE

\* Linux blocks a signal while its handler runs, in the thread that runs it.
Blocked(t, s) == \E i \in DOMAIN handlers[t] : handlers[t][i].sig = s

Interrupt(t, s) ==
  handlers' = [handlers EXCEPT ![t] =
                 Append(@, [sig |-> s, pc |-> "start", it |-> << >>])]

\* The next step of the thread calls the C library, so that a signal may find
\* it inside: idle for _file_handle_create, write_file and fclose, the others
\* for malloc and free of nodes, keys and handles; stderr and the symbols of
\* the stack in a handler.
CallsLibrary(t) ==
  IF handlers[t] = << >>
  THEN pc[t] \in {"idle", "addInit", "addLink", "freeKey", "remove", "free"}
  ELSE Top(t).pc \in {"start", "print"}

\* A signal interrupts a thread, in the program or in a handler.  A thread
\* met inside the library may own a lock the handlers need, and keeps it.
Deliver(t, s) ==
  /\ alive /\ installed
  /\ signals < MaxSignals
  /\ ~Blocked(t, s)
  /\ signals' = signals + 1
  /\ Interrupt(t, s)
  /\ \E owned \in BOOLEAN :
       /\ owned => CallsLibrary(t) /\ libc = NoThread
       /\ libc' = IF owned THEN t ELSE libc
       /\ doomed' = doomed \cup (IF owned THEN {"library"} ELSE {})
                            \cup (IF g_mutex = t THEN {"mutex"} ELSE {})
  /\ UNCHANGED <<progVars, buffered, g_mutex, alive, printed>>

\* "receive a exit signal!"
HandlerStart(t) ==
  /\ Running(t, "start")
  /\ libc = NoThread
  /\ SetTop(t, "lock", << >>)
  /\ UNCHANGED <<progVars, buffered, g_mutex, endVars>>

\* pthread_mutex_lock waits for other threads, and for itself.
HandlerLock(t) ==
  /\ Running(t, "lock")
  /\ g_mutex = NoThread
  /\ g_mutex' = t
  /\ SetTop(t, "visit", g_handle_list)
  /\ UNCHANGED <<progVars, buffered, endVars>>

\* log_flush begins with fflush(stdout).
Visiting(t) ==
  /\ Running(t, "visit")
  /\ Top(t).it # << >>
  /\ libc = NoThread

Visited(t) == Head(Top(t).it)

\* Nothing at the sentinel, where log_flush gets NULL.  The first word of an
\* AES key schedule is never F_MODE here, so an encrypted handle is passed
\* over; so may be one whose key has just been freed.
HandlerSkip(t) ==
  /\ Visiting(t)
  /\ Visited(t) \in encrypted \cup {Sentinel}
  /\ SetTop(t, "visit", Tail(Top(t).it))
  /\ UNCHANGED <<progVars, buffered, g_mutex, endVars>>

\* The handler raises SIGSEGV.  In a handler of SIGSEGV the signal is blocked
\* and the kernel ends the process, with what it had buffered.
Fault(t, reason) ==
  /\ doomed' = doomed \cup {reason}
  /\ IF Blocked(t, "SEGV") THEN alive' = FALSE /\ UNCHANGED handlers
                           ELSE Interrupt(t, "SEGV") /\ UNCHANGED alive
  /\ UNCHANGED <<progVars, buffered, g_mutex, libc, printed, signals>>

\* The key is NULL, or freed.
HandlerFault(t) ==
  /\ Visiting(t)
  /\ Visited(t) \in Handles
  /\ Visited(t) \notin encrypted \/ hstate[Visited(t)] = "keyless"
  /\ Fault(t, "handle")

HandlerUnlock(t) ==
  /\ Running(t, "visit")
  /\ Top(t).it = << >>
  /\ g_mutex' = NoThread
  /\ SetTop(t, "print", << >>)
  /\ UNCHANGED <<progVars, buffered, endVars>>

\* "all logger handles flush!", and trace_print; a stack stored past the end
\* of its buffer may go unnoticed.
HandlerPrint(t) ==
  /\ Running(t, "print")
  /\ libc = NoThread
  /\ printed' = TRUE
  /\ SetTop(t, "exit", << >>)
  /\ UNCHANGED <<progVars, buffered, g_mutex, libc, alive, signals, doomed>>

\* backtrace(buffer, 1024) stores a stack of more than 100 frames past the end
\* of its buffer, and trace_print faults.
HandlerOverrun(t) ==
  /\ Running(t, "print")
  /\ libc = NoThread
  /\ Fault(t, "stack")

\* exit(0) writes the buffers of all open streams, when it gets their locks.
HandlerExit(t) ==
  /\ Running(t, "exit")
  /\ libc = NoThread
  /\ buffered' = {}
  /\ alive' = FALSE
  /\ UNCHANGED <<progVars, g_mutex, handlers, libc, printed, signals, doomed>>

-----------------------------------------------------------------------------
Init ==
  /\ encrypted \in SUBSET Handles
  /\ hstate = [h \in Handles |-> "none"]
  /\ buffered = {}
  /\ g_mutex = NoThread
  /\ libc = NoThread
  /\ g_handle_list = << >>
  /\ is_initialized = FALSE
  /\ installed = FALSE
  /\ pc = [t \in Threads |-> "idle"]
  /\ handle = [t \in Threads |-> Sentinel]
  /\ next = [t \in Threads |-> << >>]
  /\ handlers = [t \in Threads |-> << >>]
  /\ alive = TRUE
  /\ printed = FALSE
  /\ signals = 0
  /\ doomed = {}

Call(t, h) == Create(t, h) \/ Write(t, h) \/ Destroy(t, h)

Step(t) ==
  \/ FreeKey(t) \/ Lock(t) \/ AddInit(t) \/ AddLink(t) \/ AddUnlock(t)
  \/ RemoveNode(t) \/ RemoveUnlock(t) \/ Free(t)
  \/ HandlerStart(t) \/ HandlerLock(t) \/ HandlerSkip(t) \/ HandlerFault(t)
  \/ HandlerUnlock(t) \/ HandlerPrint(t) \/ HandlerOverrun(t) \/ HandlerExit(t)

Next == \E t \in Threads : \/ Step(t)
                           \/ \E h \in Handles : Call(t, h)
                           \/ \E s \in Signals : Deliver(t, s)

Spec == Init /\ [][Next]_vars

\* A thread inside a call or a handler runs on.
FairSpec == Spec /\ \A t \in Threads : WF_vars(Step(t))

-----------------------------------------------------------------------------
(* Properties.                                                             *)

Frame == [sig : Signals, pc : {"start", "lock", "visit", "print", "exit"},
          it : Seq(Handles \cup {Sentinel})]

\* Every variable has its type; a thread handles each signal once at a time.
TypeOK ==
  /\ encrypted \in SUBSET Handles
  /\ hstate \in [Handles -> {"none", "new", "live", "closing", "keyless",
                             "freed"}]
  /\ buffered \in SUBSET Handles
  /\ g_mutex \in Threads \cup {NoThread} /\ libc \in Threads \cup {NoThread}
  /\ g_handle_list \in Seq(Handles \cup {Sentinel})
  /\ is_initialized \in BOOLEAN /\ installed \in BOOLEAN
  /\ pc \in [Threads -> {"idle", "addLock", "addInit", "addLink", "addUnlock",
                         "freeKey", "removeLock", "remove", "removeUnlock",
                         "free"}]
  /\ handle \in [Threads -> Handles \cup {Sentinel}]
  /\ next \in [Threads -> Seq(Handles \cup {Sentinel})]
  /\ handlers \in [Threads -> Seq(Frame)]
  /\ \A t \in Threads : IsInjective([i \in DOMAIN handlers[t] |-> handlers[t][i].sig])
  /\ alive \in BOOLEAN /\ printed \in BOOLEAN
  /\ signals \in Nat /\ doomed \subseteq Reasons

\* The handles that are complete and not yet taken out of the registry.
Registered ==
  {h \in Handles :
     \/ hstate[h] \in {"live", "closing"}
     \/ hstate[h] = "keyless" /\ ~\E t \in Threads : pc[t] = "free" /\ handle[t] = h}

\* Whenever g_mutex is free the list holds each of these handles once, and
\* last the sentinel, through the destruction of the list with the last handle
\* and its creation with the next one.
RegistryExact ==
  g_mutex = NoThread =>
    /\ IsInjective(g_handle_list)
    /\ Range(g_handle_list) =
         IF is_initialized THEN Registered \cup {Sentinel} ELSE Registered
    /\ is_initialized => Last(g_handle_list) = Sentinel
    /\ Registered # {} => is_initialized

\* No handler has a freed handle before it, whatever the threads destroy while
\* it goes through the list.
VisitsAllocated ==
  \A t \in Threads : \A i \in DOMAIN handlers[t] :
    \A h \in Range(handlers[t][i].it) \cap Handles :
      hstate[h] \notin {"none", "freed"}

\* A signal ends the process, with every record that was accepted written,
\* except when it meets a thread that owns g_mutex or, inside malloc or stdio,
\* a lock of the C library; when the handler reaches a handle that is not
\* encrypted or whose key has just been freed; or when it stores a stack that
\* is deeper than its buffer.
SignalEndsProcess ==
  (\E t \in Threads : handlers[t] # << >>)
    ~> doomed # {} \/ (~alive /\ buffered = {})

\* README.md: the stack is printed on every signal of abnormal exit.  Here only
\* of signals that meet no thread inside g_mutex or the library, and of stacks
\* that fit the buffer.
StackPrinted ==
  (\E t \in Threads : handlers[t] # << >>)
    ~> printed \/ doomed \ {"handle"} # {}
=============================================================================
