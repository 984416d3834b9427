---------------------------- MODULE TraceProofs ----------------------------
(***************************************************************************)
(* Theorems about Trace, for every set of threads and handles and every    *)
(* number of signals.                                                      *)
(***************************************************************************)
EXTENDS Trace, SequenceLemmas

-----------------------------------------------------------------------------
(* The inductive invariant.                                                *)

Nodes == Handles \cup {Sentinel}

\* The steps of a call that are taken with g_mutex locked.
InsideLabels == {"addInit", "addLink", "addUnlock", "remove", "removeUnlock"}

Inside(t) == pc[t] \in InsideLabels

VisitsAt(t, i) == i \in DOMAIN handlers[t] /\ handlers[t][i].pc = "visit"

\* The owner of g_mutex is inside a call or visits the list in one of its
\* handlers, never both and never in two handlers: a handler of a thread that
\* owns g_mutex stays at its lock.
MutexInv ==
  \A t \in Threads :
    /\ Inside(t) => g_mutex = t
    /\ \A i : VisitsAt(t, i) => g_mutex = t /\ ~Inside(t)
    /\ \A i, j : VisitsAt(t, i) /\ VisitsAt(t, j) => i = j

\* A handle belongs to one call at a time, and its state says which part of
\* the call that thread is in.
CallInv ==
  /\ \A t \in Threads : pc[t] # "idle" => handle[t] \in Handles
  /\ \A t \in Threads :
       /\ pc[t] \in {"addLock", "addInit", "addLink", "addUnlock"}
            => hstate[handle[t]] = "new"
       /\ pc[t] = "freeKey" => hstate[handle[t]] = "closing"
       /\ pc[t] \in {"removeLock", "remove", "removeUnlock", "free"}
            => hstate[handle[t]] = "keyless"
  /\ \A t, u \in Threads :
       pc[t] # "idle" /\ pc[u] # "idle" /\ handle[t] = handle[u] => t = u

CallAt(h, labels) == \E t \in Threads : pc[t] \in labels /\ handle[t] = h

\* The handles that have a node, also while a call is inside the mutex.
Listed ==
  {h \in Handles :
     \/ hstate[h] \in {"live", "closing"}
     \/ hstate[h] = "keyless" /\ ~CallAt(h, {"removeUnlock", "free"})
     \/ hstate[h] = "new" /\ CallAt(h, {"addUnlock"})}

\* The list at every step, inside the mutex too.
ListInv ==
  /\ IsInjective(g_handle_list)
  /\ Range(g_handle_list) = IF is_initialized THEN Listed \cup {Sentinel} ELSE Listed
  /\ is_initialized => g_handle_list # << >> /\ Last(g_handle_list) = Sentinel
  /\ Listed # {} => is_initialized
  /\ \A t \in Threads : pc[t] = "addLink" => is_initialized /\ next[t] = g_handle_list

\* What a handler has still to visit is in the list.
VisitInv ==
  \A t \in Threads : \A i \in DOMAIN handlers[t] :
    /\ handlers[t][i].pc # "visit" => handlers[t][i].it = << >>
    /\ Range(handlers[t][i].it) \subseteq Range(g_handle_list)

RegistryInv == TypeOK /\ MutexInv /\ CallInv /\ ListInv /\ VisitInv

-----------------------------------------------------------------------------
(* The frames of a thread's signal handlers.                               *)

Labels == {"start", "lock", "visit", "print", "exit"}

\* A thread handles each signal once at a time (part of TypeOK).
SigsOnce ==
  \A t \in Threads : \A i, j \in DOMAIN handlers[t] :
    handlers[t][i].sig = handlers[t][j].sig => i = j

LEMMA SigsOnceTyped ==
  SigsOnce <=> \A t \in Threads : IsInjective([i \in DOMAIN handlers[t] |-> handlers[t][i].sig])
BY DEF SigsOnce, IsInjective

LEMMA FramesTyped ==
  ASSUME handlers \in [Threads -> Seq(Frame)], NEW t \in Threads
  PROVE  /\ handlers[t] \in Seq(Frame)
         /\ Len(handlers[t]) \in Nat
         /\ DOMAIN handlers[t] = 1..Len(handlers[t])
         /\ \A i \in DOMAIN handlers[t] : handlers[t][i] \in Frame
BY LenProperties, ElementOfSeq

\* SetTop changes the last frame only, and keeps its signal.
LEMMA SetTopFrames ==
  ASSUME TypeOK, NEW t \in Threads, NEW label \in Labels, NEW it \in Seq(Nodes),
         handlers[t] # << >>, SetTop(t, label, it)
  PROVE  /\ handlers' \in [Threads -> Seq(Frame)]
         /\ \A u \in Threads \ {t} : handlers'[u] = handlers[u]
         /\ DOMAIN handlers'[t] = DOMAIN handlers[t]
         /\ Len(handlers[t]) \in DOMAIN handlers[t]
         /\ \A i \in DOMAIN handlers[t] :
              /\ handlers'[t][i].sig = handlers[t][i].sig
              /\ i = Len(handlers[t])
                   => handlers'[t][i].pc = label /\ handlers'[t][i].it = it
              /\ i # Len(handlers[t]) => handlers'[t][i] = handlers[t][i]
         /\ SigsOnce'
<1> DEFINE s == handlers[t]
           top == [Top(t) EXCEPT !.pc = label, !.it = it]
<1>1. /\ s \in Seq(Frame) /\ Len(s) \in Nat /\ DOMAIN s = 1..Len(s)
      /\ \A i \in DOMAIN s : s[i] \in Frame
  BY FramesTyped DEF TypeOK
<1>2. Len(s) \in DOMAIN s
  BY <1>1, EmptySeq
<1>3. Top(t) \in Frame /\ Top(t) = s[Len(s)]
  BY <1>1, <1>2 DEF Top, Last
<1>4. /\ top \in Frame /\ top.sig = Top(t).sig
      /\ top.pc = label /\ top.it = it
  BY <1>3 DEF Frame, Labels, Nodes
<1>5. /\ handlers' = [handlers EXCEPT ![t] = Append(Front(s), top)]
      /\ handlers \in [Threads -> Seq(Frame)]
  BY DEF SetTop, TypeOK
<1> HIDE DEF top
<1>6. /\ Append(Front(s), top) \in Seq(Frame)
      /\ Len(Append(Front(s), top)) = Len(s)
      /\ \A i \in 1..Len(s) : Append(Front(s), top)[i] = IF i = Len(s) THEN top ELSE s[i]
  BY <1>1, <1>4, ReplaceLast
<1>7. /\ handlers' \in [Threads -> Seq(Frame)]
      /\ \A u \in Threads \ {t} : handlers'[u] = handlers[u]
      /\ handlers'[t] = Append(Front(s), top)
  BY <1>5, <1>6
<1>8. DOMAIN handlers'[t] = DOMAIN s
  BY <1>1, <1>6, <1>7, LenProperties
<1>9. \A i \in DOMAIN s : handlers'[t][i] = IF i = Len(s) THEN top ELSE s[i]
  BY <1>1, <1>6, <1>7
<1>10. \A i \in DOMAIN s : handlers'[t][i].sig = s[i].sig
  BY <1>3, <1>4, <1>9
<1>11. SigsOnce'
  <2>1. SigsOnce
    BY SigsOnceTyped DEF TypeOK
  <2>2. \A u \in Threads \ {t} : \A i, j \in DOMAIN handlers'[u] :
          handlers'[u][i].sig = handlers'[u][j].sig => i = j
    BY <1>7, <2>1 DEF SigsOnce
  <2>3. \A i, j \in DOMAIN handlers'[t] :
          handlers'[t][i].sig = handlers'[t][j].sig => i = j
    BY <1>8, <1>10, <2>1 DEF SigsOnce
  <2>4. QED
    BY <2>2, <2>3 DEF SigsOnce
<1>12. QED
  BY <1>2, <1>4, <1>7, <1>8, <1>9, <1>10, <1>11

\* A signal that is not blocked adds a frame at the start of the handler.
LEMMA InterruptFrames ==
  ASSUME TypeOK, NEW t \in Threads, NEW s \in Signals, ~Blocked(t, s),
         Interrupt(t, s)
  PROVE  /\ handlers' \in [Threads -> Seq(Frame)]
         /\ \A u \in Threads \ {t} : handlers'[u] = handlers[u]
         /\ DOMAIN handlers'[t] = 1..Len(handlers[t]) + 1
         /\ \A i \in DOMAIN handlers[t] : /\ i \in DOMAIN handlers'[t]
                                          /\ handlers'[t][i] = handlers[t][i]
         /\ \A i \in DOMAIN handlers'[t] \ DOMAIN handlers[t] :
              handlers'[t][i].pc = "start" /\ handlers'[t][i].it = << >>
         /\ SigsOnce'
<1> DEFINE f == [sig |-> s, pc |-> "start", it |-> << >>]
           h == handlers[t]
<1>1. /\ h \in Seq(Frame) /\ Len(h) \in Nat /\ DOMAIN h = 1..Len(h)
  BY FramesTyped DEF TypeOK
<1>2. f \in Frame /\ f.sig = s /\ f.pc = "start" /\ f.it = << >>
  BY EmptySeq DEF Frame
<1>3. /\ handlers' = [handlers EXCEPT ![t] = Append(h, f)]
      /\ handlers \in [Threads -> Seq(Frame)]
  BY DEF Interrupt, TypeOK
<1> HIDE DEF f
<1>4. /\ Append(h, f) \in Seq(Frame)
      /\ Len(Append(h, f)) = Len(h) + 1
      /\ \A i \in 1..Len(h) : Append(h, f)[i] = h[i]
      /\ Append(h, f)[Len(h) + 1] = f
  BY <1>1, <1>2, AppendProperties
<1>5. /\ handlers' \in [Threads -> Seq(Frame)]
      /\ \A u \in Threads \ {t} : handlers'[u] = handlers[u]
      /\ handlers'[t] = Append(h, f)
  BY <1>3, <1>4
<1>6. DOMAIN handlers'[t] = 1..Len(h) + 1
  BY <1>1, <1>4, <1>5, LenProperties
<1>7. /\ \A i \in DOMAIN h : i \in DOMAIN handlers'[t] /\ handlers'[t][i] = h[i]
      /\ \A i \in DOMAIN handlers'[t] : i \notin DOMAIN h => i = Len(h) + 1
      /\ handlers'[t][Len(h) + 1] = f
  BY <1>1, <1>4, <1>5, <1>6
<1>8. SigsOnce'
  <2>1. SigsOnce
    BY SigsOnceTyped DEF TypeOK
  <2>2. \A i \in DOMAIN h : h[i].sig # s
    BY DEF Blocked
  <2>3. \A u \in Threads \ {t} : \A i, j \in DOMAIN handlers'[u] :
          handlers'[u][i].sig = handlers'[u][j].sig => i = j
    BY <1>5, <2>1 DEF SigsOnce
  <2>4. ASSUME NEW i \in DOMAIN handlers'[t], NEW j \in DOMAIN handlers'[t],
               handlers'[t][i].sig = handlers'[t][j].sig
        PROVE  i = j
    <3>1. CASE i \in DOMAIN h /\ j \in DOMAIN h
      BY <1>7, <2>1, <2>4, <3>1 DEF SigsOnce
    <3>2. CASE i \notin DOMAIN h /\ j \notin DOMAIN h
      BY <1>7, <3>2
    <3>3. CASE i \in DOMAIN h /\ j \notin DOMAIN h
      <4>1. handlers'[t][j] = f /\ handlers'[t][i] = h[i]
        BY <1>7, <3>3
      <4>2. QED
        BY <1>2, <2>2, <2>4, <3>3, <4>1
    <3>4. CASE i \notin DOMAIN h /\ j \in DOMAIN h
      <4>1. handlers'[t][i] = f /\ handlers'[t][j] = h[j]
        BY <1>7, <3>4
      <4>2. QED
        BY <1>2, <2>2, <2>4, <3>4, <4>1
    <3>5. QED
      BY <3>1, <3>2, <3>3, <3>4
  <2>5. QED
    BY <2>3, <2>4 DEF SigsOnce
<1>9. QED
  BY <1>2, <1>5, <1>6, <1>7, <1>8

-----------------------------------------------------------------------------
(* Steps of the signal handlers: they leave the program's state alone.     *)

\* What the handlers' steps have to preserve, besides the types.
HandlerInv == MutexInv /\ VisitInv

Frames == handlers' \in [Threads -> Seq(Frame)] /\ SigsOnce'

LEMMA DeliverInv ==
  ASSUME RegistryInv, NEW t \in Threads, NEW s \in Signals,
         ~Blocked(t, s), Interrupt(t, s), UNCHANGED <<progVars, g_mutex>>
  PROVE  Frames /\ HandlerInv'
<1>1. /\ Frames
      /\ \A u \in Threads \ {t} : handlers'[u] = handlers[u]
      /\ \A i \in DOMAIN handlers[t] : /\ i \in DOMAIN handlers'[t]
                                       /\ handlers'[t][i] = handlers[t][i]
      /\ \A i \in DOMAIN handlers'[t] \ DOMAIN handlers[t] :
           handlers'[t][i].pc = "start" /\ handlers'[t][i].it = << >>
  BY InterruptFrames DEF RegistryInv, Frames
<1>2. /\ UNCHANGED <<g_mutex, g_handle_list>>
      /\ \A u \in Threads : Inside(u)' <=> Inside(u)
  BY DEF progVars, callVars, listVars, Inside
<1>3. \A u \in Threads : \A i : VisitsAt(u, i)' => VisitsAt(u, i)
  BY <1>1 DEF VisitsAt
<1>4. MutexInv'
  BY <1>2, <1>3 DEF RegistryInv, MutexInv
<1>5. VisitInv'
  <2>1. ASSUME NEW i \in DOMAIN handlers'[t]
        PROVE  /\ handlers'[t][i].pc # "visit" => handlers'[t][i].it = << >>
               /\ Range(handlers'[t][i].it) \subseteq Range(g_handle_list)
    <3>1. CASE i \in DOMAIN handlers[t]
      BY <1>1, <3>1 DEF RegistryInv, VisitInv
    <3>2. CASE i \notin DOMAIN handlers[t]
      <4>1. handlers'[t][i].it = << >>
        BY <1>1, <2>1, <3>2
      <4>2. Range(<< >>) = {}
        BY DEF Range
      <4>3. QED
        BY <4>1, <4>2
    <3>3. QED
      BY <3>1, <3>2
  <2>2. \A u \in Threads \ {t} : \A i \in DOMAIN handlers'[u] :
          /\ handlers'[u][i].pc # "visit" => handlers'[u][i].it = << >>
          /\ Range(handlers'[u][i].it) \subseteq Range(g_handle_list)
    BY <1>1 DEF RegistryInv, VisitInv
  <2>3. QED
    BY <1>2, <2>1, <2>2 DEF VisitInv
<1>6. QED
  BY <1>1, <1>4, <1>5 DEF HandlerInv

\* A step of the innermost handler that owns g_mutex afterwards only if it
\* visits, and visits only what is in the list.
LEMMA SetTopInv ==
  ASSUME RegistryInv, NEW t \in Threads, handlers[t] # << >>,
         NEW label \in Labels, NEW it \in Seq(Nodes), SetTop(t, label, it),
         UNCHANGED progVars,
         label # "visit" => it = << >>,
         Range(it) \subseteq Range(g_handle_list),
         \/ g_mutex = NoThread /\ g_mutex' = t
         \/ Top(t).pc = "visit" /\ label = "visit" /\ g_mutex' = g_mutex
         \/ Top(t).pc = "visit" /\ label # "visit" /\ g_mutex' = NoThread
         \/ label # "visit" /\ g_mutex' = g_mutex
  PROVE  Frames /\ HandlerInv'
<1>. PICK n : n = Len(handlers[t])
  OBVIOUS
<1>1. /\ Frames
      /\ \A u \in Threads \ {t} : handlers'[u] = handlers[u]
      /\ DOMAIN handlers'[t] = DOMAIN handlers[t]
      /\ n \in DOMAIN handlers[t]
      /\ \A i \in DOMAIN handlers[t] :
           /\ i = n => handlers'[t][i].pc = label /\ handlers'[t][i].it = it
           /\ i # n => handlers'[t][i] = handlers[t][i]
  BY SetTopFrames DEF RegistryInv, Frames
<1>2. Top(t) = handlers[t][n]
  BY DEF Top, Last
<1>3. /\ UNCHANGED g_handle_list
      /\ \A u \in Threads : Inside(u)' <=> Inside(u)
  BY DEF progVars, callVars, listVars, Inside
<1>4. /\ \A u \in Threads \ {t} : \A i : VisitsAt(u, i)' <=> VisitsAt(u, i)
      /\ \A i : i # n => (VisitsAt(t, i)' <=> VisitsAt(t, i))
      /\ VisitsAt(t, n)' <=> label = "visit"
      /\ VisitsAt(t, n) <=> Top(t).pc = "visit"
  <2>1. \A u \in Threads \ {t} : \A i : VisitsAt(u, i)' <=> VisitsAt(u, i)
    BY <1>1 DEF VisitsAt
  <2>2. \A i : i # n => (VisitsAt(t, i)' <=> VisitsAt(t, i))
    BY <1>1 DEF VisitsAt
  <2>3. VisitsAt(t, n)' <=> label = "visit"
    BY <1>1 DEF VisitsAt
  <2>4. VisitsAt(t, n) <=> Top(t).pc = "visit"
    BY <1>1, <1>2 DEF VisitsAt
  <2>5. QED
    BY <2>1, <2>2, <2>3, <2>4
<1>5. MutexInv'
  <2>1. NoThread \notin Threads
    BY TraceAssumption
  <2>2. CASE g_mutex = NoThread /\ g_mutex' = t
    <3>1. \A u \in Threads : ~Inside(u) /\ \A i : ~VisitsAt(u, i)
      BY <2>1, <2>2 DEF RegistryInv, MutexInv
    <3>2. QED
      BY <1>3, <1>4, <2>2, <3>1 DEF MutexInv
  <2>3. CASE Top(t).pc = "visit" /\ label = "visit" /\ g_mutex' = g_mutex
    <3>1. \A u \in Threads : \A i : VisitsAt(u, i)' <=> VisitsAt(u, i)
      BY <1>4, <2>3
    <3>2. QED
      BY <1>3, <2>3, <3>1 DEF RegistryInv, MutexInv
  <2>4. CASE Top(t).pc = "visit" /\ label # "visit" /\ g_mutex' = NoThread
    <3>1. VisitsAt(t, n)
      BY <1>4, <2>4
    <3>2. g_mutex = t /\ ~Inside(t) /\ \A i : VisitsAt(t, i) => i = n
      BY <3>1 DEF RegistryInv, MutexInv
    <3>3. \A u \in Threads \ {t} : ~Inside(u) /\ \A i : ~VisitsAt(u, i)
      BY <3>2 DEF RegistryInv, MutexInv
    <3>4. \A u \in Threads : ~Inside(u) /\ \A i : ~VisitsAt(u, i)'
      BY <1>4, <2>4, <3>2, <3>3
    <3>5. QED
      BY <1>3, <3>4 DEF MutexInv
  <2>5. CASE label # "visit" /\ g_mutex' = g_mutex
    <3>1. \A u \in Threads : \A i : VisitsAt(u, i)' => VisitsAt(u, i)
      BY <1>4, <2>5
    <3>2. QED
      BY <1>3, <2>5, <3>1 DEF RegistryInv, MutexInv
  <2>6. QED
    BY <2>2, <2>3, <2>4, <2>5
<1>6. VisitInv'
  <2>1. ASSUME NEW i \in DOMAIN handlers'[t]
        PROVE  /\ handlers'[t][i].pc # "visit" => handlers'[t][i].it = << >>
               /\ Range(handlers'[t][i].it) \subseteq Range(g_handle_list)
    BY <1>1 DEF RegistryInv, VisitInv
  <2>2. \A u \in Threads \ {t} : \A i \in DOMAIN handlers'[u] :
          /\ handlers'[u][i].pc # "visit" => handlers'[u][i].it = << >>
          /\ Range(handlers'[u][i].it) \subseteq Range(g_handle_list)
    BY <1>1 DEF RegistryInv, VisitInv
  <2>3. QED
    BY <1>3, <2>1, <2>2 DEF VisitInv
<1>7. QED
  BY <1>1, <1>5, <1>6 DEF HandlerInv

-----------------------------------------------------------------------------
(* Steps of the program.                                                   *)

\* What the steps of a call say of the state of its handle.
StateAt(label, state) ==
  /\ label \in {"addLock", "addInit", "addLink", "addUnlock"} => state = "new"
  /\ label = "freeKey" => state = "closing"
  /\ label \in {"removeLock", "remove", "removeUnlock", "free"} => state = "keyless"

\* A handle in this state, whose call is at this step, has a node.
HasNode(state, label) ==
  \/ state \in {"live", "closing"}
  \/ state = "keyless" /\ label \notin {"removeUnlock", "free"}
  \/ state = "new" /\ label = "addUnlock"

\* A step of the program's thread t on handle h, that leaves its handle in
\* `state' and its call at `label', concerns that handle only.
LEMMA CallStep ==
  ASSUME RegistryInv, NEW t \in Threads, NEW h \in Handles, NEW label, NEW state,
         pc' = [pc EXCEPT ![t] = label],
         handle' = [handle EXCEPT ![t] = h],
         hstate' = [hstate EXCEPT ![h] = state],
         pc[t] = "idle" => hstate[h] \in {"none", "live"},
         pc[t] # "idle" => handle[t] = h,
         StateAt(label, state)
  PROVE  /\ CallInv'
         /\ \A g \in Handles \ {h} : g \in Listed' <=> g \in Listed
         /\ h \in Listed' <=> HasNode(state, label)
         /\ h \in Listed <=> HasNode(hstate[h], pc[t])
<1>1. /\ pc \in [Threads -> {"idle", "addLock", "addInit", "addLink", "addUnlock",
                             "freeKey", "removeLock", "remove", "removeUnlock",
                             "free"}]
      /\ handle \in [Threads -> Handles \cup {Sentinel}]
      /\ hstate \in [Handles -> {"none", "new", "live", "closing", "keyless", "freed"}]
  BY DEF RegistryInv, TypeOK
<1>2. /\ pc'[t] = label /\ handle'[t] = h /\ hstate'[h] = state
      /\ \A u \in Threads \ {t} : pc'[u] = pc[u] /\ handle'[u] = handle[u]
      /\ \A g \in Handles \ {h} : hstate'[g] = hstate[g]
  BY <1>1
<1>3. \A u \in Threads : pc[u] # "idle" => handle[u] \in Handles /\ StateAt(pc[u], hstate[handle[u]])
  BY DEF RegistryInv, CallInv, StateAt
<1>4. \A u \in Threads \ {t} : pc[u] # "idle" => handle[u] # h
  <2>1. SUFFICES ASSUME NEW u \in Threads \ {t}, pc[u] # "idle", handle[u] = h
                 PROVE  FALSE
    OBVIOUS
  <2>2. CASE pc[t] = "idle"
    BY <1>1, <1>3, <2>1, <2>2 DEF StateAt
  <2>3. CASE pc[t] # "idle"
    BY <2>1, <2>3 DEF RegistryInv, CallInv
  <2>4. QED
    BY <2>2, <2>3
<1>5. CallInv'
  <2>1. \A u \in Threads : pc'[u] # "idle" => handle'[u] \in Handles
    BY <1>2, <1>3
  <2>2. \A u \in Threads : pc'[u] # "idle" => StateAt(pc'[u], hstate'[handle'[u]])
    <3>1. SUFFICES ASSUME NEW u \in Threads \ {t}, pc[u] # "idle"
                   PROVE  StateAt(pc[u], hstate'[handle[u]])
      BY <1>2
    <3>2. hstate'[handle[u]] = hstate[handle[u]]
      BY <1>2, <1>3, <1>4, <3>1
    <3>3. QED
      BY <1>3, <3>1, <3>2
  <2>3. \A u, v \in Threads :
          pc'[u] # "idle" /\ pc'[v] # "idle" /\ handle'[u] = handle'[v] => u = v
    <3>1. SUFFICES ASSUME NEW u \in Threads, NEW v \in Threads, pc'[u] # "idle",
                          pc'[v] # "idle", handle'[u] = handle'[v]
                   PROVE  u = v
      OBVIOUS
    <3>2. CASE u = t \/ v = t
      BY <1>2, <1>4, <3>1, <3>2
    <3>3. CASE u # t /\ v # t
      BY <1>2, <3>1, <3>3 DEF RegistryInv, CallInv
    <3>4. QED
      BY <3>2, <3>3
  <2>4. QED
    BY <2>1, <2>2, <2>3 DEF CallInv, StateAt
<1>6. ASSUME NEW g \in Handles \ {h}, NEW labels, "idle" \notin labels
      PROVE  CallAt(g, labels)' <=> CallAt(g, labels)
  <2>1. \A u \in Threads : (pc'[u] \in labels /\ handle'[u] = g)
                             <=> (pc[u] \in labels /\ handle[u] = g)
    BY <1>2, <1>6
  <2>2. QED
    BY <2>1 DEF CallAt
<1>7. \A g \in Handles \ {h} : g \in Listed' <=> g \in Listed
  <2>1. TAKE g \in Handles \ {h}
  <2>2. /\ CallAt(g, {"removeUnlock", "free"})' <=> CallAt(g, {"removeUnlock", "free"})
        /\ CallAt(g, {"addUnlock"})' <=> CallAt(g, {"addUnlock"})
    BY <1>6
  <2>3. hstate'[g] = hstate[g]
    BY <1>2
  <2>4. QED
    BY <2>2, <2>3 DEF Listed
<1>8. h \in Listed' <=> HasNode(state, label)
  <2>1. /\ CallAt(h, {"removeUnlock", "free"})' <=> label \in {"removeUnlock", "free"}
        /\ CallAt(h, {"addUnlock"})' <=> label = "addUnlock"
    BY <1>2, <1>4 DEF CallAt
  <2>2. QED
    BY <1>2, <2>1 DEF Listed, HasNode
<1>9. h \in Listed <=> HasNode(hstate[h], pc[t])
  <2>1. CASE pc[t] = "idle"
    BY <2>1 DEF Listed, HasNode
  <2>2. CASE pc[t] # "idle"
    <3>1. /\ CallAt(h, {"removeUnlock", "free"}) <=> pc[t] \in {"removeUnlock", "free"}
          /\ CallAt(h, {"addUnlock"}) <=> pc[t] = "addUnlock"
      BY <1>4, <2>2 DEF CallAt
    <3>2. QED
      BY <3>1 DEF Listed, HasNode
  <2>3. QED
    BY <2>1, <2>2
<1>10. QED
  BY <1>5, <1>7, <1>8, <1>9

\* A step that changes neither the list nor which handles have a node.
LEMMA SameList ==
  ASSUME RegistryInv, NEW t \in Threads, UNCHANGED <<listVars, next, handlers>>,
         \A u \in Threads \ {t} : pc'[u] = pc[u], pc'[t] # "addLink",
         Listed' = Listed
  PROVE  ListInv' /\ VisitInv'
<1>1. UNCHANGED <<g_handle_list, is_initialized, next, handlers>>
  BY DEF listVars
<1>2. ListInv'
  BY <1>1 DEF RegistryInv, ListInv
<1>3. VisitInv'
  BY <1>1 DEF RegistryInv, VisitInv
<1>4. QED
  BY <1>2, <1>3

\* A step of a thread without handlers, that owns g_mutex when it is inside
\* and leaves it to nobody when it leaves.
LEMMA MutexStep ==
  ASSUME RegistryInv, NEW t \in Threads, NEW label, handlers[t] = << >>,
         pc' = [pc EXCEPT ![t] = label], UNCHANGED handlers,
         \/ g_mutex' = g_mutex /\ (label \in InsideLabels => Inside(t))
         \/ g_mutex = NoThread /\ g_mutex' = t
         \/ Inside(t) /\ g_mutex' = NoThread /\ label \notin InsideLabels
  PROVE  MutexInv'
<1>1. /\ pc'[t] = label /\ \A u \in Threads \ {t} : pc'[u] = pc[u]
  BY DEF RegistryInv, TypeOK
<1>2. /\ \A u \in Threads : \A i : VisitsAt(u, i)' <=> VisitsAt(u, i)
      /\ \A i : ~VisitsAt(t, i)
      /\ \A u \in Threads \ {t} : Inside(u)' <=> Inside(u)
      /\ Inside(t)' <=> label \in InsideLabels
  BY <1>1 DEF VisitsAt, Inside
<1>3. CASE g_mutex' = g_mutex /\ (label \in InsideLabels => Inside(t))
  BY <1>2, <1>3 DEF RegistryInv, MutexInv
<1>4. CASE g_mutex = NoThread /\ g_mutex' = t
  <2>1. \A u \in Threads : ~Inside(u) /\ \A i : ~VisitsAt(u, i)
    BY <1>4, TraceAssumption DEF RegistryInv, MutexInv
  <2>2. QED
    BY <1>2, <1>4, <2>1 DEF MutexInv
<1>5. CASE Inside(t) /\ g_mutex' = NoThread /\ label \notin InsideLabels
  <2>1. \A u \in Threads \ {t} : ~Inside(u) /\ \A i : ~VisitsAt(u, i)
    BY <1>5 DEF RegistryInv, MutexInv
  <2>2. QED
    BY <1>2, <1>5, <2>1 DEF MutexInv
<1>6. QED
  BY <1>3, <1>4, <1>5

\* The list as the node of h comes or goes, in a step taken with g_mutex.
LEMMA ListStep ==
  ASSUME RegistryInv, NEW t \in Threads, Inside(t), UNCHANGED handlers,
         \A u \in Threads \ {t} : pc'[u] = pc[u], 
         Listed' \subseteq Handles,
         g_handle_list' \in Seq(Nodes), IsInjective(g_handle_list'),
         Range(g_handle_list') = IF is_initialized' THEN Listed' \cup {Sentinel} ELSE Listed',
         is_initialized' => g_handle_list' # << >> /\ Last(g_handle_list') = Sentinel,
         Listed' # {} => is_initialized',
         pc'[t] = "addLink" => is_initialized' /\ next'[t] = g_handle_list'
  PROVE  ListInv' /\ VisitInv'
<1>1. \A u \in Threads \ {t} : ~Inside(u)
  BY DEF RegistryInv, MutexInv
<1>2. \A u \in Threads \ {t} : pc'[u] # "addLink"
  BY <1>1 DEF Inside, InsideLabels
<1>3. ListInv'
  BY <1>2 DEF ListInv
<1>4. \A u \in Threads : \A i : ~VisitsAt(u, i)
  <2>1. g_mutex = t
    BY DEF RegistryInv, MutexInv
  <2>2. QED
    BY <2>1 DEF RegistryInv, MutexInv
<1>5. \A u \in Threads : \A i \in DOMAIN handlers[u] : handlers[u][i].it = << >>
  BY <1>4 DEF VisitsAt, RegistryInv, VisitInv
<1>6. Range(<< >>) = {}
  BY DEF Range
<1>7. VisitInv'
  BY <1>5, <1>6 DEF VisitInv
<1>8. QED
  BY <1>3, <1>7

LEMMA ListTyped ==
  ASSUME RegistryInv
  PROVE  /\ g_handle_list \in Seq(Nodes)
         /\ Listed \subseteq Handles
         /\ Sentinel \notin Listed
         /\ handle \in [Threads -> Nodes] /\ next \in [Threads -> Seq(Nodes)]
BY TraceAssumption DEF RegistryInv, TypeOK, Listed, Nodes

LEMMA CallsInv ==
  ASSUME RegistryInv, NEW t \in Threads, NEW h \in Handles, Call(t, h)
  PROVE  RegistryInv'
<1>1. CASE Create(t, h)
  <2>1. TypeOK'
    BY <1>1 DEF RegistryInv, TypeOK, Create, Enter, At, Goto, listVars, endVars
  <2>2. /\ pc[t] = "idle" /\ handlers[t] = << >> /\ hstate[h] = "none"
        /\ pc' = [pc EXCEPT ![t] = "addLock"] /\ handle' = [handle EXCEPT ![t] = h]
        /\ hstate' = [hstate EXCEPT ![h] = "new"]
        /\ UNCHANGED <<g_mutex, listVars, next, handlers>>
    BY <1>1 DEF Create, Enter, At, Goto
  <2>3. MutexInv'
    BY <2>2, MutexStep DEF InsideLabels
  <2>4. CallInv' /\ Listed' = Listed
    <3>1. /\ CallInv'
          /\ \A g \in Handles \ {h} : g \in Listed' <=> g \in Listed
          /\ h \in Listed' <=> HasNode("new", "addLock")
          /\ h \in Listed <=> HasNode("none", "idle")
      BY <2>2, CallStep DEF StateAt
    <3>2. QED
      BY <3>1 DEF HasNode, Listed
  <2>5. ListInv' /\ VisitInv'
    <3>1. pc'[t] = "addLock" /\ \A u \in Threads \ {t} : pc'[u] = pc[u]
      BY <2>2 DEF RegistryInv, TypeOK
    <3>2. QED
      BY <2>2, <2>4, <3>1, SameList
  <2>6. QED
    BY <2>1, <2>3, <2>4, <2>5 DEF RegistryInv
<1>2. CASE Write(t, h)
  <2>1. TypeOK'
    BY <1>2 DEF RegistryInv, TypeOK, Write, At, callVars, listVars, endVars
  <2>2. /\ UNCHANGED <<hstate, g_mutex, g_handle_list, is_initialized, pc, handle, next, handlers>>
    BY <1>2 DEF Write, callVars, listVars
  <2>3. MutexInv' /\ CallInv' /\ ListInv' /\ VisitInv'
    BY <2>2 DEF RegistryInv, MutexInv, CallInv, ListInv, VisitInv, Inside, VisitsAt, Listed, CallAt
  <2>4. QED
    BY <2>1, <2>3 DEF RegistryInv
<1>3. CASE Destroy(t, h)
  <2>1. TypeOK'
    BY <1>3 DEF RegistryInv, TypeOK, Destroy, Enter, At, Goto, listVars, endVars
  <2>2. /\ pc[t] = "idle" /\ handlers[t] = << >> /\ hstate[h] = "live"
        /\ pc' = [pc EXCEPT ![t] = "freeKey"] /\ handle' = [handle EXCEPT ![t] = h]
        /\ hstate' = [hstate EXCEPT ![h] = "closing"]
        /\ UNCHANGED <<g_mutex, listVars, next, handlers>>
    BY <1>3 DEF Destroy, Enter, At, Goto
  <2>3. MutexInv'
    BY <2>2, MutexStep DEF InsideLabels
  <2>4. CallInv' /\ Listed' = Listed
    <3>1. /\ CallInv'
          /\ \A g \in Handles \ {h} : g \in Listed' <=> g \in Listed
          /\ h \in Listed' <=> HasNode("closing", "freeKey")
          /\ h \in Listed <=> HasNode("live", "idle")
      BY <2>2, CallStep DEF StateAt
    <3>2. QED
      BY <3>1 DEF HasNode, Listed
  <2>5. ListInv' /\ VisitInv'
    <3>1. pc'[t] = "freeKey" /\ \A u \in Threads \ {t} : pc'[u] = pc[u]
      BY <2>2 DEF RegistryInv, TypeOK
    <3>2. QED
      BY <2>2, <2>4, <3>1, SameList
  <2>6. QED
    BY <2>1, <2>3, <2>4, <2>5 DEF RegistryInv
<1>4. QED
  BY <1>1, <1>2, <1>3 DEF Call

\* The steps of a call that leave the list alone: from one label to the next,
\* from one state of the handle to the next.
LEMMA MoveInv ==
  ASSUME RegistryInv, NEW t \in Threads, NEW from, NEW to, NEW state,
         At(t, from), from # "idle", Goto(t, to), to # "addLink",
         StateAt(to, state),
         hstate' = [hstate EXCEPT ![handle[t]] = state],
         HasNode(state, to) <=> HasNode(hstate[handle[t]], from),
         UNCHANGED <<handle, listVars, next, handlers>>,
         \/ g_mutex' = g_mutex /\ (to \in InsideLabels => from \in InsideLabels)
         \/ g_mutex = NoThread /\ g_mutex' = t
         \/ from \in InsideLabels /\ g_mutex' = NoThread /\ to \notin InsideLabels
  PROVE  MutexInv' /\ CallInv' /\ ListInv' /\ VisitInv'
<1> DEFINE h == handle[t]
<1>1. /\ pc[t] = from /\ handlers[t] = << >> /\ pc' = [pc EXCEPT ![t] = to]
  BY DEF At, Goto
<1>2. h \in Handles
  BY <1>1 DEF RegistryInv, CallInv
<1>3. handle' = [handle EXCEPT ![t] = h]
  BY ListTyped
<1>4. MutexInv'
  BY <1>1, MutexStep DEF Inside
<1>5. /\ CallInv'
      /\ \A g \in Handles \ {h} : g \in Listed' <=> g \in Listed
      /\ h \in Listed' <=> HasNode(state, to)
      /\ h \in Listed <=> HasNode(hstate[h], pc[t])
  <2>1. h = handle[t] /\ hstate' = [hstate EXCEPT ![h] = state]
    OBVIOUS
  <2> HIDE DEF h
  <2>2. PICK g : g = h
    OBVIOUS
  <2>3. QED
    BY <1>1, <1>2, <1>3, <2>1, <2>2, CallStep
<1>6. Listed' = Listed
  BY <1>1, <1>5 DEF Listed
<1>7. ListInv' /\ VisitInv'
  <2>1. pc'[t] = to /\ \A u \in Threads \ {t} : pc'[u] = pc[u]
    BY <1>1 DEF RegistryInv, TypeOK
  <2>2. QED
    BY <1>6, <2>1, SameList
<1>8. QED
  BY <1>4, <1>5, <1>7

LEMMA MovesInv ==
  ASSUME RegistryInv, NEW t \in Threads,
         FreeKey(t) \/ Lock(t) \/ AddUnlock(t) \/ RemoveUnlock(t) \/ Free(t)
  PROVE  RegistryInv'
<1>1. /\ hstate \in [Handles -> {"none", "new", "live", "closing", "keyless", "freed"}]
      /\ \A h \in Handles : hstate = [hstate EXCEPT ![h] = hstate[h]]
  BY DEF RegistryInv, TypeOK
<1>2. pc[t] # "idle" => handle[t] \in Handles /\ StateAt(pc[t], hstate[handle[t]])
  BY DEF RegistryInv, CallInv, StateAt
<1>3. CASE FreeKey(t)
  <2>1. TypeOK'
    BY <1>2, <1>3 DEF RegistryInv, TypeOK, FreeKey, At, Goto, listVars, endVars
  <2>2. /\ At(t, "freeKey") /\ Goto(t, "removeLock") /\ pc[t] = "freeKey"
        /\ hstate' = [hstate EXCEPT ![handle[t]] = "keyless"]
        /\ UNCHANGED <<handle, listVars, next, handlers, g_mutex>>
    BY <1>3 DEF FreeKey, At
  <2>3. /\ StateAt("removeLock", "keyless")
        /\ HasNode("keyless", "removeLock") <=> HasNode(hstate[handle[t]], "freeKey")
    BY <1>2, <2>2 DEF StateAt, HasNode
  <2>4. MutexInv' /\ CallInv' /\ ListInv' /\ VisitInv'
    BY <2>2, <2>3, MoveInv DEF InsideLabels
  <2>5. QED
    BY <2>1, <2>4 DEF RegistryInv
<1>4. CASE Lock(t)
  <2>1. TypeOK'
    BY <1>4 DEF RegistryInv, TypeOK, Lock, At, Goto, listVars, endVars
  <2>2. PICK from \in {"addLock", "removeLock"} : pc[t] = from /\ At(t, from)
    BY <1>4 DEF Lock, At
  <2>3. PICK to : to = IF from = "addLock" THEN "addInit" ELSE "remove"
    OBVIOUS
  <2>4. PICK state : state = hstate[handle[t]]
    OBVIOUS
  <2>5. /\ Goto(t, to) /\ g_mutex = NoThread /\ g_mutex' = t
        /\ hstate' = [hstate EXCEPT ![handle[t]] = state]
        /\ UNCHANGED <<handle, listVars, next, handlers>>
    BY <1>1, <1>2, <1>4, <2>2, <2>3, <2>4 DEF Lock
  <2>6. /\ StateAt(to, state)
        /\ HasNode(state, to) <=> HasNode(hstate[handle[t]], from)
    BY <1>2, <2>2, <2>3, <2>4 DEF StateAt, HasNode
  <2>7. from # "idle" /\ to # "addLink"
    BY <2>2, <2>3
  <2>8. MutexInv' /\ CallInv' /\ ListInv' /\ VisitInv'
    BY <2>2, <2>5, <2>6, <2>7, MoveInv
  <2>9. QED
    BY <2>1, <2>8 DEF RegistryInv
<1>5. CASE AddUnlock(t)
  <2>1. TypeOK'
    BY <1>2, <1>5 DEF RegistryInv, TypeOK, AddUnlock, At, Goto, listVars, endVars
  <2>2. /\ At(t, "addUnlock") /\ Goto(t, "idle") /\ pc[t] = "addUnlock"
        /\ hstate' = [hstate EXCEPT ![handle[t]] = "live"]
        /\ UNCHANGED <<handle, listVars, next, handlers>> /\ g_mutex' = NoThread
    BY <1>5 DEF AddUnlock, At
  <2>3. /\ StateAt("idle", "live")
        /\ HasNode("live", "idle") <=> HasNode(hstate[handle[t]], "addUnlock")
    BY <1>2, <2>2 DEF StateAt, HasNode
  <2>4. MutexInv' /\ CallInv' /\ ListInv' /\ VisitInv'
    BY <2>2, <2>3, MoveInv DEF InsideLabels
  <2>5. QED
    BY <2>1, <2>4 DEF RegistryInv
<1>6. CASE RemoveUnlock(t)
  <2>1. TypeOK'
    BY <1>6 DEF RegistryInv, TypeOK, RemoveUnlock, At, Goto, listVars, endVars
  <2>2. PICK state : state = hstate[handle[t]]
    OBVIOUS
  <2>3. /\ At(t, "removeUnlock") /\ Goto(t, "free") /\ pc[t] = "removeUnlock"
        /\ hstate' = [hstate EXCEPT ![handle[t]] = state]
        /\ UNCHANGED <<handle, listVars, next, handlers>> /\ g_mutex' = NoThread
    BY <1>1, <1>2, <1>6, <2>2 DEF RemoveUnlock, At
  <2>4. /\ StateAt("free", state)
        /\ HasNode(state, "free") <=> HasNode(hstate[handle[t]], "removeUnlock")
    BY <1>2, <2>2, <2>3 DEF StateAt, HasNode
  <2>5. MutexInv' /\ CallInv' /\ ListInv' /\ VisitInv'
    BY <2>3, <2>4, MoveInv DEF InsideLabels
  <2>6. QED
    BY <2>1, <2>5 DEF RegistryInv
<1>7. CASE Free(t)
  <2>1. TypeOK'
    BY <1>2, <1>7 DEF RegistryInv, TypeOK, Free, At, Goto, listVars, endVars
  <2>2. /\ At(t, "free") /\ Goto(t, "idle") /\ pc[t] = "free"
        /\ hstate' = [hstate EXCEPT ![handle[t]] = "freed"]
        /\ UNCHANGED <<handle, listVars, next, handlers, g_mutex>>
    BY <1>7 DEF Free, At
  <2>3. /\ StateAt("idle", "freed")
        /\ HasNode("freed", "idle") <=> HasNode(hstate[handle[t]], "free")
    BY <1>2, <2>2 DEF StateAt, HasNode
  <2>4. MutexInv' /\ CallInv' /\ ListInv' /\ VisitInv'
    BY <2>2, <2>3, MoveInv DEF InsideLabels
  <2>5. QED
    BY <2>1, <2>4 DEF RegistryInv
<1>8. QED
  BY <1>3, <1>4, <1>5, <1>6, <1>7

\* The steps that change the list, from `from' to `to', without a change of
\* the state of the handle.
LEMMA ChangeInv ==
  ASSUME RegistryInv, NEW t \in Threads, NEW from \in InsideLabels,
         NEW to \in InsideLabels, At(t, from), Goto(t, to),
         StateAt(to, hstate[handle[t]]),
         UNCHANGED <<hstate, handle, handlers, g_mutex>>
  PROVE  /\ Inside(t) /\ handle[t] \in Handles
         /\ MutexInv' /\ CallInv'
         /\ Listed' = (Listed \ {handle[t]})
                        \cup (IF HasNode(hstate[handle[t]], to) THEN {handle[t]} ELSE {})
         /\ handle[t] \in Listed <=> HasNode(hstate[handle[t]], from)
         /\ pc'[t] = to /\ \A u \in Threads \ {t} : pc'[u] = pc[u]
<1>1. /\ pc[t] = from /\ handlers[t] = << >> /\ pc' = [pc EXCEPT ![t] = to]
      /\ from # "idle" /\ Inside(t)
  BY DEF At, Goto, InsideLabels, Inside
<1>2. PICK h : h = handle[t]
  OBVIOUS
<1>3. PICK state : state = hstate[h]
  OBVIOUS
<1>4. h \in Handles
  BY <1>1, <1>2 DEF RegistryInv, CallInv
<1>5. handle' = [handle EXCEPT ![t] = h] /\ hstate' = [hstate EXCEPT ![h] = state]
  BY <1>2, <1>3, <1>4, ListTyped DEF RegistryInv, TypeOK
<1>6. MutexInv'
  BY <1>1, MutexStep
<1>7. /\ CallInv'
      /\ \A g \in Handles \ {h} : g \in Listed' <=> g \in Listed
      /\ h \in Listed' <=> HasNode(state, to)
      /\ h \in Listed <=> HasNode(hstate[h], pc[t])
  BY <1>1, <1>2, <1>3, <1>4, <1>5, CallStep
<1>8. Listed \subseteq Handles /\ Listed' \subseteq Handles
  BY DEF Listed
<1>9. Listed' = (Listed \ {h}) \cup (IF HasNode(state, to) THEN {h} ELSE {})
  BY <1>4, <1>7, <1>8
<1>10. pc'[t] = to /\ \A u \in Threads \ {t} : pc'[u] = pc[u]
  BY <1>1 DEF RegistryInv, TypeOK
<1>11. QED
  BY <1>1, <1>2, <1>3, <1>4, <1>6, <1>7, <1>9, <1>10

LEMMA AddInitInv == ASSUME RegistryInv, NEW t \in Threads, AddInit(t) PROVE RegistryInv'
<1>1. /\ At(t, "addInit") /\ Goto(t, "addLink") /\ pc[t] = "addInit"
      /\ g_handle_list' = IF is_initialized THEN g_handle_list ELSE <<Sentinel>>
      /\ is_initialized' = TRUE /\ next' = [next EXCEPT ![t] = g_handle_list']
      /\ UNCHANGED <<hstate, handle, handlers, g_mutex>>
  BY DEF AddInit, At, list_create
<1>2. StateAt("addLink", hstate[handle[t]])
  BY <1>1 DEF RegistryInv, CallInv, StateAt
<1>3. /\ Inside(t) /\ handle[t] \in Handles /\ MutexInv' /\ CallInv'
      /\ Listed' = (Listed \ {handle[t]})
                     \cup (IF HasNode(hstate[handle[t]], "addLink") THEN {handle[t]} ELSE {})
      /\ handle[t] \in Listed <=> HasNode(hstate[handle[t]], "addInit")
      /\ pc'[t] = "addLink" /\ \A u \in Threads \ {t} : pc'[u] = pc[u]
  BY <1>1, <1>2, ChangeInv DEF InsideLabels
<1>4. Listed' = Listed
  BY <1>3 DEF HasNode
<1>5. /\ <<Sentinel>> \in Seq(Nodes) /\ <<Sentinel>> # << >> /\ Last(<<Sentinel>>) = Sentinel
      /\ IsInjective(<<Sentinel>>) /\ Range(<<Sentinel>>) = {Sentinel}
  BY DEF Nodes, Last, IsInjective, Range
<1>6. /\ g_handle_list' \in Seq(Nodes) /\ IsInjective(g_handle_list')
      /\ Range(g_handle_list') = Listed \cup {Sentinel}
      /\ g_handle_list' # << >> /\ Last(g_handle_list') = Sentinel
  <2>1. CASE is_initialized
    BY <1>1, <2>1, ListTyped DEF RegistryInv, ListInv
  <2>2. CASE ~is_initialized
    <3>1. Listed = {}
      BY <2>2 DEF RegistryInv, ListInv
    <3>2. QED
      BY <1>1, <1>5, <2>2, <3>1
  <2>3. QED
    BY <2>1, <2>2
<1>7. next'[t] = g_handle_list' /\ next' \in [Threads -> Seq(Nodes)]
  BY <1>1, <1>6, ListTyped
<1>8. ListInv' /\ VisitInv'
  BY <1>1, <1>3, <1>4, <1>6, <1>7, ListTyped, ListStep
<1>9. TypeOK'
  BY <1>6, <1>7 DEF RegistryInv, TypeOK, AddInit, At, Goto, endVars, Nodes
<1>10. QED
  BY <1>3, <1>8, <1>9 DEF RegistryInv

\* A node before the first.
LEMMA InsertBeginning ==
  ASSUME NEW A, NEW s \in Seq(A), NEW e \in A, IsInjective(s), e \notin Range(s), s # << >>
  PROVE  /\ <<e>> \o s \in Seq(A) /\ <<e>> \o s # << >>
         /\ IsInjective(<<e>> \o s)
         /\ Range(<<e>> \o s) = Range(s) \cup {e}
         /\ Last(<<e>> \o s) = Last(s)
<1> DEFINE r == <<e>> \o s
<1>1. Len(s) \in Nat \ {0} /\ DOMAIN s = 1..Len(s)
  BY EmptySeq, LenProperties
<1>2. <<e>> \in Seq(A) /\ Len(<<e>>) = 1 /\ <<e>>[1] = e
  OBVIOUS
<1>3. /\ r \in Seq(A) /\ Len(r) = 1 + Len(s)
      /\ \A i \in 1..1 + Len(s) : r[i] = IF i <= 1 THEN <<e>>[i] ELSE s[i - 1]
  BY <1>2, ConcatProperties
<1> HIDE DEF r
<1>4. DOMAIN r = 1..1 + Len(s)
  BY <1>3, LenProperties
<1>5. /\ r[1] = e
      /\ \A i \in 2..1 + Len(s) : i - 1 \in 1..Len(s) /\ r[i] = s[i - 1]
  BY <1>1, <1>2, <1>3
<1>6. \A i \in 1..Len(s) : i + 1 \in 2..1 + Len(s) /\ r[i + 1] = s[i]
  BY <1>1, <1>5
<1>7. IsInjective(r)
  <2>1. \A i \in 2..1 + Len(s) : r[i] # e
    BY <1>1, <1>5 DEF Range
  <2>2. ASSUME NEW a \in 2..1 + Len(s), NEW b \in 2..1 + Len(s), r[a] = r[b] PROVE a = b
    <3>1. a - 1 = b - 1
      BY <1>1, <1>5, <2>2 DEF IsInjective
    <3>2. QED
      BY <3>1
  <2>3. \A i \in 1..1 + Len(s) : i = 1 \/ i \in 2..1 + Len(s)
    BY <1>1
  <2>4. QED
    BY <1>4, <1>5, <2>1, <2>2, <2>3 DEF IsInjective
<1>8. Range(r) = Range(s) \cup {e}
  <2>1. \A i \in 1..1 + Len(s) : i = 1 \/ i \in 2..1 + Len(s)
    BY <1>1
  <2>2. Range(r) \subseteq Range(s) \cup {e}
    BY <1>1, <1>4, <1>5, <2>1 DEF Range
  <2>3. 1 \in DOMAIN r /\ \A i \in 1..Len(s) : i + 1 \in DOMAIN r
    BY <1>1, <1>4
  <2>4. Range(s) \cup {e} \subseteq Range(r)
    BY <1>1, <1>5, <1>6, <2>3 DEF Range
  <2>5. QED
    BY <2>2, <2>4
<1>9. Last(r) = Last(s) /\ r # << >>
  <2>1. r[1 + Len(s)] = s[Len(s)]
    BY <1>1, <1>6
  <2>2. QED
    BY <1>1, <1>3, <2>1, EmptySeq DEF Last
<1>10. QED
  BY <1>3, <1>7, <1>8, <1>9 DEF r

LEMMA AddLinkInv == ASSUME RegistryInv, NEW t \in Threads, AddLink(t) PROVE RegistryInv'
<1>1. /\ At(t, "addLink") /\ Goto(t, "addUnlock") /\ pc[t] = "addLink"
      /\ g_handle_list' = <<handle[t]>> \o next[t]
      /\ next' = [next EXCEPT ![t] = << >>]
      /\ UNCHANGED <<hstate, handle, handlers, g_mutex, is_initialized>>
  BY DEF AddLink, At, list_insert_beginning
<1>2. StateAt("addUnlock", hstate[handle[t]]) /\ hstate[handle[t]] = "new"
  BY <1>1 DEF RegistryInv, CallInv, StateAt
<1>3. /\ Inside(t) /\ handle[t] \in Handles /\ MutexInv' /\ CallInv'
      /\ Listed' = (Listed \ {handle[t]})
                     \cup (IF HasNode(hstate[handle[t]], "addUnlock") THEN {handle[t]} ELSE {})
      /\ handle[t] \in Listed <=> HasNode(hstate[handle[t]], "addLink")
      /\ pc'[t] = "addUnlock" /\ \A u \in Threads \ {t} : pc'[u] = pc[u]
  BY <1>1, <1>2, ChangeInv DEF InsideLabels
<1>4. Listed' = Listed \cup {handle[t]} /\ handle[t] \notin Listed
  BY <1>2, <1>3 DEF HasNode
<1>5. /\ is_initialized /\ next[t] = g_handle_list
      /\ g_handle_list # << >> /\ IsInjective(g_handle_list)
      /\ Range(g_handle_list) = Listed \cup {Sentinel} /\ Last(g_handle_list) = Sentinel
  BY <1>1 DEF RegistryInv, ListInv
<1>6. handle[t] \in Nodes /\ handle[t] # Sentinel
  BY <1>3, TraceAssumption DEF Nodes
<1>7. /\ g_handle_list' \in Seq(Nodes) /\ g_handle_list' # << >>
      /\ IsInjective(g_handle_list')
      /\ Range(g_handle_list') = (Listed \cup {Sentinel}) \cup {handle[t]}
      /\ Last(g_handle_list') = Sentinel
  BY <1>1, <1>4, <1>5, <1>6, ListTyped, InsertBeginning
<1>8. ListInv' /\ VisitInv'
  BY <1>1, <1>3, <1>4, <1>5, <1>7, ListTyped, ListStep
<1>9. TypeOK'
  <2>1. next' \in [Threads -> Seq(Nodes)]
    BY <1>1, ListTyped, EmptySeq
  <2>2. QED
    BY <1>7, <2>1 DEF RegistryInv, TypeOK, AddLink, At, Goto, endVars, Nodes
<1>10. QED
  BY <1>3, <1>8, <1>9 DEF RegistryInv

LEMMA RemoveNodeInv ==
  ASSUME RegistryInv, NEW t \in Threads, RemoveNode(t) PROVE RegistryInv'
<1> DEFINE rest == RemoveFirst(g_handle_list, handle[t])
           empty == rest = <<Sentinel>>
<1>1. /\ At(t, "remove") /\ Goto(t, "removeUnlock") /\ pc[t] = "remove"
      /\ g_handle_list' = IF empty THEN << >> ELSE rest
      /\ is_initialized' = (is_initialized /\ ~empty)
      /\ UNCHANGED <<hstate, handle, handlers, g_mutex, next>>
  BY DEF RemoveNode, At, list_remove_by_data, list_destroy
<1>2. StateAt("removeUnlock", hstate[handle[t]]) /\ hstate[handle[t]] = "keyless"
  BY <1>1 DEF RegistryInv, CallInv, StateAt
<1>3. /\ Inside(t) /\ handle[t] \in Handles /\ MutexInv' /\ CallInv'
      /\ Listed' = (Listed \ {handle[t]})
                     \cup (IF HasNode(hstate[handle[t]], "removeUnlock") THEN {handle[t]} ELSE {})
      /\ handle[t] \in Listed <=> HasNode(hstate[handle[t]], "remove")
      /\ pc'[t] = "removeUnlock" /\ \A u \in Threads \ {t} : pc'[u] = pc[u]
  BY <1>1, <1>2, ChangeInv DEF InsideLabels
<1>4. Listed' = Listed \ {handle[t]} /\ handle[t] \in Listed
  BY <1>2, <1>3 DEF HasNode
<1>5. /\ is_initialized
      /\ g_handle_list # << >> /\ IsInjective(g_handle_list)
      /\ Range(g_handle_list) = Listed \cup {Sentinel} /\ Last(g_handle_list) = Sentinel
  BY <1>4 DEF RegistryInv, ListInv
<1>6. handle[t] # Sentinel /\ Sentinel \notin Listed
  BY <1>3, ListTyped, TraceAssumption
<1>7. /\ rest \in Seq(Nodes) /\ IsInjective(rest)
      /\ Range(rest) = (Listed \ {handle[t]}) \cup {Sentinel}
      /\ Last(rest) = Sentinel
  <2>1. /\ rest \in Seq(Nodes) /\ IsInjective(rest)
        /\ Range(rest) = Range(g_handle_list) \ {handle[t]}
        /\ Last(rest) = Last(g_handle_list)
    BY <1>5, <1>6, ListTyped, RemoveFirstProperties
  <2> HIDE DEF rest
  <2>2. QED
    BY <1>5, <1>6, <2>1
<1> HIDE DEF rest
<1>8. Range(<< >>) = {} /\ Range(<<Sentinel>>) = {Sentinel} /\ IsInjective(<< >>)
  BY DEF Range, IsInjective
<1>9. rest # << >>
  BY <1>7, <1>8
<1>10. /\ g_handle_list' \in Seq(Nodes) /\ IsInjective(g_handle_list')
       /\ Range(g_handle_list') =
            IF is_initialized' THEN Listed' \cup {Sentinel} ELSE Listed'
       /\ is_initialized' => g_handle_list' # << >> /\ Last(g_handle_list') = Sentinel
       /\ Listed' # {} => is_initialized'
  <2>1. CASE empty
    <3>1. Listed' = {}
      BY <1>4, <1>6, <1>7, <1>8, <2>1
    <3>2. QED
      BY <1>1, <1>8, <2>1, <3>1, EmptySeq
  <2>2. CASE ~empty
    BY <1>1, <1>4, <1>5, <1>7, <1>9, <2>2
  <2>3. QED
    BY <2>1, <2>2
<1>11. ListInv' /\ VisitInv'
  BY <1>1, <1>3, <1>4, <1>10, ListTyped, ListStep
<1>12. is_initialized' \in BOOLEAN
  BY <1>1 DEF RegistryInv, TypeOK
<1>13. TypeOK'
  BY <1>10, <1>12 DEF RegistryInv, TypeOK, RemoveNode, At, Goto, endVars, Nodes
<1>14. QED
  BY <1>3, <1>11, <1>13 DEF RegistryInv

-----------------------------------------------------------------------------
(* The invariant, and what follows from it.                                *)

\* The steps of the handlers have only their own state and g_mutex to type.
LEMMA HandlerTyped ==
  ASSUME RegistryInv, Frames, UNCHANGED progVars, buffered' \in SUBSET Handles,
         g_mutex' \in Threads \cup {NoThread}, libc' \in Threads \cup {NoThread},
         alive' \in BOOLEAN, printed' \in BOOLEAN, signals' \in Nat,
         doomed' \subseteq Reasons
  PROVE  TypeOK'
<1>1. SigsOnce' => \A t \in Threads :
        IsInjective([i \in DOMAIN handlers'[t] |-> handlers'[t][i].sig])
  BY DEF SigsOnce, IsInjective
<1>2. QED
  BY <1>1 DEF RegistryInv, TypeOK, Frames, progVars, listVars, callVars

LEMMA HandlerStep ==
  ASSUME RegistryInv, TypeOK', HandlerInv', UNCHANGED progVars
  PROVE  RegistryInv'
<1>1. UNCHANGED <<hstate, g_handle_list, is_initialized, pc, handle, next>>
  BY DEF progVars, listVars, callVars
<1>2. Listed' = Listed
  BY <1>1 DEF Listed, CallAt
<1>3. CallInv' /\ ListInv'
  BY <1>1, <1>2 DEF RegistryInv, CallInv, ListInv
<1>4. QED
  BY <1>3 DEF RegistryInv, HandlerInv

\* The list a visiting handler has before it.
LEMMA TopVisit ==
  ASSUME RegistryInv, NEW t \in Threads, Running(t, "visit")
  PROVE  /\ handlers[t] # << >> /\ Top(t).pc = "visit"
         /\ Top(t).it \in Seq(Nodes) /\ Range(Top(t).it) \subseteq Range(g_handle_list)
<1>1. handlers[t] # << >> /\ handlers[t] \in Seq(Frame) /\ Top(t).pc = "visit"
  BY FramesTyped DEF Running, RegistryInv, TypeOK
<1>2. Len(handlers[t]) \in DOMAIN handlers[t] /\ Top(t) = handlers[t][Len(handlers[t])]
  BY <1>1, EmptySeq, LenProperties DEF Top, Last
<1>3. handlers[t][Len(handlers[t])] \in Frame
  BY <1>1, <1>2, FramesTyped DEF RegistryInv, TypeOK
<1>4. QED
  BY <1>1, <1>2, <1>3 DEF RegistryInv, VisitInv, Frame, Nodes

LEMMA DeliversInv ==
  ASSUME RegistryInv, NEW t \in Threads, NEW s \in Signals, Deliver(t, s)
  PROVE  RegistryInv'
<1>1. Frames /\ HandlerInv'
  BY DeliverInv DEF Deliver
<1>2. TypeOK'
  <2>1. /\ libc' \in Threads \cup {NoThread} /\ doomed' \subseteq Reasons
        /\ signals' \in Nat /\ UNCHANGED <<progVars, buffered, g_mutex, alive, printed>>
    BY DEF Deliver, RegistryInv, TypeOK, Reasons
  <2>2. QED
    BY <1>1, <2>1, HandlerTyped DEF RegistryInv, TypeOK
<1>3. QED
  BY <1>1, <1>2, HandlerStep DEF Deliver

\* A fault in a handler kills the process or enters the handler again.
LEMMA FaultInv ==
  ASSUME RegistryInv, NEW t \in Threads, NEW reason \in Reasons, Fault(t, reason)
  PROVE  RegistryInv'
<1>1. CASE Blocked(t, "SEGV")
  <2>1. UNCHANGED <<progVars, g_mutex, handlers>>
    BY <1>1 DEF Fault
  <2>2. HandlerInv'
    BY <2>1 DEF RegistryInv, HandlerInv, MutexInv, VisitInv, Inside, VisitsAt,
                progVars, callVars, listVars
  <2>3. Frames
    BY <2>1, SigsOnceTyped DEF Frames, SigsOnce, RegistryInv, TypeOK
  <2>4. TypeOK'
    BY <1>1, <2>3, HandlerTyped DEF Fault, RegistryInv, TypeOK
  <2>5. QED
    BY <2>1, <2>2, <2>4, HandlerStep
<1>2. CASE ~Blocked(t, "SEGV")
  <2>1. Interrupt(t, "SEGV") /\ UNCHANGED <<progVars, g_mutex>> /\ "SEGV" \in Signals
    BY <1>2 DEF Fault, Signals
  <2>2. Frames /\ HandlerInv'
    BY <1>2, <2>1, DeliverInv
  <2>3. TypeOK'
    BY <1>2, <2>2, HandlerTyped DEF Fault, RegistryInv, TypeOK
  <2>4. QED
    BY <2>1, <2>2, <2>3, HandlerStep
<1>3. QED
  BY <1>1, <1>2

LEMMA HandlersInv ==
  ASSUME RegistryInv, NEW t \in Threads,
         \/ HandlerStart(t) \/ HandlerLock(t) \/ HandlerSkip(t)
         \/ HandlerFault(t) \/ HandlerUnlock(t) \/ HandlerPrint(t)
         \/ HandlerOverrun(t) \/ HandlerExit(t)
  PROVE  RegistryInv'
<1>. USE EmptySeq DEF Labels
<1>1. Range(<< >>) = {} /\ << >> \in Seq(Nodes)
  BY DEF Range
<1>0. CASE HandlerStart(t)
  <2>1. Frames /\ HandlerInv'
    BY <1>0, <1>1, SetTopInv DEF HandlerStart, Running
  <2>2. TypeOK'
    BY <1>0, <2>1, HandlerTyped DEF HandlerStart, RegistryInv, TypeOK, endVars
  <2>3. QED
    BY <1>0, <2>1, <2>2, HandlerStep DEF HandlerStart
<1>2. CASE HandlerLock(t)
  <2>1. Frames /\ HandlerInv'
    BY <1>2, SetTopInv, ListTyped DEF HandlerLock, Running
  <2>2. TypeOK'
    BY <1>2, <2>1, HandlerTyped DEF HandlerLock, RegistryInv, TypeOK, endVars
  <2>3. QED
    BY <1>2, <2>1, <2>2, HandlerStep DEF HandlerLock
<1>3. CASE HandlerSkip(t)
  <2>1. Running(t, "visit") /\ Top(t).it # << >>
        /\ SetTop(t, "visit", Tail(Top(t).it))
        /\ UNCHANGED <<progVars, g_mutex>>
    BY <1>3 DEF HandlerSkip, Visiting
  <2>2. Tail(Top(t).it) \in Seq(Nodes) /\ Range(Tail(Top(t).it)) \subseteq Range(g_handle_list)
    <3> DEFINE it == Top(t).it
    <3>1. it \in Seq(Nodes) /\ it # << >> /\ Range(it) \subseteq Range(g_handle_list)
      BY <2>1, TopVisit
    <3> HIDE DEF it
    <3>2. /\ Tail(it) \in Seq(Nodes) /\ Len(Tail(it)) = Len(it) - 1
          /\ \A i \in 1..Len(Tail(it)) : Tail(it)[i] = it[i + 1]
      BY <3>1, HeadTailProperties
    <3>3. DOMAIN Tail(it) = 1..Len(Tail(it)) /\ DOMAIN it = 1..Len(it) /\ Len(it) \in Nat
      BY <3>1, <3>2, LenProperties
    <3>4. \A i \in 1..Len(Tail(it)) : i + 1 \in DOMAIN it
      BY <3>2, <3>3
    <3>5. Range(Tail(it)) \subseteq Range(it)
      BY <3>2, <3>3, <3>4 DEF Range
    <3>6. QED
      BY <3>1, <3>2, <3>5 DEF it
  <2>3. Frames /\ HandlerInv'
    BY <2>1, <2>2, TopVisit, SetTopInv
  <2>4. TypeOK'
    BY <1>3, <2>3, HandlerTyped DEF HandlerSkip, RegistryInv, TypeOK, endVars
  <2>5. QED
    BY <2>1, <2>3, <2>4, HandlerStep
<1>4. CASE HandlerFault(t) \/ HandlerOverrun(t)
  BY <1>4, FaultInv DEF HandlerFault, HandlerOverrun, Reasons
<1>5. CASE HandlerUnlock(t)
  <2>1. Frames /\ HandlerInv'
    BY <1>1, <1>5, SetTopInv, TopVisit DEF HandlerUnlock
  <2>2. TypeOK'
    BY <1>5, <2>1, HandlerTyped DEF HandlerUnlock, RegistryInv, TypeOK, endVars
  <2>3. QED
    BY <1>5, <2>1, <2>2, HandlerStep DEF HandlerUnlock
<1>6. CASE HandlerPrint(t)
  <2>1. Frames /\ HandlerInv'
    BY <1>1, <1>6, SetTopInv DEF HandlerPrint, Running
  <2>2. TypeOK'
    BY <1>6, <2>1, HandlerTyped DEF HandlerPrint, RegistryInv, TypeOK
  <2>3. QED
    BY <1>6, <2>1, <2>2, HandlerStep DEF HandlerPrint
<1>7. CASE HandlerExit(t)
  <2>1. UNCHANGED <<progVars, g_mutex, handlers>>
    BY <1>7 DEF HandlerExit
  <2>2. HandlerInv'
    BY <2>1 DEF RegistryInv, HandlerInv, MutexInv, VisitInv, Inside, VisitsAt,
                progVars, callVars, listVars
  <2>3. Frames
    BY <2>1, SigsOnceTyped DEF Frames, SigsOnce, RegistryInv, TypeOK
  <2>4. TypeOK'
    BY <1>7, <2>3, HandlerTyped DEF HandlerExit, RegistryInv, TypeOK
  <2>5. QED
    BY <2>1, <2>2, <2>4, HandlerStep
<1>8. QED
  BY <1>0, <1>2, <1>3, <1>4, <1>5, <1>6, <1>7

LEMMA InitRegistry == Init => RegistryInv
<1> SUFFICES ASSUME Init PROVE RegistryInv
  OBVIOUS
<1>1. DOMAIN << >> = {} /\ Range(<< >>) = {} /\ IsInjective(<< >>)
  BY DEF Range, IsInjective
<1>2. TypeOK
  <2>1. \A t \in Threads : IsInjective([i \in DOMAIN handlers[t] |-> handlers[t][i].sig])
    BY <1>1 DEF Init, IsInjective
  <2>2. QED
    BY <2>1, EmptySeq, TraceAssumption DEF Init, TypeOK
<1>3. Listed = {}
  BY DEF Init, Listed, CallAt
<1>4. MutexInv
  BY <1>1 DEF Init, MutexInv, Inside, InsideLabels, VisitsAt
<1>5. CallInv
  BY DEF Init, CallInv
<1>6. ListInv
  BY <1>1, <1>3 DEF Init, ListInv
<1>7. VisitInv
  BY <1>1 DEF Init, VisitInv
<1>8. QED
  BY <1>2, <1>4, <1>5, <1>6, <1>7 DEF RegistryInv

LEMMA NextRegistry == RegistryInv /\ [Next]_vars => RegistryInv'
<1> SUFFICES ASSUME RegistryInv, [Next]_vars PROVE RegistryInv'
  OBVIOUS
<1>1. CASE UNCHANGED vars
  <2>1. UNCHANGED <<encrypted, hstate, buffered, g_mutex, g_handle_list, is_initialized,
                    installed, pc, handle, next, handlers, libc, alive, printed,
                    signals, doomed>>
    BY <1>1 DEF vars, listVars, callVars, endVars
  <2>2. TypeOK'
    BY <2>1 DEF RegistryInv, TypeOK
  <2>3. MutexInv' /\ CallInv' /\ ListInv' /\ VisitInv'
    BY <2>1 DEF RegistryInv, MutexInv, CallInv, ListInv, VisitInv, Inside, VisitsAt, Listed,
                CallAt
  <2>4. QED
    BY <2>2, <2>3 DEF RegistryInv
<1>2. CASE Next
  <2>1. PICK t \in Threads : \/ Step(t)
                             \/ \E h \in Handles : Call(t, h)
                             \/ \E s \in Signals : Deliver(t, s)
    BY <1>2 DEF Next
  <2>2. CASE Step(t)
    BY <2>2, MovesInv, AddInitInv, AddLinkInv, RemoveNodeInv, HandlersInv DEF Step
  <2>3. CASE \E h \in Handles : Call(t, h)
    BY <2>3, CallsInv
  <2>4. CASE \E s \in Signals : Deliver(t, s)
    BY <2>4, DeliversInv
  <2>5. QED
    BY <2>1, <2>2, <2>3, <2>4
<1>3. QED
  BY <1>1, <1>2

LEMMA RegistryInvariant == Spec => []RegistryInv
BY InitRegistry, NextRegistry, PTL DEF Spec

\* Every variable of the registry and of the signal handlers has its type, and
\* no thread runs two handlers of the same signal.
THEOREM TypeCorrect == Spec => []TypeOK
<1>1. RegistryInv => TypeOK
  BY DEF RegistryInv
<1>2. QED
  BY <1>1, RegistryInvariant, PTL

\* Whenever g_mutex is free the list has one node for each handle that is
\* complete and not yet taken out, and the sentinel last: calls and handlers
\* of any number of threads, in any order, never lose, repeat or leave a node,
\* whether the list is created for the first handle or destroyed with the last.
THEOREM RegistryStaysExact == Spec => []RegistryExact
<1>1. RegistryInv => RegistryExact
  <2> SUFFICES ASSUME RegistryInv, g_mutex = NoThread
               PROVE  /\ IsInjective(g_handle_list)
                      /\ Range(g_handle_list) =
                           IF is_initialized THEN Registered \cup {Sentinel} ELSE Registered
                      /\ is_initialized => Last(g_handle_list) = Sentinel
                      /\ Registered # {} => is_initialized
    BY DEF RegistryExact
  <2>1. \A t \in Threads : ~Inside(t)
    BY TraceAssumption DEF RegistryInv, MutexInv
  <2>2. \A h \in Handles : /\ ~CallAt(h, {"addUnlock"})
                           /\ CallAt(h, {"removeUnlock", "free"})
                                <=> \E t \in Threads : pc[t] = "free" /\ handle[t] = h
    BY <2>1 DEF CallAt, Inside, InsideLabels
  <2>3. Listed = Registered
    BY <2>2 DEF Listed, Registered
  <2>4. QED
    BY <2>3 DEF RegistryInv, ListInv
<1>2. QED
  BY <1>1, RegistryInvariant, PTL

\* What a handler has still to visit is allocated, although the threads that
\* were not interrupted go on destroying handles: free(fh) comes only after
\* the node is out of the list, and no handler visits while it is taken out.
THEOREM VisitsStayAllocated == Spec => []VisitsAllocated
<1>1. RegistryInv => VisitsAllocated
  <2> SUFFICES ASSUME RegistryInv, NEW t \in Threads, NEW i \in DOMAIN handlers[t],
                      NEW h \in Range(handlers[t][i].it) \cap Handles
               PROVE  hstate[h] \notin {"none", "freed"}
    BY DEF VisitsAllocated
  <2>1. h \in Range(g_handle_list)
    BY DEF RegistryInv, VisitInv
  <2>2. h \in Listed
    BY <2>1, TraceAssumption DEF RegistryInv, ListInv
  <2>3. QED
    BY <2>2 DEF Listed
<1>2. QED
  BY <1>1, RegistryInvariant, PTL
=============================================================================
