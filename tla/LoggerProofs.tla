---------------------------- MODULE LoggerProofs ----------------------------
(***************************************************************************)
(* Theorems about Logger: what the handles of a list have been given, and  *)
(* what is past their buffers, for every set of threads, every set of      *)
(* handles, every setting of the levels and every number of records.       *)
(***************************************************************************)
EXTENDS Logger, SequenceLemmas, FiniteSetTheorems

-----------------------------------------------------------------------------
(* Sequences of handles.                                                     *)

LEMMA TailOfList ==
  ASSUME NEW l \in Lists, l # << >>
  PROVE  /\ Head(l) \in Handles /\ Tail(l) \in Lists
         /\ Range(l) = {Head(l)} \cup Range(Tail(l))
         /\ Head(l) \notin Range(Tail(l))
<1>1. l \in Seq(Handles) /\ IsInjective(l)
  BY DEF Lists
<1>2. /\ Head(l) \in Handles /\ Tail(l) \in Seq(Handles)
      /\ Head(l) = l[1] /\ Len(l) \in Nat \ {0} /\ Len(Tail(l)) = Len(l) - 1
      /\ \A i \in 1..Len(l) - 1 : Tail(l)[i] = l[i + 1]
  BY <1>1, HeadTailProperties, EmptySeq, LenProperties
<1>3. DOMAIN l = 1..Len(l) /\ DOMAIN Tail(l) = 1..Len(l) - 1
  BY <1>1, <1>2, LenProperties
<1>4. IsInjective(Tail(l))
  <2>1. ASSUME NEW i \in 1..Len(l) - 1, NEW j \in 1..Len(l) - 1,
               Tail(l)[i] = Tail(l)[j]
        PROVE  i = j
    <3>1. l[i + 1] = l[j + 1] /\ i + 1 \in DOMAIN l /\ j + 1 \in DOMAIN l
      BY <1>2, <1>3, <2>1
    <3>2. i + 1 = j + 1
      BY <1>1, <3>1 DEF IsInjective
    <3>. QED  BY <1>2, <3>2
  <2>. QED  BY <1>3, <2>1 DEF IsInjective
<1>5. Head(l) \notin Range(Tail(l))
  <2>1. ASSUME NEW i \in 1..Len(l) - 1, Tail(l)[i] = Head(l) PROVE FALSE
    <3>1. l[i + 1] = l[1] /\ i + 1 \in DOMAIN l /\ 1 \in DOMAIN l
      BY <1>2, <1>3, <2>1
    <3>2. i + 1 = 1
      BY <1>1, <3>1 DEF IsInjective
    <3>. QED  BY <1>2, <3>2
  <2>. QED  BY <1>3, <2>1 DEF Range
<1>6. Range(l) = {Head(l)} \cup Range(Tail(l))
  <2>1. ASSUME NEW i \in 1..Len(l) PROVE l[i] \in {Head(l)} \cup Range(Tail(l))
    <3>1. CASE i = 1
      BY <1>2, <3>1
    <3>2. CASE i # 1
      <4>1. PICK k \in 1..Len(l) - 1 : i = k + 1
        <5>1. i - 1 \in 1..Len(l) - 1 /\ i = (i - 1) + 1
          BY <1>2, <3>2
        <5>. QED  BY <5>1
      <4>2. l[i] = Tail(l)[k]
        BY <1>2, <4>1
      <4>. QED  BY <1>3, <4>2 DEF Range
    <3>. QED  BY <3>1, <3>2
  <2>2. ASSUME NEW k \in 1..Len(l) - 1 PROVE Tail(l)[k] \in Range(l)
    <3>1. k + 1 \in DOMAIN l /\ Tail(l)[k] = l[k + 1]
      BY <1>2, <1>3
    <3>. QED  BY <3>1 DEF Range
  <2>3. Head(l) \in Range(l)
    BY <1>2, <1>3 DEF Range
  <2>. QED  BY <1>3, <2>1, <2>2, <2>3 DEF Range
<1>. QED  BY <1>2, <1>4, <1>5, <1>6 DEF Lists

\* A new handle in front.
LEMMA ListGrows ==
  ASSUME NEW l \in Lists, NEW h \in Handles, h \notin Range(l)
  PROVE  <<h>> \o l \in Lists /\ Range(<<h>> \o l) = {h} \cup Range(l)
<1>1. l \in Seq(Handles) /\ IsInjective(l) /\ DOMAIN l = 1..Len(l) /\ Len(l) \in Nat
  BY LenProperties DEF Lists
<1>. DEFINE g == <<h>> \o l
<1>2. /\ g \in Seq(Handles) /\ Len(g) = Len(l) + 1 /\ DOMAIN g = 1..Len(l) + 1
      /\ g[1] = h /\ \A i \in 2..Len(l) + 1 : g[i] = l[i - 1]
  <2>1. <<h>> \in Seq(Handles) /\ Len(<<h>>) = 1 /\ <<h>>[1] = h
    OBVIOUS
  <2>2. g \in Seq(Handles) /\ Len(g) = 1 + Len(l)
    BY <1>1, <2>1, ConcatProperties
  <2>3. \A i \in 1..1 + Len(l) : g[i] = IF i <= 1 THEN <<h>>[i] ELSE l[i - 1]
    BY <1>1, <2>1, ConcatProperties
  <2>4. DOMAIN g = 1..Len(g)
    BY <2>2, LenProperties
  <2>. HIDE DEF g
  <2>. QED  BY <1>1, <2>1, <2>2, <2>3, <2>4
<1>3. \A i \in 1..Len(l) : l[i] \in Range(l) /\ l[i] # h
  BY <1>1 DEF Range
<1>. HIDE DEF g
<1>4. IsInjective(g)
  <2>1. ASSUME NEW i \in 1..Len(l) + 1, NEW j \in 1..Len(l) + 1, g[i] = g[j]
        PROVE  i = j
    <3>1. CASE i = 1 \/ j = 1
      BY <1>1, <1>2, <1>3, <2>1, <3>1
    <3>2. CASE i # 1 /\ j # 1
      <4>1. /\ l[i - 1] = l[j - 1] /\ i - 1 \in DOMAIN l /\ j - 1 \in DOMAIN l
        BY <1>1, <1>2, <2>1, <3>2
      <4>2. i - 1 = j - 1
        BY <1>1, <4>1 DEF IsInjective
      <4>. QED  BY <1>1, <4>2
    <3>. QED  BY <3>1, <3>2
  <2>. QED  BY <1>2, <2>1 DEF IsInjective
<1>5. Range(g) = {h} \cup Range(l)
  <2>1. \A i \in 1..Len(l) + 1 : g[i] \in {h} \cup Range(l)
    <3>1. \A i \in 2..Len(l) + 1 : i - 1 \in 1..Len(l)
      BY <1>1
    <3>. QED  BY <1>1, <1>2, <1>3, <3>1
  <2>2. ASSUME NEW i \in 1..Len(l) PROVE l[i] \in Range(g)
    <3>1. i + 1 \in 2..Len(l) + 1 /\ (i + 1) - 1 = i
      BY <1>1
    <3>2. g[i + 1] = l[i] /\ i + 1 \in DOMAIN g
      BY <1>1, <1>2, <3>1
    <3>. QED  BY <3>2 DEF Range
  <2>3. h \in Range(g)
    BY <1>1, <1>2 DEF Range
  <2>. QED  BY <1>1, <1>2, <2>1, <2>2, <2>3 DEF Range
<1>. QED  BY <1>2, <1>4, <1>5 DEF Lists, g

LEMMA RangeFinite ==
  ASSUME NEW l \in Seq(Handles)
  PROVE  IsFiniteSet(Range(l))
<1>1. l \in [1..Len(l) -> Handles] /\ Len(l) \in Nat /\ DOMAIN l = 1..Len(l)
  BY LenProperties
<1>2. l \in Surjection(1..Len(l), Range(l))
  BY <1>1 DEF Surjection, Range
<1>3. IsFiniteSet(1..Len(l))
  BY <1>1, FS_Interval
<1>. QED  BY <1>2, <1>3, FS_Surjection

LEMMA NoList == << >> \in Lists /\ Range(<< >>) = {}
BY EmptySeq DEF Lists, IsInjective, Range

-----------------------------------------------------------------------------
(* Types.                                                                  *)

Asked == [list : Lists, given : [Sinks -> Nat]]

ListsTyped ==
  /\ cfg \in Configs /\ crashed \in BOOLEAN
  /\ lhs \in Lists /\ Range(lhs) \subseteq made /\ made \subseteq Handles
  /\ log \in Seq([level : Levels, list : Lists])

SinksTyped ==
  /\ f_log \in SUBSET Files
  /\ sink \in [Sinks -> Seq(1..Len(log))]
  /\ disk \in [Sinks -> Nat]
  /\ \A s \in Sinks : disk[s] <= Len(sink[s])

CallsTyped ==
  /\ pc \in [Threads -> {"idle", "write", "flush", "destroy"}]
  /\ it \in [Threads -> Lists]
  /\ record \in [Threads -> 0..Len(log)]
  /\ asked \in [Threads -> Asked]
  /\ \A t \in Threads : /\ pc[t] # "idle" => it[t] # << >>
                        /\ pc[t] = "write" => record[t] \in 1..Len(log)
                        /\ \A s \in Sinks : asked[t].given[s] <= Len(sink[s])

TypeInv == ListsTyped /\ SinksTyped /\ CallsTyped

\* No step takes a record out of a sink or out of a disk.
Grows ==
  \A s \in Sinks : Len(sink[s]) <= Len(sink'[s]) /\ disk[s] <= disk'[s]

\* What Goto leaves of the loops: the thread's own moves on or ends, and the
\* others stay where they are.
LEMMA GotoSteps ==
  ASSUME TypeInv, NEW t \in Threads, NEW rest \in Lists, Goto(t, rest)
  PROVE  /\ it'[t] = rest
         /\ rest = << >> => pc'[t] = "idle"
         /\ rest # << >> => pc'[t] = pc[t] /\ record'[t] = record[t]
                            /\ asked'[t] = asked[t]
         /\ \A u \in Threads \ {t} : /\ pc'[u] = pc[u] /\ it'[u] = it[u]
                                     /\ record'[u] = record[u]
                                     /\ asked'[u] = asked[u]
BY DEF TypeInv, CallsTyped, Goto

LEMMA NothingAsked == Nothing \in Asked /\ \A s \in Sinks : Nothing.given[s] = 0
BY NoList DEF Nothing, Asked

LEMMA GotoTyped ==
  ASSUME TypeInv, NEW t \in Threads, NEW rest \in Lists, Goto(t, rest),
         pc[t] # "idle", UNCHANGED log, SinksTyped', Grows
  PROVE  CallsTyped'
<1>1. /\ pc' \in [Threads -> {"idle", "write", "flush", "destroy"}]
      /\ it' \in [Threads -> Lists]
      /\ record' \in [Threads -> 0..Len(log)]
  <2>1. 0 \in 0..Len(log)
    BY LenProperties DEF TypeInv, ListsTyped
  <2>. QED  BY <2>1 DEF TypeInv, CallsTyped, Goto
<1>2. asked' \in [Threads -> Asked]
  BY NothingAsked DEF TypeInv, CallsTyped, Goto
<1>3. ASSUME NEW u \in Threads
      PROVE  /\ pc'[u] # "idle" => it'[u] # << >>
             /\ pc'[u] = "write" => record'[u] \in 1..Len(log)
  BY GotoSteps DEF TypeInv, CallsTyped
<1>4. ASSUME NEW u \in Threads, NEW s \in Sinks
      PROVE  asked'[u].given[s] <= Len(sink'[s])
  <2>1. /\ sink[s] \in Seq(1..Len(log)) /\ sink'[s] \in Seq(1..Len(log'))
        /\ Len(sink[s]) \in Nat /\ Len(sink'[s]) \in Nat
    BY LenProperties DEF TypeInv, SinksTyped
  <2>2. asked[u].given[s] \in Nat /\ asked[u].given[s] <= Len(sink[s])
    BY DEF TypeInv, CallsTyped, Asked
  <2>3. Len(sink[s]) <= Len(sink'[s])
    BY DEF Grows
  <2>4. asked'[u] = asked[u] \/ asked'[u] = Nothing
    BY DEF TypeInv, CallsTyped, Goto
  <2>. QED  BY <2>1, <2>2, <2>3, <2>4, NothingAsked
<1>. QED  BY <1>1, <1>2, <1>3, <1>4 DEF CallsTyped

\* The head of the list a thread is in.
LEMMA Visiting ==
  ASSUME TypeInv, NEW t \in Threads, pc[t] # "idle"
  PROVE  /\ it[t] \in Lists /\ it[t] # << >>
         /\ Head(it[t]) \in Handles /\ Tail(it[t]) \in Lists
         /\ Range(it[t]) = {Head(it[t])} \cup Range(Tail(it[t]))
         /\ Head(it[t]) \notin Range(Tail(it[t]))
BY TailOfList DEF TypeInv, CallsTyped

LEMMA ConsoleSinks ==
  /\ "stdout" \in Sinks /\ "stderr" \in Sinks
  /\ \A ll : StreamOf(ll) \in {"stdout", "stderr"}
  /\ \A h \in Files : h \in Sinks /\ h \in Handles /\ h \notin Streams
  /\ \A h \in Handles : h \in Files \/ h \in Streams
  /\ \A h \in Handles : h # "stdout" /\ h # "stderr"
BY LoggerAssumption DEF Sinks, Console, StreamOf, Handles

\* A record given to a sink, of which the disk then has some or all.
LEMMA GiveTyped ==
  ASSUME TypeInv, NEW t \in Threads, pc[t] = "write", NEW s \in Sinks,
         Give(s, record[t]), UNCHANGED log, f_log' \in SUBSET Files,
         disk' = disk \/ disk' = [disk EXCEPT ![s] = Len(sink'[s])]
  PROVE  SinksTyped' /\ Grows
<1>1. /\ record[t] \in 1..Len(log) /\ sink \in [Sinks -> Seq(1..Len(log))]
      /\ disk \in [Sinks -> Nat] /\ \A z \in Sinks : disk[z] <= Len(sink[z])
  BY DEF TypeInv, CallsTyped, SinksTyped
<1>2. sink' = [sink EXCEPT ![s] = Append(sink[s], record[t])]
  BY DEF Give
<1>3. /\ Append(sink[s], record[t]) \in Seq(1..Len(log))
      /\ Len(Append(sink[s], record[t])) = Len(sink[s]) + 1
  BY <1>1, AppendProperties
<1>4. \A z \in Sinks : Len(sink[z]) \in Nat
  BY <1>1, LenProperties
<1>5. sink' \in [Sinks -> Seq(1..Len(log))]
  BY <1>1, <1>2, <1>3
<1>6. \A z \in Sinks : sink'[z] = IF z = s THEN Append(sink[s], record[t]) ELSE sink[z]
  BY <1>1, <1>2
<1>7. \A z \in Sinks : /\ Len(sink'[z]) \in Nat
                       /\ Len(sink'[z]) = IF z = s THEN Len(sink[s]) + 1 ELSE Len(sink[z])
  <2>1. ASSUME NEW z \in Sinks
        PROVE  /\ Len(sink'[z]) \in Nat
               /\ Len(sink'[z]) = IF z = s THEN Len(sink[s]) + 1 ELSE Len(sink[z])
    <3>1. CASE z = s
      <4>1. sink'[z] = Append(sink[s], record[t])
        BY <1>6, <3>1
      <4>. QED  BY <1>3, <1>4, <3>1, <4>1
    <3>2. CASE z # s
      <4>1. sink'[z] = sink[z]
        BY <1>6, <3>2
      <4>. QED  BY <1>4, <3>2, <4>1
    <3>. QED  BY <3>1, <3>2
  <2>. QED  BY <2>1
<1>8. /\ disk' \in [Sinks -> Nat]
      /\ \A z \in Sinks : disk'[z] = disk[z] \/ (z = s /\ disk'[z] = Len(sink'[s]))
  BY <1>1, <1>7
<1>9. \A z \in Sinks : disk'[z] <= Len(sink'[z]) /\ disk[z] <= disk'[z]
  BY <1>1, <1>4, <1>7, <1>8, SMTT(30)
<1>10. Grows
  BY <1>4, <1>7, <1>9 DEF Grows
<1>. QED  BY <1>5, <1>8, <1>9, <1>10 DEF SinksTyped

\* Buffers written, and streams closed.
LEMMA SaveTyped ==
  ASSUME TypeInv, UNCHANGED <<sink, log>>, f_log' \in SUBSET Files,
         disk' = disk \/ \E s \in Sinks : disk' = [disk EXCEPT ![s] = Len(sink[s])]
  PROVE  SinksTyped' /\ Grows
<1>1. /\ sink \in [Sinks -> Seq(1..Len(log))]
      /\ disk \in [Sinks -> Nat] /\ \A z \in Sinks : disk[z] <= Len(sink[z])
  BY DEF TypeInv, SinksTyped
<1>2. \A z \in Sinks : Len(sink[z]) \in Nat
  BY <1>1, LenProperties
<1>3. /\ disk' \in [Sinks -> Nat]
      /\ \A z \in Sinks : disk'[z] = disk[z] \/ disk'[z] = Len(sink[z])
  BY <1>1, <1>2
<1>. QED  BY <1>1, <1>2, <1>3 DEF SinksTyped, Grows

\* A call that starts a loop on the list of the program.
LEMMA EnterTyped ==
  ASSUME TypeInv, NEW t \in Threads, NEW label \in {"write", "flush", "destroy"},
         Enter(t, label), lhs # << >>, UNCHANGED record \/ label = "write",
         label # "write" => Asks(t) /\ UNCHANGED <<record, log>>,
         label = "write" => /\ record' = [record EXCEPT ![t] = Len(log) + 1]
                            /\ Len(log') = Len(log) + 1 /\ UNCHANGED asked,
         UNCHANGED sink
  PROVE  CallsTyped'
<1>0. /\ Len(log) \in Nat /\ lhs \in Lists
      /\ \A s \in Sinks : Len(sink[s]) \in Nat
  BY LenProperties DEF TypeInv, ListsTyped, SinksTyped
<1>1. /\ pc' \in [Threads -> {"idle", "write", "flush", "destroy"}]
      /\ it' \in [Threads -> Lists]
      /\ pc'[t] = label /\ it'[t] = lhs
      /\ \A u \in Threads \ {t} : pc'[u] = pc[u] /\ it'[u] = it[u]
  BY <1>0 DEF TypeInv, CallsTyped, Enter
<1>2. CASE label = "write"
  <2>1. /\ record' \in [Threads -> 0..Len(log')]
        /\ record'[t] = Len(log') /\ \A u \in Threads \ {t} : record'[u] = record[u]
        /\ 1..Len(log) \subseteq 1..Len(log') /\ Len(log') \in 1..Len(log')
    BY <1>0, <1>2 DEF TypeInv, CallsTyped
  <2>. QED  BY <1>1, <1>2, <2>1 DEF TypeInv, CallsTyped
<1>3. CASE label # "write"
  <2>. DEFINE given == [s \in Sinks |-> Len(sink[s])]
  <2>1. /\ given \in [Sinks -> Nat] /\ \A s \in Sinks : given[s] = Len(sink[s])
    BY <1>0
  <2>. HIDE DEF given
  <2>2. asked' = [asked EXCEPT ![t] = [list |-> lhs, given |-> given]]
    BY <1>3 DEF Asks, given
  <2>3. [list |-> lhs, given |-> given] \in Asked
    BY <1>0, <2>1 DEF Asked
  <2>4. /\ asked' \in [Threads -> Asked]
        /\ asked'[t] = [list |-> lhs, given |-> given]
        /\ \A u \in Threads \ {t} : asked'[u] = asked[u]
    BY <2>2, <2>3 DEF TypeInv, CallsTyped
  <2>5. asked'[t].given = given
    BY <2>4
  <2>6. \A u \in Threads, s \in Sinks : asked'[u].given[s] <= Len(sink[s])
    <3>1. ASSUME NEW u \in Threads, NEW s \in Sinks
          PROVE  asked'[u].given[s] <= Len(sink[s])
      <4>1. CASE u = t
        <5>1. asked'[u].given[s] = Len(sink[s]) /\ Len(sink[s]) \in Nat
          BY <1>0, <2>1, <2>5, <4>1
        <5>. QED  BY <5>1
      <4>2. CASE u # t
        BY <2>4, <4>2 DEF TypeInv, CallsTyped
      <4>. QED  BY <4>1, <4>2
    <3>. QED  BY <3>1
  <2>. QED  BY <1>1, <1>3, <2>4, <2>6 DEF TypeInv, CallsTyped
<1>. QED  BY <1>2, <1>3

\* A step of a loop gives at most one record to a sink, or writes buffers, and
\* moves on in the list.
LEMMA StepEffect ==
  ASSUME TypeInv, NEW t \in Threads, Step(t)
  PROVE  TypeInv' /\ Grows
<1>2. Files \subseteq Handles /\ f_log \in SUBSET Files /\ << >> \in Lists
  BY NoList DEF TypeInv, SinksTyped, Handles
<1>3. CASE VisitFile(t)
  <2>1. /\ pc[t] = "write" /\ Head(it[t]) \in Files /\ Head(it[t]) \in Sinks
        /\ Give(Head(it[t]), record[t]) /\ Goto(t, Tail(it[t]))
        /\ f_log' \in SUBSET Files
        /\ \/ disk' = disk
           \/ disk' = [disk EXCEPT ![Head(it[t])] = Len(sink'[Head(it[t])])]
        /\ UNCHANGED <<cfg, listVars, log, crashed>>
    BY <1>2, <1>3, ConsoleSinks DEF VisitFile, Visited
  <2>2. SinksTyped' /\ Grows
    BY <2>1, GiveTyped DEF vars
  <2>3. CallsTyped'
    BY <2>1, <2>2, Visiting, GotoTyped
  <2>. QED  BY <2>1, <2>2, <2>3 DEF TypeInv, ListsTyped, listVars
<1>4. CASE VisitStream(t)
  <2>1. PICK s \in Sinks :
          /\ pc[t] = "write" /\ Give(s, record[t]) /\ Goto(t, Tail(it[t]))
          /\ disk' = disk \/ disk' = [disk EXCEPT ![s] = Len(sink'[s])]
          /\ UNCHANGED <<cfg, listVars, f_log, log, crashed>>
    BY <1>4, ConsoleSinks DEF VisitStream, Visited
  <2>2. SinksTyped' /\ Grows
    BY <1>2, <2>1, GiveTyped
  <2>3. CallsTyped'
    BY <2>1, <2>2, Visiting, GotoTyped
  <2>. QED  BY <2>1, <2>2, <2>3 DEF TypeInv, ListsTyped, listVars
<1>5. ASSUME pc[t] # "idle", NEW rest \in Lists, Goto(t, rest),
             UNCHANGED <<sink, log>>, f_log' \in SUBSET Files,
             disk' = disk \/ \E s \in Sinks : disk' = [disk EXCEPT ![s] = Len(sink[s])],
             UNCHANGED <<cfg, listVars, crashed>>
      PROVE  TypeInv' /\ Grows
  <2>1. SinksTyped' /\ Grows
    BY <1>5, SaveTyped
  <2>2. CallsTyped'
    BY <1>5, <2>1, GotoTyped
  <2>. QED  BY <1>5, <2>1, <2>2 DEF TypeInv, ListsTyped, listVars
<1>6. CASE VisitOther(t)
  BY <1>2, <1>5, <1>6, Visiting DEF VisitOther, Visited, sinkVars
<1>7. CASE FlushFile(t)
  <2>1. Head(it[t]) \in Sinks /\ f_log' \in SUBSET Files
    BY <1>2, <1>7, ConsoleSinks DEF FlushFile
  <2>. QED  BY <1>5, <1>7, <2>1, Visiting DEF FlushFile
<1>8. CASE FlushEnds(t)
  BY <1>2, <1>5, <1>8 DEF FlushEnds, sinkVars
<1>9. CASE DestroyHandle(t)
  <2>1. f_log' \in SUBSET Files
    BY <1>2, <1>9 DEF DestroyHandle
  <2>2. \E s \in Sinks : disk' = [disk EXCEPT ![s] = Len(sink[s])]
    BY <1>9, ConsoleSinks DEF DestroyHandle
  <2>. QED  BY <1>5, <1>9, <2>1, <2>2, Visiting DEF DestroyHandle
<1>10. CASE CloseNull(t)
  <2>1. SinksTyped' /\ Grows
    BY <1>2, <1>10, SaveTyped DEF CloseNull, sinkVars
  <2>. QED
    BY <1>10, <2>1 DEF CloseNull, TypeInv, ListsTyped, CallsTyped, listVars,
                       sinkVars, callVars
<1>. QED  BY <1>3, <1>4, <1>6, <1>7, <1>8, <1>9, <1>10 DEF Step

\* A call starts a loop, or adds a handle to the list.
LEMMA CallEffect ==
  ASSUME TypeInv, NEW t \in Threads, Call(t)
  PROVE  TypeInv' /\ Grows
<1>0. f_log \in SUBSET Files /\ "stdout" \in Sinks
  BY ConsoleSinks DEF TypeInv, SinksTyped
<1>1. CASE FlushConsole(t)
  <2>1. SinksTyped' /\ Grows
    BY <1>0, <1>1, SaveTyped DEF FlushConsole
  <2>2. CallsTyped'
    BY <1>1, EnterTyped DEF FlushConsole
  <2>. QED  BY <1>1, <2>1, <2>2 DEF FlushConsole, TypeInv, ListsTyped, listVars
<1>2. CASE FlushNoList(t)
  <2>1. SinksTyped' /\ Grows
    BY <1>0, <1>2, SaveTyped DEF FlushNoList
  <2>. QED  BY <1>2, <2>1 DEF FlushNoList, TypeInv, ListsTyped, CallsTyped,
                              listVars, callVars
<1>3. CASE LogDestory(t)
  <2>1. SinksTyped' /\ Grows
    BY <1>0, <1>3, SaveTyped DEF LogDestory, sinkVars
  <2>2. CallsTyped'
    BY <1>3, EnterTyped DEF LogDestory, sinkVars
  <2>. QED  BY <1>3, <2>1, <2>2, NoList DEF LogDestory, TypeInv, ListsTyped
<1>4. ASSUME NEW h \in Handles, add_to_handle_list(t, h)
      PROVE  TypeInv' /\ Grows
  <2>1. SinksTyped' /\ Grows
    BY <1>0, <1>4, SaveTyped DEF add_to_handle_list, sinkVars
  <2>2. /\ h \notin Range(lhs) /\ lhs' = <<h>> \o lhs /\ made' = made \cup {h}
        /\ lhs \in Lists /\ Range(lhs) \subseteq made /\ made \subseteq Handles
    BY <1>4 DEF add_to_handle_list, TypeInv, ListsTyped
  <2>3. lhs' \in Lists /\ Range(lhs') = {h} \cup Range(lhs)
    BY <2>2, ListGrows
  <2>. QED  BY <1>4, <2>1, <2>2, <2>3 DEF add_to_handle_list, TypeInv, ListsTyped,
                                          CallsTyped, sinkVars, callVars
<1>5. ASSUME NEW ll \in Levels, LogWrite(t, ll)
      PROVE  TypeInv' /\ Grows
  <2>1. /\ lhs \in Lists /\ log \in Seq([level : Levels, list : Lists])
        /\ log' = Append(log, [level |-> ll, list |-> lhs])
    BY <1>5 DEF LogWrite, TypeInv, ListsTyped
  <2>2. /\ log' \in Seq([level : Levels, list : Lists])
        /\ Len(log') = Len(log) + 1 /\ Len(log) \in Nat
    <3>1. [level |-> ll, list |-> lhs] \in [level : Levels, list : Lists]
      BY <2>1
    <3>. QED  BY <2>1, <3>1, AppendProperties, LenProperties
  <2>3. SinksTyped' /\ Grows
    <3>1. \A s \in Sinks : sink[s] \in Seq(1..Len(log')) /\ Len(sink[s]) \in Nat
      <4>1. ASSUME NEW s \in Sinks PROVE sink[s] \in Seq(1..Len(log'))
        <5>1. sink[s] \in Seq(1..Len(log)) /\ Len(sink[s]) \in Nat
          BY LenProperties DEF TypeInv, SinksTyped
        <5>2. sink[s] \in [1..Len(sink[s]) -> 1..Len(log)]
          BY <5>1, LenProperties
        <5>3. sink[s] \in [1..Len(sink[s]) -> 1..Len(log')]
          BY <2>2, <5>2
        <5>. QED  BY <5>1, <5>3, FunctionIsSeq
      <4>. QED  BY <4>1, LenProperties
    <3>2. UNCHANGED <<f_log, sink, disk>>
      BY <1>5 DEF LogWrite, sinkVars
    <3>3. sink \in [Sinks -> Seq(1..Len(log'))]
      BY <3>1 DEF TypeInv, SinksTyped
    <3>. QED  BY <3>1, <3>2, <3>3 DEF TypeInv, SinksTyped, Grows
  <2>4. CallsTyped'
    BY <1>5, <2>2, EnterTyped DEF LogWrite, sinkVars
  <2>. QED  BY <1>5, <2>2, <2>3, <2>4 DEF LogWrite, TypeInv, ListsTyped, listVars
<1>. QED  BY <1>1, <1>2, <1>3, <1>4, <1>5 DEF Call

LEMMA TypeStarts == Init => TypeInv
<1>. SUFFICES ASSUME Init PROVE TypeInv
  OBVIOUS
<1>1. << >> \in Seq([level : Levels, list : Lists]) /\ << >> \in Seq(1..0)
      /\ Len(<< >>) = 0
  BY EmptySeq
<1>2. ListsTyped
  BY <1>1, NoList DEF Init, ListsTyped
<1>3. SinksTyped
  BY <1>1 DEF Init, SinksTyped
<1>4. CallsTyped
  BY <1>1, NoList, NothingAsked DEF Init, CallsTyped
<1>. QED  BY <1>2, <1>3, <1>4 DEF TypeInv

LEMMA TypeSteps == TypeInv /\ [Next]_vars => TypeInv' /\ (Grows \/ UNCHANGED vars)
<1>1. ASSUME TypeInv, Next PROVE TypeInv' /\ Grows
  BY <1>1, StepEffect, CallEffect DEF Next
<1>2. ASSUME TypeInv, UNCHANGED vars PROVE TypeInv'
  BY <1>2 DEF vars, listVars, sinkVars, callVars, TypeInv, ListsTyped, SinksTyped,
              CallsTyped
<1>. QED  BY <1>1, <1>2

LEMMA TypeInvOK == TypeInv => TypeOK
<1>. SUFFICES ASSUME TypeInv PROVE TypeOK
  OBVIOUS
<1>1. \A s \in Sinks : disk[s] \in 0..Len(sink[s])
  BY LenProperties DEF TypeInv, SinksTyped
<1>2. \A t \in Threads : asked[t].list \in Lists /\ asked[t].given \in [Sinks -> Nat]
  BY DEF TypeInv, CallsTyped, Asked
<1>3. ASSUME NEW t \in Threads, NEW s \in Sinks
      PROVE  asked[t].given[s] \in 0..Len(sink[s])
  <2>1. asked[t].given[s] \in Nat /\ asked[t].given[s] <= Len(sink[s])
    BY <1>2 DEF TypeInv, CallsTyped
  <2>2. Len(sink[s]) \in Nat
    BY LenProperties DEF TypeInv, SinksTyped
  <2>. QED  BY <2>1, <2>2
<1>. QED  BY <1>1, <1>2, <1>3 DEF TypeInv, ListsTyped, SinksTyped, CallsTyped, TypeOK

LEMMA TypeInvariance == Spec => []TypeInv
BY TypeStarts, TypeSteps, PTL DEF Spec

\* The types of the variables; and a disk has no record its sink was not given,
\* and a thread that is in the loop of log.c has a handle to visit.
THEOREM TypeCorrect == Spec => []TypeOK
BY TypeInvariance, TypeInvOK, PTL

-----------------------------------------------------------------------------
(* Delivery.  While a thread is in the loop of _log_write the record is in *)
(* the sinks of the handles it has visited, and no other thread logs that  *)
(* record.                                                                 *)

Logs(t, r) == pc[t] = "write" /\ record[t] = r

DeliveryInv ==
  /\ \A r \in DOMAIN log, t \in Threads : Logs(t, r) =>
       /\ Range(it[t]) \subseteq Range(log[r].list)
       /\ \A s \in Sinks :
            Copies(r, s) = Cardinality(Givers(r, s) \ Range(it[t]))
  /\ \A r \in DOMAIN log : \A t, u \in Threads : Logs(t, r) /\ Logs(u, r) => t = u
  /\ \A r \in DOMAIN log : (\A t \in Threads : ~Logs(t, r)) =>
       \A s \in Sinks : Copies(r, s) = Cardinality(Givers(r, s))

Occurrences(w, r) == {i \in DOMAIN w : w[i] = r}

\* One more element in a sequence is one more occurrence of it.
LEMMA OccurrencesAppend ==
  ASSUME NEW w \in Seq(Nat), NEW e \in Nat, NEW r
  PROVE  /\ Cardinality(Occurrences(w, r)) \in Nat
         /\ Cardinality(Occurrences(Append(w, e), r))
            = IF r = e THEN Cardinality(Occurrences(w, r)) + 1
                       ELSE Cardinality(Occurrences(w, r))
<1>. DEFINE v == Append(w, e)
            P == Occurrences(w, r)
            Q == Occurrences(v, r)
            n == Len(w) + 1
<1>1. /\ Len(w) \in Nat /\ DOMAIN w = 1..Len(w) /\ DOMAIN v = 1..n
      /\ \A i \in 1..Len(w) : v[i] = w[i]
      /\ v[n] = e
  BY AppendProperties, LenProperties
<1>2. IsFiniteSet(P) /\ Cardinality(P) \in Nat
  <2>1. IsFiniteSet(1..Len(w)) /\ P \subseteq 1..Len(w)
    BY <1>1, FS_Interval DEF Occurrences
  <2>. QED  BY <2>1, FS_Subset, FS_CardinalityType
<1>3. n \notin P
  BY <1>1 DEF Occurrences
<1>4. CASE r = e
  <2>1. Q = P \cup {n}
    BY <1>1, <1>4 DEF Occurrences
  <2>. QED  BY <1>2, <1>3, <1>4, <2>1, FS_AddElement
<1>5. CASE r # e
  <2>1. Q = P
    BY <1>1, <1>5 DEF Occurrences
  <2>. QED  BY <1>2, <1>5, <2>1
<1>. QED  BY <1>4, <1>5

LEMMA GiversFinite ==
  ASSUME TypeInv, NEW r \in DOMAIN log, NEW s \in Sinks
  PROVE  IsFiniteSet(Givers(r, s)) /\ Givers(r, s) \subseteq Range(log[r].list)
<1>1. log[r].list \in Seq(Handles)
  <2>1. log \in [1..Len(log) -> [level : Levels, list : Lists]]
    BY LenProperties DEF TypeInv, ListsTyped
  <2>2. log[r] \in [level : Levels, list : Lists]
    BY <2>1
  <2>. QED  BY <2>2 DEF Lists
<1>2. IsFiniteSet(Range(log[r].list)) /\ Givers(r, s) \subseteq Range(log[r].list)
  BY <1>1, RangeFinite DEF Givers
<1>. QED  BY <1>2, FS_Subset

\* A step that logs nothing and leaves the loops of _log_write alone.
LEMMA SameDelivery ==
  ASSUME DeliveryInv, UNCHANGED <<cfg, sink, log>>,
         \A t \in Threads : /\ pc'[t] = "write" <=> pc[t] = "write"
                            /\ pc[t] = "write" => it'[t] = it[t] /\ record'[t] = record[t]
  PROVE  DeliveryInv'
<1>1. \A t \in Threads, r \in DOMAIN log : Logs(t, r)' <=> Logs(t, r)
  BY DEF Logs
<1>2. \A r \in DOMAIN log, s \in Sinks :
        Copies(r, s)' = Copies(r, s) /\ Givers(r, s)' = Givers(r, s)
  BY DEF Copies, Givers, GET_MODE, SinkOf, StreamOf
<1>3. \A t \in Threads, r \in DOMAIN log : Logs(t, r) => it'[t] = it[t]
  BY DEF Logs
<1>. QED  BY <1>1, <1>2, <1>3 DEF DeliveryInv

\* A visit: the handle at the head gives the record to its sink if its tag is in
\* the mode, and to no other.
LEMMA VisitDelivers ==
  ASSUME TypeInv, DeliveryInv, NEW t \in Threads, pc[t] = "write",
         UNCHANGED <<cfg, log>>, Goto(t, Tail(it[t])),
         \A s \in Sinks : sink'[s] = IF Head(it[t]) \in Givers(record[t], s)
                                     THEN Append(sink[s], record[t]) ELSE sink[s]
  PROVE  DeliveryInv'
<1>1. PICK e \in DOMAIN log : e = record[t]
  BY LenProperties DEF TypeInv, CallsTyped, ListsTyped
<1>2. PICK h \in Handles : h = Head(it[t])
  BY Visiting
<1>3. /\ Tail(it[t]) \in Lists /\ Range(it[t]) = {h} \cup Range(Tail(it[t]))
      /\ h \notin Range(Tail(it[t]))
  BY <1>2, Visiting
<1>4. \A r \in DOMAIN log, s \in Sinks : Givers(r, s)' = Givers(r, s)
  BY DEF Givers, GET_MODE, SinkOf, StreamOf
<1>5. Logs(t, e) /\ \A u \in Threads : Logs(u, e) => u = t
  BY <1>1 DEF DeliveryInv, Logs
<1>6. ASSUME NEW r \in DOMAIN log, NEW s \in Sinks
      PROVE  /\ Copies(r, s) \in Nat
             /\ Copies(r, s)' = IF r = e /\ h \in Givers(e, s)
                                THEN Copies(r, s) + 1 ELSE Copies(r, s)
  <2>1. e \in Nat /\ sink[s] \in Seq(Nat)
    <3>1. sink[s] \in Seq(1..Len(log))
      BY DEF TypeInv, SinksTyped
    <3>2. DOMAIN log = 1..Len(log) /\ Len(log) \in Nat
      BY LenProperties DEF TypeInv, ListsTyped
    <3>3. sink[s] \in [1..Len(sink[s]) -> 1..Len(log)] /\ Len(sink[s]) \in Nat
      BY <3>1, LenProperties
    <3>4. 1..Len(log) \subseteq Nat
      BY <3>2
    <3>5. sink[s] \in [1..Len(sink[s]) -> Nat]
      BY <3>3, <3>4
    <3>6. sink[s] \in Seq(Nat)
      BY <3>3, <3>5, FunctionIsSeq
    <3>. QED  BY <3>2, <3>4, <3>6
  <2>2. Copies(r, s) = Cardinality(Occurrences(sink[s], r))
    BY DEF Copies, Occurrences
  <2>3. Copies(r, s)' = Cardinality(Occurrences(sink'[s], r))
    BY DEF Copies, Occurrences
  <2>4. Copies(r, s) \in Nat
    BY <2>1, <2>2, OccurrencesAppend
  <2>5. CASE h \in Givers(e, s)
    <3>1. sink'[s] = Append(sink[s], e)
      BY <1>1, <1>2, <2>5
    <3>2. Copies(r, s)' = IF r = e THEN Copies(r, s) + 1 ELSE Copies(r, s)
      BY <2>1, <2>2, <2>3, <3>1, OccurrencesAppend
    <3>. QED  BY <2>4, <2>5, <3>2
  <2>6. CASE h \notin Givers(e, s)
    <3>1. sink'[s] = sink[s]
      BY <1>1, <1>2, <2>6
    <3>. QED  BY <2>2, <2>3, <2>4, <2>6, <3>1
  <2>. QED  BY <2>5, <2>6
<1>7. ASSUME NEW s \in Sinks
      PROVE  Copies(e, s)' = Cardinality(Givers(e, s) \ Range(Tail(it[t])))
  <2>. DEFINE G == Givers(e, s) \ Range(it[t])
              H == Givers(e, s) \ Range(Tail(it[t]))
  <2>1. Copies(e, s) = Cardinality(G)
    BY <1>5 DEF DeliveryInv
  <2>2. IsFiniteSet(G)
    BY GiversFinite, FS_Subset
  <2>3. CASE h \in Givers(e, s)
    <3>1. H = G \cup {h} /\ h \notin G
      BY <1>3, <2>3
    <3>2. Cardinality(H) = Cardinality(G) + 1
      BY <2>2, <3>1, FS_AddElement
    <3>. QED  BY <1>6, <2>1, <2>3, <3>2
  <2>4. CASE h \notin Givers(e, s)
    <3>1. H = G
      BY <1>3, <2>4
    <3>. QED  BY <1>6, <2>1, <2>4, <3>1
  <2>. QED  BY <2>3, <2>4
<1>8. \A u \in Threads \ {t} : /\ it'[u] = it[u]
                               /\ \A r \in DOMAIN log : Logs(u, r)' <=> Logs(u, r)
  BY <1>3, GotoSteps DEF Logs
<1>9. /\ it'[t] = Tail(it[t])
      /\ Tail(it[t]) = << >> => pc'[t] = "idle"
      /\ Tail(it[t]) # << >> => pc'[t] = "write" /\ record'[t] = record[t]
  BY <1>3, GotoSteps
<1>10. \A r \in DOMAIN log : Logs(t, r)' <=> r = e /\ Tail(it[t]) # << >>
  BY <1>1, <1>9 DEF Logs
<1>11. ASSUME NEW r \in DOMAIN log, NEW u \in Threads, Logs(u, r)'
       PROVE  /\ Range(it'[u]) \subseteq Range(log[r].list)
              /\ \A s \in Sinks :
                   Copies(r, s)' = Cardinality(Givers(r, s) \ Range(it'[u]))
  <2>1. CASE u = t
    <3>1. r = e /\ Range(it[t]) \subseteq Range(log[e].list)
      BY <1>5, <1>10, <1>11, <2>1 DEF DeliveryInv
    <3>. QED  BY <1>3, <1>7, <1>9, <2>1, <3>1
  <2>2. CASE u # t
    <3>1. Logs(u, r) /\ r # e /\ it'[u] = it[u]
      BY <1>5, <1>8, <1>11, <2>2
    <3>. QED  BY <1>6, <3>1 DEF DeliveryInv
  <2>. QED  BY <2>1, <2>2
<1>12. ASSUME NEW r \in DOMAIN log, NEW u \in Threads, NEW v \in Threads,
              Logs(u, r)', Logs(v, r)'
       PROVE  u = v
  BY <1>5, <1>8, <1>10, <1>12 DEF DeliveryInv
<1>13. ASSUME NEW r \in DOMAIN log, NEW s \in Sinks, \A u \in Threads : ~Logs(u, r)'
       PROVE  Copies(r, s)' = Cardinality(Givers(r, s))
  <2>1. CASE r = e
    <3>1. Tail(it[t]) = << >>
      BY <1>10, <1>13, <2>1
    <3>2. Givers(e, s) \ Range(Tail(it[t])) = Givers(e, s)
      BY <3>1, NoList
    <3>. QED  BY <1>7, <2>1, <3>2
  <2>2. CASE r # e
    <3>1. \A u \in Threads : ~Logs(u, r)
      BY <1>1, <1>8, <1>13, <2>2 DEF Logs
    <3>. QED  BY <1>6, <2>2, <3>1 DEF DeliveryInv
  <2>. QED  BY <2>1, <2>2
<1>14. log' = log
  OBVIOUS
<1>. QED  BY <1>4, <1>11, <1>12, <1>13, <1>14 DEF DeliveryInv

\* A new record is in no sink, and none of its handles has been visited.
LEMMA RecordStarts ==
  ASSUME TypeInv, DeliveryInv, NEW t \in Threads, NEW ll \in Levels, LogWrite(t, ll)
  PROVE  DeliveryInv'
<1>. DEFINE rec == [level |-> ll, list |-> lhs]
<1>0. PICK n \in Nat : n = Len(log) + 1
  BY LenProperties DEF TypeInv, ListsTyped
<1>1. /\ log \in Seq([level : Levels, list : Lists]) /\ Len(log) \in Nat
      /\ DOMAIN log = 1..Len(log)
      /\ rec \in [level : Levels, list : Lists] /\ rec.level = ll /\ rec.list = lhs
  BY LenProperties DEF TypeInv, ListsTyped
<1>2. log' = Append(log, rec) /\ sink' = sink /\ cfg' = cfg
  BY DEF LogWrite, sinkVars
<1>3. /\ DOMAIN log' = 1..n /\ log'[n] = rec /\ n \notin DOMAIN log
      /\ \A r \in DOMAIN log : log'[r] = log[r]
      /\ \A r \in DOMAIN log' : r \in DOMAIN log \/ r = n
  <2>. HIDE DEF rec
  <2>1. /\ Append(log, rec) \in Seq([level : Levels, list : Lists])
        /\ Len(Append(log, rec)) = n
        /\ \A i \in 1..Len(log) : Append(log, rec)[i] = log[i]
        /\ Append(log, rec)[n] = rec
    BY <1>0, <1>1, AppendProperties
  <2>2. DOMAIN Append(log, rec) = 1..n
    BY <2>1, LenProperties
  <2>. QED  BY <1>0, <1>1, <1>2, <2>1, <2>2
<1>4. /\ pc[t] = "idle" /\ pc'[t] = "write" /\ it'[t] = lhs /\ record'[t] = n
      /\ \A u \in Threads \ {t} : /\ pc'[u] = pc[u] /\ it'[u] = it[u]
                                  /\ record'[u] = record[u]
  BY <1>0 DEF LogWrite, Enter, Idle, TypeInv, CallsTyped
<1>5. \A u \in Threads : pc[u] = "write" => record[u] \in DOMAIN log
  BY <1>1 DEF TypeInv, CallsTyped
<1>. HIDE DEF rec
<1>6. /\ \A u \in Threads, r \in DOMAIN log : Logs(u, r)' <=> Logs(u, r)
      /\ \A u \in Threads : Logs(u, n)' <=> u = t
      /\ \A u \in Threads, r \in DOMAIN log : Logs(u, r) => it'[u] = it[u]
  <2>1. ASSUME NEW u \in Threads, u # t
        PROVE  /\ \A r \in DOMAIN log : Logs(u, r)' <=> Logs(u, r)
               /\ ~Logs(u, n)' /\ it'[u] = it[u]
    BY <1>3, <1>4, <1>5, <2>1 DEF Logs
  <2>2. /\ \A r \in DOMAIN log : ~Logs(t, r)' /\ ~Logs(t, r)
        /\ Logs(t, n)'
    BY <1>3, <1>4 DEF Logs
  <2>. QED  BY <2>1, <2>2
<1>7. \A r \in DOMAIN log, s \in Sinks :
        Copies(r, s)' = Copies(r, s) /\ Givers(r, s)' = Givers(r, s)
  BY <1>2, <1>3 DEF Copies, Givers, GET_MODE, SinkOf, StreamOf
<1>8. \A r \in DOMAIN log : log'[r].list = log[r].list
  BY <1>3
<1>9. log'[n].list = lhs
  BY <1>1, <1>3
<1>10. ASSUME NEW s \in Sinks
       PROVE  Copies(n, s)' = Cardinality(Givers(n, s)' \ Range(lhs))
  <2>1. Givers(n, s)' \ Range(lhs) = {}
    <3>1. Givers(n, s)' \subseteq Range(log'[n].list)
      BY DEF Givers
    <3>. QED  BY <1>9, <3>1
  <2>2. sink'[s] \in [1..Len(sink[s]) -> DOMAIN log]
    BY <1>1, <1>2, LenProperties DEF TypeInv, SinksTyped
  <2>3. Occurrences(sink'[s], n) = {}
    BY <1>3, <2>2 DEF Occurrences
  <2>4. Copies(n, s)' = Cardinality(Occurrences(sink'[s], n))
    BY DEF Copies, Occurrences
  <2>. QED  BY <2>1, <2>3, <2>4
<1>11. ASSUME NEW r \in DOMAIN log', NEW u \in Threads, Logs(u, r)'
       PROVE  /\ Range(it'[u]) \subseteq Range(log'[r].list)
              /\ \A s \in Sinks :
                   Copies(r, s)' = Cardinality(Givers(r, s)' \ Range(it'[u]))
  <2>1. CASE r = n
    BY <1>4, <1>6, <1>9, <1>10, <1>11, <2>1
  <2>2. CASE r \in DOMAIN log
    BY <1>6, <1>7, <1>8, <1>11, <2>2 DEF DeliveryInv
  <2>. QED  BY <1>3, <2>1, <2>2
<1>12. ASSUME NEW r \in DOMAIN log', NEW u \in Threads, NEW v \in Threads,
              Logs(u, r)', Logs(v, r)'
       PROVE  u = v
  BY <1>3, <1>6, <1>12 DEF DeliveryInv
<1>13. ASSUME NEW r \in DOMAIN log', NEW s \in Sinks, \A u \in Threads : ~Logs(u, r)'
       PROVE  Copies(r, s)' = Cardinality(Givers(r, s)')
  <2>1. r \in DOMAIN log
    BY <1>3, <1>6, <1>13
  <2>2. \A u \in Threads : ~Logs(u, r)
    BY <1>6, <1>13, <2>1
  <2>. QED  BY <1>7, <2>1, <2>2 DEF DeliveryInv
<1>. QED  BY <1>11, <1>12, <1>13 DEF DeliveryInv

\* The sink of the handle at the head, when its tag is in the mode.
LEMMA GiversOfHead ==
  ASSUME TypeInv, DeliveryInv, NEW t \in Threads, pc[t] = "write"
  PROVE  \A s \in Sinks :
           Head(it[t]) \in Givers(record[t], s)
             <=> /\ tag(Head(it[t])) \in GET_MODE(LevelOf(t))
                 /\ SinkOf(Head(it[t]), LevelOf(t)) = s
<1>1. PICK r \in DOMAIN log : r = record[t]
  BY LenProperties DEF TypeInv, CallsTyped, ListsTyped
<1>2. Head(it[t]) \in Range(log[r].list)
  <2>1. Head(it[t]) \in Range(it[t])
    BY Visiting
  <2>2. Range(it[t]) \subseteq Range(log[r].list)
    BY <1>1 DEF DeliveryInv, Logs
  <2>. QED  BY <2>1, <2>2
<1>. QED  BY <1>1, <1>2 DEF Givers, LevelOf

LEMMA StepDelivers ==
  ASSUME TypeInv, DeliveryInv, NEW t \in Threads, Step(t)
  PROVE  DeliveryInv'
<1>0. /\ << >> \in Lists /\ sink \in [Sinks -> Seq(1..Len(log))]
      /\ pc[t] # "idle" => Tail(it[t]) \in Lists /\ Head(it[t]) \in Handles
  BY NoList, Visiting DEF TypeInv, SinksTyped
<1>1. CASE VisitFile(t)
  <2>1. PICK h \in Files : h = Head(it[t])
    BY <1>1 DEF VisitFile
  <2>2. tag(h) = F_MODE /\ SinkOf(h, LevelOf(t)) = h
    BY <2>1 DEF tag, SinkOf
  <2>3. /\ pc[t] = "write" /\ F_MODE \in GET_MODE(LevelOf(t))
        /\ sink' = [sink EXCEPT ![h] = Append(sink[h], record[t])]
        /\ Goto(t, Tail(it[t])) /\ UNCHANGED <<cfg, log>>
    BY <1>1, <2>1 DEF VisitFile, Give, Visited
  <2>4. \A s \in Sinks : sink'[s] = IF Head(it[t]) \in Givers(record[t], s)
                                    THEN Append(sink[s], record[t]) ELSE sink[s]
    BY <1>0, <2>1, <2>2, <2>3, GiversOfHead
  <2>. QED  BY <2>3, <2>4, VisitDelivers
<1>2. CASE VisitStream(t)
  <2>1. PICK h \in Streams : h = Head(it[t])
    BY <1>2 DEF VisitStream
  <2>2. tag(h) = S_MODE /\ SinkOf(h, LevelOf(t)) = StreamOf(LevelOf(t))
    BY <2>1, ConsoleSinks DEF tag, SinkOf
  <2>3. /\ pc[t] = "write" /\ S_MODE \in GET_MODE(LevelOf(t))
        /\ Give(StreamOf(LevelOf(t)), record[t])
        /\ Goto(t, Tail(it[t])) /\ UNCHANGED <<cfg, log>>
    BY <1>2, <2>1 DEF VisitStream, Visited
  <2>4. \A s \in Sinks : sink'[s] = IF StreamOf(LevelOf(t)) = s
                                    THEN Append(sink[s], record[t]) ELSE sink[s]
    BY <1>0, <2>3 DEF Give
  <2>5. \A s \in Sinks : Head(it[t]) \in Givers(record[t], s)
                           <=> StreamOf(LevelOf(t)) = s
    BY <2>1, <2>2, <2>3, GiversOfHead
  <2>. QED  BY <2>3, <2>4, <2>5, VisitDelivers
<1>3. CASE VisitOther(t)
  <2>1. /\ pc[t] = "write" /\ tag(Head(it[t])) \notin GET_MODE(LevelOf(t))
        /\ sink' = sink
        /\ Goto(t, Tail(it[t])) /\ UNCHANGED <<cfg, log>>
    BY <1>3 DEF VisitOther, Visited, sinkVars
  <2>2. \A s \in Sinks : Head(it[t]) \notin Givers(record[t], s)
    BY <2>1, GiversOfHead
  <2>. QED  BY <2>1, <2>2, VisitDelivers
<1>4. CASE FlushFile(t) \/ FlushEnds(t) \/ DestroyHandle(t)
  <2>1. PICK rest \in Lists :
          /\ pc[t] \in {"flush", "destroy"} /\ Goto(t, rest)
          /\ UNCHANGED <<cfg, sink, log>>
    BY <1>0, <1>4 DEF FlushFile, FlushEnds, DestroyHandle, sinkVars
  <2>2. \A u \in Threads :
          /\ pc'[u] = "write" <=> pc[u] = "write"
          /\ pc[u] = "write" => it'[u] = it[u] /\ record'[u] = record[u]
    BY <2>1, GotoSteps
  <2>. QED  BY <2>1, <2>2, SameDelivery
<1>5. CASE CloseNull(t)
  BY <1>5, SameDelivery DEF CloseNull, sinkVars, callVars
<1>. QED  BY <1>1, <1>2, <1>3, <1>4, <1>5 DEF Step

LEMMA CallDelivers ==
  ASSUME TypeInv, DeliveryInv, NEW t \in Threads, Call(t)
  PROVE  DeliveryInv'
<1>1. CASE FlushConsole(t) \/ LogDestory(t)
  <2>1. /\ UNCHANGED <<cfg, sink, log, record>> /\ pc[t] = "idle"
        /\ Enter(t, "flush") \/ Enter(t, "destroy")
    BY <1>1 DEF FlushConsole, LogDestory, sinkVars, Enter, Idle
  <2>2. \A u \in Threads :
          /\ pc'[u] = "write" <=> pc[u] = "write"
          /\ pc[u] = "write" => it'[u] = it[u] /\ record'[u] = record[u]
    BY <2>1 DEF Enter, TypeInv, CallsTyped
  <2>. QED  BY <2>1, <2>2, SameDelivery
<1>2. CASE FlushNoList(t)
  BY <1>2, SameDelivery DEF FlushNoList, callVars
<1>3. ASSUME NEW h \in Handles, add_to_handle_list(t, h) PROVE DeliveryInv'
  BY <1>3, SameDelivery DEF add_to_handle_list, sinkVars, callVars
<1>4. ASSUME NEW ll \in Levels, LogWrite(t, ll) PROVE DeliveryInv'
  BY <1>4, RecordStarts
<1>. QED  BY <1>1, <1>2, <1>3, <1>4 DEF Call

LEMMA DeliveryStarts == Init => DeliveryInv
BY EmptySeq DEF Init, DeliveryInv

LEMMA DeliverySteps ==
  TypeInv /\ DeliveryInv /\ [Next]_vars => DeliveryInv'
<1>1. ASSUME TypeInv, DeliveryInv, Next PROVE DeliveryInv'
  BY <1>1, StepDelivers, CallDelivers DEF Next
<1>2. ASSUME DeliveryInv, UNCHANGED vars PROVE DeliveryInv'
  BY <1>2, SameDelivery DEF vars, sinkVars, callVars
<1>. QED  BY <1>1, <1>2

LEMMA InvDelivered == TypeInv /\ DeliveryInv => Delivered
<1>. SUFFICES ASSUME TypeInv, DeliveryInv, NEW r \in DOMAIN log, NEW s \in Sinks
              PROVE  IF InProgress(r) THEN Copies(r, s) <= Cardinality(Givers(r, s))
                                      ELSE Copies(r, s) = Cardinality(Givers(r, s))
  BY DEF Delivered
<1>1. CASE InProgress(r)
  <2>1. PICK t \in Threads : Logs(t, r)
    BY <1>1 DEF InProgress, Logs
  <2>2. Copies(r, s) = Cardinality(Givers(r, s) \ Range(it[t]))
    BY <2>1 DEF DeliveryInv
  <2>3. IsFiniteSet(Givers(r, s)) /\ Givers(r, s) \ Range(it[t]) \subseteq Givers(r, s)
    BY GiversFinite
  <2>. QED  BY <1>1, <2>2, <2>3, FS_Subset
<1>2. CASE ~InProgress(r)
  BY <1>2 DEF InProgress, Logs, DeliveryInv
<1>. QED  BY <1>1, <1>2

\* When _log_write returns, its record is in the sink of every handle of the
\* list it was given whose tag is in the mode of its level, once for each such
\* handle, and in no other sink; until then it is there no more often.
THEOREM DeliveredOnce == Spec => []Delivered
<1>1. TypeInv /\ DeliveryInv => Delivered
  BY InvDelivered
<1>. QED  BY <1>1, TypeInvariance, DeliveryStarts, DeliverySteps, PTL DEF Spec

-----------------------------------------------------------------------------
(* Flush and destruction.  What is left of the list a thread flushes or    *)
(* destroys is its end, and the files it has passed are on the disk as far *)
(* as they had been given records when it was called.                      *)

\* The handles of its list the thread has passed.
Passed(t) == Len(asked[t].list) - Len(it[t])

OnDisk(t, s) == disk[s] >= asked[t].given[s]

Saving(t) ==
  /\ Len(it[t]) <= Len(asked[t].list)
  /\ \A j \in 1..Len(it[t]) : it[t][j] = asked[t].list[Passed(t) + j]
  /\ \A i \in 1..Passed(t) :
       asked[t].list[i] \in Files => OnDisk(t, asked[t].list[i])
  /\ pc[t] = "flush" => OnDisk(t, "stdout")

SaveInv == \A t \in Threads : pc[t] \in {"flush", "destroy"} => Saving(t)

LEMMA AskedTyped ==
  ASSUME TypeInv, NEW t \in Threads
  PROVE  /\ asked[t].list \in Seq(Handles) /\ Len(asked[t].list) \in Nat
         /\ DOMAIN asked[t].list = 1..Len(asked[t].list)
         /\ \A i \in 1..Len(asked[t].list) : asked[t].list[i] \in Handles
         /\ it[t] \in Seq(Handles) /\ Len(it[t]) \in Nat
         /\ \A s \in Sinks : /\ asked[t].given[s] \in Nat /\ disk[s] \in Nat
                             /\ Len(sink[s]) \in Nat
                             /\ asked[t].given[s] <= Len(sink[s])
<1>1. asked[t].list \in Lists /\ asked[t].given \in [Sinks -> Nat] /\ it[t] \in Lists
  BY DEF TypeInv, CallsTyped, Asked
<1>2. asked[t].list \in Seq(Handles) /\ it[t] \in Seq(Handles)
  BY <1>1 DEF Lists
<1>3. \A s \in Sinks : Len(sink[s]) \in Nat /\ disk[s] \in Nat
  BY LenProperties DEF TypeInv, SinksTyped
<1>4. \A s \in Sinks : asked[t].given[s] \in Nat /\ asked[t].given[s] <= Len(sink[s])
  BY <1>1 DEF TypeInv, CallsTyped
<1>. QED  BY <1>2, <1>3, <1>4, LenProperties, ElementOfSeq

LEMMA Remainder ==
  ASSUME NEW m \in Nat, NEW n \in Nat, n <= m
  PROVE  /\ m - n \in Nat /\ m - n <= m
         /\ n >= 1 => /\ (m - n) + 1 = m - (n - 1)
                      /\ n - 1 \in Nat /\ n - 1 <= m
OBVIOUS

\* A thread that a step does not move keeps what it has saved.
LEMMA StillSaving ==
  ASSUME TypeInv, TypeInv', Grows, NEW u \in Threads, Saving(u),
         pc'[u] = pc[u], it'[u] = it[u], asked'[u] = asked[u]
  PROVE  Saving(u)'
<1>0. /\ Len(it[u]) \in Nat /\ Len(asked[u].list) \in Nat
      /\ Len(it[u]) <= Len(asked[u].list)
  BY AskedTyped DEF Saving
<1>1. /\ Passed(u)' = Passed(u) /\ Passed(u) \in Nat
      /\ Passed(u) <= Len(asked[u].list)
  <2>1. Passed(u)' = Passed(u)
    BY DEF Passed
  <2>2. Passed(u) \in Nat /\ Passed(u) <= Len(asked[u].list)
    BY <1>0, Remainder DEF Passed
  <2>. QED  BY <2>1, <2>2
<1>2. ASSUME NEW s \in Sinks, OnDisk(u, s) PROVE OnDisk(u, s)'
  <2>1. disk[s] \in Nat /\ disk'[s] \in Nat /\ asked[u].given[s] \in Nat
    BY AskedTyped DEF TypeInv, SinksTyped
  <2>2. disk[s] <= disk'[s]
    BY DEF Grows
  <2>. QED  BY <1>2, <2>1, <2>2 DEF OnDisk
<1>3. ASSUME NEW i \in 1..Passed(u), asked[u].list[i] \in Files
      PROVE  disk'[asked[u].list[i]] >= asked[u].given[asked[u].list[i]]
  <2>1. PICK s \in Sinks : s = asked[u].list[i]
    BY <1>3, ConsoleSinks
  <2>2. OnDisk(u, s)
    BY <1>3, <2>1 DEF Saving
  <2>. QED  BY <1>2, <2>1, <2>2 DEF OnDisk
<1>4. ASSUME pc[u] = "flush" PROVE disk'["stdout"] >= asked[u].given["stdout"]
  <2>1. OnDisk(u, "stdout")'
    BY <1>2, <1>4, ConsoleSinks DEF Saving
  <2>. QED  BY <2>1 DEF OnDisk
<1>. QED  BY <1>1, <1>3, <1>4 DEF Saving, OnDisk

\* A thread that enters its loop has passed no handle.
LEMMA SavingStarts ==
  ASSUME TypeInv, NEW t \in Threads, NEW label \in {"flush", "destroy"},
         Enter(t, label), Asks(t), lhs # << >>,
         label = "flush" => disk'["stdout"] = Len(sink["stdout"])
  PROVE  Saving(t)'
<1>1. /\ lhs \in Seq(Handles) /\ Len(lhs) \in Nat
      /\ \A s \in Sinks : Len(sink[s]) \in Nat
  BY LenProperties DEF TypeInv, ListsTyped, SinksTyped, Lists
<1>. DEFINE given == [s \in Sinks |-> Len(sink[s])]
<1>2. \A s \in Sinks : given[s] = Len(sink[s])
  OBVIOUS
<1>3. /\ pc'[t] = label /\ it'[t] = lhs
      /\ asked'[t].list = lhs /\ asked'[t].given = given
  BY DEF Enter, Asks, TypeInv, CallsTyped
<1>. HIDE DEF given
<1>4. Passed(t)' = 0
  BY <1>1, <1>3 DEF Passed
<1>5. label = "flush" => disk'["stdout"] >= asked'[t].given["stdout"]
  BY <1>1, <1>2, <1>3, ConsoleSinks
<1>. QED  BY <1>1, <1>3, <1>4, <1>5 DEF Saving, OnDisk

\* A step of the loop that passes the handle at the head.
LEMMA SavingMoves ==
  ASSUME TypeInv, TypeInv', Grows, NEW t \in Threads, pc[t] \in {"flush", "destroy"},
         Saving(t), Head(it[t]) \in Files => disk'[Head(it[t])] = Len(sink[Head(it[t])])
  PROVE  /\ pc[t] = "flush" => disk'["stdout"] >= asked[t].given["stdout"]
         /\ Len(Tail(it[t])) \in Nat /\ Len(Tail(it[t])) <= Len(asked[t].list)
         /\ \E p \in Nat :
              /\ p = Len(asked[t].list) - Len(Tail(it[t]))
              /\ \A i \in 1..p : asked[t].list[i] \in Files =>
                   disk'[asked[t].list[i]] >= asked[t].given[asked[t].list[i]]
              /\ \A j \in 1..Len(Tail(it[t])) :
                   Tail(it[t])[j] = asked[t].list[p + j]
<1>1. /\ Len(it[t]) \in Nat /\ Len(it[t]) <= Len(asked[t].list)
      /\ Len(asked[t].list) \in Nat /\ it[t] \in Seq(Handles)
  BY AskedTyped DEF Saving
<1>2. /\ it[t] # << >> /\ Len(it[t]) >= 1 /\ Head(it[t]) = it[t][1]
      /\ Len(Tail(it[t])) = Len(it[t]) - 1
      /\ \A j \in 1..Len(it[t]) - 1 : Tail(it[t])[j] = it[t][j + 1]
  <2>1. it[t] # << >>
    BY Visiting
  <2>. QED  BY <1>1, <2>1, EmptySeq, HeadTailProperties
<1>3. PICK k \in Nat : k = Passed(t) /\ k = Len(asked[t].list) - Len(it[t])
  <2>1. Len(asked[t].list) - Len(it[t]) \in Nat
    BY <1>1
  <2>. QED  BY <2>1 DEF Passed
<1>4. \A j \in 1..Len(it[t]) : it[t][j] = asked[t].list[k + j]
  BY <1>3 DEF Saving
<1>5. ASSUME NEW s \in Sinks, OnDisk(t, s) PROVE disk'[s] >= asked[t].given[s]
  <2>1. disk[s] \in Nat /\ disk'[s] \in Nat /\ asked[t].given[s] \in Nat
    BY AskedTyped DEF TypeInv, SinksTyped
  <2>2. disk[s] <= disk'[s]
    BY DEF Grows
  <2>. QED  BY <1>5, <2>1, <2>2 DEF OnDisk
<1>6. ASSUME NEW i \in 1..k + 1, asked[t].list[i] \in Files
      PROVE  disk'[asked[t].list[i]] >= asked[t].given[asked[t].list[i]]
  <2>1. PICK s \in Sinks : s = asked[t].list[i]
    BY <1>6, ConsoleSinks
  <2>2. CASE i \in 1..k
    <3>1. OnDisk(t, s)
      BY <1>3, <1>6, <2>1, <2>2 DEF Saving
    <3>. QED  BY <1>5, <2>1, <3>1
  <2>3. CASE i = k + 1
    <3>1. Head(it[t]) = s
      BY <1>1, <1>2, <1>4, <2>1, <2>3
    <3>2. disk'[s] = Len(sink[s]) /\ s \in Files
      BY <1>6, <2>1, <3>1
    <3>3. /\ asked[t].given[s] <= Len(sink[s]) /\ asked[t].given[s] \in Nat
          /\ Len(sink[s]) \in Nat
      BY AskedTyped
    <3>4. disk'[s] >= asked[t].given[s]
      BY <3>2, <3>3
    <3>. QED  BY <2>1, <3>4
  <2>4. i \in 1..k \/ i = k + 1
    OBVIOUS
  <2>. QED  BY <2>2, <2>3, <2>4
<1>7. ASSUME pc[t] = "flush" PROVE disk'["stdout"] >= asked[t].given["stdout"]
  BY <1>5, <1>7, ConsoleSinks DEF Saving
<1>8. ASSUME NEW j \in 1..Len(it[t]) - 1
      PROVE  Tail(it[t])[j] = asked[t].list[k + 1 + j]
  <2>0. PICK n \in Nat : n = Len(it[t])
    BY <1>1
  <2>1. j + 1 \in 1..Len(it[t]) /\ k + (j + 1) = k + 1 + j
    BY <2>0
  <2>2. Tail(it[t])[j] = it[t][j + 1] /\ it[t][j + 1] = asked[t].list[k + (j + 1)]
    BY <1>2, <1>4, <2>1
  <2>. QED  BY <2>1, <2>2
<1>9. /\ k + 1 \in Nat /\ k + 1 = Len(asked[t].list) - Len(Tail(it[t]))
      /\ Len(Tail(it[t])) \in Nat /\ Len(Tail(it[t])) <= Len(asked[t].list)
  <2>1. /\ (Len(asked[t].list) - Len(it[t])) + 1 = Len(asked[t].list) - (Len(it[t]) - 1)
        /\ Len(it[t]) - 1 \in Nat /\ Len(it[t]) - 1 <= Len(asked[t].list)
    BY <1>1, <1>2, Remainder
  <2>2. k + 1 \in Nat
    OBVIOUS
  <2>. QED  BY <1>2, <1>3, <2>1, <2>2
<1>10. \A j \in 1..Len(Tail(it[t])) : Tail(it[t])[j] = asked[t].list[(k + 1) + j]
  BY <1>2, <1>8
<1>. QED  BY <1>6, <1>7, <1>9, <1>10

\* The threads a step of another thread leaves where they are.
LEMMA OthersStay ==
  ASSUME TypeInv, NEW t \in Threads, Call(t) \/ Step(t)
  PROVE  \A u \in Threads \ {t} :
           pc'[u] = pc[u] /\ it'[u] = it[u] /\ asked'[u] = asked[u]
<1>1. CASE \E rest \in Lists : Goto(t, rest)
  BY <1>1, GotoSteps
<1>2. CASE \E label \in {"write", "flush", "destroy"} :
             Enter(t, label) /\ (Asks(t) \/ UNCHANGED asked)
  BY <1>2 DEF Enter, Asks, TypeInv, CallsTyped
<1>3. CASE UNCHANGED callVars
  BY <1>3 DEF callVars
<1>4. ASSUME Step(t)
      PROVE  (\E rest \in Lists : Goto(t, rest)) \/ UNCHANGED callVars
  <2>1. ASSUME pc[t] # "idle" PROVE Tail(it[t]) \in Lists /\ << >> \in Lists
    BY <2>1, Visiting, NoList
  <2>. QED  BY <1>4, <2>1 DEF Step, VisitFile, VisitStream, VisitOther, FlushFile,
                              FlushEnds, DestroyHandle, CloseNull, Visited
<1>5. ASSUME Call(t)
      PROVE  \/ \E label \in {"write", "flush", "destroy"} :
                  Enter(t, label) /\ (Asks(t) \/ UNCHANGED asked)
             \/ UNCHANGED callVars
  BY <1>5 DEF Call, FlushConsole, FlushNoList, LogDestory, add_to_handle_list, LogWrite
<1>. QED  BY <1>1, <1>2, <1>3, <1>4, <1>5

\* What a step of the loop of log_flush or log_destory comes to.
LEMMA SavingStep ==
  ASSUME TypeInv, NEW t \in Threads, pc[t] \in {"flush", "destroy"}, Step(t)
  PROVE  \/ UNCHANGED callVars
         \/ /\ Goto(t, Tail(it[t]))
            /\ Head(it[t]) \in Files =>
                 disk'[Head(it[t])] = Len(sink[Head(it[t])])
         \/ /\ Goto(t, << >>) /\ pc[t] = "flush" /\ Head(it[t]) \in Streams
<1>0. disk \in [Sinks -> Nat]
  BY DEF TypeInv, SinksTyped
<1>1. CASE FlushFile(t)
  <2>1. PICK h \in Sinks : h = Head(it[t]) /\ disk' = [disk EXCEPT ![h] = Len(sink[h])]
    BY <1>1, ConsoleSinks, Visiting, LoggerAssumption, TypeInvOK DEF FlushFile, TypeOK
  <2>. QED  BY <1>0, <1>1, <2>1 DEF FlushFile
<1>2. CASE DestroyHandle(t)
  <2>1. ASSUME Head(it[t]) \in Files
        PROVE  disk'[Head(it[t])] = Len(sink[Head(it[t])])
    <3>1. PICK h \in Sinks : h = Head(it[t])
      BY <2>1, ConsoleSinks
    <3>2. disk' = [disk EXCEPT ![h] = Len(sink[h])]
      BY <1>2, <2>1, <3>1 DEF DestroyHandle
    <3>. QED  BY <1>0, <3>1, <3>2
  <2>. QED  BY <1>2, <2>1 DEF DestroyHandle
<1>3. CASE FlushEnds(t)
  BY <1>3 DEF FlushEnds
<1>4. CASE CloseNull(t)
  BY <1>4 DEF CloseNull
<1>5. ~(VisitFile(t) \/ VisitStream(t) \/ VisitOther(t))
  BY DEF VisitFile, VisitStream, VisitOther
<1>. QED  BY <1>1, <1>2, <1>3, <1>4, <1>5 DEF Step

LEMMA SaveSteps == TypeInv /\ SaveInv /\ [Next]_vars => SaveInv'
<1>1. ASSUME TypeInv, SaveInv, NEW t \in Threads, Call(t) \/ Step(t) PROVE SaveInv'
  <2>0. TypeInv' /\ Grows
    BY <1>1, StepEffect, CallEffect
  <2>1. ASSUME NEW u \in Threads \ {t}, pc'[u] \in {"flush", "destroy"}
        PROVE  Saving(u)'
    <3>1. pc'[u] = pc[u] /\ it'[u] = it[u] /\ asked'[u] = asked[u]
      BY <1>1, OthersStay
    <3>2. Saving(u)
      BY <1>1, <2>1, <3>1 DEF SaveInv
    <3>. QED  BY <1>1, <2>0, <3>1, <3>2, StillSaving
  <2>2. ASSUME pc'[t] \in {"flush", "destroy"}, UNCHANGED callVars PROVE Saving(t)'
    <3>1. pc'[t] = pc[t] /\ it'[t] = it[t] /\ asked'[t] = asked[t] /\ Saving(t)
      BY <1>1, <2>2 DEF callVars, SaveInv
    <3>. QED  BY <1>1, <2>0, <3>1, StillSaving
  <2>3. ASSUME pc'[t] \in {"flush", "destroy"}, Call(t) PROVE Saving(t)'
    <3>0. disk \in [Sinks -> Nat] /\ "stdout" \in Sinks /\ pc[t] \in
             {"idle", "write", "flush", "destroy"}
      BY <1>1, ConsoleSinks DEF TypeInv, SinksTyped, CallsTyped
    <3>1. CASE FlushConsole(t)
      <4>1. disk'["stdout"] = Len(sink["stdout"])
        BY <3>0, <3>1 DEF FlushConsole
      <4>. QED  BY <1>1, <3>1, <4>1, SavingStarts DEF FlushConsole
    <3>2. CASE LogDestory(t)
      BY <1>1, <3>2, SavingStarts DEF LogDestory
    <3>3. CASE FlushNoList(t) \/ \E h \in Handles : add_to_handle_list(t, h)
      <4>1. UNCHANGED callVars
        BY <3>3 DEF FlushNoList, add_to_handle_list
      <4>. QED  BY <2>2, <2>3, <4>1
    <3>4. CASE \E ll \in Levels : LogWrite(t, ll)
      BY <1>1, <2>3, <3>4 DEF LogWrite, Enter, TypeInv, CallsTyped
    <3>. QED  BY <2>3, <3>1, <3>2, <3>3, <3>4 DEF Call
  <2>4. ASSUME pc'[t] \in {"flush", "destroy"}, Step(t), pc[t] \in {"flush", "destroy"}
        PROVE  Saving(t)'
    <3>1. Saving(t)
      BY <1>1, <2>4 DEF SaveInv
    <3>2. CASE Goto(t, << >>)
      BY <1>1, <2>4, <3>2, NoList, GotoSteps
    <3>3. CASE /\ Goto(t, Tail(it[t]))
               /\ Head(it[t]) \in Files =>
                    disk'[Head(it[t])] = Len(sink[Head(it[t])])
      <4>1. Tail(it[t]) \in Lists
        BY <1>1, <2>4, Visiting
      <4>2. pc'[t] = pc[t] /\ it'[t] = Tail(it[t]) /\ asked'[t] = asked[t]
        BY <1>1, <2>4, <3>3, <4>1, GotoSteps
      <4>3. PICK p \in Nat :
              /\ p = Len(asked[t].list) - Len(Tail(it[t]))
              /\ \A i \in 1..p : asked[t].list[i] \in Files =>
                   disk'[asked[t].list[i]] >= asked[t].given[asked[t].list[i]]
              /\ \A j \in 1..Len(Tail(it[t])) :
                   Tail(it[t])[j] = asked[t].list[p + j]
        BY <1>1, <2>0, <2>4, <3>1, <3>3, SavingMoves
      <4>4. /\ Len(Tail(it[t])) <= Len(asked[t].list)
            /\ pc[t] = "flush" => disk'["stdout"] >= asked[t].given["stdout"]
        BY <1>1, <2>0, <2>4, <3>1, <3>3, SavingMoves
      <4>5. Passed(t)' = p
        BY <4>2, <4>3 DEF Passed
      <4>. QED  BY <4>2, <4>3, <4>4, <4>5 DEF Saving, OnDisk
    <3>. QED  BY <1>1, <2>2, <2>4, <3>2, <3>3, SavingStep
  <2>5. ASSUME Step(t), pc[t] \notin {"flush", "destroy"}
        PROVE  pc'[t] \notin {"flush", "destroy"}
    <3>1. VisitFile(t) \/ VisitStream(t) \/ VisitOther(t)
      BY <2>5 DEF Step, FlushFile, FlushEnds, DestroyHandle, CloseNull
    <3>2. pc[t] = "write" /\ Goto(t, Tail(it[t]))
      BY <3>1 DEF VisitFile, VisitStream, VisitOther, Visited
    <3>. QED  BY <1>1, <3>2, Visiting, GotoSteps
  <2>. QED  BY <1>1, <2>1, <2>3, <2>4, <2>5 DEF SaveInv
<1>2. ASSUME SaveInv, UNCHANGED vars PROVE SaveInv'
  BY <1>2 DEF vars, sinkVars, callVars, SaveInv, Saving, Passed, OnDisk
<1>. QED  BY <1>1, <1>2 DEF Next

\* The property of a step, as a formula of its own.
SavedStep ==
  \A t \in Threads :
    /\ Returns(t, "flush") => Saved(t, LeadingFiles(asked[t].list) \cup {"stdout"})
    /\ Returns(t, "destroy") => Saved(t, Range(asked[t].list) \cap Files)

LEMMA SavedWhenReturning == TypeInv /\ SaveInv /\ [Next]_vars => [SavedStep]_vars
<1>1. ASSUME TypeInv, SaveInv, NEW t \in Threads, Call(t) \/ Step(t),
             NEW u \in Threads, pc[u] \in {"flush", "destroy"}, pc'[u] = "idle"
      PROVE  /\ pc[u] = "flush" =>
                  Saved(u, LeadingFiles(asked[u].list) \cup {"stdout"})
             /\ pc[u] = "destroy" => Saved(u, Range(asked[u].list) \cap Files)
  <2>0. TypeInv' /\ Grows /\ Saving(u)
    BY <1>1, StepEffect, CallEffect DEF SaveInv
  <2>1. u = t
    BY <1>1, OthersStay
  <2>2. Step(t)
    BY <1>1, <2>1 DEF Call, FlushConsole, FlushNoList, LogDestory,
                      add_to_handle_list, LogWrite, Enter, Idle, callVars
  <2>3. ~UNCHANGED callVars
    BY <1>1 DEF callVars
  <2>. DEFINE list == asked[t].list
  <2>4. Len(list) \in Nat /\ DOMAIN list = 1..Len(list)
    BY <1>1, AskedTyped
  <2>5. CASE /\ Goto(t, Tail(it[t]))
             /\ Head(it[t]) \in Files =>
                  disk'[Head(it[t])] = Len(sink[Head(it[t])])
    <3>1. PICK p \in Nat :
            /\ p = Len(list) - Len(Tail(it[t]))
            /\ \A i \in 1..p : list[i] \in Files =>
                 disk'[list[i]] >= asked[t].given[list[i]]
      BY <1>1, <2>0, <2>1, <2>5, SavingMoves
    <3>2. pc[t] = "flush" => disk'["stdout"] >= asked[t].given["stdout"]
      BY <1>1, <2>0, <2>1, <2>5, SavingMoves
    <3>3. Tail(it[t]) = << >>
      <4>1. Tail(it[t]) \in Lists
        BY <1>1, <2>1, Visiting
      <4>. QED  BY <1>1, <2>1, <2>5, <4>1, GotoSteps
    <3>4. p = Len(list)
      <4>1. Len(Tail(it[t])) = 0
        <5>1. Len(<< >>) = 0
          OBVIOUS
        <5>2. Len(Tail(it[t])) = Len(<< >>)
          BY <3>3, Zenon
        <5>. QED  BY <5>1, <5>2
      <4>2. p = Len(list) - 0
        BY <3>1, <4>1
      <4>. QED  BY <2>4, <4>2
    <3>5. \A s \in Range(list) \cap Files : disk'[s] >= asked[t].given[s]
      BY <2>4, <3>1, <3>4 DEF Range
    <3>6. LeadingFiles(list) \subseteq Range(list) \cap Files
      BY <2>4 DEF LeadingFiles, Range
    <3>. QED  BY <2>1, <3>2, <3>5, <3>6 DEF Saved
  <2>6. CASE Goto(t, << >>) /\ pc[t] = "flush" /\ Head(it[t]) \in Streams
    <3>1. /\ Len(it[t]) \in Nat /\ it[t] # << >> /\ it[t] \in Seq(Handles)
          /\ Len(it[t]) <= Len(list)
      BY <1>1, <2>0, <2>1, AskedTyped, Visiting DEF Saving
    <3>2. Len(it[t]) >= 1 /\ Head(it[t]) = it[t][1]
      BY <3>1, EmptySeq, HeadTailProperties
    <3>3. PICK k \in Nat : k = Passed(t) /\ k + 1 <= Len(list)
      <4>1. /\ Len(list) - Len(it[t]) \in Nat
            /\ (Len(list) - Len(it[t])) + 1 = Len(list) - (Len(it[t]) - 1)
            /\ Len(it[t]) - 1 \in Nat /\ Len(it[t]) - 1 <= Len(list)
        BY <2>4, <3>1, <3>2, Remainder
      <4>2. Len(list) - (Len(it[t]) - 1) <= Len(list)
        BY <2>4, <4>1, Remainder
      <4>. QED  BY <4>1, <4>2 DEF Passed
    <3>4. it[t][1] = list[k + 1] /\ list[k + 1] \in Streams
      <4>1. it[t][1] = list[Passed(t) + 1]
        BY <2>0, <2>1, <3>1, <3>2 DEF Saving
      <4>. QED  BY <2>6, <3>2, <3>3, <4>1
    <3>5. \A s \in Sinks : OnDisk(t, s) => disk'[s] >= asked[t].given[s]
      <4>1. ASSUME NEW s \in Sinks, OnDisk(t, s) PROVE disk'[s] >= asked[t].given[s]
        <5>1. disk[s] \in Nat /\ disk'[s] \in Nat /\ asked[t].given[s] \in Nat
          BY <1>1, <2>0, AskedTyped DEF TypeInv, SinksTyped
        <5>2. disk[s] <= disk'[s]
          BY <2>0 DEF Grows
        <5>. QED  BY <4>1, <5>1, <5>2 DEF OnDisk
      <4>. QED  BY <4>1
    <3>6. ASSUME NEW n \in DOMAIN list, \A m \in 1..n : list[m] \in Files
          PROVE  disk'[list[n]] >= asked[t].given[list[n]]
      <4>1. n \in 1..k
        <5>1. ~(k + 1 \in 1..n)
          BY <3>4, <3>6, ConsoleSinks
        <5>. QED  BY <2>4, <5>1
      <4>2. list[n] \in Files
        BY <2>4, <3>6
      <4>3. OnDisk(t, list[n])
        BY <2>0, <2>1, <3>3, <4>1, <4>2 DEF Saving
      <4>. QED  BY <3>5, <4>2, <4>3, ConsoleSinks
    <3>7. disk'["stdout"] >= asked[t].given["stdout"]
      BY <2>0, <2>1, <2>6, <3>5, ConsoleSinks DEF Saving
    <3>. QED  BY <2>1, <2>6, <3>6, <3>7 DEF Saved, LeadingFiles
  <2>. QED  BY <1>1, <2>1, <2>2, <2>3, <2>5, <2>6, SavingStep
<1>. QED  BY <1>1 DEF Next, SavedStep, Returns

LEMMA SaveStarts == Init => SaveInv
BY DEF Init, SaveInv

\* What stdout and the file handles before the first stream handle had been given
\* when log_flush was called is past their buffers when it returns, whatever is
\* logged or flushed meanwhile; and log_destory leaves nothing of any file handle
\* of the list in its buffer.
THEOREM SavedBeforeReturn == Spec => SavedOnReturn
<1>1. TypeInv /\ SaveInv /\ [Next]_vars => [SavedStep]_vars
  BY SavedWhenReturning
<1>2. SavedOnReturn <=> [][SavedStep]_vars
  BY PTL DEF SavedOnReturn, SavedStep
<1>. QED  BY <1>1, <1>2, TypeInvariance, SaveStarts, SaveSteps, PTL DEF Spec

=============================================================================
