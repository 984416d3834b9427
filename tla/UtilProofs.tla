----------------------------- MODULE UtilProofs -----------------------------
(***************************************************************************)
(* Theorems about src/util for every value of the constants: the pool of   *)
(* timers (timer.c) for any number of threads and slots; the digest        *)
(* (md5.c) for every message, every way of cutting it and every width of   *)
(* the count; and the cipher (aes.c) for every key and every block.        *)
(***************************************************************************)
EXTENDS Timekeeper, Password, SequenceLemmas, FiniteSetTheorems, TLAPS

-----------------------------------------------------------------------------
(* Type correctness.                                                       *)

LEMMA InitTyped == Init => TypeOK
<1>. SUFFICES ASSUME Init PROVE TypeOK
  OBVIOUS
<1>1. 0 \in Slots
  BY TimekeeperAssumption DEF Slots
<1>. QED  BY <1>1 DEF Init, TypeOK

LEMMA CallTyped ==
  ASSUME TypeOK, NEW t \in Threads, Call(t)
  PROVE  TypeOK'
<1>. USE TimekeeperAssumption
     DEF TypeOK, Slots, None, Enter, poolVars, userVars
<1>1. CASE StartAuto(t)  BY <1>1 DEF StartAuto
<1>2. CASE Shutoff(t)    BY <1>2 DEF Shutoff
<1>3. CASE Destory(t)    BY <1>3 DEF Destory
<1>4. CASE \E n \in Slots : StartMan(t, n)
  BY <1>4 DEF StartMan
<1>. QED  BY <1>1, <1>2, <1>3, <1>4 DEF Call

LEMMA TimerStepTyped ==
  ASSUME TypeOK, NEW t \in Threads, Step(t)
  PROVE  TypeOK'
<1>. USE TimekeeperAssumption
     DEF TypeOK, Slots, None, Goto, Return, Critical, ClearSlots,
         poolVars, userVars
<1>1. CASE ReadFlag(t)   BY <1>1 DEF ReadFlag
<1>2. CASE Increment(t)  BY <1>2 DEF Increment
<1>3. CASE Clear(t)      BY <1>3 DEF Clear
<1>4. CASE Mark(t)       BY <1>4 DEF Mark
<1>5. CASE Spin(t)       BY <1>5 DEF Spin
<1>6. CASE Lock(t)
  <2>1. CASE is_initialized   BY <1>6, <2>1 DEF Lock
  <2>2. CASE ~is_initialized  BY <1>6, <2>2 DEF Lock
  <2>. QED  BY <2>1, <2>2
<1>7. CASE Get(t)        BY <1>7 DEF Get
<1>8. CASE GetNext(t)    BY <1>8 DEF GetNext, NextSlot
<1>9. CASE GetFails(t)   BY <1>9 DEF GetFails
<1>10. CASE Release(t)   BY <1>10 DEF Release
<1>11. CASE Reset(t)
  <2>1. slot' \in [Threads -> Slots] /\ pc' \in [Threads -> {"idle", "init",
          "inc", "clear", "mark", "wait", "lock", "locked"}]
    BY <1>11 DEF Reset
  <2>. QED  BY <1>11, <2>1 DEF Reset
<1>. QED
  BY <1>1, <1>2, <1>3, <1>4, <1>5, <1>6, <1>7, <1>8, <1>9, <1>10, <1>11
     DEF Step

LEMMA NextTyped == TypeOK /\ [Next]_vars => TypeOK'
<1>. SUFFICES ASSUME TypeOK, [Next]_vars PROVE TypeOK'
  OBVIOUS
<1>1. CASE Next
  BY <1>1, CallTyped, TimerStepTyped DEF Next
<1>2. CASE UNCHANGED vars
  BY <1>2 DEF TypeOK, vars, poolVars, callVars, userVars
<1>. QED  BY <1>1, <1>2

\* Every variable keeps its type, for every number of threads and timers.
THEOREM TypeCorrect == Spec => []TypeOK
<1>. QED  BY InitTyped, NextTyped, PTL DEF Spec

-----------------------------------------------------------------------------
(* The pool.                                                               *)

\* What a thread in a call knows.
CallInv ==
  \A t \in Threads :
    /\ pc[t] = "locked" => mutex = t
    /\ op[t] = "shutoff" => thnd[t] # None /\ slot[t] = thnd[t]
    /\ op[t] \in {"man", "auto"} => thnd[t] = None
    /\ op[t] = "man" => manual
    /\ op[t] = "destory" => destroys > 0

\* The first thread initialises alone, before any other is past the flag and
\* before any timer is started.
PhaseInv ==
  destroys = 0 =>
    /\ sync = 0 => /\ ~is_initialized
                   /\ \A t \in Threads : pc[t] \in {"idle", "init", "inc"}
    /\ ~is_initialized => /\ \A t \in Threads : /\ pc[t] \notin {"lock", "locked"}
                                                /\ thnd[t] = None
                          /\ \A n \in Slots : ~is_ref[n]
    /\ \A t, u \in Threads :
         pc[t] \in {"clear", "mark"} =>
           ~is_initialized /\ (pc[u] \in {"clear", "mark"} => t = u)

PoolInv == TypeOK /\ CallInv /\ PhaseInv /\ TimersOwned

LEMMA InitPool == Init => PoolInv
<1>. SUFFICES ASSUME Init PROVE PoolInv
  OBVIOUS
<1>1. TypeOK
  BY InitTyped
<1>2. CallInv /\ PhaseInv
  BY DEF Init, CallInv, PhaseInv
<1>3. TimersOwned
  BY DEF Init, TimersOwned
<1>. QED  BY <1>1, <1>2, <1>3 DEF PoolInv

LEMMA CallsKeepPool ==
  ASSUME PoolInv, NEW t \in Threads, Call(t)
  PROVE  CallInv' /\ PhaseInv' /\ TimersOwned'
<1>. USE DEF PoolInv, TypeOK, Enter, poolVars, userVars
<1>1. CASE StartAuto(t)
  <2>1. CallInv'      BY <1>1 DEF StartAuto, CallInv
  <2>2. PhaseInv'     BY <1>1 DEF StartAuto, PhaseInv
  <2>3. TimersOwned'  BY <1>1 DEF StartAuto, TimersOwned
  <2>. QED  BY <2>1, <2>2, <2>3
<1>2. CASE Shutoff(t)
  <2>1. CallInv'      BY <1>2 DEF Shutoff, CallInv
  <2>2. PhaseInv'     BY <1>2 DEF Shutoff, PhaseInv
  <2>3. TimersOwned'  BY <1>2 DEF Shutoff, TimersOwned
  <2>. QED  BY <2>1, <2>2, <2>3
<1>3. CASE Destory(t)
  <2>1. CallInv'      BY <1>3 DEF Destory, CallInv
  <2>2. destroys' # 0
    BY <1>3 DEF Destory
  <2>. QED  BY <2>1, <2>2 DEF PhaseInv, TimersOwned
<1>4. CASE \E n \in Slots : StartMan(t, n)
  <2>1. CallInv'      BY <1>4 DEF StartMan, CallInv
  <2>2. PhaseInv'     BY <1>4 DEF StartMan, PhaseInv
  <2>3. TimersOwned'  BY <1>4 DEF StartMan, TimersOwned
  <2>. QED  BY <2>1, <2>2, <2>3
<1>. QED  BY <1>1, <1>2, <1>3, <1>4 DEF Call

LEMMA InitialisationKeepsPool ==
  ASSUME PoolInv, NEW t \in Threads,
         ReadFlag(t) \/ Increment(t) \/ Clear(t) \/ Mark(t) \/ Spin(t)
  PROVE  CallInv' /\ PhaseInv' /\ TimersOwned'
<1>. USE DEF PoolInv, TypeOK, Goto, poolVars, userVars
<1>1. CASE ReadFlag(t)
  <2>1. CallInv'      BY <1>1 DEF ReadFlag, CallInv
  <2>2. PhaseInv'     BY <1>1 DEF ReadFlag, PhaseInv
  <2>3. TimersOwned'  BY <1>1 DEF ReadFlag, TimersOwned
  <2>. QED  BY <2>1, <2>2, <2>3
<1>2. CASE Increment(t)
  <2>1. CallInv'      BY <1>2 DEF Increment, CallInv
  <2>2. PhaseInv'
    <3>1. CASE sync = 0   BY <1>2, <3>1 DEF Increment, PhaseInv
    <3>2. CASE sync # 0   BY <1>2, <3>2 DEF Increment, PhaseInv
    <3>. QED  BY <3>1, <3>2
  <2>3. TimersOwned'  BY <1>2 DEF Increment, TimersOwned
  <2>. QED  BY <2>1, <2>2, <2>3
<1>3. CASE Clear(t)
  <2>1. CallInv'      BY <1>3 DEF Clear, CallInv
  <2>2. PhaseInv'     BY <1>3 DEF Clear, ClearSlots, PhaseInv
  <2>3. TimersOwned'  BY <1>3 DEF Clear, ClearSlots, PhaseInv, TimersOwned
  <2>. QED  BY <2>1, <2>2, <2>3
<1>4. CASE Mark(t)
  <2>1. CallInv'      BY <1>4 DEF Mark, CallInv
  <2>2. PhaseInv'     BY <1>4 DEF Mark, PhaseInv
  <2>3. TimersOwned'  BY <1>4 DEF Mark, TimersOwned
  <2>. QED  BY <2>1, <2>2, <2>3
<1>5. CASE Spin(t)
  <2>1. CallInv'      BY <1>5 DEF Spin, CallInv
  <2>2. PhaseInv'     BY <1>5 DEF Spin, PhaseInv
  <2>3. TimersOwned'  BY <1>5 DEF Spin, TimersOwned
  <2>. QED  BY <2>1, <2>2, <2>3
<1>. QED  BY <1>1, <1>2, <1>3, <1>4, <1>5

LEMMA CriticalKeepsPool ==
  ASSUME PoolInv, NEW t \in Threads,
         Lock(t) \/ Get(t) \/ GetNext(t) \/ GetFails(t) \/ Release(t) \/ Reset(t)
  PROVE  CallInv' /\ PhaseInv' /\ TimersOwned'
<1>. USE TimekeeperAssumption
     DEF PoolInv, TypeOK, Goto, Return, Critical, poolVars, userVars
<1>1. CASE Lock(t)
  <2>1. CallInv'      BY <1>1 DEF Lock, CallInv
  <2>2. CASE destroys = 0
    <3>1. is_initialized
      BY <1>1, <2>2 DEF Lock, PhaseInv
    <3>2. PhaseInv'     BY <1>1, <3>1 DEF Lock, PhaseInv
    <3>3. TimersOwned'  BY <1>1, <3>1 DEF Lock, TimersOwned
    <3>. QED  BY <2>1, <3>2, <3>3
  <2>3. CASE destroys # 0
    BY <1>1, <2>1, <2>3 DEF Lock, PhaseInv, TimersOwned
  <2>. QED  BY <2>2, <2>3
<1>2. CASE Get(t)
  <2>1. CallInv'      BY <1>2 DEF Get, CallInv
  <2>2. PhaseInv'     BY <1>2 DEF Get, PhaseInv
  <2>3. TimersOwned'
    <3>. SUFFICES ASSUME destroys = 0 PROVE TimersOwned'
      BY <1>2 DEF Get, TimersOwned
    <3>1. /\ thnd[t] = None /\ slot[t] \in Slots /\ ~is_ref[slot[t]]
          /\ thnd' = [thnd EXCEPT ![t] = slot[t]]
          /\ is_ref' = [is_ref EXCEPT ![slot[t]] = TRUE]
          /\ start' = [start EXCEPT ![slot[t]] = t]
      BY <1>2 DEF Get, CallInv
    <3>2. \A n \in Slots : is_ref'[n] => \E u \in Threads : thnd'[u] = n
      <4>. SUFFICES ASSUME NEW n \in Slots, is_ref'[n]
                    PROVE  \E u \in Threads : thnd'[u] = n
        OBVIOUS
      <4>1. CASE n = slot[t]
        BY <3>1, <4>1
      <4>2. CASE n # slot[t]
        <5>1. PICK u \in Threads : thnd[u] = n
          BY <3>1, <4>2 DEF TimersOwned
        <5>2. u # t
          BY <3>1, <5>1 DEF None, Slots
        <5>. QED  BY <3>1, <5>1, <5>2
      <4>. QED  BY <4>1, <4>2
    <3>3. \A u \in Threads : thnd'[u] # None =>
            is_ref'[thnd'[u]] /\ start'[thnd'[u]] = u
      BY <3>1 DEF TimersOwned
    <3>. QED  BY <3>2, <3>3 DEF TimersOwned
  <2>. QED  BY <2>1, <2>2, <2>3
<1>3. CASE GetNext(t)
  <2>1. CallInv'      BY <1>3 DEF GetNext, CallInv
  <2>2. PhaseInv'     BY <1>3 DEF GetNext, PhaseInv
  <2>3. TimersOwned'  BY <1>3 DEF GetNext, TimersOwned
  <2>. QED  BY <2>1, <2>2, <2>3
<1>4. CASE GetFails(t)
  <2>1. CallInv'      BY <1>4 DEF GetFails, CallInv
  <2>2. PhaseInv'     BY <1>4 DEF GetFails, PhaseInv
  <2>3. TimersOwned'  BY <1>4 DEF GetFails, TimersOwned
  <2>. QED  BY <2>1, <2>2, <2>3
<1>5. CASE Release(t)
  <2>1. CallInv'      BY <1>5 DEF Release, CallInv
  <2>2. PhaseInv'     BY <1>5 DEF Release, PhaseInv
  <2>3. TimersOwned'  BY <1>5 DEF Release, CallInv, TimersOwned
  <2>. QED  BY <2>1, <2>2, <2>3
<1>6. CASE Reset(t)
  <2>1. CallInv'      BY <1>6 DEF Reset, CallInv
  <2>2. destroys # 0
    BY <1>6 DEF Reset, CallInv
  <2>. QED  BY <1>6, <2>1, <2>2 DEF Reset, PhaseInv, TimersOwned
<1>. QED  BY <1>1, <1>2, <1>3, <1>4, <1>5, <1>6

LEMMA NextKeepsPool == PoolInv /\ [Next]_vars => PoolInv'
<1>. SUFFICES ASSUME PoolInv, [Next]_vars PROVE PoolInv'
  OBVIOUS
<1>1. TypeOK'
  BY NextTyped DEF PoolInv
<1>2. CASE Next
  <2>1. PICK t \in Threads : Call(t) \/ Step(t)
    BY <1>2 DEF Next
  <2>2. CASE Call(t)
    BY <1>1, <2>2, CallsKeepPool DEF PoolInv
  <2>3. CASE Step(t)
    BY <1>1, <2>3, InitialisationKeepsPool, CriticalKeepsPool DEF PoolInv, Step
  <2>. QED  BY <2>1, <2>2, <2>3
<1>3. CASE UNCHANGED vars
  BY <1>1, <1>3 DEF PoolInv, CallInv, PhaseInv, TimersOwned, vars, poolVars,
                    callVars, userVars
<1>. QED  BY <1>2, <1>3

\* Until the pool is destroyed, the slots in use are exactly those of the
\* running timers, each with the start time of its own timer.
THEOREM TimersKept == Spec => []TimersOwned
<1>1. PoolInv => TimersOwned
  BY DEF PoolInv
<1>. QED  BY <1>1, InitPool, NextKeepsPool, PTL DEF Spec

\* Until the pool is destroyed, no timer is handed to two threads.
THEOREM Exclusive == Spec => []SlotExclusive
<1>1. TimersOwned => SlotExclusive
  BY DEF TimersOwned, SlotExclusive
<1>. QED  BY <1>1, TimersKept, PTL

-----------------------------------------------------------------------------
(* start_auto finds a timer.  The rank of a thread is the timer it has     *)
(* started, or the slot start_auto looks at.  A thread can only leave the  *)
(* slot k for the next one because another thread of rank k stays behind,  *)
(* so at most Cardinality(Threads) - k threads have a rank of k or more.   *)

Above(place, k) == {t \in Threads : place[t] >= k}

Spread(place) ==
  \A k \in Slots :
    Above(place, k) # {} => Cardinality(Above(place, k)) <= Cardinality(Threads) - k

LEMMA AboveFinite ==
  ASSUME NEW place, NEW k
  PROVE  /\ IsFiniteSet(Above(place, k))
         /\ Cardinality(Above(place, k)) \in Nat
         /\ Cardinality(Above(place, k)) <= Cardinality(Threads)
         /\ Cardinality(Threads) \in Nat
<1>1. Above(place, k) \in SUBSET Threads
  BY DEF Above
<1>. QED  BY <1>1, TimekeeperAssumption, FS_Subset, FS_CardinalityType

\* Threads that only step down stay spread.
LEMMA SpreadLowered ==
  ASSUME NEW place \in [Threads -> Nat], NEW q \in [Threads -> Nat], Spread(place),
         \A t \in Threads : q[t] <= place[t]
  PROVE  Spread(q)
<1>. SUFFICES ASSUME NEW k \in Slots, Above(q, k) # {}
              PROVE  Cardinality(Above(q, k)) <= Cardinality(Threads) - k
  BY DEF Spread
<1>1. Above(q, k) \in SUBSET Above(place, k)
  BY DEF Above, Slots
<1>2. Cardinality(Above(q, k)) <= Cardinality(Above(place, k))
  BY <1>1, AboveFinite, FS_Subset
<1>3. Cardinality(Above(place, k)) <= Cardinality(Threads) - k
  BY <1>1 DEF Spread
<1>. QED  BY <1>2, <1>3, AboveFinite DEF Slots

\* A thread that steps up leaves another one behind.
LEMMA SpreadRaised ==
  ASSUME NEW place \in [Threads -> Nat], Spread(place),
         NEW t \in Threads, NEW u \in Threads, t # u, place[u] = place[t],
         place[t] + 1 \in Slots
  PROVE  Spread([place EXCEPT ![t] = place[t] + 1])
<1>. DEFINE q == [place EXCEPT ![t] = place[t] + 1]
<1>. SUFFICES ASSUME NEW k \in Slots, Above(q, k) # {}
              PROVE  Cardinality(Above(q, k)) <= Cardinality(Threads) - k
  BY DEF Spread
<1>. k \in Nat /\ place[t] \in Nat /\ place[t] \in Slots
  BY TimekeeperAssumption DEF Slots
<1>1. CASE k # place[t] + 1
  <2>1. Above(q, k) = Above(place, k)
    BY <1>1 DEF Above
  <2>. QED  BY <2>1 DEF Spread
<1>2. CASE k = place[t] + 1
  <2>1. Above(q, k) \in SUBSET (Above(place, place[t]) \ {u})
    BY <1>2 DEF Above
  <2>2. u \in Above(place, place[t])
    BY DEF Above
  <2>3. /\ IsFiniteSet(Above(place, place[t]) \ {u})
        /\ Cardinality(Above(place, place[t]) \ {u}) = Cardinality(Above(place, place[t])) - 1
    BY <2>2, AboveFinite, FS_RemoveElement
  <2>4. Cardinality(Above(q, k)) <= Cardinality(Above(place, place[t]) \ {u})
    BY <2>1, <2>3, FS_Subset
  <2>5. Cardinality(Above(place, place[t])) <= Cardinality(Threads) - place[t]
    BY <2>2 DEF Spread
  <2>. HIDE DEF q
  <2>. QED  BY <1>2, <2>3, <2>4, <2>5, AboveFinite
<1>. QED  BY <1>1, <1>2

\* Two threads of the last rank are more threads than timers.
LEMMA SpreadFull ==
  ASSUME NEW place \in [Threads -> Nat], Spread(place),
         NEW t \in Threads, NEW u \in Threads, t # u,
         place[t] = TIMEKEEPER_NUM - 1, place[u] = TIMEKEEPER_NUM - 1
  PROVE  Cardinality(Threads) > TIMEKEEPER_NUM
<1>. DEFINE top == Above(place, TIMEKEEPER_NUM - 1)
<1>1. TIMEKEEPER_NUM \in Nat /\ TIMEKEEPER_NUM - 1 \in Slots
  BY TimekeeperAssumption DEF Slots
<1>2. t \in top /\ u \in top
  BY <1>1 DEF Above, Slots
<1>3. Cardinality(top) <= Cardinality(Threads) - (TIMEKEEPER_NUM - 1)
  BY <1>1, <1>2 DEF Spread
<1>4. Cardinality(top) # 0 /\ Cardinality(top) # 1
  <2>. HIDE DEF top
  <2>1. IsFiniteSet(top)
    BY AboveFinite DEF top
  <2>2. /\ IsFiniteSet(top \ {t})
        /\ Cardinality(top \ {t}) = Cardinality(top) - 1
    BY <1>2, <2>1, FS_RemoveElement
  <2>3. u \in top \ {t}
    BY <1>2
  <2>4. Cardinality(top \ {t}) # 0
    BY <2>2, <2>3, FS_EmptySet
  <2>5. Cardinality(top) # 0
    BY <1>2, <2>1, FS_EmptySet
  <2>6. Cardinality(top) \in Nat
    BY <2>1, FS_CardinalityType
  <2>. QED  BY <2>2, <2>4, <2>5, <2>6
<1>5. Cardinality(top) \in Nat /\ Cardinality(Threads) \in Nat
  BY AboveFinite
<1>. HIDE DEF top
<1>. QED  BY <1>1, <1>3, <1>4, <1>5

RankOf(t) == IF thnd[t] # None THEN thnd[t]
             ELSE IF op[t] = "auto" THEN slot[t] ELSE 0

Rank == [t \in Threads |-> RankOf(t)]

RankInv ==
  destroys = 0 /\ ~manual =>
    /\ Spread(Rank)
    /\ Cardinality(Threads) <= TIMEKEEPER_NUM => ~failed

LEMMA RankTyped ==
  ASSUME TypeOK
  PROVE  Rank \in [Threads -> Nat] /\ Rank \in [Threads -> Slots]
<1>1. \A t \in Threads : RankOf(t) \in Slots
  BY TimekeeperAssumption DEF TypeOK, RankOf, Slots
<1>2. Slots \subseteq Nat
  BY DEF Slots
<1>. QED  BY <1>1, <1>2 DEF Rank

LEMMA InitRank == Init => RankInv
<1>. SUFFICES ASSUME Init PROVE RankInv
  OBVIOUS
<1>1. \A t \in Threads : Rank[t] = 0
  BY DEF Init, Rank, RankOf
<1>2. Spread(Rank)
  <2>. SUFFICES ASSUME NEW k \in Slots, Above(Rank, k) # {}
                PROVE  Cardinality(Above(Rank, k)) <= Cardinality(Threads) - k
    BY DEF Spread
  <2>1. k = 0
    BY <1>1 DEF Above, Slots
  <2>. QED  BY <2>1, AboveFinite
<1>3. ~failed
  BY DEF Init
<1>. QED  BY <1>2, <1>3 DEF RankInv

\* The steps after which no thread has a higher rank.
LEMMA SpreadStays ==
  ASSUME TypeOK, Spread(Rank),
         \A t \in Threads : RankOf(t)' = RankOf(t) \/ RankOf(t)' = 0
  PROVE  Spread(Rank)'
<1>. DEFINE q == [t \in Threads |-> RankOf(t)']
<1>1. Rank' = q
  BY DEF Rank
<1>2. Rank \in [Threads -> Nat]
  BY RankTyped
<1>3. q \in [Threads -> Nat]
  <2>1. \A t \in Threads : RankOf(t) \in Nat
    BY <1>2 DEF Rank
  <2>. QED  BY <2>1
<1>4. \A t \in Threads : q[t] <= Rank[t]
  <2>. SUFFICES ASSUME NEW t \in Threads PROVE q[t] <= Rank[t]
    OBVIOUS
  <2>1. q[t] = Rank[t] \/ q[t] = 0
    BY DEF Rank
  <2>. HIDE DEF q
  <2>. QED  BY <2>1, <1>2
<1>5. Spread(q)
  <2>. HIDE DEF q
  <2>. QED  BY <1>2, <1>3, <1>4, SpreadLowered
<1>. HIDE DEF q
<1>. QED  BY <1>1, <1>5 DEF Spread, Above

LEMMA RankLowered ==
  ASSUME TypeOK, RankInv, destroys = 0, ~manual, UNCHANGED failed,
         \A t \in Threads : RankOf(t)' = RankOf(t) \/ RankOf(t)' = 0
  PROVE  RankInv'
BY SpreadStays DEF RankInv

\* start_auto goes on to the next slot.
LEMMA RankRaised ==
  ASSUME PoolInv, RankInv, NEW t \in Threads, GetNext(t)
  PROVE  RankInv'
<1>. SUFFICES ASSUME destroys = 0, ~manual PROVE RankInv'
  BY DEF GetNext, RankInv, userVars
<1>1. /\ thnd[t] = None /\ slot[t] \in Slots /\ is_ref[slot[t]]
      /\ op[t] = "auto" /\ op' = op /\ thnd' = thnd
      /\ slot' = [slot EXCEPT ![t] = slot[t] + 1] /\ slot[t] + 1 \in Slots
  BY DEF GetNext, NextSlot, Critical, PoolInv, CallInv, TypeOK, userVars
<1>2. PICK u \in Threads : thnd[u] = slot[t]
  BY <1>1 DEF PoolInv, TimersOwned
<1>3. t # u /\ thnd[u] # None
  BY <1>1, <1>2 DEF Slots, None
<1>4. Rank[t] = slot[t] /\ Rank[u] = slot[t]
  BY <1>1, <1>2, <1>3 DEF Rank, RankOf
<1>5. Rank' = [Rank EXCEPT ![t] = slot[t] + 1]
  <2>1. RankOf(t)' = slot[t] + 1
    BY <1>1 DEF RankOf, PoolInv, TypeOK
  <2>2. \A v \in Threads \ {t} : RankOf(v)' = RankOf(v)
    BY <1>1 DEF RankOf, PoolInv, TypeOK
  <2>3. \A v \in Threads : RankOf(v)' = [Rank EXCEPT ![t] = slot[t] + 1][v]
    BY <2>1, <2>2 DEF Rank
  <2>4. Rank' = [v \in Threads |-> RankOf(v)']
    BY DEF Rank
  <2>5. Rank' = [v \in Threads |-> [Rank EXCEPT ![t] = slot[t] + 1][v]]
    BY <2>3, <2>4
  <2>. QED  BY <2>5 DEF Rank
<1>6. Rank \in [Threads -> Nat]
  BY RankTyped DEF PoolInv
<1>7. Spread(Rank) /\ (Cardinality(Threads) <= TIMEKEEPER_NUM => ~failed)
  BY DEF RankInv
<1>8. Spread([Rank EXCEPT ![t] = Rank[t] + 1])
  BY <1>1, <1>3, <1>4, <1>6, <1>7, SpreadRaised
<1>9. failed' = failed
  BY DEF GetNext, userVars
<1>10. Spread(Rank)'
  BY <1>4, <1>5, <1>8 DEF Spread, Above
<1>. QED  BY <1>7, <1>9, <1>10 DEF RankInv

\* start_auto gives up: another thread has started the last timer.
LEMMA RankExhausted ==
  ASSUME PoolInv, RankInv, destroys = 0, ~manual,
         NEW t \in Threads, GetFails(t)
  PROVE  Cardinality(Threads) > TIMEKEEPER_NUM
<1>1. /\ thnd[t] = None /\ slot[t] \in Slots /\ is_ref[slot[t]]
      /\ op[t] = "auto" /\ slot[t] + 1 \notin Slots
  BY DEF GetFails, NextSlot, Critical, PoolInv, CallInv, TypeOK, Slots, None
<1>2. slot[t] = TIMEKEEPER_NUM - 1
  BY <1>1, TimekeeperAssumption DEF Slots
<1>3. PICK u \in Threads : thnd[u] = slot[t]
  BY <1>1 DEF PoolInv, TimersOwned
<1>4. t # u /\ thnd[u] # None
  BY <1>1, <1>3 DEF Slots, None
<1>5. Rank[t] = TIMEKEEPER_NUM - 1 /\ Rank[u] = TIMEKEEPER_NUM - 1
  BY <1>1, <1>2, <1>3, <1>4 DEF Rank, RankOf
<1>6. Rank \in [Threads -> Nat] /\ Spread(Rank)
  BY RankTyped DEF PoolInv, RankInv
<1>. QED  BY <1>4, <1>5, <1>6, SpreadFull

LEMMA NextKeepsRank ==
  ASSUME PoolInv, PoolInv', RankInv, [Next]_vars
  PROVE  RankInv'
<1>. SUFFICES ASSUME destroys' = 0, ~manual' PROVE RankInv'
  BY DEF RankInv
<1>. USE DEF PoolInv
<1>1. CASE UNCHANGED vars
  <2>1. \A u \in Threads : RankOf(u)' = RankOf(u)
    BY <1>1 DEF vars, callVars, userVars, RankOf
  <2>. QED  BY <1>1, <2>1, RankLowered DEF vars, userVars
<1>2. ASSUME NEW t \in Threads, Call(t) PROVE RankInv'
  <2>1. StartAuto(t) \/ Shutoff(t) \/ Destory(t)
    BY <1>2 DEF Call, StartMan
  <2>2. \A u \in Threads : RankOf(u)' = RankOf(u) \/ RankOf(u)' = 0
    BY <2>1 DEF StartAuto, Shutoff, Destory, Enter, userVars, RankOf, TypeOK
  <2>3. UNCHANGED failed /\ destroys = 0 /\ ~manual
    BY <2>1 DEF StartAuto, Shutoff, Destory, userVars, TypeOK
  <2>. QED  BY <2>2, <2>3, RankLowered
<1>3. ASSUME NEW t \in Threads,
             ReadFlag(t) \/ Increment(t) \/ Clear(t) \/ Mark(t) \/ Spin(t) \/ Lock(t)
      PROVE  RankInv'
  <2>1. UNCHANGED <<op, slot, thnd, failed, manual, destroys>>
    BY <1>3 DEF ReadFlag, Increment, Clear, Mark, Spin, Lock, Goto, userVars
  <2>2. \A u \in Threads : RankOf(u)' = RankOf(u)
    BY <2>1 DEF RankOf
  <2>. QED  BY <2>1, <2>2, RankLowered
<1>4. ASSUME NEW t \in Threads, Get(t) PROVE RankInv'
  <2>1. UNCHANGED <<failed, manual, destroys>>
    BY <1>4 DEF Get
  <2>2. op[t] = "auto" /\ thnd[t] = None /\ slot[t] \in Slots
    BY <1>4, <2>1 DEF Get, Critical, CallInv, TypeOK
  <2>3. \A u \in Threads : RankOf(u)' = RankOf(u)
    BY <1>4, <2>2 DEF Get, Return, RankOf, TypeOK, Slots, None
  <2>. QED  BY <2>1, <2>3, RankLowered
<1>5. ASSUME NEW t \in Threads, Release(t) \/ Reset(t) PROVE RankInv'
  <2>1. UNCHANGED <<failed, manual, destroys>>
    BY <1>5 DEF Release, Reset, userVars
  <2>2. \A u \in Threads : RankOf(u)' = RankOf(u) \/ RankOf(u)' = 0
    BY <1>5 DEF Release, Reset, Return, userVars, RankOf, TypeOK
  <2>. QED  BY <2>1, <2>2, RankLowered
<1>6. ASSUME NEW t \in Threads, GetFails(t) PROVE RankInv'
  <2>1. UNCHANGED <<thnd, manual, destroys>>
    BY <1>6 DEF GetFails
  <2>2. Cardinality(Threads) > TIMEKEEPER_NUM
    BY <1>6, <2>1, RankExhausted
  <2>3. Cardinality(Threads) \in Nat /\ TIMEKEEPER_NUM \in Nat
    BY TimekeeperAssumption, FS_CardinalityType
  <2>4. \A u \in Threads : RankOf(u)' = RankOf(u) \/ RankOf(u)' = 0
    BY <1>6, <2>1 DEF GetFails, Return, RankOf, TypeOK
  <2>5. Spread(Rank)'
    BY <2>1, <2>4, SpreadStays DEF RankInv
  <2>6. ~(Cardinality(Threads) <= TIMEKEEPER_NUM)
    BY <2>2, <2>3
  <2>. QED  BY <2>5, <2>6 DEF RankInv
<1>. QED
  BY <1>1, <1>2, <1>3, <1>4, <1>5, <1>6, RankRaised DEF Next, Step

\* With as many timers as threads, all started by start_auto, start_auto never
\* fails.
THEOREM AutoNeverFails == Spec => []AutoSucceeds
<1>1. RankInv => AutoSucceeds
  BY DEF RankInv, AutoSucceeds
<1>2. TypeOK /\ PoolInv /\ RankInv /\ [Next]_vars => RankInv'
  BY NextKeepsPool, NextKeepsRank
<1>3. PoolInv => TypeOK
  BY DEF PoolInv
<1>. QED  BY <1>1, <1>2, <1>3, InitPool, InitRank, NextKeepsPool, PTL DEF Spec

-----------------------------------------------------------------------------
(* The operators of C on bytes.                                            *)

\* The bits of a number below 16.
LEMMA NibbleBits ==
  ASSUME NEW a \in {0, 1}, NEW b \in {0, 1}, NEW c \in {0, 1}, NEW d \in {0, 1}
  PROVE  LET x == 8 * a + 4 * b + 2 * c + d
         IN /\ x \in 0..15
            /\ Bit(x, 3) = a /\ Bit(x, 2) = b /\ Bit(x, 1) = c /\ Bit(x, 0) = d
BY DEF Bit

\* A number below 16 is the sum of four bits.
LEMMA NibbleOf ==
  ASSUME NEW x \in 0..15
  PROVE  \E a, b, c, d \in {0, 1} : x = 8 * a + 4 * b + 2 * c + d
OBVIOUS

\* x + y - 2 (x & y) is the sum of the bits without carries.
LEMMA NibbleXor ==
  ASSUME NEW x \in 0..15, NEW y \in 0..15
  PROVE  LET z == x + y - 2 * AndNibble[x][y]
         IN /\ z \in 0..15 /\ AndNibble[x][y] \in 0..15
            /\ Bit(z, 3) = (Bit(x, 3) + Bit(y, 3)) % 2
            /\ Bit(z, 2) = (Bit(x, 2) + Bit(y, 2)) % 2
            /\ Bit(z, 1) = (Bit(x, 1) + Bit(y, 1)) % 2
            /\ Bit(z, 0) = (Bit(x, 0) + Bit(y, 0)) % 2
<1>1. PICK a, b, c, d \in {0, 1} : x = 8 * a + 4 * b + 2 * c + d
  BY NibbleOf
<1>2. PICK e, f, g, h \in {0, 1} : y = 8 * e + 4 * f + 2 * g + h
  BY NibbleOf
<1>3. Bit(x, 3) = a /\ Bit(x, 2) = b /\ Bit(x, 1) = c /\ Bit(x, 0) = d
  BY <1>1, NibbleBits
<1>4. Bit(y, 3) = e /\ Bit(y, 2) = f /\ Bit(y, 1) = g /\ Bit(y, 0) = h
  BY <1>2, NibbleBits
<1>5. PICK p, q, s, t \in {0, 1} : p = a * e /\ q = b * f /\ s = c * g /\ t = d * h
  OBVIOUS
<1>6. AndNibble[x][y] = 8 * p + 4 * q + 2 * s + t
  <2>1. AndNibble[x][y] = 8 * (Bit(x, 3) * Bit(y, 3)) + 4 * (Bit(x, 2) * Bit(y, 2))
                           + 2 * (Bit(x, 1) * Bit(y, 1)) + Bit(x, 0) * Bit(y, 0)
    BY Zenon DEF AndNibble
  <2>. QED  BY <1>3, <1>4, <1>5, <2>1
<1>7. PICK j, k, l, m \in {0, 1} : /\ j = a + e - 2 * p /\ k = b + f - 2 * q
                                   /\ l = c + g - 2 * s /\ m = d + h - 2 * t
  BY <1>5
<1>8. j = (a + e) % 2 /\ k = (b + f) % 2 /\ l = (c + g) % 2 /\ m = (d + h) % 2
  BY <1>5, <1>7
<1>9. x + y - 2 * AndNibble[x][y] = 8 * j + 4 * k + 2 * l + m
  BY <1>1, <1>2, <1>6, <1>7
<1>10. AndNibble[x][y] \in 0..15
  BY <1>6
<1>11. 8 * j + 4 * k + 2 * l + m \in 0..15
  BY NibbleBits
<1>12. PICK z : z = 8 * j + 4 * k + 2 * l + m
  OBVIOUS
<1>13. Bit(z, 3) = j /\ Bit(z, 2) = k /\ Bit(z, 1) = l /\ Bit(z, 0) = m
  BY <1>12, NibbleBits
<1>. QED  BY <1>3, <1>4, <1>8, <1>9, <1>10, <1>11, <1>12, <1>13

\* The lower four bits of z are the sums of those of x and y.
SumBits(z, x, y) ==
  /\ Bit(z, 3) = (Bit(x, 3) + Bit(y, 3)) % 2 /\ Bit(z, 2) = (Bit(x, 2) + Bit(y, 2)) % 2
  /\ Bit(z, 1) = (Bit(x, 1) + Bit(y, 1)) % 2 /\ Bit(z, 0) = (Bit(x, 0) + Bit(y, 0)) % 2

\* The same, with the exclusive or named.
LEMMA NibbleSum ==
  ASSUME NEW x \in 0..15, NEW y \in 0..15, NEW z, z = x + y - 2 * AndNibble[x][y]
  PROVE  SumBits(z, x, y)
BY NibbleXor, Zenon DEF SumBits

\* A byte in two halves.
LEMMA ByteHalves ==
  ASSUME NEW h \in 0..15, NEW l \in 0..15
  PROVE  /\ 16 * h + l \in Byte /\ (16 * h + l) \div 16 = h /\ (16 * h + l) % 16 = l
         /\ Bit(16 * h + l, 7) = Bit(h, 3) /\ Bit(16 * h + l, 6) = Bit(h, 2)
         /\ Bit(16 * h + l, 5) = Bit(h, 1) /\ Bit(16 * h + l, 4) = Bit(h, 0)
         /\ Bit(16 * h + l, 3) = Bit(l, 3) /\ Bit(16 * h + l, 2) = Bit(l, 2)
         /\ Bit(16 * h + l, 1) = Bit(l, 1) /\ Bit(16 * h + l, 0) = Bit(l, 0)
<1>1. 16 * h + l \in Byte /\ (16 * h + l) \div 16 = h /\ (16 * h + l) % 16 = l
  BY DEF Byte
<1>2. /\ Bit(16 * h + l, 7) = Bit(h, 3) /\ Bit(16 * h + l, 6) = Bit(h, 2)
      /\ Bit(16 * h + l, 5) = Bit(h, 1) /\ Bit(16 * h + l, 4) = Bit(h, 0)
  BY DEF Bit
<1>3. /\ Bit(16 * h + l, 3) = Bit(l, 3) /\ Bit(16 * h + l, 2) = Bit(l, 2)
      /\ Bit(16 * h + l, 1) = Bit(l, 1) /\ Bit(16 * h + l, 0) = Bit(l, 0)
  BY DEF Bit
<1>. QED  BY <1>1, <1>2, <1>3

\* A byte is made of two numbers below 16.
LEMMA HalvesOf ==
  ASSUME NEW x \in Byte
  PROVE  x \div 16 \in 0..15 /\ x % 16 \in 0..15 /\ x = 16 * (x \div 16) + (x % 16)
BY DEF Byte

\* The eight bits of a byte, and that they determine it.
LEMMA BitTyped ==
  ASSUME NEW x \in Byte, NEW i \in 0..7
  PROVE  Bit(x, i) \in {0, 1}
<1>1. i = 0 \/ i = 1 \/ i = 2 \/ i = 3 \/ i = 4 \/ i = 5 \/ i = 6 \/ i = 7
  OBVIOUS
<1>2. /\ Bit(x, 0) \in {0, 1} /\ Bit(x, 1) \in {0, 1} /\ Bit(x, 2) \in {0, 1}
      /\ Bit(x, 3) \in {0, 1} /\ Bit(x, 4) \in {0, 1} /\ Bit(x, 5) \in {0, 1}
      /\ Bit(x, 6) \in {0, 1} /\ Bit(x, 7) \in {0, 1}
  BY DEF Bit, Byte
<1>. QED  BY <1>1, <1>2

\* A byte is the sum of its bits.
LEMMA SumOfBits ==
  ASSUME NEW x \in Byte
  PROVE  x = 128 * Bit(x, 7) + 64 * Bit(x, 6) + 32 * Bit(x, 5) + 16 * Bit(x, 4)
             + 8 * Bit(x, 3) + 4 * Bit(x, 2) + 2 * Bit(x, 1) + Bit(x, 0)
<1>1. PICK h, l \in 0..15 : x = 16 * h + l
  BY HalvesOf, SMTT(30)
<1>2. PICK a, b, c, d \in {0, 1} : h = 8 * a + 4 * b + 2 * c + d
  BY NibbleOf
<1>3. PICK e, f, g, k \in {0, 1} : l = 8 * e + 4 * f + 2 * g + k
  BY NibbleOf
<1>4. Bit(h, 3) = a /\ Bit(h, 2) = b /\ Bit(h, 1) = c /\ Bit(h, 0) = d
  BY <1>2, NibbleBits
<1>5. Bit(l, 3) = e /\ Bit(l, 2) = f /\ Bit(l, 1) = g /\ Bit(l, 0) = k
  BY <1>3, NibbleBits
<1>6. /\ Bit(x, 7) = a /\ Bit(x, 6) = b /\ Bit(x, 5) = c /\ Bit(x, 4) = d
      /\ Bit(x, 3) = e /\ Bit(x, 2) = f /\ Bit(x, 1) = g /\ Bit(x, 0) = k
  BY <1>1, <1>4, <1>5, ByteHalves
<1>. QED  BY <1>1, <1>2, <1>3, <1>6

\* Two bytes with the same bits are the same.
LEMMA EqualBits ==
  ASSUME NEW x \in Byte, NEW y \in Byte, \A i \in 0..7 : Bit(x, i) = Bit(y, i)
  PROVE  x = y
BY SumOfBits

\* The bits of an exclusive or.
LEMMA XorBits ==
  ASSUME NEW x \in Byte, NEW y \in Byte
  PROVE  /\ Xor(x, y) \in Byte /\ And(x, y) \in Byte
         /\ \A i \in 0..7 : Bit(Xor(x, y), i) = (Bit(x, i) + Bit(y, i)) % 2
<1>1. PICK h, l \in 0..15 : x = 16 * h + l
  BY HalvesOf, SMTT(30)
<1>2. PICK m, n \in 0..15 : y = 16 * m + n
  BY HalvesOf, SMTT(30)
<1>3. And(x, y) = 16 * AndNibble[h][m] + AndNibble[l][n]
  <2>1. And(x, y) = 16 * AndNibble[x \div 16][y \div 16] + AndNibble[x % 16][y % 16]
    BY Zenon DEF And, AndTable
  <2>. QED  BY <1>1, <1>2, <2>1, ByteHalves
<1>4. Xor(x, y) = x + y - 2 * And(x, y)
  BY Zenon DEF Xor, XorTable, And
<1>5. PICK u, v \in 0..15 : /\ u = h + m - 2 * AndNibble[h][m]
                            /\ v = l + n - 2 * AndNibble[l][n]
  BY NibbleXor
<1>6. AndNibble[h][m] \in 0..15 /\ AndNibble[l][n] \in 0..15
  BY NibbleXor
<1>7. Xor(x, y) = 16 * u + v
  <2>1. PICK p, q \in 0..15 : p = AndNibble[h][m] /\ q = AndNibble[l][n]
    BY <1>6
  <2>2. Xor(x, y) = (16 * h + l) + (16 * m + n) - 2 * (16 * p + q)
    BY <1>1, <1>2, <1>3, <1>4, <2>1
  <2>3. u = h + m - 2 * p /\ v = l + n - 2 * q
    BY <1>5, <2>1
  <2>. QED  BY <2>2, <2>3
<1>8. SumBits(u, h, m)
  BY <1>5, NibbleSum, Zenon
<1>9. SumBits(v, l, n)
  BY <1>5, NibbleSum, Zenon
<1>10. ASSUME NEW i \in 0..7 PROVE Bit(Xor(x, y), i) = (Bit(x, i) + Bit(y, i)) % 2
  <2>1. i = 0 \/ i = 1 \/ i = 2 \/ i = 3 \/ i = 4 \/ i = 5 \/ i = 6 \/ i = 7
    OBVIOUS
  <2>2. /\ Bit(16 * u + v, 7) = Bit(u, 3) /\ Bit(16 * u + v, 6) = Bit(u, 2)
        /\ Bit(16 * u + v, 5) = Bit(u, 1) /\ Bit(16 * u + v, 4) = Bit(u, 0)
        /\ Bit(16 * u + v, 3) = Bit(v, 3) /\ Bit(16 * u + v, 2) = Bit(v, 2)
        /\ Bit(16 * u + v, 1) = Bit(v, 1) /\ Bit(16 * u + v, 0) = Bit(v, 0)
    BY ByteHalves
  <2>3. /\ Bit(x, 7) = Bit(h, 3) /\ Bit(x, 6) = Bit(h, 2)
        /\ Bit(x, 5) = Bit(h, 1) /\ Bit(x, 4) = Bit(h, 0)
        /\ Bit(x, 3) = Bit(l, 3) /\ Bit(x, 2) = Bit(l, 2)
        /\ Bit(x, 1) = Bit(l, 1) /\ Bit(x, 0) = Bit(l, 0)
    BY <1>1, ByteHalves
  <2>4. /\ Bit(y, 7) = Bit(m, 3) /\ Bit(y, 6) = Bit(m, 2)
        /\ Bit(y, 5) = Bit(m, 1) /\ Bit(y, 4) = Bit(m, 0)
        /\ Bit(y, 3) = Bit(n, 3) /\ Bit(y, 2) = Bit(n, 2)
        /\ Bit(y, 1) = Bit(n, 1) /\ Bit(y, 0) = Bit(n, 0)
    BY <1>2, ByteHalves
  <2>. QED  BY <1>7, <1>8, <1>9, <2>1, <2>2, <2>3, <2>4, SMTT(30) DEF SumBits
<1>11. And(x, y) \in Byte
  BY <1>3, <1>6 DEF Byte
<1>. QED  BY <1>7, <1>10, <1>11, ByteHalves

\* Bytes with ^ are a group in which each is its own inverse.
LEMMA XorCommutes ==
  ASSUME NEW x \in Byte, NEW y \in Byte
  PROVE  Xor(x, y) = Xor(y, x)
<1>1. ASSUME NEW i \in 0..7 PROVE Bit(Xor(x, y), i) = Bit(Xor(y, x), i)
  BY XorBits, BitTyped
<1>. QED  BY <1>1, XorBits, EqualBits

\* Exclusive or is associative: the order in which aes.c sums bytes is free.
LEMMA XorAssociates ==
  ASSUME NEW x \in Byte, NEW y \in Byte, NEW z \in Byte
  PROVE  Xor(Xor(x, y), z) = Xor(x, Xor(y, z))
<1>1. PICK s \in Byte : s = Xor(x, y)
  BY XorBits
<1>2. PICK t \in Byte : t = Xor(y, z)
  BY XorBits
<1>3. ASSUME NEW i \in 0..7 PROVE Bit(Xor(s, z), i) = Bit(Xor(x, t), i)
  <2>1. /\ Bit(s, i) = (Bit(x, i) + Bit(y, i)) % 2 /\ Bit(t, i) = (Bit(y, i) + Bit(z, i)) % 2
        /\ Bit(Xor(s, z), i) = (Bit(s, i) + Bit(z, i)) % 2
        /\ Bit(Xor(x, t), i) = (Bit(x, i) + Bit(t, i)) % 2
    BY <1>1, <1>2, XorBits
  <2>2. Bit(x, i) \in {0, 1} /\ Bit(y, i) \in {0, 1} /\ Bit(z, i) \in {0, 1}
    BY BitTyped
  <2>. QED  BY <2>1, <2>2
<1>. QED  BY <1>1, <1>2, <1>3, XorBits, EqualBits

\* Zero is neutral, and a byte is its own opposite: add_round_key undoes
\* itself.
LEMMA XorZero ==
  ASSUME NEW x \in Byte
  PROVE  Xor(0, x) = x /\ Xor(x, 0) = x /\ Xor(x, x) = 0
<1>1. 0 \in Byte
  BY DEF Byte
<1>2. \A i \in 0..7 : Bit(0, i) = 0
  <2>1. /\ Bit(0, 0) = 0 /\ Bit(0, 1) = 0 /\ Bit(0, 2) = 0 /\ Bit(0, 3) = 0
        /\ Bit(0, 4) = 0 /\ Bit(0, 5) = 0 /\ Bit(0, 6) = 0 /\ Bit(0, 7) = 0
    BY DEF Bit
  <2>2. \A i \in 0..7 : i = 0 \/ i = 1 \/ i = 2 \/ i = 3 \/ i = 4 \/ i = 5 \/ i = 6 \/ i = 7
    OBVIOUS
  <2>. QED  BY <2>1, <2>2
<1>3. ASSUME NEW i \in 0..7 PROVE Bit(Xor(x, 0), i) = Bit(x, i) /\ Bit(Xor(x, x), i) = Bit(0, i)
  BY <1>1, <1>2, XorBits, BitTyped
<1>4. Xor(x, 0) = x
  BY <1>1, <1>3, XorBits, EqualBits
<1>5. Xor(x, x) = 0
  BY <1>1, <1>3, XorBits, EqualBits
<1>. QED  BY <1>1, <1>4, <1>5, XorCommutes

\* What is added twice falls out.
LEMMA XorCancels ==
  ASSUME NEW x \in Byte, NEW y \in Byte
  PROVE  Xor(Xor(x, y), y) = x
BY XorAssociates, XorZero

\* There is a function that a recursive definition on 0..n describes, with a
\* value in S at 0 and steps F[i] from S to S.
LEMMA RecursionExists ==
  ASSUME NEW S, NEW b \in S, NEW n \in Nat, NEW F \in [1..n -> [S -> S]]
  PROVE  \E f \in [0..n -> S] : f[0] = b /\ \A i \in 1..n : f[i] = F[i][f[i - 1]]
<1> DEFINE P(m, f) == /\ f \in [0..m -> S] /\ f[0] = b
                      /\ \A i \in 1..m : f[i] = F[i][f[i - 1]]
           G == {m \in Nat : m <= n => \E f : P(m, f)}
<1>1. 0 \in G
  <2>1. P(0, [i \in 0..0 |-> b])
    OBVIOUS
  <2>. QED  BY <2>1
<1>2. ASSUME NEW m \in Nat, m \in G PROVE m + 1 \in G
  <2>1. SUFFICES ASSUME m + 1 <= n PROVE \E f : P(m + 1, f)
    OBVIOUS
  <2>2. PICK f : P(m, f)
    BY <1>2, <2>1
  <2> DEFINE g == [i \in 0..m + 1 |-> IF i <= m THEN f[i] ELSE F[m + 1][f[m]]]
  <2>3. f[m] \in S /\ m + 1 \in 1..n
    BY <2>1, <2>2
  <2>4. F[m + 1][f[m]] \in S
    BY <2>3
  <2>5. g \in [0..m + 1 -> S] /\ g[0] = b /\ g[m + 1] = F[m + 1][f[m]]
        /\ \A i \in 0..m : g[i] = f[i]
    BY <2>2, <2>4
  <2>6. ASSUME NEW i \in 1..m + 1 PROVE g[i] = F[i][g[i - 1]]
    <3>1. CASE i = m + 1
      <4>1. g[i - 1] = f[m]
        BY <2>5, <3>1
      <4>. QED  BY <2>5, <3>1, <4>1
    <3>2. CASE i # m + 1
      <4>1. i \in 1..m /\ i - 1 \in 0..m /\ i \in 0..m
        BY <3>2
      <4>2. g[i] = f[i] /\ g[i - 1] = f[i - 1]
        BY <2>5, <4>1
      <4>. QED  BY <2>2, <4>1, <4>2
    <3>. QED  BY <3>1, <3>2
  <2> HIDE DEF g
  <2>7. P(m + 1, g)
    BY <2>5, <2>6
  <2>. QED  BY <2>7
<1> HIDE DEF G
<1>3. n \in G
  BY <1>1, <1>2, SetInduction
<1>. QED  BY <1>3 DEF G

-----------------------------------------------------------------------------
(* aes.c: products in the field, and mix_columns.                          *)

\* Double shifts the bits and adds x^8 = x^4 + x^3 + x + 1.
LEMMA DoubleBits ==
  ASSUME NEW a \in Byte
  PROVE  /\ Double(a) \in Byte
         /\ Bit(Double(a), 0) = Bit(a, 7)
         /\ Bit(Double(a), 1) = (Bit(a, 0) + Bit(a, 7)) % 2
         /\ Bit(Double(a), 2) = Bit(a, 1)
         /\ Bit(Double(a), 3) = (Bit(a, 2) + Bit(a, 7)) % 2
         /\ Bit(Double(a), 4) = (Bit(a, 3) + Bit(a, 7)) % 2
         /\ Bit(Double(a), 5) = Bit(a, 4)
         /\ Bit(Double(a), 6) = Bit(a, 5)
         /\ Bit(Double(a), 7) = Bit(a, 6)
<1>1. /\ Bit(a, 0) \in {0, 1} /\ Bit(a, 1) \in {0, 1} /\ Bit(a, 2) \in {0, 1}
      /\ Bit(a, 3) \in {0, 1} /\ Bit(a, 4) \in {0, 1} /\ Bit(a, 5) \in {0, 1}
      /\ Bit(a, 6) \in {0, 1} /\ Bit(a, 7) \in {0, 1}
  BY BitTyped
<1>2. a = 128 * Bit(a, 7) + 64 * Bit(a, 6) + 32 * Bit(a, 5) + 16 * Bit(a, 4)
          + 8 * Bit(a, 3) + 4 * Bit(a, 2) + 2 * Bit(a, 1) + Bit(a, 0)
  BY SumOfBits
<1>3. PICK b0, b1, b2, b3, b4, b5, b6, b7 \in {0, 1} :
        /\ b0 = Bit(a, 0) /\ b1 = Bit(a, 1) /\ b2 = Bit(a, 2) /\ b3 = Bit(a, 3)
        /\ b4 = Bit(a, 4) /\ b5 = Bit(a, 5) /\ b6 = Bit(a, 6) /\ b7 = Bit(a, 7)
  BY <1>1
<1>0. /\ (b0 + 0) % 2 = b0 /\ (b1 + 0) % 2 = b1 /\ (b2 + 0) % 2 = b2
      /\ (b3 + 0) % 2 = b3 /\ (b4 + 0) % 2 = b4 /\ (b5 + 0) % 2 = b5
      /\ (b6 + 0) % 2 = b6 /\ (0 + 1) % 2 = 1
  OBVIOUS
<1>4. a = 128 * b7 + 64 * b6 + 32 * b5 + 16 * b4 + 8 * b3 + 4 * b2 + 2 * b1 + b0
  BY <1>2, <1>3
<1>5. PICK h, l \in 0..15 : h = 8 * b6 + 4 * b5 + 2 * b4 + b3 /\ l = 8 * b2 + 4 * b1 + 2 * b0 + 0
  BY NibbleBits
<1>6. PICK d : d = 16 * h + l
  OBVIOUS
<1>7. /\ Bit(h, 3) = b6 /\ Bit(h, 2) = b5 /\ Bit(h, 1) = b4 /\ Bit(h, 0) = b3
  BY <1>5, NibbleBits
<1>8. /\ Bit(l, 3) = b2 /\ Bit(l, 2) = b1 /\ Bit(l, 1) = b0 /\ Bit(l, 0) = 0
  BY <1>5, NibbleBits
<1>9. /\ d \in Byte /\ Bit(d, 7) = b6 /\ Bit(d, 6) = b5 /\ Bit(d, 5) = b4 /\ Bit(d, 4) = b3
      /\ Bit(d, 3) = b2 /\ Bit(d, 2) = b1 /\ Bit(d, 1) = b0 /\ Bit(d, 0) = 0
  BY <1>6, <1>7, <1>8, ByteHalves
<1>10. CASE b7 = 0
  <2>1. ~(a >= 128) /\ 2 * a = d
    BY <1>4, <1>5, <1>6, <1>10
  <2>2. Double(a) = d
    BY <2>1 DEF Double
  <2>3. (Bit(a, 0) + Bit(a, 7)) % 2 = b0 /\ (Bit(a, 2) + Bit(a, 7)) % 2 = b2
        /\ (Bit(a, 3) + Bit(a, 7)) % 2 = b3
    BY <1>0, <1>3, <1>10
  <2>. QED  BY <1>3, <1>9, <1>10, <2>2, <2>3
<1>11. CASE b7 = 1
  <2>1. a >= 128 /\ 2 * (a - 128) = d
    BY <1>4, <1>5, <1>6, <1>11
  <2>2. Double(a) = Xor(d, 27)
    BY <2>1 DEF Double
  <2>3. /\ 27 \in Byte /\ Bit(27, 0) = 1 /\ Bit(27, 1) = 1 /\ Bit(27, 2) = 0 /\ Bit(27, 3) = 1
        /\ Bit(27, 4) = 1 /\ Bit(27, 5) = 0 /\ Bit(27, 6) = 0 /\ Bit(27, 7) = 0
    BY DEF Byte, Bit
  <2>4. /\ Double(a) \in Byte
        /\ \A i \in 0..7 : Bit(Double(a), i) = (Bit(d, i) + Bit(27, i)) % 2
    BY <1>9, <2>2, <2>3, XorBits
  <2>5. /\ Bit(Double(a), 0) = (Bit(d, 0) + Bit(27, 0)) % 2
        /\ Bit(Double(a), 1) = (Bit(d, 1) + Bit(27, 1)) % 2
        /\ Bit(Double(a), 2) = (Bit(d, 2) + Bit(27, 2)) % 2
        /\ Bit(Double(a), 3) = (Bit(d, 3) + Bit(27, 3)) % 2
        /\ Bit(Double(a), 4) = (Bit(d, 4) + Bit(27, 4)) % 2
        /\ Bit(Double(a), 5) = (Bit(d, 5) + Bit(27, 5)) % 2
        /\ Bit(Double(a), 6) = (Bit(d, 6) + Bit(27, 6)) % 2
        /\ Bit(Double(a), 7) = (Bit(d, 7) + Bit(27, 7)) % 2
    BY <2>4
  <2>6. /\ Bit(Double(a), 0) = 1 /\ Bit(Double(a), 2) = b1
        /\ Bit(Double(a), 5) = b4 /\ Bit(Double(a), 6) = b5 /\ Bit(Double(a), 7) = b6
    BY <1>0, <1>9, <2>3, <2>5
  <2>7. /\ Bit(Double(a), 1) = (b0 + 1) % 2 /\ Bit(Double(a), 3) = (b2 + 1) % 2
        /\ Bit(Double(a), 4) = (b3 + 1) % 2
    BY <1>0, <1>9, <2>3, <2>5
  <2>. QED  BY <1>3, <1>11, <2>4, <2>6, <2>7
<1>. QED  BY <1>10, <1>11

\* Doubling in the field of aes.h is linear.
LEMMA DoubleLinear ==
  ASSUME NEW x \in Byte, NEW y \in Byte
  PROVE  Double(Xor(x, y)) = Xor(Double(x), Double(y))
<1>1. PICK z \in Byte : z = Xor(x, y)
  BY XorBits
<1>2. PICK dx \in Byte : dx = Double(x)
  BY DoubleBits
<1>3. PICK dy \in Byte : dy = Double(y)
  BY DoubleBits
<1>4. PICK dz \in Byte : dz = Double(z)
  BY DoubleBits
<1>5. \A i \in 0..7 : /\ Bit(z, i) = (Bit(x, i) + Bit(y, i)) % 2
                      /\ Bit(Xor(dx, dy), i) = (Bit(dx, i) + Bit(dy, i)) % 2
  BY <1>1, XorBits
<1>6. \A i \in 0..7 : Bit(x, i) \in {0, 1} /\ Bit(y, i) \in {0, 1}
  BY BitTyped
<1>7. ASSUME NEW i \in 0..7 PROVE Bit(dz, i) = Bit(Xor(dx, dy), i)
  <2>1. i = 0 \/ i = 1 \/ i = 2 \/ i = 3 \/ i = 4 \/ i = 5 \/ i = 6 \/ i = 7
    OBVIOUS
  <2>2. Bit(dz, 0) = Bit(Xor(dx, dy), 0) /\ Bit(dz, 2) = Bit(Xor(dx, dy), 2)
    BY <1>2, <1>3, <1>4, <1>5, <1>6, DoubleBits
  <2>3. Bit(dz, 5) = Bit(Xor(dx, dy), 5) /\ Bit(dz, 6) = Bit(Xor(dx, dy), 6)
        /\ Bit(dz, 7) = Bit(Xor(dx, dy), 7)
    BY <1>2, <1>3, <1>4, <1>5, <1>6, DoubleBits
  <2>4. Bit(dz, 1) = Bit(Xor(dx, dy), 1)
    BY <1>2, <1>3, <1>4, <1>5, <1>6, DoubleBits
  <2>5. Bit(dz, 3) = Bit(Xor(dx, dy), 3)
    BY <1>2, <1>3, <1>4, <1>5, <1>6, DoubleBits
  <2>6. Bit(dz, 4) = Bit(Xor(dx, dy), 4)
    BY <1>2, <1>3, <1>4, <1>5, <1>6, DoubleBits
  <2>. QED  BY <2>1, <2>2, <2>3, <2>4, <2>5, <2>6
<1>8. Xor(dx, dy) \in Byte
  BY XorBits
<1>. QED  BY <1>1, <1>2, <1>3, <1>4, <1>7, <1>8, EqualBits

\* The two recursive functions of gmult.
IsMultiple(m, a) == m = [i \in 0..7 |-> IF i = 0 THEN a ELSE Double(m[i - 1])]

MultipleOf(a) == CHOOSE m : IsMultiple(m, a)

IsProduct(p, a, b) ==
  p = [i \in 0..8 |-> IF i = 0 THEN 0
                      ELSE IF Bit(b, i - 1) = 1 THEN Xor(p[i - 1], MultipleOf(a)[i - 1])
                      ELSE p[i - 1]]

\* The multiples gmult keeps in a: each is the double of the last.
LEMMA MultipleUnfolds ==
  ASSUME NEW a \in Byte
  PROVE  /\ MultipleOf(a) \in [0..7 -> Byte] /\ MultipleOf(a)[0] = a
         /\ \A i \in 1..7 : MultipleOf(a)[i] = Double(MultipleOf(a)[i - 1])
<1> DEFINE F == [i \in 1..7 |-> [v \in Byte |-> Double(v)]]
<1>1. \A i \in 1..7 : \A v \in Byte : F[i][v] = Double(v) /\ F[i][v] \in Byte
  BY DoubleBits
<1> HIDE DEF F
<1>2. PICK f \in [0..7 -> Byte] : f[0] = a /\ \A i \in 1..7 : f[i] = F[i][f[i - 1]]
  <2>1. F \in [1..7 -> [Byte -> Byte]] /\ 7 \in Nat
    BY <1>1 DEF F
  <2>2. \A n \in Nat : \A G \in [1..n -> [Byte -> Byte]] :
          \E f \in [0..n -> Byte] : f[0] = a /\ \A i \in 1..n : f[i] = G[i][f[i - 1]]
    BY RecursionExists
  <2>3. \A G \in [1..7 -> [Byte -> Byte]] :
          \E f \in [0..7 -> Byte] : f[0] = a /\ \A i \in 1..7 : f[i] = G[i][f[i - 1]]
    BY <2>1, <2>2, Zenon
  <2>. QED  BY <2>1, <2>3, Zenon
<1>3. ASSUME NEW i \in 0..7 PROVE f[i] = IF i = 0 THEN a ELSE Double(f[i - 1])
  <2>1. CASE i = 0
    BY <1>2, <2>1
  <2>2. CASE i # 0
    <3>1. i \in 1..7 /\ i - 1 \in 0..7
      BY <2>2
    <3>2. f[i] = F[i][f[i - 1]] /\ f[i - 1] \in Byte
      BY <1>2, <3>1
    <3>. QED  BY <1>1, <2>2, <3>1, <3>2
  <2>. QED  BY <2>1, <2>2
<1>4. IsMultiple(f, a)
  BY <1>3 DEF IsMultiple
<1>5. PICK m : m = MultipleOf(a) /\ IsMultiple(m, a)
  BY <1>4, Zenon DEF MultipleOf
<1>6. \A i \in 0..7 : m[i] = IF i = 0 THEN a ELSE Double(m[i - 1])
  BY <1>5 DEF IsMultiple
<1>7. m[0] = a /\ \A i \in 1..7 : m[i] = Double(m[i - 1])
  BY <1>6
<1>8. m[1] = Double(m[0]) /\ m[2] = Double(m[1]) /\ m[3] = Double(m[2]) /\ m[4] = Double(m[3])
      /\ m[5] = Double(m[4]) /\ m[6] = Double(m[5]) /\ m[7] = Double(m[6])
  BY <1>7
<1>9. m[0] \in Byte /\ m[1] \in Byte /\ m[2] \in Byte /\ m[3] \in Byte
      /\ m[4] \in Byte /\ m[5] \in Byte /\ m[6] \in Byte /\ m[7] \in Byte
  BY <1>7, <1>8, DoubleBits
<1>10. \A i \in 0..7 : m[i] \in Byte
  BY <1>9
<1>11. m = [i \in 0..7 |-> m[i]]
  BY <1>5 DEF IsMultiple
<1>12. m \in [0..7 -> Byte]
  BY <1>10, <1>11
<1>. QED  BY <1>5, <1>7, <1>12

\* gmult as its loop runs it: p is the product after each bit of b.
LEMMA gmultUnfolds ==
  ASSUME NEW a \in Byte, NEW b \in Nat
  PROVE  \E p \in [0..8 -> Byte] :
           /\ gmult(a, b) = p[8] /\ p[0] = 0
           /\ \A i \in 1..8 : p[i] = IF Bit(b, i - 1) = 1
                                     THEN Xor(p[i - 1], MultipleOf(a)[i - 1])
                                     ELSE p[i - 1]
<1> DEFINE m == MultipleOf(a)
           Turn(v, i) == IF Bit(b, i - 1) = 1 THEN Xor(v, m[i - 1]) ELSE v
           F == [i \in 1..8 |-> [v \in Byte |-> Turn(v, i)]]
<1>1. m \in [0..7 -> Byte]
  BY MultipleUnfolds
<1> HIDE DEF m
<1>2. ASSUME NEW i \in 1..8, NEW v \in Byte PROVE Turn(v, i) \in Byte
  <2>1. i - 1 \in 0..7
    OBVIOUS
  <2>2. m[i - 1] \in Byte
    BY <1>1, <2>1
  <2>. QED  BY <2>2, XorBits
<1>3. \A i \in 1..8 : \A v \in Byte : F[i][v] = Turn(v, i) /\ F[i][v] \in Byte
  BY <1>2
<1> HIDE DEF F
<1>4. 0 \in Byte
  BY DEF Byte
<1>5. PICK f \in [0..8 -> Byte] : f[0] = 0 /\ \A i \in 1..8 : f[i] = F[i][f[i - 1]]
  <2>1. F \in [1..8 -> [Byte -> Byte]] /\ 8 \in Nat
    BY <1>2 DEF F
  <2>2. \A n \in Nat : \A G \in [1..n -> [Byte -> Byte]] :
          \E f \in [0..n -> Byte] : f[0] = 0 /\ \A i \in 1..n : f[i] = G[i][f[i - 1]]
    BY <1>4, RecursionExists, SMTT(30)
  <2>3. \A G \in [1..8 -> [Byte -> Byte]] :
          \E f \in [0..8 -> Byte] : f[0] = 0 /\ \A i \in 1..8 : f[i] = G[i][f[i - 1]]
    BY <2>1, <2>2, Zenon
  <2>. QED  BY <2>1, <2>3, Zenon
<1>6. ASSUME NEW i \in 0..8 PROVE f[i] = IF i = 0 THEN 0 ELSE Turn(f[i - 1], i)
  <2>1. CASE i = 0
    BY <1>5, <2>1
  <2>2. CASE i # 0
    <3>1. i \in 1..8 /\ i - 1 \in 0..8
      BY <2>2
    <3>2. f[i] = F[i][f[i - 1]] /\ f[i - 1] \in Byte
      BY <1>5, <3>1
    <3>3. f[i] = Turn(f[i - 1], i)
      BY <1>3, <3>1, <3>2
    <3>. QED  BY <2>2, <3>3
  <2>. QED  BY <2>1, <2>2
<1>7. IsProduct(f, a, b)
  BY <1>6 DEF IsProduct, m
<1>8. PICK p : p = (CHOOSE q : IsProduct(q, a, b)) /\ IsProduct(p, a, b)
  BY <1>7, Zenon
<1>9. gmult(a, b) = p[8]
  BY <1>8, Zenon DEF gmult, IsProduct, MultipleOf, IsMultiple
<1>10. \A i \in 0..8 : p[i] = IF i = 0 THEN 0 ELSE Turn(p[i - 1], i)
  BY <1>8 DEF IsProduct, m
<1>11. p[0] = 0 /\ \A i \in 1..8 : p[i] = Turn(p[i - 1], i)
  BY <1>10
<1>12. ASSUME NEW i \in 1..8, p[i - 1] \in Byte PROVE p[i] \in Byte
  BY <1>2, <1>11, <1>12
<1>13. /\ p[0] \in Byte /\ p[1] \in Byte /\ p[2] \in Byte /\ p[3] \in Byte /\ p[4] \in Byte
       /\ p[5] \in Byte /\ p[6] \in Byte /\ p[7] \in Byte /\ p[8] \in Byte
  <2>1. p[0] \in Byte
    BY <1>4, <1>11
  <2>2. p[1] \in Byte
    BY <1>12, <2>1
  <2>3. p[2] \in Byte
    BY <1>12, <2>2
  <2>4. p[3] \in Byte
    BY <1>12, <2>3
  <2>5. p[4] \in Byte
    BY <1>12, <2>4
  <2>6. p[5] \in Byte
    BY <1>12, <2>5
  <2>7. p[6] \in Byte
    BY <1>12, <2>6
  <2>8. p[7] \in Byte
    BY <1>12, <2>7
  <2>9. p[8] \in Byte
    BY <1>12, <2>8
  <2>. QED  BY <2>1, <2>2, <2>3, <2>4, <2>5, <2>6, <2>7, <2>8, <2>9
<1>14. \A i \in 0..8 : p[i] \in Byte
  BY <1>13
<1>15. p = [i \in 0..8 |-> p[i]]
  BY <1>8 DEF IsProduct
<1>16. p \in [0..8 -> Byte]
  BY <1>14, <1>15
<1>. QED  BY <1>9, <1>11, <1>16 DEF m

\* The multiples the columns are mixed with, as sums of doubles.
LEMMA gmultValues ==
  ASSUME NEW a \in Byte, NEW d, NEW e, NEW f,
         d = Double(a), e = Double(d), f = Double(e)
  PROVE  /\ d \in Byte /\ e \in Byte /\ f \in Byte
         /\ gmult(a, 1) = a
         /\ gmult(a, 2) = d
         /\ gmult(a, 3) = Xor(a, d)
         /\ gmult(a, 9) = Xor(a, f)
         /\ gmult(a, 11) = Xor(Xor(a, d), f)
         /\ gmult(a, 13) = Xor(Xor(a, e), f)
         /\ gmult(a, 14) = Xor(Xor(d, e), f)
<1>1. d \in Byte /\ e \in Byte /\ f \in Byte
  BY DoubleBits
<1>2. PICK m \in [0..7 -> Byte] : m = MultipleOf(a) /\ m[0] = a /\ m[1] = d /\ m[2] = e /\ m[3] = f
  BY MultipleUnfolds
<1>3. ASSUME NEW b \in 0..15
      PROVE  \E p0, p1, p2, p3 \in Byte :
               /\ p0 = IF Bit(b, 0) = 1 THEN Xor(0, a) ELSE 0
               /\ p1 = IF Bit(b, 1) = 1 THEN Xor(p0, d) ELSE p0
               /\ p2 = IF Bit(b, 2) = 1 THEN Xor(p1, e) ELSE p1
               /\ p3 = IF Bit(b, 3) = 1 THEN Xor(p2, f) ELSE p2
               /\ gmult(a, b) = p3
  <2>1. PICK p \in [0..8 -> Byte] :
           /\ gmult(a, b) = p[8] /\ p[0] = 0
           /\ \A i \in 1..8 : p[i] = IF Bit(b, i - 1) = 1
                                     THEN Xor(p[i - 1], m[i - 1])
                                     ELSE p[i - 1]
    <3>1. b \in Nat
      OBVIOUS
    <3>. QED  BY <1>2, <3>1, gmultUnfolds, Zenon
  <2>2. Bit(b, 4) = 0 /\ Bit(b, 5) = 0 /\ Bit(b, 6) = 0 /\ Bit(b, 7) = 0
    BY DEF Bit
  <2>3. /\ 1 - 1 = 0 /\ 2 - 1 = 1 /\ 3 - 1 = 2 /\ 4 - 1 = 3
        /\ 5 - 1 = 4 /\ 6 - 1 = 5 /\ 7 - 1 = 6 /\ 8 - 1 = 7
    OBVIOUS
  <2>4. p[8] = p[4]
    BY <2>1, <2>2, <2>3
  <2>5. /\ p[1] = IF Bit(b, 0) = 1 THEN Xor(0, a) ELSE 0
        /\ p[2] = IF Bit(b, 1) = 1 THEN Xor(p[1], d) ELSE p[1]
        /\ p[3] = IF Bit(b, 2) = 1 THEN Xor(p[2], e) ELSE p[2]
        /\ p[4] = IF Bit(b, 3) = 1 THEN Xor(p[3], f) ELSE p[3]
    BY <1>2, <2>1, <2>3
  <2>6. p[1] \in Byte /\ p[2] \in Byte /\ p[3] \in Byte /\ p[4] \in Byte
    BY <2>1
  <2>. QED  BY <2>1, <2>4, <2>5, <2>6
<1>4. /\ Bit(1, 0) = 1 /\ Bit(1, 1) = 0 /\ Bit(1, 2) = 0 /\ Bit(1, 3) = 0
      /\ Bit(2, 0) = 0 /\ Bit(2, 1) = 1 /\ Bit(2, 2) = 0 /\ Bit(2, 3) = 0
      /\ Bit(3, 0) = 1 /\ Bit(3, 1) = 1 /\ Bit(3, 2) = 0 /\ Bit(3, 3) = 0
      /\ Bit(9, 0) = 1 /\ Bit(9, 1) = 0 /\ Bit(9, 2) = 0 /\ Bit(9, 3) = 1
  BY DEF Bit
<1>5. /\ Bit(11, 0) = 1 /\ Bit(11, 1) = 1 /\ Bit(11, 2) = 0 /\ Bit(11, 3) = 1
      /\ Bit(13, 0) = 1 /\ Bit(13, 1) = 0 /\ Bit(13, 2) = 1 /\ Bit(13, 3) = 1
      /\ Bit(14, 0) = 0 /\ Bit(14, 1) = 1 /\ Bit(14, 2) = 1 /\ Bit(14, 3) = 1
  BY DEF Bit
<1>6. Xor(0, a) = a /\ Xor(0, d) = d
  BY <1>1, XorZero
<1>7. gmult(a, 1) = a
  BY <1>3, <1>4, <1>6
<1>8. gmult(a, 2) = d
  BY <1>3, <1>4, <1>6
<1>9. gmult(a, 3) = Xor(a, d)
  BY <1>3, <1>4, <1>6
<1>10. gmult(a, 9) = Xor(a, f)
  BY <1>3, <1>4, <1>6
<1>11. gmult(a, 11) = Xor(Xor(a, d), f)
  BY <1>3, <1>5, <1>6
<1>12. gmult(a, 13) = Xor(Xor(a, e), f)
  BY <1>3, <1>5, <1>6
<1>13. gmult(a, 14) = Xor(Xor(d, e), f)
  BY <1>3, <1>5, <1>6
<1>. QED  BY <1>1, <1>7, <1>8, <1>9, <1>10, <1>11, <1>12, <1>13

\* Whether bit i of x is set.
On(x, i) == Bit(x, i) = 1

\* The bits of an exclusive or, as truth values.
LEMMA XorOn ==
  ASSUME NEW x \in Byte, NEW y \in Byte
  PROVE  /\ Xor(x, y) \in Byte
         /\ \A i \in 0..7 : On(Xor(x, y), i) <=> ~(On(x, i) <=> On(y, i))
<1>1. Xor(x, y) \in Byte /\ \A i \in 0..7 : Bit(Xor(x, y), i) = (Bit(x, i) + Bit(y, i)) % 2
  BY XorBits
<1>2. \A i \in 0..7 : Bit(x, i) \in {0, 1} /\ Bit(y, i) \in {0, 1}
  BY BitTyped
<1>3. \A b, c \in {0, 1} : (b + c) % 2 = 1 <=> ~(b = 1 <=> c = 1)
  OBVIOUS
<1>4. ASSUME NEW i \in 0..7 PROVE On(Xor(x, y), i) <=> ~(On(x, i) <=> On(y, i))
  <2>1. PICK b, c \in {0, 1} : b = Bit(x, i) /\ c = Bit(y, i)
    BY <1>2
  <2>2. Bit(Xor(x, y), i) = (b + c) % 2
    BY <1>1, <2>1
  <2>. QED  BY <1>3, <2>1, <2>2 DEF On
<1>. QED  BY <1>1, <1>4

\* Two bytes with the same bits set are the same.
LEMMA EqualOn ==
  ASSUME NEW x \in Byte, NEW y \in Byte, \A i \in 0..7 : On(x, i) <=> On(y, i)
  PROVE  x = y
<1>1. \A i \in 0..7 : Bit(x, i) \in {0, 1} /\ Bit(y, i) \in {0, 1}
  BY BitTyped
<1>2. \A i \in 0..7 : Bit(x, i) = Bit(y, i)
  BY <1>1 DEF On
<1>. QED  BY <1>2, EqualBits

\* Zero has no bit set.
LEMMA ZeroOn == 0 \in Byte /\ \A i \in 0..7 : ~On(0, i)
<1>1. 0 \in Byte /\ Xor(0, 0) = 0
  BY XorZero DEF Byte
<1>. QED  BY <1>1, XorOn

\* The product with a coefficient of the columns.
Mul(b, x) == Multiples[b][x]

\* The products mix_columns and inv_mix_columns use, by doubles.
LEMMA MulValues ==
  ASSUME NEW x \in Byte
  PROVE  \E d, e, f \in Byte :
           /\ d = Double(x) /\ e = Double(d) /\ f = Double(e)
           /\ Mul(1, x) = x
           /\ Mul(2, x) = d
           /\ Mul(3, x) = Xor(x, d)
           /\ Mul(9, x) = Xor(x, f)
           /\ Mul(11, x) = Xor(Xor(x, d), f)
           /\ Mul(13, x) = Xor(Xor(x, e), f)
           /\ Mul(14, x) = Xor(Xor(d, e), f)
<1>1. \A b \in {1, 2, 3, 9, 11, 13, 14} : Mul(b, x) = gmult(x, b)
  BY Zenon DEF Mul, Multiples
<1>2. Mul(1, x) = gmult(x, 1) /\ Mul(2, x) = gmult(x, 2) /\ Mul(3, x) = gmult(x, 3)
      /\ Mul(9, x) = gmult(x, 9) /\ Mul(11, x) = gmult(x, 11)
      /\ Mul(13, x) = gmult(x, 13) /\ Mul(14, x) = gmult(x, 14)
  BY <1>1, Zenon
<1>3. PICK d \in Byte : d = Double(x)
  BY DoubleBits
<1>4. PICK e \in Byte : e = Double(d)
  BY DoubleBits
<1>5. PICK f \in Byte : f = Double(e)
  BY DoubleBits
<1>6. /\ gmult(x, 1) = x
      /\ gmult(x, 2) = d
      /\ gmult(x, 3) = Xor(x, d)
      /\ gmult(x, 9) = Xor(x, f)
      /\ gmult(x, 11) = Xor(Xor(x, d), f)
      /\ gmult(x, 13) = Xor(Xor(x, e), f)
      /\ gmult(x, 14) = Xor(Xor(d, e), f)
  BY <1>3, <1>4, <1>5, gmultValues
<1>7. /\ d = Double(x) /\ e = Double(d) /\ f = Double(e)
      /\ Mul(1, x) = x
      /\ Mul(2, x) = d
      /\ Mul(3, x) = Xor(x, d)
      /\ Mul(9, x) = Xor(x, f)
      /\ Mul(11, x) = Xor(Xor(x, d), f)
      /\ Mul(13, x) = Xor(Xor(x, e), f)
      /\ Mul(14, x) = Xor(Xor(d, e), f)
  BY <1>2, <1>3, <1>4, <1>5, <1>6, Zenon
<1>. QED  BY <1>7, Zenon

\* Doubling is linear, bit by bit.
LEMMA DoubleOn ==
  ASSUME NEW x \in Byte, NEW y \in Byte
  PROVE  \A i \in 0..7 : On(Double(Xor(x, y)), i) <=> ~(On(Double(x), i) <=> On(Double(y), i))
<1>1. Double(x) \in Byte /\ Double(y) \in Byte /\ Double(Xor(x, y)) = Xor(Double(x), Double(y))
  BY DoubleLinear, DoubleBits
<1>. QED  BY <1>1, XorOn

\* The bits of the products with the coefficients.
LEMMA MulOn ==
  ASSUME NEW x \in Byte
  PROVE  \E d, e, f \in Byte :
           /\ d = Double(x) /\ e = Double(d) /\ f = Double(e)
           /\ Mul(1, x) = x /\ Mul(2, x) = d
           /\ Mul(3, x) \in Byte /\ Mul(9, x) \in Byte /\ Mul(11, x) \in Byte
           /\ Mul(13, x) \in Byte /\ Mul(14, x) \in Byte
           /\ \A i \in 0..7 :
                /\ On(Mul(3, x), i) <=> ~(On(x, i) <=> On(d, i))
                /\ On(Mul(9, x), i) <=> ~(On(x, i) <=> On(f, i))
                /\ On(Mul(11, x), i) <=> ~(~(On(x, i) <=> On(d, i)) <=> On(f, i))
                /\ On(Mul(13, x), i) <=> ~(~(On(x, i) <=> On(e, i)) <=> On(f, i))
                /\ On(Mul(14, x), i) <=> ~(~(On(d, i) <=> On(e, i)) <=> On(f, i))
<1>1. PICK d, e, f \in Byte :
        /\ d = Double(x) /\ e = Double(d) /\ f = Double(e)
        /\ Mul(1, x) = x
        /\ Mul(2, x) = d
        /\ Mul(3, x) = Xor(x, d)
        /\ Mul(9, x) = Xor(x, f)
        /\ Mul(11, x) = Xor(Xor(x, d), f)
        /\ Mul(13, x) = Xor(Xor(x, e), f)
        /\ Mul(14, x) = Xor(Xor(d, e), f)
  BY MulValues
<1>2. \A u, v \in Byte :
        /\ Xor(u, v) \in Byte
        /\ \A i \in 0..7 : On(Xor(u, v), i) <=> ~(On(u, i) <=> On(v, i))
  BY XorOn
<1>3. Mul(3, x) \in Byte /\ \A i \in 0..7 : On(Mul(3, x), i) <=> ~(On(x, i) <=> On(d, i))
  BY <1>1, <1>2
<1>4. Mul(9, x) \in Byte /\ \A i \in 0..7 : On(Mul(9, x), i) <=> ~(On(x, i) <=> On(f, i))
  BY <1>1, <1>2
<1>5. ASSUME NEW u \in Byte, NEW v \in Byte, NEW t \in Byte
      PROVE  Xor(Xor(u, v), t) \in Byte
             /\ \A i \in 0..7 : On(Xor(Xor(u, v), t), i) <=> ~(~(On(u, i) <=> On(v, i)) <=> On(t, i))
  <2>1. PICK s \in Byte : s = Xor(u, v) /\ \A i \in 0..7 : On(s, i) <=> ~(On(u, i) <=> On(v, i))
    BY <1>2
  <2>. QED  BY <1>2, <2>1
<1>6. Mul(11, x) \in Byte /\ \A i \in 0..7 : On(Mul(11, x), i) <=> ~(~(On(x, i) <=> On(d, i)) <=> On(f, i))
  BY <1>1, <1>5
<1>7. Mul(13, x) \in Byte /\ \A i \in 0..7 : On(Mul(13, x), i) <=> ~(~(On(x, i) <=> On(e, i)) <=> On(f, i))
  BY <1>1, <1>5
<1>8. Mul(14, x) \in Byte /\ \A i \in 0..7 : On(Mul(14, x), i) <=> ~(~(On(d, i) <=> On(e, i)) <=> On(f, i))
  BY <1>1, <1>5
<1>. QED  BY <1>1, <1>3, <1>4, <1>6, <1>7, <1>8

\* A sum of four terms is a byte, and its bits.
LEMMA SumTyped ==
  ASSUME NEW a \in Byte, NEW b \in Byte, NEW c \in Byte, NEW d \in Byte
  PROVE  Xor(Xor(a, b), Xor(c, d)) \in Byte
<1>1. Xor(a, b) \in Byte /\ Xor(c, d) \in Byte
  BY XorOn
<1>. QED  BY <1>1, XorOn

SumBit(a, b, c, d, i) == ~(~(On(a, i) <=> On(b, i)) <=> ~(On(c, i) <=> On(d, i)))

\* A bit of the sum of four bytes.
LEMMA SumOn ==
  ASSUME NEW a \in Byte, NEW b \in Byte, NEW c \in Byte, NEW d \in Byte, NEW i \in 0..7
  PROVE  On(Xor(Xor(a, b), Xor(c, d)), i) <=> SumBit(a, b, c, d, i)
<1>1. PICK s \in Byte : s = Xor(a, b) /\ \A n \in 0..7 : On(s, n) <=> ~(On(a, n) <=> On(b, n))
  BY XorOn
<1>2. PICK t \in Byte : t = Xor(c, d) /\ \A n \in 0..7 : On(t, n) <=> ~(On(c, n) <=> On(d, n))
  BY XorOn
<1>. QED  BY <1>1, <1>2, XorOn DEF SumBit

\* Multiplication by a coefficient is linear.
LEMMA MulLinear ==
  ASSUME NEW x \in Byte, NEW y \in Byte, NEW b \in {9, 11, 13, 14}
  PROVE  Mul(b, Xor(x, y)) = Xor(Mul(b, x), Mul(b, y))
<1>1. PICK z \in Byte : z = Xor(x, y) /\ \A i \in 0..7 : On(z, i) <=> ~(On(x, i) <=> On(y, i))
  BY XorOn
<1>2. PICK d, e, f \in Byte :
        /\ d = Double(x) /\ e = Double(d) /\ f = Double(e)
        /\ Mul(9, x) \in Byte /\ Mul(11, x) \in Byte /\ Mul(13, x) \in Byte /\ Mul(14, x) \in Byte
        /\ \A i \in 0..7 :
             /\ On(Mul(9, x), i) <=> ~(On(x, i) <=> On(f, i))
             /\ On(Mul(11, x), i) <=> ~(~(On(x, i) <=> On(d, i)) <=> On(f, i))
             /\ On(Mul(13, x), i) <=> ~(~(On(x, i) <=> On(e, i)) <=> On(f, i))
             /\ On(Mul(14, x), i) <=> ~(~(On(d, i) <=> On(e, i)) <=> On(f, i))
  BY MulOn
<1>3. PICK dy, ey, fy \in Byte :
        /\ dy = Double(y) /\ ey = Double(dy) /\ fy = Double(ey)
        /\ Mul(9, y) \in Byte /\ Mul(11, y) \in Byte /\ Mul(13, y) \in Byte /\ Mul(14, y) \in Byte
        /\ \A i \in 0..7 :
             /\ On(Mul(9, y), i) <=> ~(On(y, i) <=> On(fy, i))
             /\ On(Mul(11, y), i) <=> ~(~(On(y, i) <=> On(dy, i)) <=> On(fy, i))
             /\ On(Mul(13, y), i) <=> ~(~(On(y, i) <=> On(ey, i)) <=> On(fy, i))
             /\ On(Mul(14, y), i) <=> ~(~(On(dy, i) <=> On(ey, i)) <=> On(fy, i))
  BY MulOn
<1>4. PICK dz, ez, fz \in Byte :
        /\ dz = Double(z) /\ ez = Double(dz) /\ fz = Double(ez)
        /\ Mul(9, z) \in Byte /\ Mul(11, z) \in Byte /\ Mul(13, z) \in Byte /\ Mul(14, z) \in Byte
        /\ \A i \in 0..7 :
             /\ On(Mul(9, z), i) <=> ~(On(z, i) <=> On(fz, i))
             /\ On(Mul(11, z), i) <=> ~(~(On(z, i) <=> On(dz, i)) <=> On(fz, i))
             /\ On(Mul(13, z), i) <=> ~(~(On(z, i) <=> On(ez, i)) <=> On(fz, i))
             /\ On(Mul(14, z), i) <=> ~(~(On(dz, i) <=> On(ez, i)) <=> On(fz, i))
  BY MulOn
<1>5. dz = Xor(d, dy)
  BY <1>1, <1>2, <1>3, <1>4, DoubleLinear
<1>6. ez = Xor(e, ey)
  BY <1>2, <1>3, <1>4, <1>5, DoubleLinear
<1>7. fz = Xor(f, fy)
  BY <1>2, <1>3, <1>4, <1>6, DoubleLinear
<1>8. \A i \in 0..7 :
                     /\ On(dz, i) <=> ~(On(d, i) <=> On(dy, i))
                     /\ On(ez, i) <=> ~(On(e, i) <=> On(ey, i))
                     /\ On(fz, i) <=> ~(On(f, i) <=> On(fy, i))
  BY <1>5, <1>6, <1>7, XorOn
<1>9. \A u, v \in Byte :
        /\ Xor(u, v) \in Byte
        /\ \A i \in 0..7 : On(Xor(u, v), i) <=> ~(On(u, i) <=> On(v, i))
  BY XorOn
<1>10. Mul(9, z) = Xor(Mul(9, x), Mul(9, y))
  <2>1. PICK q \in Byte : q = Xor(Mul(9, x), Mul(9, y))
                         /\ \A i \in 0..7 : On(q, i) <=> ~(On(Mul(9, x), i) <=> On(Mul(9, y), i))
    BY <1>2, <1>3, <1>9
  <2>2. \A i \in 0..7 : On(Mul(9, z), i) <=> On(q, i)
    BY <1>1, <1>2, <1>3, <1>4, <1>8, <2>1
  <2>. QED  BY <1>4, <2>1, <2>2, EqualOn
<1>11. Mul(11, z) = Xor(Mul(11, x), Mul(11, y))
  <2>1. PICK q \in Byte : q = Xor(Mul(11, x), Mul(11, y))
                         /\ \A i \in 0..7 : On(q, i) <=> ~(On(Mul(11, x), i) <=> On(Mul(11, y), i))
    BY <1>2, <1>3, <1>9
  <2>2. \A i \in 0..7 : On(Mul(11, z), i) <=> On(q, i)
    BY <1>1, <1>2, <1>3, <1>4, <1>8, <2>1
  <2>. QED  BY <1>4, <2>1, <2>2, EqualOn
<1>12. Mul(13, z) = Xor(Mul(13, x), Mul(13, y))
  <2>1. PICK q \in Byte : q = Xor(Mul(13, x), Mul(13, y))
                         /\ \A i \in 0..7 : On(q, i) <=> ~(On(Mul(13, x), i) <=> On(Mul(13, y), i))
    BY <1>2, <1>3, <1>9
  <2>2. \A i \in 0..7 : On(Mul(13, z), i) <=> On(q, i)
    BY <1>1, <1>2, <1>3, <1>4, <1>8, <2>1
  <2>. QED  BY <1>4, <2>1, <2>2, EqualOn
<1>13. Mul(14, z) = Xor(Mul(14, x), Mul(14, y))
  <2>1. PICK q \in Byte : q = Xor(Mul(14, x), Mul(14, y))
                         /\ \A i \in 0..7 : On(q, i) <=> ~(On(Mul(14, x), i) <=> On(Mul(14, y), i))
    BY <1>2, <1>3, <1>9
  <2>2. \A i \in 0..7 : On(Mul(14, z), i) <=> On(q, i)
    BY <1>1, <1>2, <1>3, <1>4, <1>8, <2>1
  <2>. QED  BY <1>4, <2>1, <2>2, EqualOn
<1>. QED  BY <1>1, <1>10, <1>11, <1>12, <1>13

\* A column of the inverse of the matrix of mix_columns times one of the matrix
\* itself: 1 in the diagonal, 0 elsewhere.
LEMMA InverseEntries ==
  ASSUME NEW x \in Byte
  PROVE  /\ Xor(Xor(Mul(14, Mul(2, x)), Mul(11, x)), Xor(Mul(13, x), Mul(9, Mul(3, x)))) = x
         /\ Xor(Xor(Mul(14, Mul(3, x)), Mul(11, Mul(2, x))), Xor(Mul(13, x), Mul(9, x))) = 0
         /\ Xor(Xor(Mul(14, x), Mul(11, Mul(3, x))), Xor(Mul(13, Mul(2, x)), Mul(9, x))) = 0
         /\ Xor(Xor(Mul(14, x), Mul(11, x)), Xor(Mul(13, Mul(3, x)), Mul(9, Mul(2, x)))) = 0
<1>1. PICK d, e, f \in Byte :
        /\ d = Double(x) /\ e = Double(d) /\ f = Double(e)
        /\ Mul(2, x) = d /\ Mul(3, x) = Xor(x, d)
        /\ Mul(9, x) \in Byte /\ Mul(11, x) \in Byte /\ Mul(13, x) \in Byte /\ Mul(14, x) \in Byte
        /\ \A i \in 0..7 :
             /\ On(Mul(9, x), i) <=> ~(On(x, i) <=> On(f, i))
             /\ On(Mul(11, x), i) <=> ~(~(On(x, i) <=> On(d, i)) <=> On(f, i))
             /\ On(Mul(13, x), i) <=> ~(~(On(x, i) <=> On(e, i)) <=> On(f, i))
             /\ On(Mul(14, x), i) <=> ~(~(On(d, i) <=> On(e, i)) <=> On(f, i))
  <2>1. PICK d, e, f \in Byte :
          /\ d = Double(x) /\ e = Double(d) /\ f = Double(e)
          /\ Mul(2, x) = d
          /\ Mul(9, x) \in Byte /\ Mul(11, x) \in Byte /\ Mul(13, x) \in Byte /\ Mul(14, x) \in Byte
          /\ \A i \in 0..7 :
               /\ On(Mul(9, x), i) <=> ~(On(x, i) <=> On(f, i))
               /\ On(Mul(11, x), i) <=> ~(~(On(x, i) <=> On(d, i)) <=> On(f, i))
               /\ On(Mul(13, x), i) <=> ~(~(On(x, i) <=> On(e, i)) <=> On(f, i))
               /\ On(Mul(14, x), i) <=> ~(~(On(d, i) <=> On(e, i)) <=> On(f, i))
    BY MulOn
  <2>2. Mul(3, x) = Xor(x, d)
    BY <2>1, MulValues
  <2>. QED  BY <2>1, <2>2
<1>2. PICK g \in Byte :
        /\ g = Double(f)
        /\ Mul(9, d) \in Byte /\ Mul(11, d) \in Byte /\ Mul(13, d) \in Byte /\ Mul(14, d) \in Byte
        /\ \A i \in 0..7 :
             /\ On(Mul(9, d), i) <=> ~(On(d, i) <=> On(g, i))
             /\ On(Mul(11, d), i) <=> ~(~(On(d, i) <=> On(e, i)) <=> On(g, i))
             /\ On(Mul(13, d), i) <=> ~(~(On(d, i) <=> On(f, i)) <=> On(g, i))
             /\ On(Mul(14, d), i) <=> ~(~(On(e, i) <=> On(f, i)) <=> On(g, i))
  BY <1>1, MulOn
<1>3. PICK t \in Byte : t = Xor(x, d)
  BY XorOn
<1>4. /\ Mul(9, t) = Xor(Mul(9, x), Mul(9, d)) /\ Mul(11, t) = Xor(Mul(11, x), Mul(11, d))
      /\ Mul(13, t) = Xor(Mul(13, x), Mul(13, d)) /\ Mul(14, t) = Xor(Mul(14, x), Mul(14, d))
  BY <1>3, MulLinear
<1>5. /\ Mul(9, t) \in Byte /\ Mul(11, t) \in Byte /\ Mul(13, t) \in Byte /\ Mul(14, t) \in Byte
      /\ \A i \in 0..7 :
           /\ On(Mul(9, t), i) <=> ~(On(Mul(9, x), i) <=> On(Mul(9, d), i))
           /\ On(Mul(11, t), i) <=> ~(On(Mul(11, x), i) <=> On(Mul(11, d), i))
           /\ On(Mul(13, t), i) <=> ~(On(Mul(13, x), i) <=> On(Mul(13, d), i))
           /\ On(Mul(14, t), i) <=> ~(On(Mul(14, x), i) <=> On(Mul(14, d), i))
  BY <1>1, <1>2, <1>4, XorOn
<1>6. Xor(Xor(Mul(14, d), Mul(11, x)), Xor(Mul(13, x), Mul(9, t))) = x
  <2>0. Xor(Xor(Mul(14, d), Mul(11, x)), Xor(Mul(13, x), Mul(9, t))) \in Byte
        /\ \A i \in 0..7 : On(Xor(Xor(Mul(14, d), Mul(11, x)), Xor(Mul(13, x), Mul(9, t))), i) <=> SumBit(Mul(14, d), Mul(11, x), Mul(13, x), Mul(9, t), i)
    <3>1. Mul(14, d) \in Byte /\ Mul(11, x) \in Byte /\ Mul(13, x) \in Byte /\ Mul(9, t) \in Byte
      BY <1>1, <1>2, <1>5
    <3>2. Xor(Xor(Mul(14, d), Mul(11, x)), Xor(Mul(13, x), Mul(9, t))) \in Byte
      BY <3>1, SumTyped, Zenon
    <3>3. \A i \in 0..7 : On(Xor(Xor(Mul(14, d), Mul(11, x)), Xor(Mul(13, x), Mul(9, t))), i) <=> SumBit(Mul(14, d), Mul(11, x), Mul(13, x), Mul(9, t), i)
      BY <3>1, SumOn, Zenon
    <3>. QED  BY <3>2, <3>3
  <2>1. PICK q \in Byte :
          /\ q = Xor(Xor(Mul(14, d), Mul(11, x)), Xor(Mul(13, x), Mul(9, t)))
          /\ \A i \in 0..7 : On(q, i) <=> SumBit(Mul(14, d), Mul(11, x), Mul(13, x), Mul(9, t), i)
    BY <2>0
  <2>2. \A i \in 0..7 : On(q, i) <=> On(x, i)
    BY <1>1, <1>2, <1>5, <2>1 DEF SumBit
  <2>. QED  BY <2>1, <2>2, EqualOn
<1>7. Xor(Xor(Mul(14, t), Mul(11, d)), Xor(Mul(13, x), Mul(9, x))) = 0
  <2>0. Xor(Xor(Mul(14, t), Mul(11, d)), Xor(Mul(13, x), Mul(9, x))) \in Byte
        /\ \A i \in 0..7 : On(Xor(Xor(Mul(14, t), Mul(11, d)), Xor(Mul(13, x), Mul(9, x))), i) <=> SumBit(Mul(14, t), Mul(11, d), Mul(13, x), Mul(9, x), i)
    <3>1. Mul(14, t) \in Byte /\ Mul(11, d) \in Byte /\ Mul(13, x) \in Byte /\ Mul(9, x) \in Byte
      BY <1>1, <1>2, <1>5
    <3>2. Xor(Xor(Mul(14, t), Mul(11, d)), Xor(Mul(13, x), Mul(9, x))) \in Byte
      BY <3>1, SumTyped, Zenon
    <3>3. \A i \in 0..7 : On(Xor(Xor(Mul(14, t), Mul(11, d)), Xor(Mul(13, x), Mul(9, x))), i) <=> SumBit(Mul(14, t), Mul(11, d), Mul(13, x), Mul(9, x), i)
      BY <3>1, SumOn, Zenon
    <3>. QED  BY <3>2, <3>3
  <2>1. PICK q \in Byte :
          /\ q = Xor(Xor(Mul(14, t), Mul(11, d)), Xor(Mul(13, x), Mul(9, x)))
          /\ \A i \in 0..7 : On(q, i) <=> SumBit(Mul(14, t), Mul(11, d), Mul(13, x), Mul(9, x), i)
    BY <2>0
  <2>2. \A i \in 0..7 : On(q, i) <=> On(0, i)
    BY <1>1, <1>2, <1>5, <2>1, ZeroOn DEF SumBit
  <2>. QED  BY <2>1, <2>2, EqualOn, ZeroOn
<1>8. Xor(Xor(Mul(14, x), Mul(11, t)), Xor(Mul(13, d), Mul(9, x))) = 0
  <2>0. Xor(Xor(Mul(14, x), Mul(11, t)), Xor(Mul(13, d), Mul(9, x))) \in Byte
        /\ \A i \in 0..7 : On(Xor(Xor(Mul(14, x), Mul(11, t)), Xor(Mul(13, d), Mul(9, x))), i) <=> SumBit(Mul(14, x), Mul(11, t), Mul(13, d), Mul(9, x), i)
    <3>1. Mul(14, x) \in Byte /\ Mul(11, t) \in Byte /\ Mul(13, d) \in Byte /\ Mul(9, x) \in Byte
      BY <1>1, <1>2, <1>5
    <3>2. Xor(Xor(Mul(14, x), Mul(11, t)), Xor(Mul(13, d), Mul(9, x))) \in Byte
      BY <3>1, SumTyped, Zenon
    <3>3. \A i \in 0..7 : On(Xor(Xor(Mul(14, x), Mul(11, t)), Xor(Mul(13, d), Mul(9, x))), i) <=> SumBit(Mul(14, x), Mul(11, t), Mul(13, d), Mul(9, x), i)
      BY <3>1, SumOn, Zenon
    <3>. QED  BY <3>2, <3>3
  <2>1. PICK q \in Byte :
          /\ q = Xor(Xor(Mul(14, x), Mul(11, t)), Xor(Mul(13, d), Mul(9, x)))
          /\ \A i \in 0..7 : On(q, i) <=> SumBit(Mul(14, x), Mul(11, t), Mul(13, d), Mul(9, x), i)
    BY <2>0
  <2>2. \A i \in 0..7 : On(q, i) <=> On(0, i)
    BY <1>1, <1>2, <1>5, <2>1, ZeroOn DEF SumBit
  <2>. QED  BY <2>1, <2>2, EqualOn, ZeroOn
<1>9. Xor(Xor(Mul(14, x), Mul(11, x)), Xor(Mul(13, t), Mul(9, d))) = 0
  <2>0. Xor(Xor(Mul(14, x), Mul(11, x)), Xor(Mul(13, t), Mul(9, d))) \in Byte
        /\ \A i \in 0..7 : On(Xor(Xor(Mul(14, x), Mul(11, x)), Xor(Mul(13, t), Mul(9, d))), i) <=> SumBit(Mul(14, x), Mul(11, x), Mul(13, t), Mul(9, d), i)
    <3>1. Mul(14, x) \in Byte /\ Mul(11, x) \in Byte /\ Mul(13, t) \in Byte /\ Mul(9, d) \in Byte
      BY <1>1, <1>2, <1>5
    <3>2. Xor(Xor(Mul(14, x), Mul(11, x)), Xor(Mul(13, t), Mul(9, d))) \in Byte
      BY <3>1, SumTyped, Zenon
    <3>3. \A i \in 0..7 : On(Xor(Xor(Mul(14, x), Mul(11, x)), Xor(Mul(13, t), Mul(9, d))), i) <=> SumBit(Mul(14, x), Mul(11, x), Mul(13, t), Mul(9, d), i)
      BY <3>1, SumOn, Zenon
    <3>. QED  BY <3>2, <3>3
  <2>1. PICK q \in Byte :
          /\ q = Xor(Xor(Mul(14, x), Mul(11, x)), Xor(Mul(13, t), Mul(9, d)))
          /\ \A i \in 0..7 : On(q, i) <=> SumBit(Mul(14, x), Mul(11, x), Mul(13, t), Mul(9, d), i)
    BY <2>0
  <2>2. \A i \in 0..7 : On(q, i) <=> On(0, i)
    BY <1>1, <1>2, <1>5, <2>1, ZeroOn DEF SumBit
  <2>. QED  BY <2>1, <2>2, EqualOn, ZeroOn
<1>. QED  BY <1>1, <1>3, <1>6, <1>7, <1>8, <1>9

\* The order of a sum of four does not matter: two ways to add a table of four
\* rows, and a rotation.
LEMMA SumSwaps ==
  ASSUME NEW a \in Byte, NEW b \in Byte, NEW c \in Byte, NEW d \in Byte
  PROVE  /\ Xor(Xor(a, b), Xor(c, d)) = Xor(Xor(a, c), Xor(b, d))
         /\ Xor(Xor(a, b), Xor(c, d)) = Xor(Xor(d, a), Xor(b, c))
<1>1. PICK q \in Byte : q = Xor(Xor(a, b), Xor(c, d))
                       /\ \A i \in 0..7 : On(q, i) <=> SumBit(a, b, c, d, i)
  BY SumTyped, SumOn
<1>2. PICK u \in Byte : u = Xor(Xor(a, c), Xor(b, d))
                       /\ \A i \in 0..7 : On(u, i) <=> SumBit(a, c, b, d, i)
  BY SumTyped, SumOn
<1>3. PICK v \in Byte : v = Xor(Xor(d, a), Xor(b, c))
                       /\ \A i \in 0..7 : On(v, i) <=> SumBit(d, a, b, c, i)
  BY SumTyped, SumOn
<1>4. \A i \in 0..7 : (On(q, i) <=> On(u, i)) /\ (On(q, i) <=> On(v, i))
  BY <1>1, <1>2, <1>3 DEF SumBit
<1>. QED  BY <1>1, <1>2, <1>3, <1>4, EqualOn

\* A byte of a column that mix_columns or inv_mix_columns makes, from the bytes
\* of the column from the same row on.
Mixed(p, q, s, t) == Xor(Xor(Mul(2, p), Mul(3, q)), Xor(s, t))

Unmixed(p, q, s, t) == Xor(Xor(Mul(14, p), Mul(11, q)), Xor(Mul(13, s), Mul(9, t)))

\* A product is a byte.
LEMMA MulTyped ==
  ASSUME NEW x \in Byte
  PROVE  /\ Mul(1, x) = x /\ Mul(2, x) \in Byte /\ Mul(3, x) \in Byte /\ Mul(9, x) \in Byte
         /\ Mul(11, x) \in Byte /\ Mul(13, x) \in Byte /\ Mul(14, x) \in Byte
BY MulOn

\* The sums of mix_columns and inv_mix_columns are bytes.
LEMMA MixedTyped ==
  ASSUME NEW p \in Byte, NEW q \in Byte, NEW s \in Byte, NEW t \in Byte
  PROVE  Mixed(p, q, s, t) \in Byte /\ Unmixed(p, q, s, t) \in Byte
<1>1. Mul(2, p) \in Byte /\ Mul(3, q) \in Byte /\ Mul(14, p) \in Byte /\ Mul(11, q) \in Byte
      /\ Mul(13, s) \in Byte /\ Mul(9, t) \in Byte
  BY MulTyped
<1>. QED  BY <1>1, SumTyped DEF Mixed, Unmixed

\* A coefficient times a mixed byte, bit by bit.
LEMMA MulMixed ==
  ASSUME NEW p \in Byte, NEW q \in Byte, NEW s \in Byte, NEW t \in Byte, NEW b \in {9, 11, 13, 14}
  PROVE  /\ Mul(b, Mul(2, p)) \in Byte /\ Mul(b, Mul(3, q)) \in Byte
         /\ Mul(b, Mixed(p, q, s, t))
              = Xor(Xor(Mul(b, Mul(2, p)), Mul(b, Mul(3, q))), Xor(Mul(b, s), Mul(b, t)))
<1>1. PICK p2, q3 \in Byte : p2 = Mul(2, p) /\ q3 = Mul(3, q)
  BY MulTyped
<1>2. PICK u, v \in Byte : u = Xor(p2, q3) /\ v = Xor(s, t)
  BY XorOn
<1>3. Mul(b, Xor(u, v)) = Xor(Mul(b, u), Mul(b, v))
  BY MulLinear
<1>4. Mul(b, u) = Xor(Mul(b, p2), Mul(b, q3)) /\ Mul(b, v) = Xor(Mul(b, s), Mul(b, t))
  BY <1>2, MulLinear
<1>5. Mul(b, p2) \in Byte /\ Mul(b, q3) \in Byte
  BY MulTyped
<1>. QED  BY <1>1, <1>2, <1>3, <1>4, <1>5 DEF Mixed

\* inv_mix_columns takes back mix_columns, for one byte of a column.
LEMMA ColumnUndone ==
  ASSUME NEW p \in Byte, NEW q \in Byte, NEW s \in Byte, NEW t \in Byte
  PROVE  Unmixed(Mixed(p, q, s, t), Mixed(q, s, t, p), Mixed(s, t, p, q), Mixed(t, p, q, s)) = p
<1>1. PICK p2, q2, s2, t2, p3, q3, s3, t3 \in Byte :
        /\ p2 = Mul(2, p) /\ q2 = Mul(2, q) /\ s2 = Mul(2, s) /\ t2 = Mul(2, t)
        /\ p3 = Mul(3, p) /\ q3 = Mul(3, q) /\ s3 = Mul(3, s) /\ t3 = Mul(3, t)
  BY MulTyped
<1>2. PICK a1, a2, a3, a4 \in Byte :
        /\ a1 = Mul(14, p2) /\ a2 = Mul(14, q3) /\ a3 = Mul(14, s) /\ a4 = Mul(14, t)
  BY MulTyped
<1>3. PICK b1, b2, b3, b4 \in Byte :
        /\ b1 = Mul(11, q2) /\ b2 = Mul(11, s3) /\ b3 = Mul(11, t) /\ b4 = Mul(11, p)
  BY MulTyped
<1>4. PICK c1, c2, c3, c4 \in Byte :
        /\ c1 = Mul(13, s2) /\ c2 = Mul(13, t3) /\ c3 = Mul(13, p) /\ c4 = Mul(13, q)
  BY MulTyped
<1>5. PICK d1, d2, d3, d4 \in Byte :
        /\ d1 = Mul(9, t2) /\ d2 = Mul(9, p3) /\ d3 = Mul(9, q) /\ d4 = Mul(9, s)
  BY MulTyped
<1>6. Mul(14, Mixed(p, q, s, t)) = Xor(Xor(a1, a2), Xor(a3, a4))
  BY <1>1, <1>2, MulMixed
<1>7. Mul(11, Mixed(q, s, t, p)) = Xor(Xor(b1, b2), Xor(b3, b4))
  BY <1>1, <1>3, MulMixed
<1>8. Mul(13, Mixed(s, t, p, q)) = Xor(Xor(c1, c2), Xor(c3, c4))
  BY <1>1, <1>4, MulMixed
<1>9. Mul(9, Mixed(t, p, q, s)) = Xor(Xor(d1, d2), Xor(d3, d4))
  BY <1>1, <1>5, MulMixed
<1>10. Xor(Xor(a1, b4), Xor(c3, d2)) = p
  BY <1>1, <1>2, <1>3, <1>4, <1>5, InverseEntries
<1>11. Xor(Xor(a2, b1), Xor(c4, d3)) = 0
  BY <1>1, <1>2, <1>3, <1>4, <1>5, InverseEntries
<1>12. Xor(Xor(a3, b2), Xor(c1, d4)) = 0
  BY <1>1, <1>2, <1>3, <1>4, <1>5, InverseEntries
<1>13. Xor(Xor(a4, b3), Xor(c2, d1)) = 0
  BY <1>1, <1>2, <1>3, <1>4, <1>5, InverseEntries
<1>14. PICK n0, n1, n2, n3 \in Byte :
         /\ n0 = Xor(Xor(a1, a2), Xor(a3, a4)) /\ n1 = Xor(Xor(b1, b2), Xor(b3, b4))
         /\ n2 = Xor(Xor(c1, c2), Xor(c3, c4)) /\ n3 = Xor(Xor(d1, d2), Xor(d3, d4))
  BY SumTyped
<1>15. PICK z \in Byte : z = Xor(Xor(n0, n1), Xor(n2, n3))
  BY SumTyped
<1>16. \A i \in 0..7 : On(z, i) <=> On(p, i)
  <2>1. \A i \in 0..7 : On(Xor(Xor(n0, n1), Xor(n2, n3)), i) <=> SumBit(n0, n1, n2, n3, i)
    BY SumOn, Zenon
  <2>2. \A i \in 0..7 : On(Xor(Xor(a1, a2), Xor(a3, a4)), i) <=> SumBit(a1, a2, a3, a4, i)
    BY SumOn, Zenon
  <2>3. \A i \in 0..7 : On(Xor(Xor(b1, b2), Xor(b3, b4)), i) <=> SumBit(b1, b2, b3, b4, i)
    BY SumOn, Zenon
  <2>4. \A i \in 0..7 : On(Xor(Xor(c1, c2), Xor(c3, c4)), i) <=> SumBit(c1, c2, c3, c4, i)
    BY SumOn, Zenon
  <2>5. \A i \in 0..7 : On(Xor(Xor(d1, d2), Xor(d3, d4)), i) <=> SumBit(d1, d2, d3, d4, i)
    BY SumOn, Zenon
  <2>6. \A i \in 0..7 : On(Xor(Xor(a1, b4), Xor(c3, d2)), i) <=> SumBit(a1, b4, c3, d2, i)
    BY SumOn, Zenon
  <2>7. \A i \in 0..7 : On(Xor(Xor(a2, b1), Xor(c4, d3)), i) <=> SumBit(a2, b1, c4, d3, i)
    BY SumOn, Zenon
  <2>8. \A i \in 0..7 : On(Xor(Xor(a3, b2), Xor(c1, d4)), i) <=> SumBit(a3, b2, c1, d4, i)
    BY SumOn, Zenon
  <2>9. \A i \in 0..7 : On(Xor(Xor(a4, b3), Xor(c2, d1)), i) <=> SumBit(a4, b3, c2, d1, i)
    BY SumOn, Zenon
  <2>. QED  BY <1>10, <1>11, <1>12, <1>13, <1>14, <1>15,
               <2>1, <2>2, <2>3, <2>4, <2>5, <2>6, <2>7, <2>8, <2>9, ZeroOn DEF SumBit
<1>17. z = p
  BY <1>16, EqualOn
<1>. QED  BY <1>6, <1>7, <1>8, <1>9, <1>14, <1>15, <1>17 DEF Unmixed

State == [0..3 -> [0..3 -> Byte]]

\* What sub_bytes, shift_rows and their inverses leave at each place of the
\* state.
LEMMA MatrixEntries ==
  ASSUME NEW s \in State
  PROVE  /\ \A i, j \in 0..3 : s[i][j] \in Byte
         /\ sub_bytes(s) = [i \in 0..3 |-> [j \in 0..3 |-> Sub(s[i][j])]]
         /\ inv_sub_bytes(s) = [i \in 0..3 |-> [j \in 0..3 |-> InvSub(s[i][j])]]
         /\ shift_rows(s) = [i \in 0..3 |-> [j \in 0..3 |-> s[i][(j + i) % 4]]]
         /\ inv_shift_rows(s) = [i \in 0..3 |-> [j \in 0..3 |-> s[i][(j - i) % 4]]]
<1>1. Nb - 1 = 3 /\ Nb = 4
  BY DEF Nb
<1>2. \A i, j \in 0..3 : s[i][j] \in Byte
  BY DEF State
<1>3. sub_bytes(s) = [i \in 0..3 |-> [j \in 0..Nb - 1 |-> Sub(s[i][j])]]
  BY Zenon DEF sub_bytes, Matrix
<1>4. inv_sub_bytes(s) = [i \in 0..3 |-> [j \in 0..Nb - 1 |-> InvSub(s[i][j])]]
  BY Zenon DEF inv_sub_bytes, Matrix
<1>5. shift_rows(s) = [i \in 0..3 |-> [j \in 0..Nb - 1 |-> s[i][(j + i) % Nb]]]
  BY Zenon DEF shift_rows, Matrix
<1>6. inv_shift_rows(s) = [i \in 0..3 |-> [j \in 0..Nb - 1 |-> s[i][(j - i) % Nb]]]
  BY Zenon DEF inv_shift_rows, Matrix
<1>. QED  BY <1>1, <1>2, <1>3, <1>4, <1>5, <1>6, Zenon

\* The four terms coef_mult adds for a row may be taken in a cycle.
LEMMA SumRotates ==
  ASSUME NEW a \in Byte, NEW b \in Byte, NEW c \in Byte, NEW d \in Byte
  PROVE  Xor(Xor(a, b), Xor(c, d)) = Xor(Xor(b, c), Xor(d, a))
BY SumSwaps

\* What mix_columns and inv_mix_columns leave at each place of the state.
LEMMA MixEntries ==
  ASSUME NEW s \in State
  PROVE  /\ mix_columns(s)
              = [i \in 0..3 |-> [j \in 0..3 |->
                   Mixed(s[i][j], s[(i + 1) % 4][j], s[(i + 2) % 4][j], s[(i + 3) % 4][j])]]
         /\ inv_mix_columns(s)
              = [i \in 0..3 |-> [j \in 0..3 |->
                   Unmixed(s[i][j], s[(i + 1) % 4][j], s[(i + 2) % 4][j], s[(i + 3) % 4][j])]]
<1>1. \A i, j \in 0..3 : s[i][j] \in Byte
  BY MatrixEntries
<1> DEFINE column(j) == [i \in 0..3 |-> s[i][j]]
<1>2. ASSUME NEW a
      PROVE  Columns(a, s) = [i \in 0..3 |-> [j \in 0..3 |-> coef_mult(a, column(j))[i]]]
  <2> DEFINE mixed == [j \in 0..Nb - 1 |-> coef_mult(a, column(j))]
  <2>1. Columns(a, s) = [i \in 0..3 |-> [j \in 0..Nb - 1 |-> mixed[j][i]]]
    BY Zenon DEF Columns, Matrix
  <2>2. 0..Nb - 1 = 0..3
    BY DEF Nb
  <2>3. \A j \in 0..3 : mixed[j] = coef_mult(a, column(j))
    BY <2>2, Zenon
  <2> HIDE DEF mixed
  <2>. QED  BY <2>1, <2>2, <2>3, Zenon
<1>3. ASSUME NEW a, NEW j \in 0..3, NEW i \in 0..3
      PROVE  coef_mult(a, column(j))[i]
               = Xor(Xor(Mul(a[i % 4], s[0][j]), Mul(a[(i + 3) % 4], s[1][j])),
                     Xor(Mul(a[(i + 2) % 4], s[2][j]), Mul(a[(i + 1) % 4], s[3][j])))
  <2>1. /\ column(j)[0] = s[0][j] /\ column(j)[1] = s[1][j]
        /\ column(j)[2] = s[2][j] /\ column(j)[3] = s[3][j]
    OBVIOUS
  <2> DEFINE b == column(j)
  <2> HIDE DEF b
  <2>2. coef_mult(a, b)[i]
               = Xor(Xor(Mul(a[(i - 0) % 4], b[0]), Mul(a[(i - 1) % 4], b[1])),
                     Xor(Mul(a[(i - 2) % 4], b[2]), Mul(a[(i - 3) % 4], b[3])))
    BY Zenon DEF coef_mult, Mul
  <2>3. /\ (i - 0) % 4 = i % 4 /\ (i - 1) % 4 = (i + 3) % 4
        /\ (i - 2) % 4 = (i + 2) % 4 /\ (i - 3) % 4 = (i + 1) % 4
    OBVIOUS
  <2>4. coef_mult(a, b)[i]
               = Xor(Xor(Mul(a[i % 4], b[0]), Mul(a[(i + 3) % 4], b[1])),
                     Xor(Mul(a[(i + 2) % 4], b[2]), Mul(a[(i + 1) % 4], b[3])))
    BY <2>2, <2>3, Zenon
  <2>. QED  BY <2>1, <2>4 DEF b
<1> HIDE DEF column
<1>4. ASSUME NEW a0, NEW a1, NEW a2, NEW a3
      PROVE  LET a == Coefficients(a0, a1, a2, a3)
             IN a[0] = a0 /\ a[1] = a1 /\ a[2] = a2 /\ a[3] = a3
  BY DEF Coefficients
<1>5. /\ 0 % 4 = 0 /\ 1 % 4 = 1 /\ 2 % 4 = 2 /\ 3 % 4 = 3 /\ 4 % 4 = 0 /\ 5 % 4 = 1 /\ 6 % 4 = 2
      /\ 0 + 1 = 1 /\ 0 + 2 = 2 /\ 0 + 3 = 3 /\ 1 + 1 = 2 /\ 1 + 2 = 3 /\ 1 + 3 = 4
      /\ 2 + 1 = 3 /\ 2 + 2 = 4 /\ 2 + 3 = 5 /\ 3 + 1 = 4 /\ 3 + 2 = 5 /\ 3 + 3 = 6
  OBVIOUS
<1>6. ASSUME NEW j \in 0..3, NEW a0, NEW a1, NEW a2, NEW a3
      PROVE  LET m == [i \in 0..3 |-> coef_mult(Coefficients(a0, a1, a2, a3), column(j))[i]]
             IN /\ m[0] = Xor(Xor(Mul(a0, s[0][j]), Mul(a3, s[1][j])), Xor(Mul(a2, s[2][j]), Mul(a1, s[3][j])))
                /\ m[1] = Xor(Xor(Mul(a1, s[0][j]), Mul(a0, s[1][j])), Xor(Mul(a3, s[2][j]), Mul(a2, s[3][j])))
                /\ m[2] = Xor(Xor(Mul(a2, s[0][j]), Mul(a1, s[1][j])), Xor(Mul(a0, s[2][j]), Mul(a3, s[3][j])))
                /\ m[3] = Xor(Xor(Mul(a3, s[0][j]), Mul(a2, s[1][j])), Xor(Mul(a1, s[2][j]), Mul(a0, s[3][j])))
  <2> DEFINE a == Coefficients(a0, a1, a2, a3)
  <2>1. a[0] = a0 /\ a[1] = a1 /\ a[2] = a2 /\ a[3] = a3
    BY DEF Coefficients
  <2> HIDE DEF a
  <2>2. \A i \in 0..3 : coef_mult(a, column(j))[i]
               = Xor(Xor(Mul(a[i % 4], s[0][j]), Mul(a[(i + 3) % 4], s[1][j])),
                     Xor(Mul(a[(i + 2) % 4], s[2][j]), Mul(a[(i + 1) % 4], s[3][j])))
    BY <1>3, Zenon
  <2> DEFINE c == coef_mult(a, column(j))
  <2> HIDE DEF c
  <2>3. \A i \in 0..3 : c[i]
               = Xor(Xor(Mul(a[i % 4], s[0][j]), Mul(a[(i + 3) % 4], s[1][j])),
                     Xor(Mul(a[(i + 2) % 4], s[2][j]), Mul(a[(i + 1) % 4], s[3][j])))
    BY <2>2, Zenon DEF c
  <2>4. c[0] = Xor(Xor(Mul(a0, s[0][j]), Mul(a3, s[1][j])), Xor(Mul(a2, s[2][j]), Mul(a1, s[3][j])))
    BY <1>5, <2>1, <2>3
  <2>5. c[1] = Xor(Xor(Mul(a1, s[0][j]), Mul(a0, s[1][j])), Xor(Mul(a3, s[2][j]), Mul(a2, s[3][j])))
    BY <1>5, <2>1, <2>3
  <2>6. c[2] = Xor(Xor(Mul(a2, s[0][j]), Mul(a1, s[1][j])), Xor(Mul(a0, s[2][j]), Mul(a3, s[3][j])))
    BY <1>5, <2>1, <2>3
  <2>7. c[3] = Xor(Xor(Mul(a3, s[0][j]), Mul(a2, s[1][j])), Xor(Mul(a1, s[2][j]), Mul(a0, s[3][j])))
    BY <1>5, <2>1, <2>3
  <2>. QED  BY <2>4, <2>5, <2>6, <2>7 DEF c, a
<1> DEFINE at(i, j, n) == s[(i + n) % 4][j]
<1>7. ASSUME NEW i \in 0..3, NEW j \in 0..3
      PROVE  coef_mult(Coefficients(2, 1, 1, 3), column(j))[i]
               = Mixed(s[i][j], s[(i + 1) % 4][j], s[(i + 2) % 4][j], s[(i + 3) % 4][j])
  <2>1. PICK x0, x1, x2, x3 \in Byte : x0 = s[0][j] /\ x1 = s[1][j] /\ x2 = s[2][j] /\ x3 = s[3][j]
    BY <1>1
  <2> DEFINE c == coef_mult(Coefficients(2, 1, 1, 3), column(j))
  <2>2. /\ c[0] = Xor(Xor(Mul(2, s[0][j]), Mul(3, s[1][j])), Xor(Mul(1, s[2][j]), Mul(1, s[3][j])))
        /\ c[1] = Xor(Xor(Mul(1, s[0][j]), Mul(2, s[1][j])), Xor(Mul(3, s[2][j]), Mul(1, s[3][j])))
        /\ c[2] = Xor(Xor(Mul(1, s[0][j]), Mul(1, s[1][j])), Xor(Mul(2, s[2][j]), Mul(3, s[3][j])))
        /\ c[3] = Xor(Xor(Mul(3, s[0][j]), Mul(1, s[1][j])), Xor(Mul(1, s[2][j]), Mul(2, s[3][j])))
    BY <1>6
  <2> HIDE DEF c
  <2>3. /\ c[0] = Xor(Xor(Mul(2, x0), Mul(3, x1)), Xor(x2, x3))
        /\ c[1] = Xor(Xor(x0, Mul(2, x1)), Xor(Mul(3, x2), x3))
        /\ c[2] = Xor(Xor(x0, x1), Xor(Mul(2, x2), Mul(3, x3)))
        /\ c[3] = Xor(Xor(Mul(3, x0), x1), Xor(x2, Mul(2, x3)))
    BY <2>1, <2>2, MulTyped
  <2>4. PICK p1, q2, p2, q3, p3, q0 \in Byte :
          /\ p1 = Mul(2, x1) /\ q2 = Mul(3, x2) /\ p2 = Mul(2, x2)
          /\ q3 = Mul(3, x3) /\ p3 = Mul(2, x3) /\ q0 = Mul(3, x0)
    BY MulTyped
  <2>5. Xor(Xor(x0, p1), Xor(q2, x3)) = Xor(Xor(p1, q2), Xor(x3, x0))
    BY SumRotates
  <2>6. Xor(Xor(x0, x1), Xor(p2, q3)) = Xor(Xor(p2, q3), Xor(x0, x1))
    BY XorCommutes, XorOn
  <2>7. Xor(Xor(p3, q0), Xor(x1, x2)) = Xor(Xor(q0, x1), Xor(x2, p3))
    BY SumRotates
  <2>8. /\ c[0] = Mixed(x0, x1, x2, x3) /\ c[1] = Mixed(x1, x2, x3, x0)
        /\ c[2] = Mixed(x2, x3, x0, x1) /\ c[3] = Mixed(x3, x0, x1, x2)
    BY <2>3, <2>4, <2>5, <2>6, <2>7 DEF Mixed
  <2>9. i = 0 \/ i = 1 \/ i = 2 \/ i = 3
    OBVIOUS
  <2>10. c[i] = Mixed(s[i][j], s[(i + 1) % 4][j], s[(i + 2) % 4][j], s[(i + 3) % 4][j])
    BY <2>1, <2>8, <2>9, <1>5
  <2>. QED  BY <2>10 DEF c
<1>8. ASSUME NEW i \in 0..3, NEW j \in 0..3
      PROVE  coef_mult(Coefficients(14, 9, 13, 11), column(j))[i]
               = Unmixed(s[i][j], s[(i + 1) % 4][j], s[(i + 2) % 4][j], s[(i + 3) % 4][j])
  <2>1. PICK x0, x1, x2, x3 \in Byte : x0 = s[0][j] /\ x1 = s[1][j] /\ x2 = s[2][j] /\ x3 = s[3][j]
    BY <1>1
  <2> DEFINE c == coef_mult(Coefficients(14, 9, 13, 11), column(j))
  <2>2. /\ c[0] = Xor(Xor(Mul(14, s[0][j]), Mul(11, s[1][j])), Xor(Mul(13, s[2][j]), Mul(9, s[3][j])))
        /\ c[1] = Xor(Xor(Mul(9, s[0][j]), Mul(14, s[1][j])), Xor(Mul(11, s[2][j]), Mul(13, s[3][j])))
        /\ c[2] = Xor(Xor(Mul(13, s[0][j]), Mul(9, s[1][j])), Xor(Mul(14, s[2][j]), Mul(11, s[3][j])))
        /\ c[3] = Xor(Xor(Mul(11, s[0][j]), Mul(13, s[1][j])), Xor(Mul(9, s[2][j]), Mul(14, s[3][j])))
    BY <1>6
  <2> HIDE DEF c
  <2>3. /\ c[0] = Xor(Xor(Mul(14, x0), Mul(11, x1)), Xor(Mul(13, x2), Mul(9, x3)))
        /\ c[1] = Xor(Xor(Mul(9, x0), Mul(14, x1)), Xor(Mul(11, x2), Mul(13, x3)))
        /\ c[2] = Xor(Xor(Mul(13, x0), Mul(9, x1)), Xor(Mul(14, x2), Mul(11, x3)))
        /\ c[3] = Xor(Xor(Mul(11, x0), Mul(13, x1)), Xor(Mul(9, x2), Mul(14, x3)))
    BY <2>1, <2>2
  <2>4. /\ Mul(9, x0) \in Byte /\ Mul(11, x0) \in Byte /\ Mul(13, x0) \in Byte /\ Mul(14, x0) \in Byte
        /\ Mul(9, x1) \in Byte /\ Mul(11, x1) \in Byte /\ Mul(13, x1) \in Byte /\ Mul(14, x1) \in Byte
        /\ Mul(9, x2) \in Byte /\ Mul(11, x2) \in Byte /\ Mul(13, x2) \in Byte /\ Mul(14, x2) \in Byte
        /\ Mul(9, x3) \in Byte /\ Mul(11, x3) \in Byte /\ Mul(13, x3) \in Byte /\ Mul(14, x3) \in Byte
    BY MulTyped
  <2>5. Xor(Xor(Mul(9, x0), Mul(14, x1)), Xor(Mul(11, x2), Mul(13, x3)))
          = Xor(Xor(Mul(14, x1), Mul(11, x2)), Xor(Mul(13, x3), Mul(9, x0)))
    BY <2>4, SumRotates, SMTT(30)
  <2>6. Xor(Xor(Mul(13, x0), Mul(9, x1)), Xor(Mul(14, x2), Mul(11, x3)))
          = Xor(Xor(Mul(14, x2), Mul(11, x3)), Xor(Mul(13, x0), Mul(9, x1)))
    <3>1. Xor(Mul(13, x0), Mul(9, x1)) \in Byte /\ Xor(Mul(14, x2), Mul(11, x3)) \in Byte
      BY <2>4, XorOn
    <3>. QED  BY <3>1, XorCommutes, Zenon
  <2>7. Xor(Xor(Mul(14, x3), Mul(11, x0)), Xor(Mul(13, x1), Mul(9, x2)))
          = Xor(Xor(Mul(11, x0), Mul(13, x1)), Xor(Mul(9, x2), Mul(14, x3)))
    BY <2>4, SumRotates, SMTT(30)
  <2>8. /\ c[0] = Unmixed(x0, x1, x2, x3) /\ c[1] = Unmixed(x1, x2, x3, x0)
        /\ c[2] = Unmixed(x2, x3, x0, x1) /\ c[3] = Unmixed(x3, x0, x1, x2)
    BY <2>3, <2>5, <2>6, <2>7 DEF Unmixed
  <2>9. i = 0 \/ i = 1 \/ i = 2 \/ i = 3
    OBVIOUS
  <2>10. c[i] = Unmixed(s[i][j], s[(i + 1) % 4][j], s[(i + 2) % 4][j], s[(i + 3) % 4][j])
    BY <2>1, <2>8, <2>9, <1>5
  <2>. QED  BY <2>10 DEF c
<1>9. mix_columns(s) = [i \in 0..3 |-> [j \in 0..3 |-> coef_mult(Coefficients(2, 1, 1, 3), column(j))[i]]]
  BY <1>2, Zenon DEF mix_columns
<1>10. inv_mix_columns(s) = [i \in 0..3 |-> [j \in 0..3 |-> coef_mult(Coefficients(14, 9, 13, 11), column(j))[i]]]
  BY <1>2, Zenon DEF inv_mix_columns
<1>11. ASSUME NEW i \in 0..3
       PROVE  [j \in 0..3 |-> coef_mult(Coefficients(2, 1, 1, 3), column(j))[i]]
                = [j \in 0..3 |->
                     Mixed(s[i][j], s[(i + 1) % 4][j], s[(i + 2) % 4][j], s[(i + 3) % 4][j])]
  BY <1>7, Zenon
<1>12. ASSUME NEW i \in 0..3
       PROVE  [j \in 0..3 |-> coef_mult(Coefficients(14, 9, 13, 11), column(j))[i]]
                = [j \in 0..3 |->
                     Unmixed(s[i][j], s[(i + 1) % 4][j], s[(i + 2) % 4][j], s[(i + 3) % 4][j])]
  BY <1>8, Zenon
<1>13. mix_columns(s) = [i \in 0..3 |-> [j \in 0..3 |->
                   Mixed(s[i][j], s[(i + 1) % 4][j], s[(i + 2) % 4][j], s[(i + 3) % 4][j])]]
  BY <1>9, <1>11, Zenon
<1>14. inv_mix_columns(s) = [i \in 0..3 |-> [j \in 0..3 |->
                   Unmixed(s[i][j], s[(i + 1) % 4][j], s[(i + 2) % 4][j], s[(i + 3) % 4][j])]]
  BY <1>10, <1>12, Zenon
<1>. QED  BY <1>13, <1>14, Zenon

-----------------------------------------------------------------------------
(* aes.c: the substitution, the rows and the steps of a round.             *)

\* An entry of a table.
LEMMA EntryTyped ==
  ASSUME NEW T, NEW l, NEW t, t \in Seq(T), Len(t) = l, NEW k \in 1..l
  PROVE  t[k] \in T
BY ElementOfSeq, Zenon

\* The tables of the substitution have bytes, and are inverse of each other.
LEMMA TablesInverse ==
  ASSUME NEW x \in Byte
  PROVE  Sub(x) \in Byte /\ InvSub(x) \in Byte /\ InvSub(Sub(x)) = x
<1>1. \A n \in 1..16 : inv_s_box[s_box[n] + 1] = n - 1
  BY SMTT(60) DEF s_box, inv_s_box
<1>2. \A n \in 17..32 : inv_s_box[s_box[n] + 1] = n - 1
  BY SMTT(60) DEF s_box, inv_s_box
<1>3. \A n \in 33..48 : inv_s_box[s_box[n] + 1] = n - 1
  BY SMTT(60) DEF s_box, inv_s_box
<1>4. \A n \in 49..64 : inv_s_box[s_box[n] + 1] = n - 1
  BY SMTT(60) DEF s_box, inv_s_box
<1>5. \A n \in 65..80 : inv_s_box[s_box[n] + 1] = n - 1
  BY SMTT(60) DEF s_box, inv_s_box
<1>6. \A n \in 81..96 : inv_s_box[s_box[n] + 1] = n - 1
  BY SMTT(60) DEF s_box, inv_s_box
<1>7. \A n \in 97..112 : inv_s_box[s_box[n] + 1] = n - 1
  BY SMTT(60) DEF s_box, inv_s_box
<1>8. \A n \in 113..128 : inv_s_box[s_box[n] + 1] = n - 1
  BY SMTT(60) DEF s_box, inv_s_box
<1>9. \A n \in 129..144 : inv_s_box[s_box[n] + 1] = n - 1
  BY SMTT(60) DEF s_box, inv_s_box
<1>10. \A n \in 145..160 : inv_s_box[s_box[n] + 1] = n - 1
  BY SMTT(60) DEF s_box, inv_s_box
<1>11. \A n \in 161..176 : inv_s_box[s_box[n] + 1] = n - 1
  BY SMTT(60) DEF s_box, inv_s_box
<1>12. \A n \in 177..192 : inv_s_box[s_box[n] + 1] = n - 1
  BY SMTT(60) DEF s_box, inv_s_box
<1>13. \A n \in 193..208 : inv_s_box[s_box[n] + 1] = n - 1
  BY SMTT(60) DEF s_box, inv_s_box
<1>14. \A n \in 209..224 : inv_s_box[s_box[n] + 1] = n - 1
  BY SMTT(60) DEF s_box, inv_s_box
<1>15. \A n \in 225..240 : inv_s_box[s_box[n] + 1] = n - 1
  BY SMTT(60) DEF s_box, inv_s_box
<1>16. \A n \in 241..256 : inv_s_box[s_box[n] + 1] = n - 1
  BY SMTT(60) DEF s_box, inv_s_box
<1>17. PICK T, l : T = 0..255 /\ l = 256
  BY Zenon
<1>18. s_box \in Seq(T) /\ Len(s_box) = l
  BY <1>17, SMTT(60) DEF s_box
<1>19. inv_s_box \in Seq(T) /\ Len(inv_s_box) = l
  BY <1>17, SMTT(60) DEF inv_s_box
<1>20. PICK n \in 1..256 : n = x + 1
  BY DEF Byte
<1>21. \/ n \in 1..16
       \/ n \in 17..32
       \/ n \in 33..48
       \/ n \in 49..64
       \/ n \in 65..80
       \/ n \in 81..96
       \/ n \in 97..112
       \/ n \in 113..128
       \/ n \in 129..144
       \/ n \in 145..160
       \/ n \in 161..176
       \/ n \in 177..192
       \/ n \in 193..208
       \/ n \in 209..224
       \/ n \in 225..240
       \/ n \in 241..256
  OBVIOUS
<1>22. inv_s_box[s_box[n] + 1] = n - 1
  BY <1>21, <1>1, <1>2, <1>3, <1>4, <1>5, <1>6, <1>7, <1>8, <1>9, <1>10, <1>11, <1>12, <1>13, <1>14, <1>15, <1>16
<1>23. s_box[n] \in 0..255 /\ inv_s_box[n] \in 0..255
  <2>1. n \in 1..l
    BY <1>17, SMT
  <2>2. s_box[n] \in T
    BY <1>18, <2>1, EntryTyped, Zenon
  <2>3. inv_s_box[n] \in T
    BY <1>19, <2>1, EntryTyped, Zenon
  <2>. QED  BY <1>17, <2>2, <2>3, SMT
<1>. QED  BY <1>20, <1>22, <1>23 DEF Sub, InvSub, Byte

\* Each step of a round turns a state into a state.
LEMMA TransformsTyped ==
  ASSUME NEW s \in State
  PROVE  /\ sub_bytes(s) \in State /\ inv_sub_bytes(s) \in State
         /\ shift_rows(s) \in State /\ inv_shift_rows(s) \in State
         /\ mix_columns(s) \in State /\ inv_mix_columns(s) \in State
<1>1. \A i, j \in 0..3 : s[i][j] \in Byte
  BY MatrixEntries
<1>2. \A i, j \in 0..3 : Sub(s[i][j]) \in Byte /\ InvSub(s[i][j]) \in Byte
  BY <1>1, TablesInverse
<1>3. sub_bytes(s) \in State /\ inv_sub_bytes(s) \in State
  BY <1>2, MatrixEntries DEF State
<1>4. \A i, j \in 0..3 : (j + i) % 4 \in 0..3 /\ (j - i) % 4 \in 0..3
  OBVIOUS
<1>5. shift_rows(s) \in State /\ inv_shift_rows(s) \in State
  BY <1>1, <1>4, MatrixEntries DEF State
<1>6. ASSUME NEW i \in 0..3, NEW j \in 0..3
      PROVE  /\ Mixed(s[i][j], s[(i + 1) % 4][j], s[(i + 2) % 4][j], s[(i + 3) % 4][j]) \in Byte
             /\ Unmixed(s[i][j], s[(i + 1) % 4][j], s[(i + 2) % 4][j], s[(i + 3) % 4][j]) \in Byte
  <2>1. (i + 1) % 4 \in 0..3 /\ (i + 2) % 4 \in 0..3 /\ (i + 3) % 4 \in 0..3
    OBVIOUS
  <2>2. s[i][j] \in Byte /\ s[(i + 1) % 4][j] \in Byte /\ s[(i + 2) % 4][j] \in Byte
        /\ s[(i + 3) % 4][j] \in Byte
    BY <1>1, <2>1
  <2>. QED  BY <2>2, MixedTyped
<1>7. mix_columns(s) \in State /\ inv_mix_columns(s) \in State
  <2> DEFINE mixed(i, j) == Mixed(s[i][j], s[(i + 1) % 4][j], s[(i + 2) % 4][j], s[(i + 3) % 4][j])
             unmixed(i, j) == Unmixed(s[i][j], s[(i + 1) % 4][j], s[(i + 2) % 4][j], s[(i + 3) % 4][j])
  <2>1. \A i, j \in 0..3 : mixed(i, j) \in Byte /\ unmixed(i, j) \in Byte
    BY <1>6, Zenon
  <2>2. /\ mix_columns(s) = [i \in 0..3 |-> [j \in 0..3 |-> mixed(i, j)]]
        /\ inv_mix_columns(s) = [i \in 0..3 |-> [j \in 0..3 |-> unmixed(i, j)]]
    BY MixEntries
  <2> HIDE DEF mixed, unmixed
  <2>. QED  BY <2>1, <2>2 DEF State
<1>. QED  BY <1>3, <1>5, <1>7

\* inv_mix_columns undoes mix_columns.
LEMMA MixUndone ==
  ASSUME NEW s \in State
  PROVE  inv_mix_columns(mix_columns(s)) = s
<1>1. PICK t \in State : t = mix_columns(s)
  BY TransformsTyped
<1>2. \A i, j \in 0..3 : s[i][j] \in Byte
  BY MatrixEntries
<1>3. \A i, j \in 0..3 :
        t[i][j] = Mixed(s[i][j], s[(i + 1) % 4][j], s[(i + 2) % 4][j], s[(i + 3) % 4][j])
  BY <1>1, MixEntries
<1>4. ASSUME NEW i \in 0..3, NEW j \in 0..3
      PROVE  Unmixed(t[i][j], t[(i + 1) % 4][j], t[(i + 2) % 4][j], t[(i + 3) % 4][j]) = s[i][j]
  <2>1. PICK i1, i2, i3 \in 0..3 : i1 = (i + 1) % 4 /\ i2 = (i + 2) % 4 /\ i3 = (i + 3) % 4
    OBVIOUS
  <2>2. /\ (i1 + 1) % 4 = i2 /\ (i1 + 2) % 4 = i3 /\ (i1 + 3) % 4 = i
        /\ (i2 + 1) % 4 = i3 /\ (i2 + 2) % 4 = i /\ (i2 + 3) % 4 = i1
        /\ (i3 + 1) % 4 = i /\ (i3 + 2) % 4 = i1 /\ (i3 + 3) % 4 = i2
    BY <2>1
  <2>3. PICK p, q, u, v \in Byte : p = s[i][j] /\ q = s[i1][j] /\ u = s[i2][j] /\ v = s[i3][j]
    BY <1>2
  <2>4. /\ t[i][j] = Mixed(p, q, u, v) /\ t[i1][j] = Mixed(q, u, v, p)
        /\ t[i2][j] = Mixed(u, v, p, q) /\ t[i3][j] = Mixed(v, p, q, u)
    BY <1>3, <2>1, <2>2, <2>3
  <2>5. Unmixed(Mixed(p, q, u, v), Mixed(q, u, v, p), Mixed(u, v, p, q), Mixed(v, p, q, u)) = p
    BY ColumnUndone
  <2>. QED  BY <2>1, <2>3, <2>4, <2>5
<1>5. inv_mix_columns(t) = [i \in 0..3 |-> [j \in 0..3 |-> s[i][j]]]
  <2>1. ASSUME NEW i \in 0..3
        PROVE  [j \in 0..3 |-> Unmixed(t[i][j], t[(i + 1) % 4][j], t[(i + 2) % 4][j], t[(i + 3) % 4][j])]
                 = [j \in 0..3 |-> s[i][j]]
    BY <1>4, Zenon
  <2>. QED  BY <2>1, MixEntries, Zenon
<1>6. s = [i \in 0..3 |-> [j \in 0..3 |-> s[i][j]]]
  BY DEF State
<1>. QED  BY <1>1, <1>5, <1>6

\* The inverse substitution and shift undo the substitution and the shift.
LEMMA SubShiftUndone ==
  ASSUME NEW s \in State
  PROVE  inv_sub_bytes(inv_shift_rows(shift_rows(sub_bytes(s)))) = s
<1>1. PICK a \in State : a = sub_bytes(s)
  BY TransformsTyped
<1>2. PICK b \in State : b = shift_rows(a)
  BY TransformsTyped
<1>3. PICK c \in State : c = inv_shift_rows(b)
  BY TransformsTyped
<1>4. \A i, j \in 0..3 : s[i][j] \in Byte /\ a[i][j] = Sub(s[i][j])
  BY <1>1, MatrixEntries
<1>9. \A i, j \in 0..3 : c[i][j] = b[i][(j - i) % 4]
  <2>1. c = [i \in 0..3 |-> [j \in 0..3 |-> b[i][(j - i) % 4]]]
    BY <1>3, MatrixEntries, Zenon
  <2>. QED  BY <2>1, Zenon
<1>10. \A i, j \in 0..3 : b[i][j] = a[i][(j + i) % 4]
  BY <1>2, MatrixEntries
<1>5. ASSUME NEW i \in 0..3, NEW j \in 0..3 PROVE c[i][j] = a[i][j]
  <2>1. PICK k \in 0..3 : k = (j - i) % 4 /\ (k + i) % 4 = j
    OBVIOUS
  <2>2. c[i][j] = b[i][k]
    BY <1>9, <2>1
  <2>3. b[i][k] = a[i][j]
    BY <1>10, <2>1
  <2>. QED  BY <2>2, <2>3
<1>6. \A i, j \in 0..3 : InvSub(c[i][j]) = s[i][j]
  BY <1>4, <1>5, TablesInverse
<1>7. inv_sub_bytes(c) = [i \in 0..3 |-> [j \in 0..3 |-> s[i][j]]]
  <2>1. ASSUME NEW i \in 0..3 PROVE [j \in 0..3 |-> InvSub(c[i][j])] = [j \in 0..3 |-> s[i][j]]
    BY <1>6, Zenon
  <2>. QED  BY <2>1, MatrixEntries, ZenonT(60)
<1>8. s = [i \in 0..3 |-> [j \in 0..3 |-> s[i][j]]]
  BY DEF State
<1>. QED  BY <1>1, <1>2, <1>3, <1>7, <1>8

\* Loading and storing a block.
LEMMA LoadedStored ==
  /\ \A b \in [1..16 -> Byte] : Loaded(b) \in State /\ Stored(Loaded(b)) = b
  /\ \A s \in State : Stored(s) \in [1..16 -> Byte] /\ Loaded(Stored(s)) = s
<1>1. \A b : Loaded(b) = [i \in 0..3 |-> [j \in 0..3 |-> b[i + 4 * j + 1]]]
  <2>1. \A b : Loaded(b) = [i \in 0..3 |-> [j \in 0..Nb - 1 |-> b[i + 4 * j + 1]]]
    BY Zenon DEF Loaded, Matrix
  <2>2. Nb - 1 = 3
    BY DEF Nb
  <2>. QED  BY <2>1, <2>2, Zenon
<1>2. \A i, j \in 0..3 : i + 4 * j + 1 \in 1..16 /\ (i + 4 * j + 1 - 1) % 4 = i
                         /\ (i + 4 * j + 1 - 1) \div 4 = j
  OBVIOUS
<1>3. \A n \in 1..16 : (n - 1) % 4 \in 0..3 /\ (n - 1) \div 4 \in 0..3
                      /\ ((n - 1) % 4) + 4 * ((n - 1) \div 4) + 1 = n
  OBVIOUS
<1>4. ASSUME NEW b \in [1..16 -> Byte] PROVE Loaded(b) \in State /\ Stored(Loaded(b)) = b
  <2>1. PICK s : s = Loaded(b)
    OBVIOUS
  <2>2. s = [i \in 0..3 |-> [j \in 0..3 |-> b[i + 4 * j + 1]]]
    BY <1>1, <2>1
  <2>3. \A i, j \in 0..3 : b[i + 4 * j + 1] \in Byte
    BY <1>2
  <2>4. s \in State
    BY <2>2, <2>3 DEF State
  <2>5. \A i, j \in 0..3 : s[i][j] = b[i + 4 * j + 1]
    BY <2>2
  <2>6. \A n \in 1..16 : s[(n - 1) % 4][(n - 1) \div 4] = b[n]
    BY <1>3, <2>5
  <2>7. Stored(s) = [n \in 1..16 |-> b[n]]
    BY <2>6, Zenon DEF Stored
  <2>. QED  BY <2>1, <2>4, <2>7
<1>5. ASSUME NEW s \in State PROVE Stored(s) \in [1..16 -> Byte] /\ Loaded(Stored(s)) = s
  <2>1. PICK b : b = Stored(s)
    OBVIOUS
  <2>2. \A i, j \in 0..3 : s[i][j] \in Byte
    BY MatrixEntries
  <2>3. b = [n \in 1..16 |-> s[(n - 1) % 4][(n - 1) \div 4]]
    BY <2>1, Zenon DEF Stored
  <2>4. \A n \in 1..16 : s[(n - 1) % 4][(n - 1) \div 4] \in Byte
    BY <1>3, <2>2
  <2>5. b \in [1..16 -> Byte]
    BY <2>3, <2>4
  <2>6. \A n \in 1..16 : b[n] = s[(n - 1) % 4][(n - 1) \div 4]
    BY <2>3
  <2>7. ASSUME NEW i \in 0..3, NEW j \in 0..3 PROVE b[i + 4 * j + 1] = s[i][j]
    BY <1>2, <2>6
  <2>8. [i \in 0..3 |-> [j \in 0..3 |-> b[i + 4 * j + 1]]] = [i \in 0..3 |-> [j \in 0..3 |-> s[i][j]]]
    <3>1. ASSUME NEW i \in 0..3 PROVE [j \in 0..3 |-> b[i + 4 * j + 1]] = [j \in 0..3 |-> s[i][j]]
      BY <2>7, Zenon
    <3>. QED  BY <3>1, Zenon
  <2>9. s = [i \in 0..3 |-> [j \in 0..3 |-> s[i][j]]]
    BY DEF State
  <2>. QED  BY <1>1, <2>1, <2>5, <2>8, <2>9
<1>. QED  BY <1>4, <1>5

\* The sizes aes_init sets: Nr is Nk + 6.
LEMMA RoundsBounds ==
  /\ Nb = 4 /\ Nk \in {4, 6, 8} /\ Nr \in {10, 12, 14} /\ Nr = Nk + 6
BY DEF Nb, Nk, Nr

AesWord == [0..3 -> Byte]

\* The first n words of a schedule are words.
ScheduleTyped(schedule, n) == \A m \in 0..n - 1 : schedule[m] \in AesWord

AddKey(schedule, s, n) == [i \in 0..3 |-> [j \in 0..3 |-> Xor(s[i][j], schedule[4 * n + j][i])]]

\* add_round_key uses the schedule in w.
LEMMA AddRoundKey ==
  ASSUME NEW s, NEW n
  PROVE  add_round_key(s, n) = AddKey(w, s, n)
<1>1. add_round_key(s, n) = [i \in 0..3 |-> [j \in 0..Nb - 1 |-> Xor(s[i][j], w[Nb * n + j][i])]]
  BY Zenon DEF add_round_key, Matrix
<1>2. Nb = 4 /\ Nb - 1 = 3
  BY RoundsBounds
<1>. QED  BY <1>1, <1>2, Zenon DEF AddKey

\* Adding the same words twice changes nothing.
LEMMA KeyAdded ==
  ASSUME NEW v, NEW s \in State, NEW n \in Nat, ScheduleTyped(v, 4 * (n + 1))
  PROVE  AddKey(v, s, n) \in State /\ AddKey(v, AddKey(v, s, n), n) = s
<1>1. ASSUME NEW i \in 0..3, NEW j \in 0..3 PROVE v[4 * n + j][i] \in Byte
  <2>1. 4 * n + j \in 0..4 * (n + 1) - 1
    OBVIOUS
  <2>. QED  BY <2>1 DEF ScheduleTyped, AesWord
<1>2. \A i, j \in 0..3 : s[i][j] \in Byte
  BY MatrixEntries
<1>3. ASSUME NEW i \in 0..3, NEW j \in 0..3
      PROVE  /\ Xor(s[i][j], v[4 * n + j][i]) \in Byte
             /\ Xor(Xor(s[i][j], v[4 * n + j][i]), v[4 * n + j][i]) = s[i][j]
  <2>1. PICK x, y \in Byte : x = s[i][j] /\ y = v[4 * n + j][i]
    BY <1>1, <1>2
  <2>2. Xor(x, y) \in Byte /\ Xor(Xor(x, y), y) = x
    BY XorOn, XorCancels
  <2>. QED  BY <2>1, <2>2
<1>4. PICK t : t = AddKey(v, s, n)
  OBVIOUS
<1>5. t = [i \in 0..3 |-> [j \in 0..3 |-> Xor(s[i][j], v[4 * n + j][i])]]
  BY <1>4, Zenon DEF AddKey
<1>6. t \in State
  BY <1>3, <1>5 DEF State
<1>7. \A i, j \in 0..3 : t[i][j] = Xor(s[i][j], v[4 * n + j][i])
  BY <1>5
<1>8. \A i, j \in 0..3 : Xor(t[i][j], v[4 * n + j][i]) = s[i][j]
  BY <1>3, <1>7
<1>9. AddKey(v, t, n) = [i \in 0..3 |-> [j \in 0..3 |-> s[i][j]]]
  <2>1. ASSUME NEW i \in 0..3
        PROVE  [j \in 0..3 |-> Xor(t[i][j], v[4 * n + j][i])] = [j \in 0..3 |-> s[i][j]]
    BY <1>8, Zenon
  <2>2. AddKey(v, t, n) = [i \in 0..3 |-> [j \in 0..3 |-> Xor(t[i][j], v[4 * n + j][i])]]
    BY Zenon DEF AddKey
  <2>. QED  BY <2>1, <2>2, Zenon
<1>10. s = [i \in 0..3 |-> [j \in 0..3 |-> s[i][j]]]
  BY DEF State
<1>. QED  BY <1>4, <1>6, <1>9, <1>10

\* gmult by two is a byte.
LEMMA DoubledTyped ==
  ASSUME NEW v \in Byte
  PROVE  gmult(v, 2) \in Byte
<1>1. PICK d \in Byte : d = Double(v)
  BY DoubleBits
<1>2. PICK e \in Byte : e = Double(d)
  BY DoubleBits
<1>3. PICK f \in Byte : f = Double(e)
  BY DoubleBits
<1>. QED  BY <1>1, <1>2, <1>3, gmultValues

\* The recursive function of Rcon.
IsRcon(R, i) == R = [n \in 1..i |-> IF n = 1 THEN 1 ELSE gmult(R[n - 1], 2)]

\* A round constant is a word.
LEMMA RconTyped ==
  ASSUME NEW i \in Nat \ {0}
  PROVE  Rcon(i) \in AesWord
<1> DEFINE F == [m \in 1..i - 1 |-> [v \in Byte |-> gmult(v, 2)]]
<1>1. \A m \in 1..i - 1 : \A v \in Byte : F[m][v] = gmult(v, 2) /\ F[m][v] \in Byte
  BY DoubledTyped
<1>2. F \in [1..i - 1 -> [Byte -> Byte]]
  BY DoubledTyped
<1> HIDE DEF F
<1>3. 1 \in Byte /\ i - 1 \in Nat
  BY DEF Byte
<1>4. PICK f \in [0..i - 1 -> Byte] : f[0] = 1 /\ \A m \in 1..i - 1 : f[m] = F[m][f[m - 1]]
  <2>1. \A n \in Nat : \A H \in [1..n -> [Byte -> Byte]] :
          \E f \in [0..n -> Byte] : f[0] = 1 /\ \A m \in 1..n : f[m] = H[m][f[m - 1]]
    BY <1>3, RecursionExists
  <2>. QED  BY <1>2, <1>3, <2>1, Zenon
<1> DEFINE g == [n \in 1..i |-> f[n - 1]]
<1>5. ASSUME NEW n \in 1..i PROVE g[n] = IF n = 1 THEN 1 ELSE gmult(g[n - 1], 2)
  <2>1. CASE n = 1
    BY <1>4, <2>1
  <2>2. CASE n # 1
    <3>1. n - 1 \in 1..i - 1 /\ n - 1 \in 1..i /\ n - 1 - 1 \in 0..i - 1 /\ n - 1 \in 0..i - 1
      BY <2>2
    <3>2. g[n] = f[n - 1] /\ g[n - 1] = f[n - 1 - 1]
      BY <3>1
    <3>3. f[n - 1] = gmult(f[n - 1 - 1], 2)
      BY <1>1, <1>4, <3>1
    <3>. QED  BY <2>2, <3>2, <3>3
  <2>. QED  BY <2>1, <2>2
<1>6. g = [n \in 1..i |-> g[n]]
  OBVIOUS
<1> HIDE DEF g
<1>7. IsRcon(g, i)
  BY <1>5, <1>6, Zenon DEF IsRcon
<1>8. PICK R : R = (CHOOSE q : IsRcon(q, i)) /\ IsRcon(R, i)
  BY <1>7, Zenon
<1>9. Rcon(i) = [k \in 0..3 |-> IF k = 0 THEN R[i] ELSE 0]
  BY <1>8, Zenon DEF Rcon, IsRcon
<1>10. \A n \in 1..i : R[n] = IF n = 1 THEN 1 ELSE gmult(R[n - 1], 2)
  BY <1>8 DEF IsRcon
<1> DEFINE G == {m \in Nat : m + 1 \in 1..i => R[m + 1] \in Byte}
<1>11. 0 \in G
  BY <1>3, <1>10
<1>12. ASSUME NEW m \in Nat, m \in G PROVE m + 1 \in G
  <2>1. SUFFICES ASSUME m + 1 + 1 \in 1..i PROVE R[m + 1 + 1] \in Byte
    OBVIOUS
  <2>2. m + 1 \in 1..i /\ m + 1 + 1 # 1 /\ m + 1 + 1 - 1 = m + 1
    BY <2>1
  <2>3. R[m + 1] \in Byte
    BY <1>12, <2>2
  <2>4. R[m + 1 + 1] = gmult(R[m + 1], 2)
    BY <1>10, <2>1, <2>2
  <2>. QED  BY <2>3, <2>4, DoubledTyped
<1> HIDE DEF G
<1>13. i - 1 \in G
  BY <1>3, <1>11, <1>12, SetInduction
<1>14. R[i] \in Byte
  <2>1. i - 1 + 1 = i /\ i \in 1..i
    OBVIOUS
  <2>. QED  BY <1>13, <2>1 DEF G
<1>15. 0 \in Byte
  BY DEF Byte
<1>. QED  BY <1>9, <1>14, <1>15 DEF AesWord

\* The operations of key_expansion on words.
LEMMA WordsTyped ==
  ASSUME NEW u \in AesWord, NEW v \in AesWord
  PROVE  coef_add(u, v) \in AesWord /\ sub_word(u) \in AesWord /\ rot_word(u) \in AesWord
<1>1. \A k \in 0..3 : u[k] \in Byte /\ v[k] \in Byte /\ (k + 1) % 4 \in 0..3
  BY DEF AesWord
<1>2. ASSUME NEW k \in 0..3 PROVE Xor(u[k], v[k]) \in Byte /\ Sub(u[k]) \in Byte /\ u[(k + 1) % 4] \in Byte
  BY <1>1, XorOn, TablesInverse
<1>3. coef_add(u, v) \in AesWord
  BY <1>2 DEF coef_add, AesWord
<1>4. sub_word(u) \in AesWord
  BY <1>2 DEF sub_word, AesWord
<1>5. rot_word(u) \in AesWord
  BY <1>2 DEF rot_word, AesWord
<1>. QED  BY <1>3, <1>4, <1>5

KeyTyped == key \in Seq(Byte) /\ Len(key) >= 16

\* A turn of the expansion finds the words it reads, and makes a word.
LEMMA ScheduleWordTyped ==
  ASSUME KeyTyped, NEW i \in Nat, \A n \in 0..i - 1 : w[n] \in AesWord
  PROVE  ScheduleWord(i) \in AesWord
<1>1. Nk \in {4, 6, 8} /\ Nk \in Nat
  BY RoundsBounds
<1>2. 4 * Nk <= Len(key)
  <2>1. Len(key) \in Nat /\ Len(key) >= 16
    BY DEF KeyTyped
  <2>2. CASE Len(key) = 24
    BY <2>2 DEF Nk
  <2>3. CASE Len(key) = 32
    BY <2>3 DEF Nk
  <2>4. CASE Len(key) # 24 /\ Len(key) # 32
    <3>1. Nk = 4
      BY <2>4 DEF Nk
    <3>. QED  BY <2>1, <3>1
  <2>. QED  BY <2>2, <2>3, <2>4
<1>3. CASE i < Nk
  <2>1. \A k \in 0..3 : 4 * i + k + 1 \in 1..Len(key)
    BY <1>1, <1>2, <1>3 DEF KeyTyped
  <2>2. \A k \in 0..3 : key[4 * i + k + 1] \in Byte
    BY <2>1 DEF KeyTyped
  <2>3. ScheduleWord(i) = [k \in 0..3 |-> key[4 * i + k + 1]]
    BY <1>3, Zenon DEF ScheduleWord
  <2>. QED  BY <2>2, <2>3 DEF AesWord
<1>4. CASE ~(i < Nk)
  <2>1. i - 1 \in 0..i - 1 /\ i - Nk \in 0..i - 1
    BY <1>1, <1>4
  <2>2. PICK before \in AesWord : before = w[i - 1]
    BY <2>1
  <2>3. w[i - Nk] \in AesWord
    BY <2>1
  <2>4. i \div Nk \in Nat \ {0}
    <3>1. CASE Nk = 4
      BY <1>4, <3>1
    <3>2. CASE Nk = 6
      BY <1>4, <3>2
    <3>3. CASE Nk = 8
      BY <1>4, <3>3
    <3>. QED  BY <1>1, <3>1, <3>2, <3>3
  <2>5. PICK rc \in AesWord : rc = Rcon(i \div Nk)
    BY <2>4, RconTyped
  <2>6. PICK rw \in AesWord : rw = rot_word(before)
    BY WordsTyped
  <2>7. PICK sw \in AesWord : sw = sub_word(rw)
    BY WordsTyped
  <2>8. PICK sb \in AesWord : sb = sub_word(before)
    BY WordsTyped
  <2>9. PICK tmp : tmp = IF i % Nk = 0 THEN coef_add(sw, rc)
                         ELSE IF Nk > 6 /\ i % Nk = 4 THEN sb ELSE before
    OBVIOUS
  <2>10. tmp \in AesWord
    BY <2>9, WordsTyped
  <2>11. ScheduleWord(i) = coef_add(w[i - Nk], tmp)
    BY <1>4, <2>2, <2>5, <2>6, <2>7, <2>8, <2>9, Zenon DEF ScheduleWord
  <2>. QED  BY <2>3, <2>10, <2>11, WordsTyped
<1>. QED  BY <1>3, <1>4

-----------------------------------------------------------------------------
(* aes.c: the cipher, round by round.                                      *)

\* What the round n of cipher makes of s before the key is added, and the
\* states at the beginning of the rounds 1..n.
RoundOf(s) == mix_columns(shift_rows(sub_bytes(s)))

History(v, b, t, n) ==
  /\ t \in Seq(State) /\ Len(t) = n
  /\ t[1] = AddKey(v, Loaded(b), 0)
  /\ \A j \in 1..n - 1 : t[j + 1] = AddKey(v, RoundOf(t[j]), j)

\* What undoes the substitution and the rows, and the last round.
Undone(s) == inv_sub_bytes(inv_shift_rows(s))

LastRound(v, s, n) == AddKey(v, shift_rows(sub_bytes(s)), n)

\* The inductive invariant of aes.c.  While the key is expanded the schedule has
\* n words; cipher keeps the state of each round in trail, which is its history;
\* and inv_cipher, at the round r, stands where undoing the rows and the
\* substitution gives the state cipher began round r + 1 with.
AesInv ==
  /\ aespc \in {"idle", "expand", "cipher", "rounds", "inverse", "back", "end"}
  /\ aespc = "idle" => w = << >> /\ state = << >> /\ r = 0
  /\ aespc # "idle" => KeyTyped /\ block \in [1..16 -> Byte]
  /\ aespc = "expand" => state = << >> /\ r = 0
       /\ \E n \in Nat : n < 4 * (Nr + 1) /\ DOMAIN w = 0..n - 1 /\ ScheduleTyped(w, n)
  /\ aespc \notin {"idle", "expand"} =>
       DOMAIN w = 0..4 * (Nr + 1) - 1 /\ ScheduleTyped(w, 4 * (Nr + 1))
  /\ aespc = "cipher" => state = << >> /\ r = 0
  /\ aespc = "rounds" => r \in 1..Nr /\ History(w, block, trail, r) /\ state = trail[r]
  /\ aespc = "inverse" =>
       /\ r = Nr /\ History(w, block, trail, Nr) /\ state \in State
       /\ out = Stored(LastRound(w, trail[Nr], Nr))
  /\ aespc = "back" =>
       /\ r \in 0..Nr - 1 /\ History(w, block, trail, Nr) /\ state \in State
       /\ Undone(state) = trail[r + 1]
  /\ aespc = "end" => r = 0 /\ state \in State /\ Stored(state) = block

\* A schedule that has m words has every lesser number of them.
LEMMA ScheduleShorter ==
  ASSUME NEW v, NEW m \in Nat, NEW n \in Nat, n <= m, ScheduleTyped(v, m)
  PROVE  ScheduleTyped(v, n)
BY DEF ScheduleTyped

\* A round of cipher without the key, and the steps of inv_cipher that undo
\* it.
LEMMA RoundTyped ==
  ASSUME NEW s \in State
  PROVE  /\ RoundOf(s) \in State /\ shift_rows(sub_bytes(s)) \in State
         /\ Undone(s) \in State
         /\ Undone(shift_rows(sub_bytes(s))) = s
         /\ inv_mix_columns(RoundOf(s)) = shift_rows(sub_bytes(s))
<1>1. PICK a \in State : a = sub_bytes(s)
  BY TransformsTyped
<1>2. PICK b \in State : b = shift_rows(a)
  BY TransformsTyped
<1>3. PICK c \in State : c = inv_shift_rows(s)
  BY TransformsTyped
<1>4. mix_columns(b) \in State /\ inv_mix_columns(mix_columns(b)) = b /\ inv_sub_bytes(c) \in State
  BY TransformsTyped, MixUndone
<1>5. inv_sub_bytes(inv_shift_rows(shift_rows(sub_bytes(s)))) = s
  BY SubShiftUndone
<1>. QED  BY <1>1, <1>2, <1>3, <1>4, <1>5 DEF RoundOf, Undone

\* aes_init starts with a key of at least sixteen bytes.
LEMMA CallStep ==
  ASSUME AesInv, NEW k \in Seq(Byte), Len(k) >= 16, AesCall(k)
  PROVE  AesInv'
<1>1. aespc = "idle" /\ aespc' = "expand" /\ key' = k /\ block' \in Blocks
      /\ w' = w /\ state' = state /\ r' = r
  BY DEF AesCall
<1>2. w = << >> /\ state = << >> /\ r = 0
  BY <1>1 DEF AesInv
<1>3. block' \in [1..16 -> Byte]
  BY <1>1, AesAssumption
<1>4. KeyTyped'
  BY <1>1 DEF KeyTyped
<1>5. Nr' \in {10, 12, 14}
  BY DEF Nr, Nk
<1>6. 0 < 4 * (Nr' + 1) /\ DOMAIN w' = 0..0 - 1 /\ ScheduleTyped(w', 0)
  <2>1. DOMAIN << >> = 0..0 - 1
    OBVIOUS
  <2>2. DOMAIN w' = 0..0 - 1
    BY <1>1, <1>2, <2>1, Zenon
  <2>3. \A m \in 0..0 - 1 : FALSE
    OBVIOUS
  <2>4. ScheduleTyped(w', 0)
    BY <2>3, Zenon DEF ScheduleTyped
  <2>5. 0 < 4 * (Nr' + 1)
    <3>1. PICK n \in {10, 12, 14} : n = Nr'
      BY <1>5
    <3>2. 0 < 4 * (n + 1)
      OBVIOUS
    <3>. QED  BY <3>1, <3>2
  <2>. QED  BY <2>2, <2>4, <2>5
<1>7. \E n \in Nat : n < 4 * (Nr' + 1) /\ DOMAIN w' = 0..n - 1 /\ ScheduleTyped(w', n)
  BY <1>6
<1>. QED  BY <1>1, <1>2, <1>3, <1>4, <1>7 DEF AesInv

\* key_expansion adds a word to the schedule.
LEMMA ExpandStep ==
  ASSUME AesInv, ExpandKey
  PROVE  AesInv'
<1>1. aespc = "expand" /\ key' = key /\ block' = block /\ state' = state /\ r' = r
  BY DEF ExpandKey
<1>2. KeyTyped /\ block \in [1..16 -> Byte] /\ state = << >> /\ r = 0
  BY <1>1 DEF AesInv
<1>3. PICK n \in Nat : n < 4 * (Nr + 1) /\ DOMAIN w = 0..n - 1 /\ ScheduleTyped(w, n)
  BY <1>1 DEF AesInv
<1>4. Cardinality(DOMAIN w) = n
  BY <1>3, FS_Interval
<1>5. Nr' = Nr /\ KeyTyped' /\ Nr \in Nat
  BY <1>1, <1>2, RoundsBounds DEF Nr, Nk, KeyTyped
<1>6. /\ w' = [m \in 0..n |-> IF m < n THEN w[m] ELSE ScheduleWord(n)]
      /\ aespc' = IF n + 1 = Nb * (Nr + 1) THEN "cipher" ELSE "expand"
  BY <1>4 DEF ExpandKey
<1>7. \A m \in 0..n - 1 : w[m] \in AesWord
  BY <1>3 DEF ScheduleTyped
<1>8. ScheduleWord(n) \in AesWord
  BY <1>2, <1>7, ScheduleWordTyped
<1>9. ScheduleTyped(w', n + 1) /\ DOMAIN w' = 0..(n + 1) - 1
  <2>1. ASSUME NEW m \in 0..n PROVE w'[m] \in AesWord
    <3>1. CASE m < n
      BY <1>6, <1>7, <3>1
    <3>2. CASE ~(m < n)
      BY <1>6, <1>8, <3>2
    <3>. QED  BY <3>1, <3>2
  <2>2. (n + 1) - 1 = n
    OBVIOUS
  <2>. QED  BY <1>6, <2>1, <2>2 DEF ScheduleTyped
<1>10. Nb * (Nr + 1) = 4 * (Nr + 1)
  BY DEF Nb
<1>11. CASE n + 1 = 4 * (Nr + 1)
  BY <1>1, <1>2, <1>5, <1>6, <1>9, <1>10, <1>11 DEF AesInv
<1>12. CASE n + 1 # 4 * (Nr + 1)
  <2>1. n + 1 \in Nat /\ n + 1 < 4 * (Nr + 1)
    BY <1>3, <1>5, <1>12
  <2>2. \E m \in Nat : m < 4 * (Nr' + 1) /\ DOMAIN w' = 0..m - 1 /\ ScheduleTyped(w', m)
    BY <1>5, <1>9, <2>1
  <2>3. aespc' = "expand"
    BY <1>6, <1>10, <1>12
  <2>. QED  BY <1>1, <1>2, <1>5, <2>2, <2>3 DEF AesInv
<1>. QED  BY <1>11, <1>12

\* cipher adds the first round key.
LEMMA BeginStep ==
  ASSUME AesInv, CipherBegins
  PROVE  AesInv'
<1>1. /\ aespc = "cipher" /\ aespc' = "rounds" /\ key' = key /\ block' = block /\ w' = w
      /\ r' = 1 /\ state' = add_round_key(Loaded(block), 0) /\ trail' = <<state'>>
  BY DEF CipherBegins
<1>2. KeyTyped /\ block \in [1..16 -> Byte] /\ DOMAIN w = 0..4 * (Nr + 1) - 1
      /\ ScheduleTyped(w, 4 * (Nr + 1))
  BY <1>1 DEF AesInv
<1>3. Nr' = Nr /\ KeyTyped' /\ Nr \in 10..14
  BY <1>1, <1>2, RoundsBounds DEF Nr, Nk, KeyTyped
<1>4. state' = AddKey(w, Loaded(block), 0)
  BY <1>1, AddRoundKey
<1>5. Loaded(block) \in State
  BY <1>2, LoadedStored
<1>6. ScheduleTyped(w, 4 * (0 + 1))
  BY <1>2, <1>3, ScheduleShorter
<1>7. state' \in State
  BY <1>4, <1>5, <1>6, KeyAdded
<1>8. History(w', block', trail', 1) /\ state' = trail'[1]
  <2>1. trail' \in Seq(State) /\ Len(trail') = 1 /\ trail'[1] = state'
    BY <1>1, <1>7
  <2>. QED  BY <1>1, <1>4, <2>1 DEF History
<1>. QED  BY <1>1, <1>2, <1>3, <1>8 DEF AesInv

\* A round of cipher: the state before its key is added is the new entry of
\* the history.
LEMMA RoundStep ==
  ASSUME AesInv, CipherRound
  PROVE  AesInv'
<1>1. /\ aespc = "rounds" /\ aespc' = "rounds" /\ key' = key /\ block' = block /\ w' = w
      /\ r < Nr /\ r' = r + 1
      /\ state' = add_round_key(mix_columns(shift_rows(sub_bytes(state))), r)
      /\ trail' = Append(trail, state')
  BY DEF CipherRound
<1>2. /\ KeyTyped /\ block \in [1..16 -> Byte] /\ DOMAIN w = 0..4 * (Nr + 1) - 1
      /\ ScheduleTyped(w, 4 * (Nr + 1))
      /\ r \in 1..Nr /\ History(w, block, trail, r) /\ state = trail[r]
  BY <1>1 DEF AesInv
<1>3. Nr' = Nr /\ KeyTyped' /\ Nr \in 10..14
  BY <1>1, <1>2, RoundsBounds DEF Nr, Nk, KeyTyped
<1>4. state' = AddKey(w, RoundOf(state), r)
  BY <1>1, AddRoundKey DEF RoundOf
<1>5. trail \in Seq(State) /\ Len(trail) = r /\ state \in State
  BY <1>2, <1>3 DEF History
<1>6. RoundOf(state) \in State
  BY <1>5, RoundTyped
<1>7. ScheduleTyped(w, 4 * (r + 1))
  BY <1>1, <1>2, <1>3, ScheduleShorter, SMTT(30)
<1>8. state' \in State
  BY <1>2, <1>4, <1>6, <1>7, KeyAdded
<1>9. trail' \in Seq(State) /\ Len(trail') = r + 1 /\ trail'[r + 1] = state'
      /\ \A j \in 1..r : trail'[j] = trail[j]
  BY <1>1, <1>5, <1>8
<1>10. ASSUME NEW j \in 1..(r + 1) - 1 PROVE trail'[j + 1] = AddKey(w', RoundOf(trail'[j]), j)
  <2>1. CASE j = r
    <3>1. trail'[j] = state
      BY <1>2, <1>9, <2>1
    <3>. QED  BY <1>1, <1>4, <1>9, <2>1, <3>1
  <2>2. CASE j # r
    <3>1. j \in 1..r - 1 /\ j \in 1..r /\ j + 1 \in 1..r
      BY <1>2, <2>2
    <3>2. trail[j + 1] = AddKey(w, RoundOf(trail[j]), j)
      BY <1>2, <3>1 DEF History
    <3>. QED  BY <1>1, <1>9, <3>1, <3>2
  <2>. QED  BY <2>1, <2>2
<1>11. trail'[1] = AddKey(w', Loaded(block'), 0)
  BY <1>1, <1>2, <1>9 DEF History
<1>12. History(w', block', trail', r + 1)
  BY <1>9, <1>10, <1>11 DEF History
<1>13. r' \in 1..Nr
  BY <1>1, <1>2, <1>3
<1>. QED  BY <1>1, <1>2, <1>3, <1>9, <1>12, <1>13 DEF AesInv

\* The last round of cipher, which mixes no columns.
LEMMA EndStep ==
  ASSUME AesInv, CipherEnds
  PROVE  AesInv'
<1>1. /\ aespc = "rounds" /\ aespc' = "inverse" /\ key' = key /\ block' = block /\ w' = w
      /\ r = Nr /\ r' = r /\ trail' = trail
      /\ state' = add_round_key(shift_rows(sub_bytes(state)), Nr)
      /\ out' = Stored(state')
  BY DEF CipherEnds
<1>2. /\ KeyTyped /\ block \in [1..16 -> Byte] /\ DOMAIN w = 0..4 * (Nr + 1) - 1
      /\ ScheduleTyped(w, 4 * (Nr + 1))
      /\ History(w, block, trail, Nr) /\ state = trail[Nr]
  BY <1>1 DEF AesInv
<1>3. Nr' = Nr /\ KeyTyped' /\ Nr \in 10..14
  BY <1>1, <1>2, RoundsBounds DEF Nr, Nk, KeyTyped
<1>4. state' = LastRound(w, state, Nr)
  BY <1>1, AddRoundKey DEF LastRound
<1>5. state \in State
  BY <1>2, <1>3 DEF History
<1>6. shift_rows(sub_bytes(state)) \in State
  BY <1>5, RoundTyped
<1>7. state' \in State
  BY <1>2, <1>3, <1>4, <1>6, KeyAdded DEF LastRound
<1>. QED  BY <1>1, <1>2, <1>3, <1>4, <1>7 DEF AesInv

\* inv_cipher adds the last round key: that is the state cipher ended its
\* last round with.
LEMMA InverseBeginStep ==
  ASSUME AesInv, InverseBegins
  PROVE  AesInv'
<1>1. /\ aespc = "inverse" /\ aespc' = "back" /\ key' = key /\ block' = block /\ w' = w
      /\ r' = Nr - 1 /\ trail' = trail
      /\ state' = add_round_key(Loaded(out), Nr)
  BY DEF InverseBegins
<1>2. /\ KeyTyped /\ block \in [1..16 -> Byte] /\ DOMAIN w = 0..4 * (Nr + 1) - 1
      /\ ScheduleTyped(w, 4 * (Nr + 1))
      /\ History(w, block, trail, Nr) /\ out = Stored(LastRound(w, trail[Nr], Nr))
  BY <1>1 DEF AesInv
<1>3. Nr' = Nr /\ KeyTyped' /\ Nr \in 10..14
  BY <1>1, <1>2, RoundsBounds DEF Nr, Nk, KeyTyped
<1>4. PICK t \in State : t = trail[Nr]
  BY <1>2, <1>3 DEF History
<1>5. PICK s \in State : s = shift_rows(sub_bytes(t))
  BY RoundTyped
<1>6. AddKey(w, s, Nr) \in State /\ AddKey(w, AddKey(w, s, Nr), Nr) = s
  BY <1>2, <1>3, KeyAdded, SMTT(60)
<1>7. Loaded(out) = AddKey(w, s, Nr)
  BY <1>2, <1>4, <1>5, <1>6, LoadedStored DEF LastRound
<1>8. state' = s
  BY <1>1, <1>6, <1>7, AddRoundKey
<1>9. Undone(state') = trail'[Nr] /\ r' + 1 = Nr /\ r' \in 0..Nr - 1
  BY <1>1, <1>3, <1>4, <1>5, <1>8, RoundTyped
<1>. QED  BY <1>1, <1>2, <1>3, <1>8, <1>9 DEF AesInv

\* A round of inv_cipher undoes the round of cipher of the same key.
LEMMA InverseStep ==
  ASSUME AesInv, InverseRound
  PROVE  AesInv'
<1>1. /\ aespc = "back" /\ aespc' = "back" /\ key' = key /\ block' = block /\ w' = w
      /\ r >= 1 /\ r' = r - 1 /\ trail' = trail
      /\ state' = inv_mix_columns(add_round_key(inv_sub_bytes(inv_shift_rows(state)), r))
  BY DEF InverseRound
<1>2. /\ KeyTyped /\ block \in [1..16 -> Byte] /\ DOMAIN w = 0..4 * (Nr + 1) - 1
      /\ ScheduleTyped(w, 4 * (Nr + 1)) /\ r \in 0..Nr - 1
      /\ History(w, block, trail, Nr) /\ Undone(state) = trail[r + 1]
  BY <1>1 DEF AesInv
<1>3. Nr' = Nr /\ KeyTyped' /\ Nr \in 10..14
  BY <1>1, <1>2, RoundsBounds DEF Nr, Nk, KeyTyped
<1>4. PICK t \in State : t = trail[r]
  BY <1>1, <1>2, <1>3, SMTT(30) DEF History
<1>5. Undone(state) = AddKey(w, RoundOf(t), r)
  <2>1. r \in 1..Nr - 1
    BY <1>1, <1>2
  <2>. QED  BY <1>2, <1>4, <2>1 DEF History
<1>6. RoundOf(t) \in State /\ inv_mix_columns(RoundOf(t)) = shift_rows(sub_bytes(t))
      /\ shift_rows(sub_bytes(t)) \in State /\ Undone(shift_rows(sub_bytes(t))) = t
  BY RoundTyped
<1>7. ScheduleTyped(w, 4 * (r + 1)) /\ r \in Nat
  BY <1>2, <1>3, ScheduleShorter
<1>8. AddKey(w, AddKey(w, RoundOf(t), r), r) = RoundOf(t)
  BY <1>6, <1>7, KeyAdded
<1>9. state' = inv_mix_columns(AddKey(w, Undone(state), r))
  BY <1>1, AddRoundKey DEF Undone
<1>10. state' = shift_rows(sub_bytes(t))
  BY <1>5, <1>6, <1>8, <1>9
<1>11. Undone(state') = trail'[r' + 1] /\ r' \in 0..Nr - 1 /\ state' \in State
  <2>1. r' + 1 = r /\ r' \in 0..Nr - 1
    BY <1>1, <1>2, <1>3
  <2>. QED  BY <1>1, <1>4, <1>6, <1>10, <2>1
<1>. QED  BY <1>1, <1>2, <1>3, <1>11 DEF AesInv

\* The last round of inv_cipher gives the block back.
LEMMA InverseEndStep ==
  ASSUME AesInv, InverseEnds
  PROVE  AesInv'
<1>1. /\ aespc = "back" /\ aespc' = "end" /\ key' = key /\ block' = block /\ w' = w
      /\ r = 0 /\ r' = r
      /\ state' = add_round_key(inv_sub_bytes(inv_shift_rows(state)), 0)
  BY DEF InverseEnds
<1>2. /\ KeyTyped /\ block \in [1..16 -> Byte] /\ DOMAIN w = 0..4 * (Nr + 1) - 1
      /\ ScheduleTyped(w, 4 * (Nr + 1))
      /\ History(w, block, trail, Nr) /\ Undone(state) = trail[0 + 1]
  BY <1>1 DEF AesInv
<1>3. Nr' = Nr /\ KeyTyped' /\ Nr \in 10..14
  BY <1>1, <1>2, RoundsBounds DEF Nr, Nk, KeyTyped
<1>4. ScheduleTyped(w, 4 * (0 + 1))
  BY <1>2, <1>3, ScheduleShorter
<1>5. PICK s \in State : s = Loaded(block) /\ Stored(s) = block
  BY <1>2, LoadedStored
<1>6. Undone(state) = AddKey(w, s, 0)
  BY <1>2, <1>5 DEF History
<1>7. state' = AddKey(w, Undone(state), 0)
  BY <1>1, AddRoundKey DEF Undone
<1>8. AddKey(w, AddKey(w, s, 0), 0) = s
  BY <1>4, KeyAdded
<1>9. state' \in State /\ Stored(state') = block'
  BY <1>1, <1>5, <1>6, <1>7, <1>8
<1>. QED  BY <1>1, <1>2, <1>3, <1>9 DEF AesInv

\* Every step of aes.c keeps AesInv.
LEMMA AesStep ==
  ASSUME AesInv, AesNext
  PROVE  AesInv'
BY ExpandStep, BeginStep, RoundStep, EndStep, InverseBeginStep, InverseStep, InverseEndStep
   DEF AesNext

\* A step that leaves aes.c alone keeps AesInv.
LEMMA AesStutter ==
  ASSUME AesInv, UNCHANGED aesVars
  PROVE  AesInv'
<1>1. /\ key' = key /\ block' = block /\ w' = w /\ state' = state /\ r' = r /\ trail' = trail
      /\ out' = out /\ aespc' = aespc
  BY DEF aesVars
<1>2. Nr' = Nr /\ (KeyTyped' <=> KeyTyped)
  BY <1>1 DEF Nr, Nk, KeyTyped
<1>. QED  BY <1>1, <1>2 DEF AesInv

\* What AesInv gives: the types, and inv_cipher undoing cipher.
LEMMA AesInvGives ==
  ASSUME AesInv
  PROVE  AesTypeOK /\ RoundsUndo
<1>1. Nr \in 10..14
  BY RoundsBounds
<1>2. aespc \in {"idle", "expand", "cipher", "rounds", "inverse", "back", "end"}
  BY DEF AesInv
<1>3. r \in 0..14
  BY <1>1, <1>2, SMTT(60) DEF AesInv
<1>4. \A n \in DOMAIN w : w[n] \in AesWord
  <2>1. CASE aespc = "idle"
    BY <2>1 DEF AesInv
  <2>2. CASE aespc = "expand"
    <3>1. PICK n \in Nat : DOMAIN w = 0..n - 1 /\ ScheduleTyped(w, n)
      BY <2>2 DEF AesInv
    <3>. QED  BY <3>1 DEF ScheduleTyped
  <2>3. CASE aespc \notin {"idle", "expand"}
    <3>1. DOMAIN w = 0..4 * (Nr + 1) - 1 /\ ScheduleTyped(w, 4 * (Nr + 1))
      BY <2>3 DEF AesInv
    <3>. QED  BY <3>1 DEF ScheduleTyped
  <2>. QED  BY <2>1, <2>2, <2>3
<1>5. state = << >> \/ state \in State
  <2>1. CASE aespc = "rounds"
    BY <1>1, <2>1, SMTT(60) DEF AesInv, History
  <2>2. CASE aespc # "rounds"
    BY <1>2, <2>2 DEF AesInv
  <2>. QED  BY <2>1, <2>2
<1>6. AesTypeOK
  BY <1>2, <1>3, <1>4, <1>5 DEF AesTypeOK, State, AesWord
<1>7. RoundsUndo
  BY DEF AesInv, RoundsUndo, Undone
<1>. QED  BY <1>6, <1>7

\* The bounds of the part i of parts of one length, and what precedes it.
LEMMA PartBounds ==
  ASSUME NEW m \in Nat, NEW n \in Nat, NEW i \in 1..n
  PROVE  m * (i - 1) \in Nat /\ m * (i - 1) + m <= m * n /\ m * (n + 1) = m * n + m
<1>1. PICK d \in Nat : n = (i - 1) + 1 + d
  <2>1. n - i \in Nat /\ n = (i - 1) + 1 + (n - i)
    OBVIOUS
  <2>. QED  BY <2>1
<1>2. PICK j \in Nat : j = i - 1
  OBVIOUS
<1>3. m * (j + 1 + d) = m * j + m + m * d /\ m * j \in Nat /\ m * d \in Nat
  OBVIOUS
<1>4. m * n = m * j + m + m * d
  BY <1>1, <1>2, <1>3
<1>5. m * (n + 1) = m * n + m
  OBVIOUS
<1>. QED  BY <1>2, <1>3, <1>4, <1>5

\* Parts of the same length, one after the other.
Uniform(m, s) == \A i \in 1..Len(s) : Len(s[i]) = m

FlatParts(A, m, s) ==
  /\ FlattenSeq(s) \in Seq(A) /\ Len(FlattenSeq(s)) = m * Len(s)
  /\ \A i \in 1..Len(s), k \in 1..m : FlattenSeq(s)[m * (i - 1) + k] = s[i][k]


\* The concatenation of parts of one length.
LEMMA FlattenUniform ==
  ASSUME NEW A, NEW m \in Nat \ {0}, NEW s \in Seq(Seq(A)), Uniform(m, s)
  PROVE  FlatParts(A, m, s)
<1>. USE DEF Uniform, FlatParts
<1>1. CASE s = << >>
  <2>1. Len(s) = 0 /\ FlattenSeq(s) = << >> /\ m * 0 = 0
    BY <1>1, FlattenEmpty, EmptySeq
  <2>2. << >> \in Seq(A) /\ Len(<< >>) = 0
    BY EmptySeq
  <2>3. FlattenSeq(s) \in Seq(A) /\ Len(FlattenSeq(s)) = m * Len(s)
    BY <2>1, <2>2, Zenon
  <2>4. \A i \in 1..Len(s) : FALSE
    BY <2>1
  <2>. QED  BY <2>3, <2>4, Zenon
<1>2. CASE s # << >>
  <2>1. Len(s) \in Nat \ {0} /\ \A i \in 1..Len(s) : s[i] \in Seq(A)
    BY <1>2, FlattenUnfolds
  <2>2. PICK f : /\ FlattenSeq(s) = f[Len(s)]
                 /\ f[1] = s[1]
                 /\ \A i \in 2..Len(s) : f[i] = f[i - 1] \o s[i]
    BY <1>2, FlattenUnfolds
  <2> DEFINE P(n) == /\ f[n] \in Seq(A) /\ Len(f[n]) = m * n
                     /\ \A i \in 1..n, k \in 1..m : f[n][m * (i - 1) + k] = s[i][k]
             G == {n \in Nat : n + 1 \in 1..Len(s) => P(n + 1)}
  <2>3. 0 \in G
    <3>1. 1 \in 1..Len(s) /\ m * 1 = m /\ 0 + 1 = 1 /\ \A k \in 1..m : m * (1 - 1) + k = k
      BY <2>1
    <3>2. f[1] \in Seq(A) /\ Len(f[1]) = m * 1
      BY <2>1, <2>2, <3>1
    <3>3. ASSUME NEW i \in 1..1, NEW k \in 1..m PROVE f[1][m * (i - 1) + k] = s[i][k]
      BY <2>2, <3>1
    <3>4. P(1)
      BY <3>2, <3>3
    <3>. QED  BY <3>1, <3>4
  <2>4. ASSUME NEW n \in Nat, n \in G PROVE n + 1 \in G
    <3>1. SUFFICES ASSUME (n + 1) + 1 \in 1..Len(s) PROVE P((n + 1) + 1)
      OBVIOUS
    <3>2. PICK h \in Nat \ {0} : h = n + 1
      OBVIOUS
    <3>3. h \in 1..Len(s) /\ h + 1 \in 2..Len(s) /\ (h + 1) - 1 = h /\ h + 1 \in 1..Len(s)
      BY <2>1, <3>1, <3>2
    <3>4. P(h)
      BY <2>4, <3>2, <3>3
    <3>5. f[h + 1] = f[h] \o s[h + 1] /\ s[h + 1] \in Seq(A) /\ Len(s[h + 1]) = m
      BY <2>1, <2>2, <3>3
    <3>6. /\ f[h + 1] \in Seq(A) /\ Len(f[h + 1]) = m * h + m /\ m * h \in Nat
          /\ \A j \in 1..m * h + m :
               f[h + 1][j] = IF j <= m * h THEN f[h][j] ELSE s[h + 1][j - m * h]
      <4>1. f[h] \in Seq(A) /\ Len(f[h]) = m * h /\ m * h \in Nat
        BY <3>4
      <4>2. PICK a \in Nat : a = m * h
        BY <4>1
      <4>3. /\ f[h] \o s[h + 1] \in Seq(A) /\ Len(f[h] \o s[h + 1]) = Len(f[h]) + Len(s[h + 1])
            /\ \A j \in 1..Len(f[h]) + Len(s[h + 1]) :
                 (f[h] \o s[h + 1])[j] = IF j <= Len(f[h]) THEN f[h][j] ELSE s[h + 1][j - Len(f[h])]
        BY <3>5, <4>1, ConcatProperties, ZenonT(40)
      <4>. QED  BY <3>5, <4>1, <4>3, Zenon
    <3>7. ASSUME NEW i \in 1..h + 1, NEW k \in 1..m
          PROVE  f[h + 1][m * (i - 1) + k] = s[i][k]
      <4>1. CASE i <= h
        <5>1. i \in 1..h /\ m * (i - 1) \in Nat /\ m * (i - 1) + m <= m * h
          BY <4>1, PartBounds
        <5>2. f[h][m * (i - 1) + k] = s[i][k]
          BY <3>4, <5>1
        <5>3. PICK a, b \in Nat : a = m * (i - 1) /\ b = m * h
          BY <3>6, <5>1
        <5>4. a + k \in 1..b + m /\ a + k <= b
          BY <5>1, <5>3, SMTT(60)
        <5>5. f[h + 1][a + k] = f[h][a + k]
          BY <3>6, <5>3, <5>4
        <5>. QED  BY <5>2, <5>3, <5>5, Zenon
      <4>2. CASE i = h + 1
        <5>1. PICK b \in Nat : b = m * h
          BY <3>6
        <5>2. m * (i - 1) = b
          BY <4>2, <5>1
        <5>3. b + k \in 1..b + m /\ ~(b + k <= b) /\ (b + k) - b = k
          OBVIOUS
        <5>4. f[h + 1][b + k] = s[h + 1][k]
          BY <3>6, <5>1, <5>3
        <5>. QED  BY <4>2, <5>2, <5>4, Zenon
      <4>. QED  BY <4>1, <4>2
    <3>8. m * (h + 1) = m * h + m
      OBVIOUS
    <3>9. P(h + 1)
      BY <3>6, <3>7, <3>8
    <3>. QED  BY <3>2, <3>9
  <2> HIDE DEF G
  <2>5. \A n \in Nat : n \in G
    BY <2>3, <2>4, SetInduction
  <2>6. Len(s) - 1 \in Nat /\ (Len(s) - 1) + 1 = Len(s) /\ Len(s) \in 1..Len(s)
    BY <2>1
  <2>7. P(Len(s))
    <3>1. Len(s) - 1 \in G
      BY <2>5, <2>6
    <3>. QED  BY <2>6, <3>1 DEF G
  <2>. QED  BY <2>2, <2>7
<1>. QED  BY <1>1, <1>2

-----------------------------------------------------------------------------
(* Words of two halves, and the transform.                                 *)

HalfRange == {x \in Nat : x < Half}
MdWord == HalfRange \X HalfRange
Registers == [1..4 -> MdWord]

\* The values of half a word.
LEMMA HalfIs == Half = 65536
BY SMT DEF Half

\* A word is two halves.
LEMMA WordIs ==
  ASSUME NEW u
  PROVE  /\ u \in MdWord => u[1] \in HalfRange /\ u[2] \in HalfRange
         /\ \A a, b \in HalfRange : <<a, b>> \in MdWord
<1> HIDE DEF HalfRange
<1>. QED  BY SMT DEF MdWord

\* The halves are the numbers below Half.
LEMMA InHalf ==
  ASSUME NEW x
  PROVE  x \in HalfRange <=> x \in Nat /\ x < Half
BY Zenon DEF HalfRange

\* A sum of words is a word.
LEMMA AddTyped ==
  ASSUME NEW u \in MdWord, NEW v \in MdWord
  PROVE  AddWord(u, v) \in MdWord
<1> HIDE DEF HalfRange
<1>1. PICK a, b, c, d \in HalfRange : a = u[1] /\ b = u[2] /\ c = v[1] /\ d = v[2]
  BY WordIs, Zenon
<1>2. a \in Nat /\ b \in Nat /\ c \in Nat /\ d \in Nat
  BY InHalf, Zenon
<1>3. /\ (a + c + (b + d) \div Half) % Half \in Nat
      /\ (a + c + (b + d) \div Half) % Half < Half
      /\ (b + d) % Half \in Nat /\ (b + d) % Half < Half
  BY <1>2, HalfIs, SMT
<1>4. AddWord(u, v) = <<(a + c + (b + d) \div Half) % Half, (b + d) % Half>>
  BY <1>1, Zenon DEF AddWord
<1>. QED  BY <1>3, <1>4, InHalf, WordIs, Zenon

\* A half is two bytes.
LEMMA HalfBytes ==
  ASSUME NEW x \in HalfRange
  PROVE  \E a, b \in Byte : a = x \div 256 /\ b = x % 256 /\ x = 256 * a + b
<1>1. x \in Nat /\ x < Half
  BY InHalf, Zenon
<1>2. PICK a, b \in Nat : a = x \div 256 /\ b = x % 256
  BY <1>1, SMT
<1>3. x = 256 * a + b /\ b < 256 /\ a < 256
  BY <1>1, <1>2, HalfIs, SMT
<1>4. \A c \in Nat : c < 256 => c \in Byte
  BY SMT DEF Byte
<1>5. a \in Byte /\ b \in Byte
  BY <1>3, <1>4, Zenon
<1>. QED  BY <1>2, <1>3, <1>5, SMT

\* The bitwise operations on halves stay in the halves.
LEMMA AndHalfTyped ==
  ASSUME NEW x \in HalfRange, NEW y \in HalfRange
  PROVE  AndHalf(x, y) \in HalfRange /\ x + y - 2 * AndHalf(x, y) \in HalfRange
<1>0. PICK a, b \in Byte : a = x \div 256 /\ b = x % 256 /\ x = 256 * a + b
  BY HalfBytes
<1>1. PICK c, d \in Byte : c = y \div 256 /\ d = y % 256 /\ y = 256 * c + d
  BY HalfBytes
<1>2. PICK h, l, p, q \in Byte : h = And(a, c) /\ l = And(b, d) /\ p = Xor(a, c) /\ q = Xor(b, d)
  BY XorBits, Zenon
<1>3. p = a + c - 2 * h /\ q = b + d - 2 * l
  BY <1>2, Zenon DEF Xor, XorTable, And
<1>4. AndHalf(x, y) = 256 * h + l
  BY <1>0, <1>1, <1>2, ZenonT(60) DEF AndHalf
<1>5. \A e, f \in Byte : 256 * e + f \in Nat /\ 256 * e + f < Half
  BY HalfIs, SMT DEF Byte
<1>6. (256 * a + b) + (256 * c + d) - 2 * (256 * h + l) = 256 * p + q
  BY <1>3, SMT DEF Byte
<1>7. x + y - 2 * AndHalf(x, y) = 256 * p + q
  BY <1>0, <1>1, <1>4, <1>6, ZenonT(60)
<1>8. 256 * h + l \in HalfRange /\ 256 * p + q \in HalfRange
  BY <1>5, InHalf, SMT
<1>. QED  BY <1>4, <1>7, <1>8, Zenon

\* The bitwise operations on words.
LEMMA LogicTyped ==
  ASSUME NEW u \in MdWord, NEW v \in MdWord
  PROVE  AndWord(u, v) \in MdWord /\ XorWord(u, v) \in MdWord /\ NotWord(u) \in MdWord
<1> HIDE DEF HalfRange
<1>1. PICK a, b, c, d \in HalfRange : a = u[1] /\ b = u[2] /\ c = v[1] /\ d = v[2]
  BY WordIs, Zenon
<1>2. PICK g, h, k, l \in HalfRange : /\ g = AndHalf(a, c) /\ h = AndHalf(b, d)
                                      /\ k = a + c - 2 * AndHalf(a, c)
                                      /\ l = b + d - 2 * AndHalf(b, d)
  BY AndHalfTyped, Zenon
<1>4. AndWord(u, v) = <<g, h>>
  BY <1>1, <1>2, Zenon DEF AndWord
<1>5. <<g, h>>[1] = g /\ <<g, h>>[2] = h
  BY SMT
<1>6. XorWord(u, v) = <<a + c - 2 * g, b + d - 2 * h>>
  BY <1>1, <1>4, <1>5, Zenon DEF XorWord
<1>7. XorWord(u, v) = <<k, l>>
  BY <1>2, <1>6, Zenon
<1>8. NotWord(u) = <<Half - 1 - a, Half - 1 - b>>
  BY <1>1, Zenon DEF NotWord
<1>9. \A x \in Nat : x < Half => Half - 1 - x \in Nat /\ Half - 1 - x < Half
  BY HalfIs, SMT
<1>10. Half - 1 - a \in HalfRange /\ Half - 1 - b \in HalfRange
  BY <1>9, InHalf, Zenon
<1>. QED  BY <1>4, <1>7, <1>8, <1>10, WordIs, Zenon

\* A half shifted left, with the bits of the other half that come in.
Turned(x, y, n) == ((x * 2^n) % Half) + (y \div 2^(16 - n))

\* The upper half of a word turned left by less than sixteen bits.
LEMMA TurnTyped ==
  ASSUME NEW x \in Nat, x < Half, NEW y \in Nat, y < Half, NEW n \in 0..15
  PROVE  Turned(x, y, n) \in HalfRange
<1> HIDE DEF HalfRange
<1>1. n = 0 => Turned(x, y, n) \in HalfRange
  <2>1. Turned(x, y, 0) = ((x * 1) % 65536) + (y \div 65536)
    BY HalfIs, SMT DEF Turned
  <2>2. PICK a, b, z \in Nat : a = x \div 65536 /\ b = x % 65536 /\ z = y \div 65536
    BY SMT
  <2>3. x = 65536 * a + b /\ b < 65536 /\ z < 1
    BY <2>2, HalfIs, SMT
  <2>4. (x * 1) % 65536 = 1 * b
    BY <2>3, SMT
  <2>5. 1 * b + z \in Nat /\ 1 * b + z < 65536
    BY <2>3, SMT
  <2>6. Turned(x, y, 0) \in Nat /\ Turned(x, y, 0) < Half
    BY <2>1, <2>2, <2>4, <2>5, HalfIs, SMT
  <2>. QED  BY <2>6, InHalf, Zenon
<1>2. n = 1 => Turned(x, y, n) \in HalfRange
  <2>1. Turned(x, y, 1) = ((x * 2) % 65536) + (y \div 32768)
    BY HalfIs, SMT DEF Turned
  <2>2. PICK a, b, z \in Nat : a = x \div 32768 /\ b = x % 32768 /\ z = y \div 32768
    BY SMT
  <2>3. x = 32768 * a + b /\ b < 32768 /\ z < 2
    BY <2>2, HalfIs, SMT
  <2>4. (x * 2) % 65536 = 2 * b
    BY <2>3, SMT
  <2>5. 2 * b + z \in Nat /\ 2 * b + z < 65536
    BY <2>3, SMT
  <2>6. Turned(x, y, 1) \in Nat /\ Turned(x, y, 1) < Half
    BY <2>1, <2>2, <2>4, <2>5, HalfIs, SMT
  <2>. QED  BY <2>6, InHalf, Zenon
<1>3. n = 2 => Turned(x, y, n) \in HalfRange
  <2>1. Turned(x, y, 2) = ((x * 4) % 65536) + (y \div 16384)
    BY HalfIs, SMT DEF Turned
  <2>2. PICK a, b, z \in Nat : a = x \div 16384 /\ b = x % 16384 /\ z = y \div 16384
    BY SMT
  <2>3. x = 16384 * a + b /\ b < 16384 /\ z < 4
    BY <2>2, HalfIs, SMT
  <2>4. (x * 4) % 65536 = 4 * b
    BY <2>3, SMT
  <2>5. 4 * b + z \in Nat /\ 4 * b + z < 65536
    BY <2>3, SMT
  <2>6. Turned(x, y, 2) \in Nat /\ Turned(x, y, 2) < Half
    BY <2>1, <2>2, <2>4, <2>5, HalfIs, SMT
  <2>. QED  BY <2>6, InHalf, Zenon
<1>4. n = 3 => Turned(x, y, n) \in HalfRange
  <2>1. Turned(x, y, 3) = ((x * 8) % 65536) + (y \div 8192)
    BY HalfIs, SMT DEF Turned
  <2>2. PICK a, b, z \in Nat : a = x \div 8192 /\ b = x % 8192 /\ z = y \div 8192
    BY SMT
  <2>3. x = 8192 * a + b /\ b < 8192 /\ z < 8
    BY <2>2, HalfIs, SMT
  <2>4. (x * 8) % 65536 = 8 * b
    BY <2>3, SMT
  <2>5. 8 * b + z \in Nat /\ 8 * b + z < 65536
    BY <2>3, SMT
  <2>6. Turned(x, y, 3) \in Nat /\ Turned(x, y, 3) < Half
    BY <2>1, <2>2, <2>4, <2>5, HalfIs, SMT
  <2>. QED  BY <2>6, InHalf, Zenon
<1>5. n = 4 => Turned(x, y, n) \in HalfRange
  <2>1. Turned(x, y, 4) = ((x * 16) % 65536) + (y \div 4096)
    BY HalfIs, SMT DEF Turned
  <2>2. PICK a, b, z \in Nat : a = x \div 4096 /\ b = x % 4096 /\ z = y \div 4096
    BY SMT
  <2>3. x = 4096 * a + b /\ b < 4096 /\ z < 16
    BY <2>2, HalfIs, SMT
  <2>4. (x * 16) % 65536 = 16 * b
    BY <2>3, SMT
  <2>5. 16 * b + z \in Nat /\ 16 * b + z < 65536
    BY <2>3, SMT
  <2>6. Turned(x, y, 4) \in Nat /\ Turned(x, y, 4) < Half
    BY <2>1, <2>2, <2>4, <2>5, HalfIs, SMT
  <2>. QED  BY <2>6, InHalf, Zenon
<1>6. n = 5 => Turned(x, y, n) \in HalfRange
  <2>1. Turned(x, y, 5) = ((x * 32) % 65536) + (y \div 2048)
    BY HalfIs, SMT DEF Turned
  <2>2. PICK a, b, z \in Nat : a = x \div 2048 /\ b = x % 2048 /\ z = y \div 2048
    BY SMT
  <2>3. x = 2048 * a + b /\ b < 2048 /\ z < 32
    BY <2>2, HalfIs, SMT
  <2>4. (x * 32) % 65536 = 32 * b
    BY <2>3, SMT
  <2>5. 32 * b + z \in Nat /\ 32 * b + z < 65536
    BY <2>3, SMT
  <2>6. Turned(x, y, 5) \in Nat /\ Turned(x, y, 5) < Half
    BY <2>1, <2>2, <2>4, <2>5, HalfIs, SMT
  <2>. QED  BY <2>6, InHalf, Zenon
<1>7. n = 6 => Turned(x, y, n) \in HalfRange
  <2>1. Turned(x, y, 6) = ((x * 64) % 65536) + (y \div 1024)
    BY HalfIs, SMT DEF Turned
  <2>2. PICK a, b, z \in Nat : a = x \div 1024 /\ b = x % 1024 /\ z = y \div 1024
    BY SMT
  <2>3. x = 1024 * a + b /\ b < 1024 /\ z < 64
    BY <2>2, HalfIs, SMT
  <2>4. (x * 64) % 65536 = 64 * b
    BY <2>3, SMT
  <2>5. 64 * b + z \in Nat /\ 64 * b + z < 65536
    BY <2>3, SMT
  <2>6. Turned(x, y, 6) \in Nat /\ Turned(x, y, 6) < Half
    BY <2>1, <2>2, <2>4, <2>5, HalfIs, SMT
  <2>. QED  BY <2>6, InHalf, Zenon
<1>8. n = 7 => Turned(x, y, n) \in HalfRange
  <2>1. Turned(x, y, 7) = ((x * 128) % 65536) + (y \div 512)
    BY HalfIs, SMT DEF Turned
  <2>2. PICK a, b, z \in Nat : a = x \div 512 /\ b = x % 512 /\ z = y \div 512
    BY SMT
  <2>3. x = 512 * a + b /\ b < 512 /\ z < 128
    BY <2>2, HalfIs, SMT
  <2>4. (x * 128) % 65536 = 128 * b
    BY <2>3, SMT
  <2>5. 128 * b + z \in Nat /\ 128 * b + z < 65536
    BY <2>3, SMT
  <2>6. Turned(x, y, 7) \in Nat /\ Turned(x, y, 7) < Half
    BY <2>1, <2>2, <2>4, <2>5, HalfIs, SMT
  <2>. QED  BY <2>6, InHalf, Zenon
<1>9. n = 8 => Turned(x, y, n) \in HalfRange
  <2>1. Turned(x, y, 8) = ((x * 256) % 65536) + (y \div 256)
    BY HalfIs, SMT DEF Turned
  <2>2. PICK a, b, z \in Nat : a = x \div 256 /\ b = x % 256 /\ z = y \div 256
    BY SMT
  <2>3. x = 256 * a + b /\ b < 256 /\ z < 256
    BY <2>2, HalfIs, SMT
  <2>4. (x * 256) % 65536 = 256 * b
    BY <2>3, SMT
  <2>5. 256 * b + z \in Nat /\ 256 * b + z < 65536
    BY <2>3, SMT
  <2>6. Turned(x, y, 8) \in Nat /\ Turned(x, y, 8) < Half
    BY <2>1, <2>2, <2>4, <2>5, HalfIs, SMT
  <2>. QED  BY <2>6, InHalf, Zenon
<1>10. n = 9 => Turned(x, y, n) \in HalfRange
  <2>1. Turned(x, y, 9) = ((x * 512) % 65536) + (y \div 128)
    BY HalfIs, SMT DEF Turned
  <2>2. PICK a, b, z \in Nat : a = x \div 128 /\ b = x % 128 /\ z = y \div 128
    BY SMT
  <2>3. x = 128 * a + b /\ b < 128 /\ z < 512
    BY <2>2, HalfIs, SMT
  <2>4. (x * 512) % 65536 = 512 * b
    BY <2>3, SMT
  <2>5. 512 * b + z \in Nat /\ 512 * b + z < 65536
    BY <2>3, SMT
  <2>6. Turned(x, y, 9) \in Nat /\ Turned(x, y, 9) < Half
    BY <2>1, <2>2, <2>4, <2>5, HalfIs, SMT
  <2>. QED  BY <2>6, InHalf, Zenon
<1>11. n = 10 => Turned(x, y, n) \in HalfRange
  <2>1. Turned(x, y, 10) = ((x * 1024) % 65536) + (y \div 64)
    BY HalfIs, SMT DEF Turned
  <2>2. PICK a, b, z \in Nat : a = x \div 64 /\ b = x % 64 /\ z = y \div 64
    BY SMT
  <2>3. x = 64 * a + b /\ b < 64 /\ z < 1024
    BY <2>2, HalfIs, SMT
  <2>4. (x * 1024) % 65536 = 1024 * b
    BY <2>3, SMT
  <2>5. 1024 * b + z \in Nat /\ 1024 * b + z < 65536
    BY <2>3, SMT
  <2>6. Turned(x, y, 10) \in Nat /\ Turned(x, y, 10) < Half
    BY <2>1, <2>2, <2>4, <2>5, HalfIs, SMT
  <2>. QED  BY <2>6, InHalf, Zenon
<1>12. n = 11 => Turned(x, y, n) \in HalfRange
  <2>1. Turned(x, y, 11) = ((x * 2048) % 65536) + (y \div 32)
    BY HalfIs, SMT DEF Turned
  <2>2. PICK a, b, z \in Nat : a = x \div 32 /\ b = x % 32 /\ z = y \div 32
    BY SMT
  <2>3. x = 32 * a + b /\ b < 32 /\ z < 2048
    BY <2>2, HalfIs, SMT
  <2>4. (x * 2048) % 65536 = 2048 * b
    BY <2>3, SMT
  <2>5. 2048 * b + z \in Nat /\ 2048 * b + z < 65536
    BY <2>3, SMT
  <2>6. Turned(x, y, 11) \in Nat /\ Turned(x, y, 11) < Half
    BY <2>1, <2>2, <2>4, <2>5, HalfIs, SMT
  <2>. QED  BY <2>6, InHalf, Zenon
<1>13. n = 12 => Turned(x, y, n) \in HalfRange
  <2>1. Turned(x, y, 12) = ((x * 4096) % 65536) + (y \div 16)
    BY HalfIs, SMT DEF Turned
  <2>2. PICK a, b, z \in Nat : a = x \div 16 /\ b = x % 16 /\ z = y \div 16
    BY SMT
  <2>3. x = 16 * a + b /\ b < 16 /\ z < 4096
    BY <2>2, HalfIs, SMT
  <2>4. (x * 4096) % 65536 = 4096 * b
    BY <2>3, SMT
  <2>5. 4096 * b + z \in Nat /\ 4096 * b + z < 65536
    BY <2>3, SMT
  <2>6. Turned(x, y, 12) \in Nat /\ Turned(x, y, 12) < Half
    BY <2>1, <2>2, <2>4, <2>5, HalfIs, SMT
  <2>. QED  BY <2>6, InHalf, Zenon
<1>14. n = 13 => Turned(x, y, n) \in HalfRange
  <2>1. Turned(x, y, 13) = ((x * 8192) % 65536) + (y \div 8)
    BY HalfIs, SMT DEF Turned
  <2>2. PICK a, b, z \in Nat : a = x \div 8 /\ b = x % 8 /\ z = y \div 8
    BY SMT
  <2>3. x = 8 * a + b /\ b < 8 /\ z < 8192
    BY <2>2, HalfIs, SMT
  <2>4. (x * 8192) % 65536 = 8192 * b
    BY <2>3, SMT
  <2>5. 8192 * b + z \in Nat /\ 8192 * b + z < 65536
    BY <2>3, SMT
  <2>6. Turned(x, y, 13) \in Nat /\ Turned(x, y, 13) < Half
    BY <2>1, <2>2, <2>4, <2>5, HalfIs, SMT
  <2>. QED  BY <2>6, InHalf, Zenon
<1>15. n = 14 => Turned(x, y, n) \in HalfRange
  <2>1. Turned(x, y, 14) = ((x * 16384) % 65536) + (y \div 4)
    BY HalfIs, SMT DEF Turned
  <2>2. PICK a, b, z \in Nat : a = x \div 4 /\ b = x % 4 /\ z = y \div 4
    BY SMT
  <2>3. x = 4 * a + b /\ b < 4 /\ z < 16384
    BY <2>2, HalfIs, SMT
  <2>4. (x * 16384) % 65536 = 16384 * b
    BY <2>3, SMT
  <2>5. 16384 * b + z \in Nat /\ 16384 * b + z < 65536
    BY <2>3, SMT
  <2>6. Turned(x, y, 14) \in Nat /\ Turned(x, y, 14) < Half
    BY <2>1, <2>2, <2>4, <2>5, HalfIs, SMT
  <2>. QED  BY <2>6, InHalf, Zenon
<1>16. n = 15 => Turned(x, y, n) \in HalfRange
  <2>1. Turned(x, y, 15) = ((x * 32768) % 65536) + (y \div 2)
    BY HalfIs, SMT DEF Turned
  <2>2. PICK a, b, z \in Nat : a = x \div 2 /\ b = x % 2 /\ z = y \div 2
    BY SMT
  <2>3. x = 2 * a + b /\ b < 2 /\ z < 32768
    BY <2>2, HalfIs, SMT
  <2>4. (x * 32768) % 65536 = 32768 * b
    BY <2>3, SMT
  <2>5. 32768 * b + z \in Nat /\ 32768 * b + z < 65536
    BY <2>3, SMT
  <2>6. Turned(x, y, 15) \in Nat /\ Turned(x, y, 15) < Half
    BY <2>1, <2>2, <2>4, <2>5, HalfIs, SMT
  <2>. QED  BY <2>6, InHalf, Zenon
<1>17. n = 0 \/ n = 1 \/ n = 2 \/ n = 3 \/ n = 4 \/ n = 5 \/ n = 6 \/ n = 7
       \/ n = 8 \/ n = 9 \/ n = 10 \/ n = 11 \/ n = 12 \/ n = 13 \/ n = 14 \/ n = 15
  BY SMT
<1>. QED  BY <1>1, <1>2, <1>3, <1>4, <1>5, <1>6, <1>7, <1>8, <1>9, <1>10, <1>11, <1>12, <1>13, <1>14, <1>15, <1>16, <1>17, Zenon

\* A word turned left is a word.
LEMMA RotateTyped ==
  ASSUME NEW u \in MdWord, NEW s \in Nat
  PROVE  Rotate(u, s) \in MdWord
<1> HIDE DEF HalfRange
<1> DEFINE v == IF s >= 16 THEN <<u[2], u[1]>> ELSE u
           n == s % 16
<1>1. u[1] \in HalfRange /\ u[2] \in HalfRange
  BY WordIs, Zenon
<1>2. v[1] \in HalfRange /\ v[2] \in HalfRange
  BY <1>1, SMT
<1>3. n \in 0..15
  BY SMT
<1>4. Rotate(u, s) = <<Turned(v[1], v[2], n), Turned(v[2], v[1], n)>>
  BY Zenon DEF Rotate, Turned
<1> HIDE DEF v, n
<1>5. Turned(v[1], v[2], n) \in HalfRange /\ Turned(v[2], v[1], n) \in HalfRange
  BY <1>2, <1>3, TurnTyped, InHalf, Zenon
<1>. QED  BY <1>4, <1>5, WordIs, Zenon

Md5Block == [1..64 -> Byte]

\* Two bytes make a half.
LEMMA BytesHalf ==
  ASSUME NEW a \in Byte, NEW b \in Byte
  PROVE  256 * a + b \in HalfRange
<1>1. 256 * a + b \in Nat /\ 256 * a + b < Half
  BY HalfIs, SMT DEF Byte
<1>. QED  BY <1>1, InHalf, Zenon

\* A block is sixteen words.
LEMMA BlockWords ==
  ASSUME NEW b \in Md5Block
  PROVE  Words(b) \in [1..16 -> MdWord]
<1> DEFINE W(i) == <<256 * b[4 * i] + b[4 * i - 1], 256 * b[4 * i - 2] + b[4 * i - 3]>>
<1>1. Len(b) = 64
  BY FunctionIsSeq, SMT DEF Md5Block
<1>2. Words(b) = [i \in 1..16 |-> W(i)]
  <2>1. 64 \div 4 = 16
    BY SMT
  <2>. QED  BY <1>1, <2>1, Zenon DEF Words
<1>3. ASSUME NEW i \in 1..16 PROVE W(i) \in MdWord
  <2>1. 4 * i \in 1..64 /\ 4 * i - 1 \in 1..64 /\ 4 * i - 2 \in 1..64 /\ 4 * i - 3 \in 1..64
    BY SMT
  <2>2. b[4 * i] \in Byte /\ b[4 * i - 1] \in Byte /\ b[4 * i - 2] \in Byte /\ b[4 * i - 3] \in Byte
    BY <2>1, SMT DEF Md5Block
  <2>. QED  BY <2>2, BytesHalf, WordIs, ZenonT(60)
<1> HIDE DEF W
<1>. QED  BY <1>2, <1>3, SMT

\* The constants MD5STEP adds are words.
LEMMA AdditiveTyped ==
  ASSUME NEW i \in 1..64
  PROVE  Additive[i] \in MdWord
<1> DEFINE Ok(wd) == wd[1] \in Nat /\ wd[1] < 65536 /\ wd[2] \in Nat /\ wd[2] < 65536 /\ wd = <<wd[1], wd[2]>>
<1>1. \A n \in 1..16 : Ok(Additive[n])
  BY SMTT(60) DEF Additive
<1>2. \A n \in 17..32 : Ok(Additive[n])
  BY SMTT(60) DEF Additive
<1>3. \A n \in 33..48 : Ok(Additive[n])
  BY SMTT(60) DEF Additive
<1>4. \A n \in 49..64 : Ok(Additive[n])
  BY SMTT(60) DEF Additive
<1>5. Ok(Additive[i])
  <2> HIDE DEF Ok
  <2>1. i \in 1..16 \/ i \in 17..32 \/ i \in 33..48 \/ i \in 49..64
    BY SMT
  <2>. QED  BY <1>1, <1>2, <1>3, <1>4, <2>1, Zenon
<1>6. PICK v : v = Additive[i] /\ Ok(v)
  <2> HIDE DEF Ok
  <2>. QED  BY <1>5, Zenon
<1>7. v[1] < Half /\ v[2] < Half /\ v[1] \in Nat /\ v[2] \in Nat /\ v = <<v[1], v[2]>>
  BY <1>6, HalfIs, SMT
<1> HIDE DEF Ok
<1>8. v[1] \in HalfRange /\ v[2] \in HalfRange
  BY <1>7, InHalf, Zenon
<1>9. <<v[1], v[2]>> \in MdWord
  BY <1>8, WordIs, Zenon
<1>10. v \in MdWord
  BY <1>7, <1>9, SMT
<1>. QED  BY <1>6, <1>10, Zenon

\* A step of MD5Transform reads one of the sixteen words of the block.
LEMMA OrderTyped ==
  ASSUME NEW i \in 1..64
  PROVE  WordOrder[i] + 1 \in 1..16
<1>1. \A n \in 1..16 : WordOrder[n] + 1 \in 1..16
  BY SMTT(60) DEF WordOrder
<1>2. \A n \in 17..32 : WordOrder[n] + 1 \in 1..16
  BY SMTT(60) DEF WordOrder
<1>3. \A n \in 33..48 : WordOrder[n] + 1 \in 1..16
  BY SMTT(60) DEF WordOrder
<1>4. \A n \in 49..64 : WordOrder[n] + 1 \in 1..16
  BY SMTT(60) DEF WordOrder
<1>5. i \in 1..16 \/ i \in 17..32 \/ i \in 33..48 \/ i \in 49..64
  BY SMT
<1>. QED  BY <1>1, <1>2, <1>3, <1>4, <1>5, Zenon

\* MD5STEP turns by a number of bits.
LEMMA ShiftsTyped ==
  ASSUME NEW j \in 1..4, NEW k \in 1..4
  PROVE  Shifts[j][k] \in Nat
<1>1. \A n \in 1..4 : \A m \in 1..4 : Shifts[n][m] \in Nat
  BY SMTT(60) DEF Shifts
<1>. QED  BY <1>1, Zenon

\* Four words are the registers.
LEMMA FourWords ==
  ASSUME NEW a \in MdWord, NEW b \in MdWord, NEW c \in MdWord, NEW d \in MdWord
  PROVE  <<a, b, c, d>> \in Registers
<1> HIDE DEF MdWord
<1>. QED  BY SMT DEF Registers

\* The four functions of the rounds of MD5Transform.
LEMMA FunctionsTyped ==
  ASSUME NEW x \in MdWord, NEW y \in MdWord, NEW z \in MdWord
  PROVE  /\ F1(x, y, z) \in MdWord /\ F2(x, y, z) \in MdWord
         /\ F3(x, y, z) \in MdWord /\ F4(x, y, z) \in MdWord
<1>1. \A a, b, c \in MdWord : F1(a, b, c) \in MdWord
  <2>1. TAKE a, b, c \in MdWord
  <2>2. XorWord(b, c) \in MdWord
    BY LogicTyped, Zenon
  <2>3. AndWord(a, XorWord(b, c)) \in MdWord
    BY <2>2, LogicTyped, Zenon
  <2>. QED  BY <2>3, LogicTyped, Zenon DEF F1
<1>2. F2(x, y, z) \in MdWord
  BY <1>1, Zenon DEF F2
<1>3. F3(x, y, z) \in MdWord
  <2>1. XorWord(y, z) \in MdWord
    BY LogicTyped, Zenon
  <2>. QED  BY <2>1, LogicTyped, Zenon DEF F3
<1>4. F4(x, y, z) \in MdWord
  <2>1. NotWord(x) \in MdWord
    BY LogicTyped, Zenon
  <2>2. AndWord(NotWord(x), z) \in MdWord
    BY <2>1, LogicTyped, Zenon
  <2>3. NotWord(AndWord(NotWord(x), z)) \in MdWord
    BY <2>2, LogicTyped, Zenon
  <2>. QED  BY <2>3, LogicTyped, Zenon DEF F4
<1>. QED  BY <1>1, <1>2, <1>3, <1>4, Zenon

\* A step of MD5Transform gives registers.
LEMMA StepTyped ==
  ASSUME NEW i \in 1..64, NEW regs \in Registers, NEW in \in [1..16 -> MdWord]
  PROVE  MD5STEP(i, regs, in) \in Registers
<1> DEFINE round == ((i - 1) \div 16) + 1
           f == CASE round = 1 -> F1(regs[2], regs[3], regs[4])
                  [] round = 2 -> F2(regs[2], regs[3], regs[4])
                  [] round = 3 -> F3(regs[2], regs[3], regs[4])
                  [] round = 4 -> F4(regs[2], regs[3], regs[4])
           data == in[WordOrder[i] + 1]
           sum == AddWord(AddWord(regs[1], f), AddWord(data, Additive[i]))
           turned == Rotate(sum, Shifts[round][((i - 1) % 4) + 1])
<1>1. regs[1] \in MdWord /\ regs[2] \in MdWord /\ regs[3] \in MdWord /\ regs[4] \in MdWord
  <2> HIDE DEF MdWord
  <2>. QED  BY SMT DEF Registers
<1>2. /\ F1(regs[2], regs[3], regs[4]) \in MdWord /\ F2(regs[2], regs[3], regs[4]) \in MdWord
      /\ F3(regs[2], regs[3], regs[4]) \in MdWord /\ F4(regs[2], regs[3], regs[4]) \in MdWord
  BY <1>1, FunctionsTyped, Zenon
<1>3. round \in 1..4 /\ ((i - 1) % 4) + 1 \in 1..4
  BY SMT
<1>4. f \in MdWord
  <2>1. round = 1 \/ round = 2 \/ round = 3 \/ round = 4
    BY <1>3, SMT
  <2> HIDE DEF round
  <2>. QED  BY <1>2, <2>1, SMT
<1>5. data \in MdWord
  BY OrderTyped, SMT
<1>6. MD5STEP(i, regs, in) = <<regs[4], AddWord(regs[2], turned), regs[2], regs[3]>>
  BY Zenon DEF MD5STEP
<1> HIDE DEF f, data
<1>7. AddWord(regs[1], f) \in MdWord /\ AddWord(data, Additive[i]) \in MdWord
  BY <1>1, <1>4, <1>5, AddTyped, AdditiveTyped, Zenon
<1>8. sum \in MdWord
  BY <1>7, AddTyped, Zenon
<1> HIDE DEF sum
<1>9. Shifts[round][((i - 1) % 4) + 1] \in Nat
  BY <1>3, ShiftsTyped, Zenon
<1> HIDE DEF round
<1>10. turned \in MdWord
  BY <1>8, <1>9, RotateTyped, Zenon
<1> HIDE DEF turned
<1>11. AddWord(regs[2], turned) \in MdWord
  BY <1>1, <1>10, AddTyped, Zenon
<1>. QED  BY <1>1, <1>6, <1>11, FourWords, ZenonT(60)

\* The recursive functions of MD5Transform and of Chain.
IsStepping(g, buf, in) == g = [i \in 0..64 |-> IF i = 0 THEN buf ELSE MD5STEP(i, g[i - 1], in)]

IsChain(g, blocks) ==
  g = [n \in 0..Len(blocks) |-> IF n = 0 THEN InitialBuf ELSE MD5Transform(g[n - 1], blocks[n])]

\* A loop that changes the registers n times has a value after each pass.
LEMMA RegistersRecursion ==
  ASSUME NEW b \in Registers
  PROVE  \A n \in Nat : \A G \in [1..n -> [Registers -> Registers]] :
           \E g \in [0..n -> Registers] : g[0] = b /\ \A i \in 1..n : g[i] = G[i][g[i - 1]]
BY RecursionExists

\* MD5Transform gives registers.
LEMMA TransformTyped ==
  ASSUME NEW buf \in Registers, NEW b \in Md5Block
  PROVE  MD5Transform(buf, b) \in Registers
<1> DEFINE in == Words(b)
           F == [i \in 1..64 |-> [regs \in Registers |-> MD5STEP(i, regs, in)]]
<1>1. in \in [1..16 -> MdWord]
  BY BlockWords, Zenon
<1> HIDE DEF in
<1>2. \A i \in 1..64 : \A regs \in Registers : F[i][regs] = MD5STEP(i, regs, in) /\ F[i][regs] \in Registers
  BY <1>1, StepTyped, Zenon
<1>3. F \in [1..64 -> [Registers -> Registers]]
  <2>1. ASSUME NEW i \in 1..64
        PROVE  [regs \in Registers |-> MD5STEP(i, regs, in)] \in [Registers -> Registers]
    <3>1. \A regs \in Registers : MD5STEP(i, regs, in) \in Registers
      BY <1>1, StepTyped, Zenon
    <3>. QED  BY <3>1, Zenon
  <2>. QED  BY <2>1, Zenon
<1> HIDE DEF F
<1>4. PICK g \in [0..64 -> Registers] : g[0] = buf /\ \A i \in 1..64 : g[i] = F[i][g[i - 1]]
  <2>0. buf \in Registers
    BY Zenon
  <2>1. \A n \in Nat : \A G \in [1..n -> [Registers -> Registers]] :
          \E g \in [0..n -> Registers] : g[0] = buf /\ \A i \in 1..n : g[i] = G[i][g[i - 1]]
    BY <2>0, RegistersRecursion, Zenon
  <2>2. 64 \in Nat
    BY SMT
  <2>. QED  BY <1>3, <2>1, <2>2, Zenon
<1>5. ASSUME NEW i \in 0..64 PROVE g[i] = IF i = 0 THEN buf ELSE MD5STEP(i, g[i - 1], in)
  <2>1. CASE i = 0
    BY <1>4, <2>1, Zenon
  <2>2. CASE i # 0
    <3>1. i \in 1..64 /\ i - 1 \in 0..64
      BY <2>2, SMT
    <3>2. g[i - 1] \in Registers
      BY <3>1, Zenon
    <3>. QED  BY <1>2, <1>4, <2>2, <3>1, <3>2, Zenon
  <2>. QED  BY <2>1, <2>2, Zenon
<1>6. IsStepping(g, buf, in)
  <2>1. g = [i \in 0..64 |-> g[i]]
    BY Zenon
  <2>. QED  BY <1>5, <2>1, Zenon DEF IsStepping
<1>7. PICK R : R = (CHOOSE q : IsStepping(q, buf, in)) /\ IsStepping(R, buf, in)
  BY <1>6, Zenon
<1>8. MD5Transform(buf, b) = [k \in 1..4 |-> AddWord(buf[k], R[64][k])]
  <2>1. MD5Transform(buf, b)
          = [k \in 1..4 |-> AddWord(buf[k], (CHOOSE q : IsStepping(q, buf, Words(b)))[64][k])]
    BY Zenon DEF MD5Transform, IsStepping
  <2>2. in = Words(b)
    BY DEF in
  <2>3. R = (CHOOSE q : IsStepping(q, buf, Words(b)))
    BY <1>7, <2>2, Zenon
  <2>. QED  BY <2>1, <2>3, Zenon
<1>9. \A i \in 0..64 : R[i] = IF i = 0 THEN buf ELSE MD5STEP(i, R[i - 1], in)
  BY <1>7, Zenon DEF IsStepping
<1> DEFINE G == {m \in Nat : m \in 0..64 => R[m] \in Registers}
<1>10. 0 \in G
  <2>1. 0 \in 0..64 /\ 0 \in Nat
    BY SMT
  <2>2. R[0] = buf
    BY <1>9, <2>1, Zenon
  <2>. QED  BY <2>1, <2>2, Zenon
<1>11. ASSUME NEW m \in Nat, m \in G PROVE m + 1 \in G
  <2>1. SUFFICES ASSUME m + 1 \in 0..64 PROVE R[m + 1] \in Registers
    BY SMT
  <2>2. m \in 0..64 /\ m + 1 # 0 /\ (m + 1) - 1 = m /\ m + 1 \in 1..64
    BY <2>1, SMT
  <2>3. R[m + 1] = MD5STEP(m + 1, R[m], in)
    BY <1>9, <2>1, <2>2, Zenon
  <2>4. R[m] \in Registers
    BY <1>11, <2>2, Zenon
  <2>. QED  BY <1>1, <2>2, <2>3, <2>4, StepTyped, Zenon
<1> HIDE DEF G
<1>12. 64 \in G
  <2>1. 64 \in Nat
    BY SMT
  <2>. QED  BY <1>10, <1>11, <2>1, SetInduction, Zenon
<1>13. R[64] \in Registers
  <2>1. 64 \in 0..64
    BY SMT
  <2>. QED  BY <1>12, <2>1, Zenon DEF G
<1>14. ASSUME NEW k \in 1..4 PROVE AddWord(buf[k], R[64][k]) \in MdWord
  <2>1. buf[k] \in MdWord /\ R[64][k] \in MdWord
    BY <1>13, Zenon DEF Registers
  <2>. QED  BY <2>1, AddTyped, Zenon
<1>. QED  BY <1>8, <1>14, Zenon DEF Registers

\* MD5Init sets the registers to words.
LEMMA InitialTyped == InitialBuf \in Registers
<1> DEFINE Ok(wd) == wd[1] \in Nat /\ wd[1] < 65536 /\ wd[2] \in Nat /\ wd[2] < 65536 /\ wd = <<wd[1], wd[2]>>
<1>1. \A n \in 1..4 : Ok(InitialBuf[n])
  BY SMTT(60) DEF InitialBuf
<1>2. ASSUME NEW n \in 1..4 PROVE InitialBuf[n] \in MdWord
  <2>1. PICK v : v = InitialBuf[n] /\ Ok(v)
    <3> HIDE DEF Ok
    <3>. QED  BY <1>1, Zenon
  <2>2. v[1] < Half /\ v[2] < Half /\ v[1] \in Nat /\ v[2] \in Nat /\ v = <<v[1], v[2]>>
    BY <2>1, HalfIs, SMT
  <2> HIDE DEF Ok
  <2>3. v[1] \in HalfRange /\ v[2] \in HalfRange
    BY <2>2, InHalf, Zenon
  <2>4. <<v[1], v[2]>> \in MdWord
    BY <2>3, WordIs, Zenon
  <2>5. v \in MdWord
    BY <2>2, <2>4, SMT
  <2>. QED  BY <2>1, <2>5, Zenon
<1>3. InitialBuf = <<InitialBuf[1], InitialBuf[2], InitialBuf[3], InitialBuf[4]>>
  BY SMTT(60) DEF InitialBuf
<1>4. 1 \in 1..4 /\ 2 \in 1..4 /\ 3 \in 1..4 /\ 4 \in 1..4
  BY SMT
<1>5. <<InitialBuf[1], InitialBuf[2], InitialBuf[3], InitialBuf[4]>> \in Registers
  BY <1>2, <1>4, FourWords, Zenon
<1>. QED  BY <1>3, <1>5, Zenon

\* The registers after any number of blocks.
LEMMA ChainTyped ==
  ASSUME NEW s \in Seq(Md5Block)
  PROVE  Chain(s) \in Registers
<1> DEFINE F == [i \in 1..Len(s) |-> [regs \in Registers |-> MD5Transform(regs, s[i])]]
<1>1. Len(s) \in Nat /\ \A i \in 1..Len(s) : s[i] \in Md5Block
  BY LenProperties, ElementOfSeq
<1>2. \A i \in 1..Len(s) : \A regs \in Registers :
        F[i][regs] = MD5Transform(regs, s[i]) /\ MD5Transform(regs, s[i]) \in Registers
  BY <1>1, TransformTyped, Zenon
<1>3. F \in [1..Len(s) -> [Registers -> Registers]]
  <2>1. ASSUME NEW i \in 1..Len(s)
        PROVE  [regs \in Registers |-> MD5Transform(regs, s[i])] \in [Registers -> Registers]
    BY <1>2, <2>1, Zenon
  <2>. QED  BY <2>1, Zenon
<1> HIDE DEF F
<1>4. PICK g \in [0..Len(s) -> Registers] :
        g[0] = InitialBuf /\ \A i \in 1..Len(s) : g[i] = F[i][g[i - 1]]
  <2>1. \A n \in Nat : \A G \in [1..n -> [Registers -> Registers]] :
          \E g \in [0..n -> Registers] : g[0] = InitialBuf /\ \A i \in 1..n : g[i] = G[i][g[i - 1]]
    BY InitialTyped, RegistersRecursion, Zenon
  <2>. QED  BY <1>1, <1>3, <2>1, Zenon
<1>5. ASSUME NEW i \in 0..Len(s)
      PROVE  g[i] = IF i = 0 THEN InitialBuf ELSE MD5Transform(g[i - 1], s[i])
  <2>1. CASE i = 0
    BY <1>4, <2>1, Zenon
  <2>2. CASE i # 0
    <3>1. i \in 1..Len(s) /\ i - 1 \in 0..Len(s)
      BY <1>1, <2>2, SMT
    <3>2. g[i - 1] \in Registers
      BY <3>1, Zenon
    <3>. QED  BY <1>2, <1>4, <2>2, <3>1, <3>2, Zenon
  <2>. QED  BY <2>1, <2>2, Zenon
<1>6. IsChain(g, s)
  <2>1. g = [i \in 0..Len(s) |-> g[i]]
    BY Zenon
  <2>. QED  BY <1>5, <2>1, Zenon DEF IsChain
<1>7. PICK R : R = (CHOOSE q : IsChain(q, s)) /\ IsChain(R, s)
  BY <1>6, Zenon
<1>8. Chain(s) = R[Len(s)]
  BY <1>7, Zenon DEF Chain, IsChain
<1>9. \A i \in 0..Len(s) : R[i] = IF i = 0 THEN InitialBuf ELSE MD5Transform(R[i - 1], s[i])
  BY <1>7, Zenon DEF IsChain
<1> DEFINE G == {m \in Nat : m \in 0..Len(s) => R[m] \in Registers}
<1>10. 0 \in G
  <2>1. 0 \in 0..Len(s) /\ 0 \in Nat
    BY <1>1, SMT
  <2>2. R[0] = InitialBuf
    BY <1>9, <2>1, Zenon
  <2>. QED  BY <2>1, <2>2, InitialTyped, Zenon
<1>11. ASSUME NEW m \in Nat, m \in G PROVE m + 1 \in G
  <2>1. SUFFICES ASSUME m + 1 \in 0..Len(s) PROVE R[m + 1] \in Registers
    BY SMT
  <2>2. m \in 0..Len(s) /\ m + 1 # 0 /\ (m + 1) - 1 = m /\ m + 1 \in 1..Len(s)
    BY <1>1, <2>1, SMT
  <2>3. R[m + 1] = MD5Transform(R[m], s[m + 1])
    BY <1>9, <2>1, <2>2, Zenon
  <2>4. R[m] \in Registers
    BY <1>11, <2>2, Zenon
  <2>. QED  BY <1>1, <2>2, <2>3, <2>4, TransformTyped, Zenon
<1> HIDE DEF G
<1>12. Len(s) \in G
  BY <1>1, <1>10, <1>11, SetInduction, Zenon
<1>13. Len(s) \in 0..Len(s)
  BY <1>1, SMT
<1>. QED  BY <1>8, <1>12, <1>13, Zenon DEF G

\* The two bytes of a half.
LEMMA HalfSplit ==
  ASSUME NEW x \in HalfRange
  PROVE  x % 256 \in Byte /\ x \div 256 \in Byte
<1>1. PICK a, b \in Byte : a = x \div 256 /\ b = x % 256 /\ x = 256 * a + b
  BY HalfBytes
<1>. QED  BY <1>1, Zenon

\* A word is four bytes of the digest.
LEMMA WordBytesTyped ==
  ASSUME NEW u \in MdWord
  PROVE  WordBytes(u) \in Seq(Byte) /\ Len(WordBytes(u)) = 4
<1>1. PICK a, b, c, d : a = u[2] % 256 /\ b = u[2] \div 256 /\ c = u[1] % 256 /\ d = u[1] \div 256
  BY Zenon
<1>2. a \in Byte /\ b \in Byte /\ c \in Byte /\ d \in Byte
  <2>1. u[1] \in HalfRange /\ u[2] \in HalfRange
    BY WordIs, Zenon
  <2>. QED  BY <1>1, <2>1, HalfSplit, Zenon
<1>3. WordBytes(u) = <<a, b, c, d>>
  BY <1>1, ZenonT(60) DEF WordBytes
<1>4. <<a, b, c, d>> \in Seq(Byte) /\ Len(<<a, b, c, d>>) = 4
  <2>1. Byte # {}
    BY <1>2, Zenon
  <2>. QED  BY <1>2, SMT
<1>. QED  BY <1>3, <1>4, Zenon

\* A digest is sixteen bytes.
LEMMA DigestTyped ==
  ASSUME NEW s \in Seq(Md5Block)
  PROVE  DigestOf(s) \in [1..16 -> Byte] /\ DigestOf(s) # Unset
<1> DEFINE d == [k \in 1..4 |-> WordBytes(Chain(s)[k])]
<1>1. ASSUME NEW k \in 1..4 PROVE WordBytes(Chain(s)[k]) \in Seq(Byte) /\ Len(WordBytes(Chain(s)[k])) = 4
  <2>1. Chain(s)[k] \in MdWord
    BY ChainTyped, Zenon DEF Registers
  <2>. QED  BY <2>1, WordBytesTyped, Zenon
<1>2. d \in [1..4 -> Seq(Byte)] /\ \A k \in 1..4 : Len(d[k]) = 4
  BY <1>1, Zenon
<1>3. DigestOf(s) = FlattenSeq(d)
  BY Zenon DEF DigestOf
<1> HIDE DEF d
<1>4. d \in Seq(Seq(Byte)) /\ Len(d) = 4
  <2>1. 4 \in Nat
    BY SMT
  <2>. QED  BY <1>2, <2>1, FunctionIsSeq, ZenonT(60)
<1>5. FlattenSeq(d) \in Seq(Byte) /\ Len(FlattenSeq(d)) = 4 * 4
  <2>1. 4 \in Nat \ {0}
    BY SMT
  <2>2. Uniform(4, d)
    BY <1>2, <1>4, Zenon DEF Uniform
  <2>3. FlatParts(Byte, 4, d)
    BY <1>4, <2>1, <2>2, FlattenUniform, Zenon
  <2>. QED  BY <1>4, <2>3, Zenon DEF FlatParts
<1>6. PICK f \in Seq(Byte) : f = FlattenSeq(d) /\ Len(f) = 16
  <2>1. 4 * 4 = 16
    BY SMT
  <2>. QED  BY <1>5, <2>1, Zenon
<1>7. f \in [1..16 -> Byte] /\ f # << >>
  <2>1. f \in [1..Len(f) -> Byte]
    BY LenProperties, ElementOfSeq, SMT
  <2>2. f # << >>
    <3>1. Len(<< >>) = 0 /\ 0 # 16
      BY EmptySeq, SMT
    <3>. QED  BY <1>6, <3>1, Zenon
  <2>. QED  BY <1>6, <2>1, <2>2, Zenon
<1>. QED  BY <1>3, <1>6, <1>7, Zenon DEF Unset

-----------------------------------------------------------------------------
(* The count of bits, in two words.                                        *)

\* A quotient and a remainder that are those of a division.
LEMMA DivUnique ==
  ASSUME NEW v \in Nat \ {0}, NEW q \in Int, NEW rem \in Nat, rem < v, NEW x \in Int, x = v * q + rem
  PROVE  x \div v = q /\ x % v = rem
<1>1. PICK p \in Int, s \in Int : p = x \div v /\ s = x % v
  BY SMT
<1>2. x = v * p + s /\ s >= 0 /\ s < v
  BY <1>1, SMT
<1>3. \A d \in Nat : v * (d + 1) >= v
  <2>1. TAKE d \in Nat
  <2>2. v * (d + 1) = v * d + v /\ v * d \in Nat
    BY SMT
  <2>. QED  BY <2>2, SMT
<1>4. ~(q > p)
  <2>1. SUFFICES ASSUME q > p PROVE FALSE
    BY Zenon
  <2>2. PICK d \in Nat : q = p + (d + 1)
    <3>1. (q - p) - 1 \in Nat /\ q = p + (((q - p) - 1) + 1)
      BY <2>1, SMT
    <3>. QED  BY <3>1, Zenon
  <2>3. v * q = v * p + v * (d + 1) /\ v * p \in Int /\ v * (d + 1) \in Int
    BY <2>2, SMT
  <2>4. v * (d + 1) >= v
    BY <1>3, Zenon
  <2>. QED  BY <1>2, <2>3, <2>4, SMT
<1>5. ~(q < p)
  <2>1. SUFFICES ASSUME q < p PROVE FALSE
    BY Zenon
  <2>2. PICK d \in Nat : p = q + (d + 1)
    <3>1. (p - q) - 1 \in Nat /\ p = q + (((p - q) - 1) + 1)
      BY <2>1, SMT
    <3>. QED  BY <3>1, Zenon
  <2>3. v * p = v * q + v * (d + 1) /\ v * q \in Int /\ v * (d + 1) \in Int
    BY <2>2, SMT
  <2>4. v * (d + 1) >= v
    BY <1>3, Zenon
  <2>. QED  BY <1>2, <2>3, <2>4, SMT
<1>6. q = p
  BY <1>4, <1>5, SMT
<1>. QED  BY <1>1, <1>2, <1>6, SMT

\* Quotient and rest, for a divisor no one evaluates.
LEMMA DivRest ==
  ASSUME NEW v \in Nat \ {0}, NEW x \in Nat
  PROVE  /\ x \div v \in Nat /\ x % v \in Nat /\ x % v < v
         /\ x = v * (x \div v) + (x % v) /\ x % v \in 0..v - 1
<1>1. PICK p \in Int, s \in Int : p = x \div v /\ s = x % v
  BY SMT
<1>2. x = v * p + s /\ s >= 0 /\ s < v
  BY <1>1, SMT
<1>3. p >= 0
  <2>1. SUFFICES ASSUME p < 0 PROVE FALSE
    BY SMT
  <2>2. PICK d \in Nat : p = 0 - (d + 1)
    <3>1. 0 - (p + 1) \in Nat /\ p = 0 - ((0 - (p + 1)) + 1)
      BY <2>1, SMT
    <3>. QED  BY <3>1, Zenon
  <2>3. v * p = 0 - (v * d + v) /\ v * d \in Nat
    BY <2>2, SMT
  <2>. QED  BY <1>2, <2>3, SMT
<1>4. s \in 0..v - 1 /\ p \in Nat /\ s \in Nat
  BY <1>2, <1>3, SMT
<1>. QED  BY <1>1, <1>2, <1>4, SMT

\* A remainder may be taken of a part of a sum first.
LEMMA ModSum ==
  ASSUME NEW v \in Nat \ {0}, NEW x \in Nat, NEW y \in Nat
  PROVE  ((x % v) + y) % v = (x + y) % v
<1>1. PICK p, s \in Nat : x = v * p + s /\ s = x % v
  BY DivRest, Zenon
<1>2. PICK q, t \in Nat : s + y = v * q + t /\ t = (s + y) % v /\ t < v
  <2>1. s + y \in Nat
    BY SMT
  <2>. QED  BY <2>1, DivRest, Zenon
<1>3. x + y = v * (p + q) + t
  <2>1. PICK a, b \in Nat : a = v * p /\ b = v * q /\ v * (p + q) = a + b
    BY SMT
  <2>2. x = a + s /\ s + y = b + t
    BY <1>1, <1>2, <2>1, Zenon
  <2>3. x + y = (a + b) + t
    BY <2>2, SMT
  <2>. QED  BY <2>1, <2>3, Zenon
<1>4. p + q \in Int /\ x + y \in Int
  BY SMT
<1>5. (x + y) % v = t
  <2>1. PICK h \in Int, z \in Int : h = p + q /\ z = x + y
    BY <1>4, Zenon
  <2>2. z = v * h + t /\ t < v
    BY <1>2, <1>3, <2>1, Zenon
  <2>3. z % v = t
    BY <2>2, DivUnique, Zenon
  <2>. QED  BY <2>1, <2>3, Zenon
<1>. QED  BY <1>1, <1>2, <1>5, Zenon

\* A word of the count holds a whole number of blocks.
LEMMA WordDivides ==
  /\ Word \in Nat \ {0} /\ 0 \in 0..Word - 1
  /\ \E u \in Nat \ {0} : Word = 512 * u /\ Word \div 8 = 64 * u
<1>1. Word \in Nat \ {0} /\ Word % 512 = 0
  BY Md5Assumption, Zenon
<1>2. PICK u \in Nat : u = Word \div 512
  BY <1>1, SMT
<1>3. Word = 512 * u
  BY <1>1, <1>2, SMT
<1>4. u # 0 /\ Word \div 8 = 64 * u /\ 0 \in 0..Word - 1
  BY <1>1, <1>3, SMT
<1>5. u \in Nat \ {0}
  BY <1>4, SMT
<1>. QED  BY <1>1, <1>3, <1>4, <1>5, SMT

\* The bits of n bytes.
BitsOf(n) == <<(8 * n) % Word, ((8 * n) \div Word) % Word>>

\* The two words of the count for n bytes, and the bytes the buffer then
\* holds.
LEMMA BitsTyped ==
  ASSUME NEW n \in Nat
  PROVE  /\ BitsOf(n) \in (0..Word - 1) \X (0..Word - 1)
         /\ BitsOf(n)[1] = (8 * n) % Word /\ BitsOf(n)[2] = ((8 * n) \div Word) % Word
         /\ (BitsOf(n)[1] \div 8) % 64 = n % 64
<1>1. Word \in Nat \ {0} /\ 8 * n \in Nat
  BY WordDivides, SMT
<1>2. PICK q, s \in Nat : /\ q = (8 * n) \div Word /\ s = (8 * n) % Word
                          /\ 8 * n = Word * q + s /\ s \in 0..Word - 1
  BY <1>1, DivRest, Zenon
<1>3. q % Word \in 0..Word - 1
  BY <1>1, DivRest, Zenon
<1>4. BitsOf(n) = <<s, q % Word>>
  BY <1>2, Zenon DEF BitsOf
<1>5. BitsOf(n) \in (0..Word - 1) \X (0..Word - 1) /\ BitsOf(n)[1] = s /\ BitsOf(n)[2] = q % Word
  BY <1>2, <1>3, <1>4, SMT
<1>6. PICK u \in Nat : Word = 512 * u
  BY WordDivides, SMT
<1>7. PICK t \in Nat : t = u * q
  BY SMT
<1>8. 8 * n = 512 * t + s
  <2>1. Word * q = 512 * t
    BY <1>6, <1>7, SMT
  <2>. QED  BY <1>2, <2>1, ZenonT(60)
<1>9. (s \div 8) % 64 = n % 64
  <2>1. PICK a, b \in Nat : n = 64 * a + b /\ b = n % 64 /\ b < 64
    <3>1. 64 \in Nat \ {0}
      BY SMT
    <3>. QED  BY <3>1, DivRest, Zenon
  <2>2. PICK c \in Nat : s = 8 * c
    <3>1. n - 64 * t \in Nat /\ s = 8 * (n - 64 * t)
      BY <1>8, SMT
    <3>. QED  BY <3>1, Zenon
  <2>3. s \div 8 = c
    BY <2>2, SMT
  <2>4. c = 64 * (a - t) + b
    BY <1>8, <2>1, <2>2, SMT
  <2>5. c % 64 = b
    BY <2>1, <2>4, SMT
  <2>. QED  BY <2>1, <2>3, <2>5, Zenon
<1>. QED  BY <1>2, <1>5, <1>9, Zenon

\* MD5Update counts l more bytes without a loss, the carry included.
LEMMA CountExact ==
  ASSUME NEW n \in Nat, NEW l \in Nat
  PROVE  CountBits(BitsOf(n), l) = BitsOf(n + l)
<1> DEFINE v == Word
<1>1. v \in Nat \ {0} /\ 8 * n \in Nat /\ 8 * l \in Nat
  BY WordDivides, SMT
<1>2. PICK q, rem \in Nat : /\ q = (8 * n) \div v /\ rem = (8 * n) % v
                          /\ 8 * n = v * q + rem /\ rem < v
  BY <1>1, DivRest, Zenon
<1>3. PICK p, s \in Nat : /\ p = (8 * l) \div v /\ s = (8 * l) % v
                          /\ 8 * l = v * p + s /\ s < v
  BY <1>1, DivRest, Zenon
<1>4. l \div (v \div 8) = p
  <2>1. PICK u \in Nat \ {0} : v = 512 * u /\ v \div 8 = 64 * u
    BY WordDivides, Zenon
  <2>2. PICK wide \in Nat \ {0} : wide = 64 * u
    BY SMT
  <2>3. PICK e \in Nat : e = wide * p
    BY SMT
  <2>4. v * p = 8 * e
    BY <2>1, <2>2, <2>3, SMT
  <2>5. PICK f \in Nat : l = e + f /\ s = 8 * f
    <3>1. l - e \in Nat /\ l = e + (l - e) /\ s = 8 * (l - e)
      BY <1>3, <2>4, SMT
    <3>. QED  BY <3>1, Zenon
  <2>6. f < wide
    BY <1>3, <2>1, <2>2, <2>5, SMT
  <2>7. l \div wide = p
    <3>1. l = wide * p + f /\ p \in Int /\ l \in Int
      BY <2>3, <2>5, SMT
    <3>. QED  BY <2>6, <3>1, DivUnique
  <2>. QED  BY <2>1, <2>2, <2>7, Zenon
<1>5. 8 * (n + l) = v * (q + p) + (rem + s) /\ 8 * (n + l) \in Int
  BY <1>1, <1>2, <1>3, SMT
<1> DEFINE low == (rem + s) % v
           carry == IF low < rem THEN 1 ELSE 0
<1>6. /\ low = (8 * (n + l)) % v
      /\ (q + carry) + p = (8 * (n + l)) \div v
  <2>1. CASE rem + s < v
    <3>1. rem + s \in Nat /\ q + p \in Int /\ rem + s = v * 0 + (rem + s) /\ 0 \in Int /\ rem + s \in Int
      BY <1>1, SMT
    <3>2. low = rem + s
      BY <1>1, <2>1, <3>1, DivUnique
    <3>3. (8 * (n + l)) % v = rem + s /\ (8 * (n + l)) \div v = q + p
      <4>1. PICK h \in Int, z \in Int, t \in Nat : h = q + p /\ z = 8 * (n + l) /\ t = rem + s
        BY <1>5, <3>1, Zenon
      <4>2. z = v * h + t /\ t < v
        BY <1>5, <2>1, <4>1, Zenon
      <4>3. z % v = t /\ z \div v = h
        BY <1>1, <4>2, DivUnique, Zenon
      <4>. QED  BY <4>1, <4>3, Zenon
    <3>4. carry = 0
      BY <3>2, SMT
    <3> HIDE DEF low, carry
    <3>5. (q + carry) + p = q + p
      BY <3>4, SMT
    <3>. QED  BY <3>2, <3>3, <3>5, Zenon
  <2>2. CASE ~(rem + s < v)
    <3>1. PICK d \in Nat : d = (rem + s) - v
      BY <1>1, <2>2, SMT
    <3>2. d < rem /\ d < v /\ rem + s = v * 1 + d /\ rem + s \in Int /\ 1 \in Int
      BY <1>1, <1>2, <1>3, <3>1, SMT
    <3>3. low = d
      BY <1>1, <3>2, DivUnique
    <3>4. 8 * (n + l) = v * ((q + p) + 1) + d /\ (q + p) + 1 \in Int
      BY <1>1, <1>5, <3>2, SMT
    <3>5. (8 * (n + l)) % v = d /\ (8 * (n + l)) \div v = (q + p) + 1
      BY <1>1, <1>5, <3>2, <3>4, DivUnique, SMTT(60)
    <3>6. carry = 1
      BY <3>2, <3>3, SMT
    <3> HIDE DEF low, carry
    <3>7. (q + carry) + p = (q + p) + 1
      BY <3>6, SMT
    <3>. QED  BY <3>3, <3>5, <3>7, Zenon
  <2>. QED  BY <2>1, <2>2, Zenon
<1>7. carry \in Nat
  BY SMT
<1>8. ((q % v) + carry + p) % v = ((q + carry) + p) % v
  <2> HIDE DEF carry
  <2>1. carry + p \in Nat /\ (q + carry) + p = q + (carry + p)
    BY <1>7, SMT
  <2>2. ((q % v) + (carry + p)) % v = (q + (carry + p)) % v
    BY <1>1, <2>1, ModSum, Zenon
  <2>3. q % v \in Nat
    BY <1>1, DivRest, Zenon
  <2>4. (q % v) + carry + p = (q % v) + (carry + p)
    BY <1>7, <2>3, SMT
  <2>. QED  BY <2>1, <2>2, <2>4, Zenon
<1>9. CountBits(BitsOf(n), l) = <<low, ((q % v) + carry + p) % v>>
  <2>1. BitsOf(n)[1] = rem /\ BitsOf(n)[2] = q % v
    BY <1>2, BitsTyped, Zenon
  <2>. QED  BY <1>3, <1>4, <2>1, Zenon DEF CountBits
<1> HIDE DEF low, carry
<1>. QED  BY <1>6, <1>8, <1>9, Zenon DEF BitsOf

-----------------------------------------------------------------------------
(* The context.                                                            *)

Buffer == [1..64 -> 0..Garbage]

Md5Contexts ==
  [bits : (0..Word - 1) \X (0..Word - 1), in : Buffer, blocks : Seq(Md5Block)]

\* c holds the first n elements of m: whole blocks, and the rest in the buffer.
Held(c, m, n) ==
  /\ c.bits = BitsOf(n)
  /\ Len(c.blocks) = n \div 64
  /\ \A i \in 1..Len(c.blocks), k \in 1..64 : c.blocks[i][k] = m[64 * (i - 1) + k]
  /\ \A k \in 1..n % 64 : c.in[k] = m[64 * (n \div 64) + k]

\* The buffer after a memcpy into it.
LEMMA PutTyped ==
  ASSUME NEW b \in Buffer, NEW at \in Nat, NEW s \in Seq(Byte)
  PROVE  /\ Put(b, at, s) \in Buffer
         /\ \A k \in 1..64 : Put(b, at, s)[k] = IF k - at \in 1..Len(s) THEN s[k - at] ELSE b[k]
<1>1. DOMAIN s = 1..Len(s) /\ \A k \in 1..Len(s) : s[k] \in Byte
  BY LenProperties, ElementOfSeq
<1>2. \A x \in Byte : x \in 0..Garbage
  BY SMT DEF Byte, Garbage
<1>3. Put(b, at, s) = [k \in 1..64 |-> IF k - at \in 1..Len(s) THEN s[k - at] ELSE b[k]]
  BY <1>1, Zenon DEF Put
<1>4. ASSUME NEW k \in 1..64
      PROVE  (IF k - at \in 1..Len(s) THEN s[k - at] ELSE b[k]) \in 0..Garbage
  <2>1. b[k] \in 0..Garbage
    BY Zenon DEF Buffer
  <2>. QED  BY <1>1, <1>2, <2>1, Zenon
<1>. QED  BY <1>3, <1>4, Zenon DEF Buffer

\* The same, as one fact.
LEMMA PutAll ==
  \A b \in Buffer, at \in Nat, s \in Seq(Byte) :
    /\ Put(b, at, s) \in Buffer
    /\ \A k \in 1..64 : Put(b, at, s)[k] = IF k - at \in 1..Len(s) THEN s[k - at] ELSE b[k]
BY PutTyped

\* A record with two fields changed.
LEMMA RecordWith ==
  ASSUME NEW B, NEW I, NEW S, NEW c \in [bits : B, in : I, blocks : S], NEW b \in B, NEW e \in I
  PROVE  /\ [c EXCEPT !.bits = b, !.in = e] \in [bits : B, in : I, blocks : S]
         /\ [c EXCEPT !.bits = b, !.in = e].bits = b
         /\ [c EXCEPT !.bits = b, !.in = e].in = e
         /\ [c EXCEPT !.bits = b, !.in = e].blocks = c.blocks
OBVIOUS

\* Blocks put one after the other.
LEMMA BlocksConcat ==
  \A s, t \in Seq(Md5Block) :
    /\ s \o t \in Seq(Md5Block) /\ Len(s \o t) = Len(s) + Len(t)
    /\ \A i \in 1..Len(s) + Len(t) : (s \o t)[i] = IF i <= Len(s) THEN s[i] ELSE t[i - Len(s)]
BY ConcatProperties

\* A context with a new count and a new buffer.
LEMMA ContextWith ==
  ASSUME NEW c \in Md5Contexts, NEW b \in (0..Word - 1) \X (0..Word - 1), NEW e \in Buffer
  PROVE  /\ [c EXCEPT !.bits = b, !.in = e] \in Md5Contexts
         /\ [c EXCEPT !.bits = b, !.in = e].bits = b
         /\ [c EXCEPT !.bits = b, !.in = e].in = e
         /\ [c EXCEPT !.bits = b, !.in = e].blocks = c.blocks
BY RecordWith, Zenon DEF Md5Contexts

\* A memcpy to the start of the buffer.
LEMMA PutFirst ==
  ASSUME NEW b \in Buffer, NEW s \in Seq(Byte)
  PROVE  /\ Put(b, 0, s) \in Buffer
         /\ \A k \in 1..64 : Put(b, 0, s)[k] = IF k \in 1..Len(s) THEN s[k] ELSE b[k]
<1>1. PICK z \in Nat : z = 0
  BY SMT
<1>2. /\ Put(b, z, s) \in Buffer
      /\ \A k \in 1..64 : Put(b, z, s)[k] = IF k - z \in 1..Len(s) THEN s[k - z] ELSE b[k]
  BY PutTyped
<1>3. \A k \in 1..64 : k - z = k
  BY <1>1, SMT
<1>. QED  BY <1>1, <1>2, <1>3, Zenon

\* A block fills the buffer.
LEMMA BlockIsBuffer ==
  ASSUME NEW b \in Md5Block
  PROVE  b \in Buffer
<1>1. \A k \in 1..64 : b[k] \in 0..Garbage
  <2>1. \A k \in 1..64 : b[k] \in Byte
    BY Zenon DEF Md5Block
  <2>2. \A v \in Byte : v \in 0..Garbage
    BY SMT DEF Byte, Garbage
  <2>. QED  BY <2>1, <2>2, Zenon
<1>. QED  BY <1>1, Zenon DEF Md5Block, Buffer

\* A slice of 64 bytes is a block.
LEMMA SliceIsBlock ==
  ASSUME NEW s \in Seq(Byte), Len(s) = 64
  PROVE  s \in Md5Block
<1>1. s \in [1..Len(s) -> Byte]
  BY LenProperties
<1>. QED  BY <1>1, Zenon DEF Md5Block

\* The whole blocks of data after its first elements, and what is left.
WholeOf(data, lead, n) ==
  [k \in 1..n |-> SubSeq(data, lead + 64 * (k - 1) + 1, lead + 64 * k)]

RestOf(data, lead, n) == SubSeq(data, lead + 64 * n + 1, Len(data))

Pieces(data, lead, n) ==
  /\ n \in Nat /\ WholeOf(data, lead, n) \in Seq(Md5Block)
  /\ Len(WholeOf(data, lead, n)) = n
  /\ \A k \in 1..n, j \in 1..64 : WholeOf(data, lead, n)[k][j] = data[lead + 64 * (k - 1) + j]
  /\ RestOf(data, lead, n) \in Seq(Byte) /\ Len(RestOf(data, lead, n)) < 64
  /\ Len(data) = lead + 64 * n + Len(RestOf(data, lead, n))
  /\ \A j \in 1..Len(RestOf(data, lead, n)) : RestOf(data, lead, n)[j] = data[lead + 64 * n + j]

\* The blocks MD5Update takes from the data itself.
LEMMA WholeBlocks ==
  ASSUME NEW data \in Seq(Byte), NEW lead \in Nat, lead <= Len(data),
         NEW n, n = (Len(data) - lead) \div 64
  PROVE  Pieces(data, lead, n)
<1> DEFINE part(k) == SubSeq(data, lead + 64 * (k - 1) + 1, lead + 64 * k)
           whole == [k \in 1..n |-> part(k)]
           rest == SubSeq(data, lead + 64 * n + 1, Len(data))
<1>1. Len(data) \in Nat
  BY LenProperties
<1>2. n \in Nat /\ lead + 64 * n <= Len(data) /\ Len(data) < lead + 64 * n + 64
  BY <1>1, SMT
<1>3. ASSUME NEW k \in 1..n
      PROVE  part(k) \in Md5Block /\ \A j \in 1..64 : part(k)[j] = data[lead + 64 * (k - 1) + j]
  <2>1. PICK a \in Nat \ {0}, b \in Nat : a = lead + 64 * (k - 1) + 1 /\ b = lead + 64 * k
    <3>1. lead + 64 * (k - 1) + 1 \in Nat \ {0} /\ lead + 64 * k \in Nat
      BY SMT
    <3>. QED  BY <3>1, Zenon
  <2>2. b <= Len(data) /\ a <= b + 1 /\ (b + 1) - a = 64 /\ a - 1 = lead + 64 * (k - 1)
    BY <1>1, <1>2, <2>1, SMT
  <2>3. /\ SubSeq(data, a, b) \in Seq(Byte) /\ Len(SubSeq(data, a, b)) = 64
        /\ \A i \in 1..64 : SubSeq(data, a, b)[i] = data[(a - 1) + i]
    <3>1. /\ SubSeq(data, a, b) \in Seq(Byte) /\ Len(SubSeq(data, a, b)) = (b + 1) - a
          /\ \A i \in 1..(b + 1) - a : SubSeq(data, a, b)[i] = data[(a - 1) + i]
      BY <2>2, Slice
    <3>. QED  BY <2>2, <3>1, Zenon
  <2>4. part(k) = SubSeq(data, a, b)
    BY <2>1, Zenon
  <2>. QED  BY <2>2, <2>3, <2>4, SliceIsBlock, Zenon
<1>4. whole \in Seq(Md5Block) /\ Len(whole) = n
  <2>1. whole \in [1..n -> Md5Block]
    BY <1>3, Zenon
  <2> HIDE DEF whole
  <2>. QED  BY <1>2, <2>1, FunctionIsSeq, Zenon
<1>5. \A k \in 1..n, j \in 1..64 : whole[k][j] = data[lead + 64 * (k - 1) + j]
  BY <1>3, ZenonT(60)
<1>6. /\ rest \in Seq(Byte) /\ Len(rest) < 64 /\ Len(data) = lead + 64 * n + Len(rest)
      /\ \A j \in 1..Len(rest) : rest[j] = data[lead + 64 * n + j]
  <2>1. PICK a \in Nat \ {0}, b \in Nat : a = lead + 64 * n + 1 /\ b = Len(data)
    <3>1. lead + 64 * n + 1 \in Nat \ {0}
      BY <1>2, SMT
    <3>. QED  BY <1>1, <3>1, Zenon
  <2>2. b <= Len(data) /\ a <= b + 1 /\ a - 1 = lead + 64 * n
    BY <1>1, <1>2, <2>1, SMT
  <2>3. /\ SubSeq(data, a, b) \in Seq(Byte) /\ Len(SubSeq(data, a, b)) = (b + 1) - a
        /\ \A i \in 1..(b + 1) - a : SubSeq(data, a, b)[i] = data[(a - 1) + i]
    BY <2>2, Slice
  <2>4. (b + 1) - a < 64 /\ Len(data) = lead + 64 * n + ((b + 1) - a)
    BY <1>1, <1>2, <2>1, SMT
  <2>5. rest = SubSeq(data, a, b)
    BY <2>1, Zenon
  <2>. QED  BY <2>2, <2>3, <2>4, <2>5, ZenonT(60)
<1>7. whole = WholeOf(data, lead, n) /\ rest = RestOf(data, lead, n)
  BY Zenon DEF WholeOf, RestOf
<1> HIDE DEF whole, rest
<1>. QED  BY <1>2, <1>4, <1>5, <1>6, <1>7, Zenon DEF Pieces

\* s is what follows in m after n elements, and s the blocks after b of them.
Continues(s, m, n) == \A k \in 1..Len(s) : s[k] = m[n + k]

BlocksOf(s, m, b) == \A i \in 1..Len(s), k \in 1..64 : s[i][k] = m[64 * ((b + i) - 1) + k]

\* Blocks and a rest that go on where the context ends.
LEMMA Reblocked ==
  ASSUME NEW c \in Md5Contexts, NEW m, NEW n \in Nat, Held(c, m, n), NEW l \in Nat,
         NEW new \in Seq(Md5Block), NEW rest \in Seq(Byte), Len(rest) < 64,
         n + l = 64 * ((n \div 64) + Len(new)) + Len(rest),
         BlocksOf(new, m, n \div 64), Continues(rest, m, 64 * ((n \div 64) + Len(new)))
  PROVE  LET d == [bits |-> CountBits(c.bits, l),
                   in |-> Put(IF new = << >> THEN c.in ELSE Last(new), 0, rest),
                   blocks |-> c.blocks \o new]
         IN d \in Md5Contexts /\ Held(d, m, n + l)
<1> DEFINE base == IF new = << >> THEN c.in ELSE Last(new)
           buffer == Put(base, 0, rest)
           all == c.blocks \o new
           d == [bits |-> CountBits(c.bits, l), in |-> buffer, blocks |-> all]
<1>1. c.in \in Buffer /\ c.blocks \in Seq(Md5Block)
  BY SMT DEF Md5Contexts
<1>2. /\ c.bits = BitsOf(n) /\ Len(c.blocks) = n \div 64
      /\ \A i \in 1..Len(c.blocks), k \in 1..64 : c.blocks[i][k] = m[64 * (i - 1) + k]
  BY Zenon DEF Held
<1>3. PICK b, e, s \in Nat : b = n \div 64 /\ e = Len(new) /\ s = Len(rest)
  <2>1. n \div 64 \in Nat /\ Len(new) \in Nat /\ Len(rest) \in Nat
    BY LenProperties, SMT
  <2>. QED  BY <2>1, Zenon
<1>4. n + l = 64 * (b + e) + s /\ s < 64 /\ Len(c.blocks) = b
  BY <1>2, <1>3, Zenon
<1>5. (n + l) \div 64 = b + e /\ (n + l) % 64 = s /\ n + l \in Nat
  BY <1>4, SMT
<1>6. base \in Buffer
  <2>1. CASE new = << >>
    BY <1>1, <2>1, Zenon
  <2>2. CASE new # << >>
    <3>1. Len(new) \in 1..Len(new)
      <4>1. Len(new) # 0 /\ Len(new) \in Nat
        BY <2>2, EmptySeq, LenProperties
      <4>. QED  BY <4>1, SMT
    <3>2. Last(new) \in Md5Block
      BY <3>1, ElementOfSeq, Zenon DEF Last
    <3>. QED  BY <2>2, <3>2, BlockIsBuffer, Zenon
  <2>. QED  BY <2>1, <2>2, Zenon
<1> HIDE DEF base
<1>7. buffer \in Buffer /\ \A k \in 1..s : buffer[k] = rest[k]
  <2>2. /\ buffer \in Buffer
        /\ \A k \in 1..64 : buffer[k] = IF k \in 1..Len(rest) THEN rest[k] ELSE base[k]
    BY <1>6, PutFirst, Zenon
  <2>3. \A k \in 1..s : k \in 1..64
    BY <1>4, SMT
  <2>. QED  BY <1>3, <2>2, <2>3, Zenon
<1>8. /\ all \in Seq(Md5Block) /\ Len(all) = b + e
      /\ \A i \in 1..b + e : all[i] = IF i <= b THEN c.blocks[i] ELSE new[i - b]
  <2>1. /\ all \in Seq(Md5Block) /\ Len(all) = Len(c.blocks) + Len(new)
        /\ \A i \in 1..Len(c.blocks) + Len(new) :
             all[i] = IF i <= Len(c.blocks) THEN c.blocks[i] ELSE new[i - Len(c.blocks)]
    BY <1>1, ConcatProperties
  <2>. QED  BY <1>3, <1>4, <2>1, Zenon
<1>9. CountBits(c.bits, l) = BitsOf(n + l) /\ BitsOf(n + l) \in (0..Word - 1) \X (0..Word - 1)
  <2>1. CountBits(BitsOf(n), l) = BitsOf(n + l)
    BY CountExact, Zenon
  <2>2. BitsOf(n + l) \in (0..Word - 1) \X (0..Word - 1)
    BY <1>5, BitsTyped, Zenon
  <2>. QED  BY <1>2, <2>1, <2>2, Zenon
<1>10. ASSUME NEW i \in 1..b + e, NEW k \in 1..64
       PROVE  all[i][k] = m[64 * (i - 1) + k]
  <2>1. CASE i <= b
    <3>1. i \in 1..b
      BY <2>1, SMT
    <3>2. c.blocks[i][k] = m[64 * (i - 1) + k]
      BY <1>2, <1>4, <3>1, Zenon
    <3>. QED  BY <1>8, <2>1, <3>2, Zenon
  <2>2. CASE ~(i <= b)
    <3>1. i - b \in 1..e /\ (b + (i - b)) - 1 = i - 1
      BY <2>2, SMT
    <3>2. new[i - b][k] = m[64 * ((b + (i - b)) - 1) + k]
      BY <1>3, <3>1, Zenon DEF BlocksOf
    <3>. QED  BY <1>8, <2>2, <3>1, <3>2, Zenon
  <2>. QED  BY <2>1, <2>2, Zenon
<1> HIDE DEF buffer, all
<1>11. d \in Md5Contexts
  BY <1>7, <1>8, <1>9, SMT DEF Md5Contexts
<1>12. d.bits = BitsOf(n + l) /\ d.in = buffer /\ d.blocks = all
  BY <1>9, SMT
<1> HIDE DEF d
<1>13. \A k \in 1..s : d.in[k] = m[64 * (b + e) + k]
  BY <1>3, <1>7, <1>12, Zenon DEF Continues
<1>14. \A i \in 1..Len(d.blocks), k \in 1..64 : d.blocks[i][k] = m[64 * (i - 1) + k]
  BY <1>8, <1>10, <1>12, Zenon
<1>15. Held(d, m, n + l)
  BY <1>5, <1>8, <1>12, <1>13, <1>14, ZenonT(60) DEF Held
<1>. QED  BY <1>11, <1>15, Zenon DEF d, buffer, all, base

Counts == (0..Word - 1) \X (0..Word - 1)

With(c, b, e) == [c EXCEPT !.bits = b, !.in = e]

\* The same as ContextWith, as one fact.
LEMMA ContextAll ==
  \A c \in Md5Contexts, b \in Counts, e \in Buffer :
    /\ With(c, b, e) \in Md5Contexts
    /\ With(c, b, e).bits = b /\ With(c, b, e).in = e /\ With(c, b, e).blocks = c.blocks
BY ContextWith DEF With, Counts

\* Data that the buffer has room for.
LEMMA UpdateShort ==
  ASSUME NEW c \in Md5Contexts, NEW m, NEW n \in Nat, Held(c, m, n), NEW data \in Seq(Byte),
         Continues(data, m, n),
         n % 64 # 0, Len(data) < 64 - (n % 64)
  PROVE  LET d == [c EXCEPT !.bits = CountBits(@, Len(data)), !.in = Put(@, n % 64, data)]
         IN d \in Md5Contexts /\ Held(d, m, n + Len(data))
<1> DEFINE d == [c EXCEPT !.bits = CountBits(@, Len(data)), !.in = Put(@, n % 64, data)]
<1>1. PICK b, t, l \in Nat : b = n \div 64 /\ t = n % 64 /\ l = Len(data)
  <2>1. n \div 64 \in Nat /\ n % 64 \in Nat /\ Len(data) \in Nat
    BY LenProperties, SMT
  <2>. QED  BY <2>1, Zenon
<1>2. n = 64 * b + t /\ t < 64 /\ t + l < 64
  BY <1>1, SMT
<1>3. (n + l) \div 64 = b /\ (n + l) % 64 = t + l /\ n + l \in Nat
  BY <1>2, SMT
<1>4. /\ c.bits = BitsOf(n) /\ Len(c.blocks) = b
      /\ \A i \in 1..Len(c.blocks), k \in 1..64 : c.blocks[i][k] = m[64 * (i - 1) + k]
      /\ \A k \in 1..t : c.in[k] = m[64 * b + k]
  BY <1>1, Zenon DEF Held
<1>5. c.in \in Buffer /\ c.blocks \in Seq(Md5Block)
  BY SMT DEF Md5Contexts
<1> DEFINE buffer == Put(c.in, t, data)
           bits == CountBits(c.bits, l)
<1>6. /\ buffer \in Buffer
      /\ \A k \in 1..64 : buffer[k] = IF k - t \in 1..l THEN data[k - t] ELSE c.in[k]
  <2>1. data \in Seq(Byte)
    BY Zenon
  <2>2. /\ Put(c.in, t, data) \in Buffer
        /\ \A k \in 1..64 :
             Put(c.in, t, data)[k] = IF k - t \in 1..Len(data) THEN data[k - t] ELSE c.in[k]
    BY <1>5, <2>1, PutAll, Zenon
  <2>. QED  BY <1>1, <2>2, Zenon
<1>7. bits = BitsOf(n + l) /\ BitsOf(n + l) \in (0..Word - 1) \X (0..Word - 1)
  <2>1. CountBits(BitsOf(n), l) = BitsOf(n + l)
    BY CountExact, Zenon
  <2>2. BitsOf(n + l) \in (0..Word - 1) \X (0..Word - 1)
    BY <1>3, BitsTyped, Zenon
  <2>. QED  BY <1>4, <2>1, <2>2, Zenon
<1>8. d = [c EXCEPT !.bits = bits, !.in = buffer]
  BY <1>1, Zenon
<1> HIDE DEF d, bits, buffer
<1>9. d \in Md5Contexts /\ d.bits = bits /\ d.in = buffer /\ d.blocks = c.blocks
  <2>1. bits \in Counts /\ buffer \in Buffer /\ c \in Md5Contexts
    BY <1>6, <1>7, Zenon DEF Counts
  <2>2. /\ With(c, bits, buffer) \in Md5Contexts
        /\ With(c, bits, buffer).bits = bits /\ With(c, bits, buffer).in = buffer
        /\ With(c, bits, buffer).blocks = c.blocks
    BY <2>1, ContextAll, ZenonT(60)
  <2>3. d = With(c, bits, buffer)
    BY <1>8, Zenon DEF With
  <2>. QED  BY <2>2, <2>3, Zenon
<1>10. ASSUME NEW k \in 1..t + l PROVE d.in[k] = m[64 * b + k]
  <2>1. k \in 1..64
    BY <1>2, SMT
  <2>2. CASE k <= t
    <3>1. k \in 1..t /\ ~(k - t \in 1..l)
      BY <2>2, SMT
    <3>. QED  BY <1>4, <1>6, <1>9, <2>1, <3>1, Zenon
  <2>3. CASE ~(k <= t)
    <3>1. k - t \in 1..l /\ n + (k - t) = 64 * b + k
      BY <1>2, <2>3, SMT
    <3>2. data[k - t] = m[n + (k - t)]
      BY <1>1, <3>1, Zenon DEF Continues
    <3>. QED  BY <1>6, <1>9, <2>1, <3>1, <3>2, Zenon
  <2>. QED  BY <2>2, <2>3, Zenon
<1>11. Held(d, m, n + l)
  <2>1. \A i \in 1..Len(d.blocks), k \in 1..64 : d.blocks[i][k] = m[64 * (i - 1) + k]
    BY <1>4, <1>9, ZenonT(60)
  <2>2. d.bits = BitsOf(n + l) /\ Len(d.blocks) = (n + l) \div 64
    BY <1>3, <1>4, <1>7, <1>9, Zenon
  <2>3. \A k \in 1..(n + l) % 64 : d.in[k] = m[64 * ((n + l) \div 64) + k]
    BY <1>3, <1>10, Zenon
  <2>. QED  BY <2>1, <2>2, <2>3, Zenon DEF Held
<1>. QED  BY <1>1, <1>9, <1>11, Zenon DEF d

\* Where the rest of the data of a call stands in the message.
LEMMA Positions ==
  ASSUME NEW n \in Nat, NEW lead \in Nat, NEW b \in Nat, NEW e \in Nat, NEW h \in Nat,
         NEW s \in Nat, NEW l \in Nat, n + lead = 64 * (b + e), l = lead + 64 * h + s
  PROVE  /\ n + l = 64 * (b + (e + h)) + s
         /\ \A k \in 1..s : /\ n + (lead + 64 * h + k) = 64 * (b + (e + h)) + k
                            /\ lead + 64 * h + k \in 1..l
BY SMT

\* Element k of the rest s of l elements, after lead and h blocks, is after b + e + h blocks.
Placed(n, lead, b, e, h, s, l) ==
  /\ n + l = 64 * (b + (e + h)) + s
  /\ \A k \in 1..s : /\ n + (lead + 64 * h + k) = 64 * (b + (e + h)) + k
                     /\ lead + 64 * h + k \in 1..l

\* The same, as one fact.
LEMMA PositionsAll ==
  \A n, lead, b, e, h, s, l \in Nat :
    n + lead = 64 * (b + e) /\ l = lead + 64 * h + s => Placed(n, lead, b, e, h, s, l)
BY Positions DEF Placed

\* The context after data, of which the first lead bytes complete the blocks pre.
Updated(c, data, lead, h, pre) ==
  [bits |-> CountBits(c.bits, Len(data)),
   in |-> Put(IF pre \o WholeOf(data, lead, h) = << >> THEN c.in
              ELSE Last(pre \o WholeOf(data, lead, h)), 0, RestOf(data, lead, h)),
   blocks |-> c.blocks \o (pre \o WholeOf(data, lead, h))]

Completed(c, m, n, data, lead, pre) ==
  /\ Held(c, m, n) /\ Continues(data, m, n) /\ lead <= Len(data)
  /\ n + lead = 64 * ((n \div 64) + Len(pre)) /\ BlocksOf(pre, m, n \div 64)

\* Data with whole blocks in it: pre are those that its first elements complete.
LEMMA UpdateWhole ==
  ASSUME NEW c \in Md5Contexts, NEW m, NEW n \in Nat, NEW data \in Seq(Byte),
         NEW lead \in Nat, NEW pre \in Seq(Md5Block), Completed(c, m, n, data, lead, pre),
         NEW h, h = (Len(data) - lead) \div 64
  PROVE  /\ Updated(c, data, lead, h, pre) \in Md5Contexts
         /\ Held(Updated(c, data, lead, h, pre), m, n + Len(data))
<1>. Held(c, m, n) /\ Continues(data, m, n) /\ BlocksOf(pre, m, n \div 64)
  BY Zenon DEF Completed
<1>. lead <= Len(data) /\ n + lead = 64 * ((n \div 64) + Len(pre))
  BY Zenon DEF Completed
<1>1. PICK whole, rest : whole = WholeOf(data, lead, h) /\ rest = RestOf(data, lead, h)
  BY Zenon
<1>2. /\ h \in Nat /\ whole \in Seq(Md5Block) /\ Len(whole) = h
      /\ \A k \in 1..h, j \in 1..64 : whole[k][j] = data[lead + 64 * (k - 1) + j]
      /\ rest \in Seq(Byte) /\ Len(rest) < 64 /\ Len(data) = lead + 64 * h + Len(rest)
      /\ \A j \in 1..Len(rest) : rest[j] = data[lead + 64 * h + j]
  <2>1. Pieces(data, lead, h)
    BY WholeBlocks, Zenon
  <2>. QED  BY <1>1, <2>1, ZenonT(60) DEF Pieces
<1>20. h \in Nat /\ rest \in Seq(Byte) /\ Len(data) \in Nat
  BY <1>2, LenProperties, Zenon
<1>3. PICK b, e, s \in Nat : b = n \div 64 /\ e = Len(pre) /\ s = Len(rest)
  <2>1. n \div 64 \in Nat /\ Len(rest) \in Nat /\ Len(pre) \in Nat
    BY <1>20, LenProperties, SMT
  <2>. QED  BY <2>1, Zenon
<1>4. n + lead = 64 * (b + e) /\ Len(data) = lead + 64 * h + s /\ s < 64
  BY <1>2, <1>3, Zenon
<1> DEFINE new == pre \o whole
<1>5. /\ new \in Seq(Md5Block) /\ Len(new) = e + h
      /\ \A i \in 1..e + h : new[i] = IF i <= e THEN pre[i] ELSE whole[i - e]
  <2>1. /\ pre \o whole \in Seq(Md5Block) /\ Len(pre \o whole) = Len(pre) + Len(whole)
        /\ \A i \in 1..Len(pre) + Len(whole) :
             (pre \o whole)[i] = IF i <= Len(pre) THEN pre[i] ELSE whole[i - Len(pre)]
    BY <1>2, BlocksConcat, Zenon
  <2>. QED  BY <1>2, <1>3, <2>1, Zenon
<1> HIDE DEF new
<1>6. /\ n + Len(data) = 64 * (b + (e + h)) + s
      /\ \A k \in 1..s : /\ n + (lead + 64 * h + k) = 64 * (b + (e + h)) + k
                         /\ lead + 64 * h + k \in 1..Len(data)
  <2>1. n \in Nat /\ lead \in Nat /\ b \in Nat /\ e \in Nat /\ s \in Nat
    BY Zenon
  <2>2. Placed(n, lead, b, e, h, s, Len(data))
    BY <1>20, <1>4, <2>1, PositionsAll, Zenon
  <2>. QED  BY <2>2, Zenon DEF Placed
<1>7. ASSUME NEW i \in 1..e + h, NEW k \in 1..64
      PROVE  new[i][k] = m[64 * ((b + i) - 1) + k]
  <2>1. CASE i <= e
    <3>1. i \in 1..e
      BY <2>1, SMT
    <3>2. pre[i][k] = m[64 * ((b + i) - 1) + k]
      BY <1>3, <3>1, Zenon DEF BlocksOf
    <3>. QED  BY <1>5, <2>1, <3>2, Zenon
  <2>2. CASE ~(i <= e)
    <3>1. PICK j \in 1..h : j = i - e
      <4>1. i - e \in 1..h
        BY <1>20, <2>2, SMT
      <4>. QED  BY <4>1, Zenon
    <3>2. PICK p \in Nat : p = lead + 64 * (j - 1) + k
      <4>1. lead + 64 * (j - 1) + k \in Nat
        BY <1>20, <3>1, SMT
      <4>. QED  BY <4>1, Zenon
    <3>3. n + p = 64 * ((b + i) - 1) + k /\ p \in 1..Len(data)
      BY <1>20, <1>4, <3>1, <3>2, SMT
    <3>4. data[p] = m[n + p]
      BY <3>3, Zenon DEF Continues
    <3>5. whole[j][k] = data[p]
      BY <1>2, <3>2, Zenon
    <3>. QED  BY <1>5, <2>2, <3>1, <3>3, <3>4, <3>5, Zenon
  <2>. QED  BY <2>1, <2>2, Zenon
<1>8. ASSUME NEW k \in 1..s
      PROVE  rest[k] = m[64 * (b + (e + h)) + k]
  <2>1. PICK p \in Nat : p = lead + 64 * h + k
    <3>1. lead + 64 * h + k \in Nat
      BY <1>20, SMT
    <3>. QED  BY <3>1, Zenon
  <2>2. n + p = 64 * (b + (e + h)) + k /\ p \in 1..Len(data)
    BY <1>6, <2>1, Zenon
  <2>3. data[p] = m[n + p]
    BY <2>2, Zenon DEF Continues
  <2>4. rest[k] = data[p]
    BY <1>2, <1>3, <2>1, Zenon
  <2>. QED  BY <2>2, <2>3, <2>4, Zenon
<1>9. Len(data) \in Nat
  BY LenProperties
<1> DEFINE d == [bits |-> CountBits(c.bits, Len(data)),
                 in |-> Put(IF new = << >> THEN c.in ELSE Last(new), 0, rest),
                 blocks |-> c.blocks \o new]
<1>10. d \in Md5Contexts /\ Held(d, m, n + Len(data))
  <2>1. Len(rest) < 64 /\ n + Len(data) = 64 * ((n \div 64) + Len(new)) + Len(rest)
    BY <1>3, <1>4, <1>5, <1>6, Zenon
  <2>2. BlocksOf(new, m, n \div 64)
    BY <1>3, <1>5, <1>7, ZenonT(60) DEF BlocksOf
  <2>3. Continues(rest, m, 64 * ((n \div 64) + Len(new)))
    BY <1>3, <1>5, <1>8, ZenonT(60) DEF Continues
  <2>. QED  BY <1>2, <1>5, <1>9, <2>1, <2>2, <2>3, Reblocked, Zenon
<1>. QED  BY <1>1, <1>10, Zenon DEF new, Updated

\* The first n bytes.
LEMMA PrefixTyped ==
  ASSUME NEW s \in Seq(Byte), NEW n \in Nat, n <= Len(s)
  PROVE  /\ SubSeq(s, 1, n) \in Seq(Byte) /\ Len(SubSeq(s, 1, n)) = n
         /\ \A k \in 1..n : SubSeq(s, 1, n)[k] = s[k]
<1>1. PICK one \in Nat \ {0} : one = 1
  BY SMT
<1>2. one <= n + 1 /\ (n + 1) - one = n /\ \A k \in 1..n : (one - 1) + k = k
  BY <1>1, SMT
<1>3. /\ SubSeq(s, one, n) \in Seq(Byte) /\ Len(SubSeq(s, one, n)) = (n + 1) - one
      /\ \A k \in 1..(n + 1) - one : SubSeq(s, one, n)[k] = s[(one - 1) + k]
  BY <1>2, Slice
<1>. QED  BY <1>1, <1>2, <1>3, Zenon

\* The same, as one fact.
LEMMA PrefixAll ==
  \A s \in Seq(Byte), n \in Nat :
    n <= Len(s) => /\ SubSeq(s, 1, n) \in Seq(Byte) /\ Len(SubSeq(s, 1, n)) = n
                   /\ \A k \in 1..n : SubSeq(s, 1, n)[k] = s[k]
BY PrefixTyped

BytesTo(m, n) == \A k \in 1..n : m[k] \in Byte

\* The buffered block and the first lead bytes of data, which complete it, are a block.
Leads(c, m, n, data, lead) ==
  /\ Held(c, m, n) /\ Continues(data, m, n) /\ BytesTo(m, n)
  /\ (n % 64) + lead = 64 /\ lead <= Len(data)

FirstBlock(c, n, data, lead) == Put(c.in, n % 64, SubSeq(data, 1, lead))

\* The block MD5Update completes in the buffer first.
LEMMA LeadBlock ==
  ASSUME NEW c \in Md5Contexts, NEW m, NEW n \in Nat, NEW data \in Seq(Byte), NEW lead \in Nat,
         Leads(c, m, n, data, lead)
  PROVE  /\ FirstBlock(c, n, data, lead) \in Md5Block
         /\ BlocksOf(<<FirstBlock(c, n, data, lead)>>, m, n \div 64)
         /\ <<FirstBlock(c, n, data, lead)>> \in Seq(Md5Block)
<1>1. PICK t, b \in Nat : t = n % 64 /\ b = n \div 64 /\ n = 64 * b + t
  <2>1. n % 64 \in Nat /\ n \div 64 \in Nat /\ n = 64 * (n \div 64) + (n % 64)
    BY SMT
  <2>. QED  BY <2>1, Zenon
<1>2. t + lead = 64
  BY <1>1, Zenon DEF Leads
<1>3. \A k \in 1..t : c.in[k] = m[64 * b + k]
  BY <1>1, Zenon DEF Held, Leads
<1>4. PICK part : part = SubSeq(data, 1, lead)
  BY Zenon
<1>5. part \in Seq(Byte) /\ Len(part) = lead
  <2>1. lead <= Len(data)
    BY Zenon DEF Leads
  <2>. QED  BY <1>4, <2>1, PrefixAll, Zenon
<1>6. \A k \in 1..lead : part[k] = data[k]
  <2>1. lead <= Len(data)
    BY Zenon DEF Leads
  <2>. QED  BY <1>4, <2>1, PrefixAll, Zenon
<1>7. PICK first : first = Put(c.in, t, part)
  BY Zenon
<1>8. first = FirstBlock(c, n, data, lead)
  BY <1>1, <1>4, <1>7, Zenon DEF FirstBlock
<1>9. c.in \in Buffer
  BY SMT DEF Md5Contexts
<1>10. /\ first \in Buffer
       /\ \A k \in 1..64 : first[k] = IF k - t \in 1..lead THEN part[k - t] ELSE c.in[k]
  <2>1. part \in Seq(Byte)
    BY <1>5, Zenon
  <2>2. /\ Put(c.in, t, part) \in Buffer
        /\ \A k \in 1..64 :
             Put(c.in, t, part)[k] = IF k - t \in 1..Len(part) THEN part[k - t] ELSE c.in[k]
    BY <1>9, <2>1, PutAll, Zenon
  <2>. QED  BY <1>5, <1>7, <2>2, Zenon
<1>11. \A k \in 1..Len(data) : data[k] \in Byte
  BY ElementOfSeq, Zenon
<1>12. ASSUME NEW k \in 1..64
       PROVE  first[k] = m[64 * b + k] /\ first[k] \in Byte
  <2>1. CASE k <= t
    <3>1. k \in 1..t /\ ~(k - t \in 1..lead) /\ 64 * b + k \in 1..n
      BY <1>1, <2>1, SMT
    <3>2. BytesTo(m, n)
      BY Zenon DEF Leads
    <3>3. m[64 * b + k] \in Byte
      BY <3>1, <3>2, Zenon DEF BytesTo
    <3>. QED  BY <1>3, <1>10, <3>1, <3>3, Zenon
  <2>2. CASE ~(k <= t)
    <3>1. Len(data) \in Nat /\ lead <= Len(data)
      BY LenProperties DEF Leads
    <3>2. k - t \in 1..lead /\ k - t \in 1..Len(data) /\ n + (k - t) = 64 * b + k
      BY <1>1, <1>2, <2>2, <3>1, SMT
    <3>3. data[k - t] = m[n + (k - t)]
      BY <3>2, Zenon DEF Continues, Leads
    <3>. QED  BY <1>6, <1>10, <1>11, <3>2, <3>3, Zenon
  <2>. QED  BY <2>1, <2>2, Zenon
<1>13. first \in Md5Block
  <2>1. first = [k \in 1..64 |-> first[k]]
    BY <1>10, Zenon DEF Buffer
  <2>. QED  BY <1>12, <2>1, Zenon DEF Md5Block
<1>14. <<first>> \in Seq(Md5Block) /\ Len(<<first>>) = 1 /\ <<first>>[1] = first
  BY <1>13
<1>15. BlocksOf(<<first>>, m, n \div 64)
  <2>1. \A i \in 1..1 : i = 1 /\ (b + i) - 1 = b
    BY SMT
  <2>2. ASSUME NEW i \in 1..Len(<<first>>), NEW k \in 1..64
        PROVE  <<first>>[i][k] = m[64 * ((b + i) - 1) + k]
    <3>1. i = 1 /\ (b + i) - 1 = b
      BY <1>14, <2>1, Zenon
    <3>2. <<first>>[i] = first
      BY <1>14, <3>1, Zenon
    <3>3. first[k] = m[64 * b + k]
      BY <1>12, Zenon
    <3>. QED  BY <3>1, <3>2, <3>3, Zenon
  <2>. QED  BY <1>1, <2>2, ZenonT(60) DEF BlocksOf
<1>. QED  BY <1>8, <1>13, <1>14, <1>15, Zenon

\* After MD5Update the context holds the data too.
LEMMA UpdateHeld ==
  ASSUME NEW c \in Md5Contexts, NEW m, NEW n \in Nat, Held(c, m, n), NEW data \in Seq(Byte),
         Continues(data, m, n), BytesTo(m, n)
  PROVE  MD5Update(c, data) \in Md5Contexts /\ Held(MD5Update(c, data), m, n + Len(data))
<1>1. Len(data) \in Nat
  BY LenProperties
<1>2. PICK t \in Nat : t = n % 64 /\ t < 64 /\ Buffered(c) = t
  <2>1. n % 64 \in Nat /\ n % 64 < 64
    BY SMT
  <2>2. (BitsOf(n)[1] \div 8) % 64 = n % 64 /\ c.bits = BitsOf(n)
    BY BitsTyped, Zenon DEF Held
  <2>. QED  BY <2>1, <2>2, Zenon DEF Buffered
<1>3. PICK lead \in Nat : lead = (IF t = 0 THEN 0 ELSE 64 - t)
  <2>1. (IF t = 0 THEN 0 ELSE 64 - t) \in Nat
    BY <1>2, SMT
  <2>. QED  BY <2>1, Zenon
<1>4. PICK h : h = (Len(data) - lead) \div 64
  BY Zenon
<1>5. MD5Update(c, data) =
        IF t # 0 /\ Len(data) < lead
        THEN [c EXCEPT !.bits = CountBits(@, Len(data)), !.in = Put(@, t, data)]
        ELSE LET new == IF t = 0 THEN WholeOf(data, lead, h)
                        ELSE <<Put(c.in, t, SubSeq(data, 1, lead))>> \o WholeOf(data, lead, h)
             IN [bits |-> CountBits(c.bits, Len(data)),
                 in |-> Put(IF new = << >> THEN c.in ELSE Last(new), 0, RestOf(data, lead, h)),
                 blocks |-> c.blocks \o new]
  BY <1>2, <1>3, <1>4, SMT DEF MD5Update, WholeOf, RestOf
<1>6. CASE t # 0 /\ Len(data) < lead
  <2>1. n % 64 # 0 /\ Len(data) < 64 - (n % 64)
    BY <1>2, <1>3, <1>6, Zenon
  <2>2. PICK d : d = [c EXCEPT !.bits = CountBits(@, Len(data)), !.in = Put(@, n % 64, data)]
    BY Zenon
  <2>3. d \in Md5Contexts /\ Held(d, m, n + Len(data))
    BY <2>1, <2>2, UpdateShort, Zenon
  <2>4. MD5Update(c, data) = d
    BY <1>2, <1>5, <1>6, <2>2, Zenon
  <2>. QED  BY <2>3, <2>4, Zenon
<1>7. CASE ~(t # 0 /\ Len(data) < lead)
  <2>1. lead <= Len(data)
    BY <1>1, <1>2, <1>3, <1>7, SMT
  <2>2. n \div 64 \in Nat /\ n = 64 * (n \div 64) + t
    BY <1>2, SMT
  <2>3. PICK pre \in Seq(Md5Block) :
          /\ n + lead = 64 * ((n \div 64) + Len(pre)) /\ BlocksOf(pre, m, n \div 64)
          /\ MD5Update(c, data) = Updated(c, data, lead, h, pre)
    <3>1. CASE t = 0
      <4>1. << >> \in Seq(Md5Block) /\ Len(<< >>) = 0
        BY EmptySeq
      <4>2. lead = 0
        BY <1>3, <3>1, Zenon
      <4>3. << >> \o WholeOf(data, lead, h) = WholeOf(data, lead, h)
        <5>1. Pieces(data, lead, h)
          BY <1>4, <2>1, WholeBlocks
        <5>2. PICK s \in Seq(Md5Block) : s = WholeOf(data, lead, h)
          BY <5>1, Zenon DEF Pieces
        <5>3. << >> \o s = s
          BY ConcatEmptySeq
        <5>. QED  BY <5>2, <5>3, Zenon
      <4>4. BlocksOf(<< >>, m, n \div 64)
        <5>1. \A i \in 1..0 : FALSE
          BY SMT
        <5>. QED  BY <4>1, <5>1, Zenon DEF BlocksOf
      <4>5. n + lead = 64 * ((n \div 64) + 0)
        BY <2>2, <3>1, <4>2, SMT
      <4>6. MD5Update(c, data) = Updated(c, data, lead, h, << >>)
        BY <1>5, <1>7, <3>1, <4>3, Zenon DEF Updated
      <4>. QED  BY <4>1, <4>4, <4>5, <4>6, Zenon
    <3>2. CASE t # 0
      <4>1. t + lead = 64
        BY <1>2, <1>3, <3>2, SMT
      <4>2. PICK one : one = <<FirstBlock(c, n, data, lead)>>
        BY Zenon
      <4>3. BlocksOf(one, m, n \div 64) /\ one \in Seq(Md5Block)
        <5>1. (n % 64) + lead = 64
          BY <1>2, <4>1, Zenon
        <5>2. Leads(c, m, n, data, lead)
          BY <2>1, <5>1, Zenon DEF Leads
        <5>3. /\ BlocksOf(<<FirstBlock(c, n, data, lead)>>, m, n \div 64)
              /\ <<FirstBlock(c, n, data, lead)>> \in Seq(Md5Block)
          BY <5>2, LeadBlock
        <5>. QED  BY <4>2, <5>3, Zenon
      <4>4. Len(one) = 1
        BY <4>2
      <4>5. n + lead = 64 * ((n \div 64) + 1)
        BY <2>2, <4>1, SMT
      <4>6. MD5Update(c, data) = Updated(c, data, lead, h, one)
        BY <1>2, <1>5, <1>7, <3>2, <4>2, Zenon DEF Updated, FirstBlock
      <4>. QED  BY <4>3, <4>4, <4>5, <4>6, Zenon
    <3>. QED  BY <3>1, <3>2, Zenon
  <2>4. Completed(c, m, n, data, lead, pre)
    BY <2>1, <2>3, Zenon DEF Completed
  <2>5. /\ Updated(c, data, lead, h, pre) \in Md5Contexts
        /\ Held(Updated(c, data, lead, h, pre), m, n + Len(data))
    BY <1>4, <2>4, UpdateWhole
  <2>. QED  BY <2>3, <2>5, Zenon
<1>. QED  BY <1>6, <1>7, Zenon

\* And MD5Init holds nothing.
LEMMA InitHeld ==
  ASSUME NEW m
  PROVE  MD5Init \in Md5Contexts /\ Held(MD5Init, m, 0)
<1>1. Word \in Nat \ {0} /\ 0 \in 0..Word - 1
  BY WordDivides, Zenon
<1>2. BitsOf(0) = <<0, 0>>
  <2>1. 8 * 0 = 0 /\ 0 % Word = 0 /\ 0 \div Word = 0
    BY <1>1, SMT
  <2>. QED  BY <2>1, Zenon DEF BitsOf
<1>3. [k \in 1..64 |-> Garbage] \in Buffer
  BY SMT DEF Buffer, Garbage
<1>4. << >> \in Seq(Md5Block) /\ Len(<< >>) = 0
  BY EmptySeq
<1>5. MD5Init \in Md5Contexts
  BY <1>1, <1>3, <1>4, SMT DEF MD5Init, Md5Contexts
<1>6. MD5Init.bits = <<0, 0>> /\ MD5Init.blocks = << >>
  BY SMT DEF MD5Init
<1>7. 0 \div 64 = 0 /\ 0 % 64 = 0 /\ \A k \in 1..0 : FALSE
  BY SMT
<1>. QED  BY <1>2, <1>4, <1>5, <1>6, <1>7, Zenon DEF Held

\* The blocks, one after the other, are a sequence of bytes.
LEMMA BlocksFlat ==
  ASSUME NEW s \in Seq(Md5Block), NEW f, f = FlattenSeq(s)
  PROVE  /\ f \in Seq(Byte) /\ Len(f) = 64 * Len(s)
         /\ \A i \in 1..Len(s), k \in 1..64 : f[64 * (i - 1) + k] = s[i][k]
<1>1. s \in Seq(Seq(Byte)) /\ \A i \in 1..Len(s) : Len(s[i]) = 64
  <2>1. Len(s) \in Nat /\ s \in [1..Len(s) -> Md5Block]
    BY LenProperties
  <2>2. PICK z \in Nat : z = 64
    BY SMT
  <2>3. ASSUME NEW i \in 1..Len(s) PROVE s[i] \in Seq(Byte) /\ Len(s[i]) = 64
    <3>1. s[i] \in [1..z -> Byte]
      BY <2>1, <2>2, Zenon DEF Md5Block
    <3>2. s[i] \in Seq(Byte) /\ Len(s[i]) = z
      BY <3>1, FunctionIsSeq, Zenon
    <3>. QED  BY <2>2, <3>2, Zenon
  <2>4. s \in [1..Len(s) -> Seq(Byte)]
    BY <2>1, <2>3, Zenon
  <2>. QED  BY <2>1, <2>3, <2>4, FunctionIsSeq, Zenon
<1>2. PICK z \in Nat \ {0} : z = 64
  BY SMT
<1>3. /\ f \in Seq(Byte) /\ Len(f) = z * Len(s)
      /\ \A i \in 1..Len(s), k \in 1..z : f[z * (i - 1) + k] = s[i][k]
  <2>1. Uniform(z, s)
    BY <1>1, <1>2, Zenon DEF Uniform
  <2>2. FlatParts(Byte, z, s)
    BY <1>1, <2>1, FlattenUniform, Zenon
  <2>. QED  BY <2>2, Zenon DEF FlatParts
<1>. QED  BY <1>2, <1>3, Zenon

\* The bytes of a sequence of blocks.
LEMMA FlatAll ==
  \A s \in Seq(Md5Block) :
    /\ FlattenSeq(s) \in Seq(Byte) /\ Len(FlattenSeq(s)) = 64 * Len(s)
    /\ \A i \in 1..Len(s), k \in 1..64 : FlattenSeq(s)[64 * (i - 1) + k] = s[i][k]
<1>. SUFFICES ASSUME NEW s \in Seq(Md5Block)
      PROVE  /\ FlattenSeq(s) \in Seq(Byte) /\ Len(FlattenSeq(s)) = 64 * Len(s)
             /\ \A i \in 1..Len(s), k \in 1..64 : FlattenSeq(s)[64 * (i - 1) + k] = s[i][k]
  BY Zenon
<1>1. PICK f : f = FlattenSeq(s)
  BY Zenon
<1>2. /\ f \in Seq(Byte) /\ Len(f) = 64 * Len(s)
      /\ \A i \in 1..Len(s), k \in 1..64 : f[64 * (i - 1) + k] = s[i][k]
  BY <1>1, BlocksFlat, ZenonT(90)
<1>. QED  BY <1>1, <1>2, Zenon

\* Each position is in a block.
LEMMA InBlock ==
  ASSUME NEW b \in Nat, NEW k \in 1..64 * b
  PROVE  \E i \in 1..b, j \in 1..64 : k = 64 * (i - 1) + j
<1>1. PICK i, j \in Nat : i = ((k - 1) \div 64) + 1 /\ j = ((k - 1) % 64) + 1
  <2>1. ((k - 1) \div 64) + 1 \in Nat /\ ((k - 1) % 64) + 1 \in Nat
    BY SMT
  <2>. QED  BY <2>1, Zenon
<1>2. i \in 1..b /\ j \in 1..64 /\ k = 64 * (i - 1) + j
  BY <1>1, SMT
<1>. QED  BY <1>2, Zenon

\* A count in two words is the count modulo their product.
LEMMA TwoWords ==
  ASSUME NEW v \in Nat \ {0}, NEW x \in Nat
  PROVE  (x % v) + v * ((x \div v) % v) = x % (v * v)
<1>1. PICK q, s \in Nat : q = x \div v /\ s = x % v /\ s < v /\ x = v * q + s
  BY DivRest, Zenon
<1>2. PICK p, t \in Nat : p = q \div v /\ t = q % v /\ t < v /\ q = v * p + t
  BY DivRest, Zenon
<1>3. v * v \in Nat \ {0}
  BY SMT
<1>4. PICK u \in Nat : u = v * t + s
  BY SMT
<1>5. u < v * v
  <2>1. PICK d \in Nat : v = t + 1 + d
    <3>1. v - (t + 1) \in Nat /\ v = t + 1 + (v - (t + 1))
      BY <1>2, SMT
    <3>. QED  BY <3>1, Zenon
  <2>2. v * (t + 1 + d) = v * t + v + v * d /\ v * d \in Nat /\ v * t \in Nat
    BY SMT
  <2>3. v * v = v * t + v + v * d
    BY <2>1, <2>2, Zenon
  <2>. QED  BY <1>1, <1>4, <2>2, <2>3, SMT
<1>6. x = (v * v) * p + u
  <2>1. v * (v * p + t) = (v * v) * p + v * t
    BY SMT
  <2>2. x = (v * (v * p + t)) + s
    BY <1>1, <1>2, Zenon
  <2>3. (v * v) * p \in Nat /\ v * t \in Nat
    BY SMT
  <2>. QED  BY <1>4, <2>1, <2>2, <2>3, SMT
<1>7. x % (v * v) = u
  <2>1. PICK z : z = v * v
    BY Zenon
  <2>2. z \in Nat \ {0} /\ u < z /\ x = z * p + u /\ p \in Int /\ x \in Int
    BY <1>3, <1>5, <1>6, <2>1, SMT
  <2>3. x % z = u
    BY <2>2, DivUnique, Zenon
  <2>. QED  BY <2>1, <2>3, Zenon
<1>. QED  BY <1>1, <1>2, <1>4, <1>7, SMTT(60)

\* What a context that holds n bytes of m makes of the stream.
LEMMA HeldStream ==
  ASSUME NEW c \in Md5Contexts, NEW m \in Seq(Byte), NEW n \in Nat, n <= Len(m), Held(c, m, n)
  PROVE  /\ FlattenSeq(c.blocks) \o SubSeq(c.in, 1, n % 64) = SubSeq(m, 1, n)
         /\ c.bits[1] + Word * c.bits[2] = (8 * n) % (Word * Word)
<1>1. PICK t, b \in Nat : t = n % 64 /\ b = n \div 64 /\ n = 64 * b + t /\ t < 64
  <2>1. n % 64 \in Nat /\ n \div 64 \in Nat /\ n = 64 * (n \div 64) + (n % 64) /\ n % 64 < 64
    BY SMT
  <2>. QED  BY <2>1, Zenon
<1>2. /\ c.bits = BitsOf(n) /\ Len(c.blocks) = b
      /\ \A i \in 1..b, k \in 1..64 : c.blocks[i][k] = m[64 * (i - 1) + k]
      /\ \A k \in 1..t : c.in[k] = m[64 * b + k]
  BY <1>1, Zenon DEF Held
<1>3. c.in \in Buffer /\ c.blocks \in Seq(Md5Block)
  BY SMT DEF Md5Contexts
<1>4. PICK A : A = 0..Garbage
  BY Zenon
<1>5. Byte \subseteq A
  BY <1>4, SMT DEF Byte, Garbage
<1>6. PICK flat : flat = FlattenSeq(c.blocks)
  BY Zenon
<1>7. /\ flat \in Seq(Byte) /\ Len(flat) = 64 * b
      /\ \A i \in 1..b, k \in 1..64 : flat[64 * (i - 1) + k] = c.blocks[i][k]
  BY <1>2, <1>3, <1>6, FlatAll, Zenon
<1>8. flat \in Seq(A)
  <2>1. flat \in [1..Len(flat) -> Byte] /\ Len(flat) \in Nat
    BY <1>7, LenProperties
  <2>2. flat \in [1..Len(flat) -> A]
    BY <1>5, <2>1, Zenon
  <2>. QED  BY <2>1, <2>2, FunctionIsSeq, Zenon
<1>9. PICK rest : rest = SubSeq(c.in, 1, t)
  BY Zenon
<1>10. /\ rest \in Seq(A) /\ Len(rest) = t
       /\ \A k \in 1..t : rest[k] = c.in[k]
  <2>1. PICK z, one \in Nat \ {0} : z = 64 /\ one = 1
    BY SMT
  <2>2. c.in \in [1..z -> A]
    BY <1>3, <1>4, <2>1, Zenon DEF Buffer
  <2>3. c.in \in Seq(A) /\ Len(c.in) = z
    BY <2>2, FunctionIsSeq
  <2>4. /\ t <= z /\ one <= t + 1 /\ (t + 1) - one = t
        /\ \A k \in 1..t : (one - 1) + k = k
    BY <1>1, <2>1, SMT
  <2>5. /\ SubSeq(c.in, one, t) \in Seq(A) /\ Len(SubSeq(c.in, one, t)) = (t + 1) - one
        /\ \A k \in 1..(t + 1) - one : SubSeq(c.in, one, t)[k] = c.in[(one - 1) + k]
    <3>1. PICK s \in Seq(A) : s = c.in /\ Len(s) = z
      BY <2>3, Zenon
    <3>2. /\ SubSeq(s, one, t) \in Seq(A) /\ Len(SubSeq(s, one, t)) = (t + 1) - one
          /\ \A k \in 1..(t + 1) - one : SubSeq(s, one, t)[k] = s[(one - 1) + k]
      BY <2>4, <3>1, Slice
    <3>. QED  BY <3>1, <3>2, Zenon
  <2>. QED  BY <1>9, <2>1, <2>4, <2>5, Zenon
<1>11. PICK all : all = flat \o rest
  BY Zenon
<1>12. /\ all \in Seq(A) /\ Len(all) = n
       /\ \A k \in 1..n : all[k] = IF k <= 64 * b THEN flat[k] ELSE rest[k - 64 * b]
  <2>1. /\ flat \o rest \in Seq(A) /\ Len(flat \o rest) = Len(flat) + Len(rest)
        /\ \A k \in 1..Len(flat) + Len(rest) :
             (flat \o rest)[k] = IF k <= Len(flat) THEN flat[k] ELSE rest[k - Len(flat)]
    BY <1>8, <1>10, ConcatProperties
  <2>2. Len(flat) + Len(rest) = n
    BY <1>1, <1>7, <1>10, Zenon
  <2>. QED  BY <1>7, <1>11, <2>1, <2>2, Zenon
<1>13. ASSUME NEW k \in 1..n PROVE all[k] = m[k]
  <2>1. CASE k <= 64 * b
    <3>1. k \in 1..64 * b
      BY <2>1, SMT
    <3>2. PICK i \in 1..b, j \in 1..64 : k = 64 * (i - 1) + j
      BY <3>1, InBlock, Zenon
    <3>3. flat[k] = c.blocks[i][j] /\ c.blocks[i][j] = m[k]
      BY <1>2, <1>7, <3>2, Zenon
    <3>. QED  BY <1>12, <2>1, <3>3, Zenon
  <2>2. CASE ~(k <= 64 * b)
    <3>1. k - 64 * b \in 1..t /\ 64 * b + (k - 64 * b) = k
      BY <1>1, <2>2, SMT
    <3>2. rest[k - 64 * b] = m[k]
      BY <1>2, <1>10, <3>1, ZenonT(60)
    <3>. QED  BY <1>12, <2>2, <3>2, Zenon
  <2>. QED  BY <2>1, <2>2, Zenon
<1>14. PICK prefix : prefix = SubSeq(m, 1, n)
  BY Zenon
<1>15. /\ prefix \in Seq(Byte) /\ Len(prefix) = n /\ \A k \in 1..n : prefix[k] = m[k]
  BY <1>14, PrefixAll, Zenon
<1>16. prefix \in Seq(A)
  <2>1. prefix \in [1..Len(prefix) -> Byte]
    BY <1>15, LenProperties
  <2>2. prefix \in [1..n -> A]
    BY <1>5, <1>15, <2>1, Zenon
  <2>. QED  BY <2>2, FunctionIsSeq, Zenon
<1>17. all = prefix
  BY <1>12, <1>13, <1>15, <1>16, SeqEqual
<1>18. c.bits[1] + Word * c.bits[2] = (8 * n) % (Word * Word)
  <2>1. c.bits[1] = (8 * n) % Word /\ c.bits[2] = ((8 * n) \div Word) % Word
    BY <1>2, BitsTyped, ZenonT(60)
  <2>2. Word \in Nat \ {0} /\ 8 * n \in Nat
    BY WordDivides, SMT
  <2>3. ((8 * n) % Word) + Word * (((8 * n) \div Word) % Word) = (8 * n) % (Word * Word)
    BY <2>2, TwoWords, Zenon
  <2>. QED  BY <2>1, <2>3, Zenon
<1>. QED  BY <1>1, <1>6, <1>9, <1>11, <1>14, <1>17, <1>18, Zenon

-----------------------------------------------------------------------------
(* The padding.                                                            *)

\* The zeros of the padding.
LEMMA ZerosTyped ==
  \A z \in Nat : Zeros(z) \in Seq(Byte) /\ Len(Zeros(z)) = z /\ \A k \in 1..z : Zeros(z)[k] = 0
<1>1. TAKE z \in Nat
<1>2. 0 \in Byte
  BY SMT DEF Byte
<1>3. Zeros(z) \in [1..z -> Byte] /\ \A k \in 1..z : Zeros(z)[k] = 0
  BY <1>2, Zenon DEF Zeros
<1>. QED  BY <1>3, FunctionIsSeq, Zenon

\* The mark that begins the padding.
LEMMA MarkTyped == << 128 >> \in Seq(Byte) /\ Len(<< 128 >>) = 1 /\ << 128 >>[1] = 128
<1>1. 128 \in Byte
  BY SMT DEF Byte
<1>. QED  BY <1>1

\* A word of the count is two halves.
LEMMA CountHalves ==
  ASSUME NEW x \in 0..Word - 1
  PROVE  <<x \div Half, x % Half>> \in MdWord
<1> HIDE DEF HalfRange
<1>1. x \in Nat /\ x <= Word - 1 /\ Word - 1 \in Nat
  <2>1. Word \in Nat \ {0}
    BY WordDivides, Zenon
  <2>. QED  BY <2>1, SMT
<1>2. (Word - 1) \div 2^16 < 2^16
  BY Md5Assumption, Zenon
<1>3. 2^16 = Half
  BY Zenon DEF Half
<1>4. PICK y \in Nat : y = Word - 1
  BY <1>1, Zenon
<1>5. y \div Half < Half /\ x <= y
  BY <1>1, <1>2, <1>3, <1>4, Zenon
<1>6. x \div Half \in Nat /\ x % Half \in Nat /\ x % Half < Half /\ x \div Half < Half
  BY <1>1, <1>5, HalfIs, SMT
<1>7. x \div Half \in HalfRange /\ x % Half \in HalfRange
  BY <1>6, InHalf, Zenon
<1>. QED  BY <1>7, WordIs, Zenon

\* The count is the last eight bytes of the padding.
LEMMA CountBytesTyped ==
  ASSUME NEW n \in Nat
  PROVE  CountBytes(BitsOf(n)) \in Seq(Byte) /\ Len(CountBytes(BitsOf(n))) = 8
<1>1. PICK x, y \in 0..Word - 1 : x = BitsOf(n)[1] /\ y = BitsOf(n)[2]
  <2>1. BitsOf(n) \in (0..Word - 1) \X (0..Word - 1)
    BY BitsTyped, Zenon
  <2>2. PICK p : p = BitsOf(n)
    BY Zenon
  <2>3. p[1] \in 0..Word - 1 /\ p[2] \in 0..Word - 1
    BY <2>1, <2>2
  <2>. QED  BY <2>2, <2>3, Zenon
<1>2. PICK s, t : s = WordBytes(<<x \div Half, x % Half>>) /\ t = WordBytes(<<y \div Half, y % Half>>)
  BY Zenon
<1>3. s \in Seq(Byte) /\ t \in Seq(Byte) /\ Len(s) = 4 /\ Len(t) = 4
  BY <1>2, CountHalves, WordBytesTyped, Zenon
<1>4. CountBytes(BitsOf(n)) = s \o t
  BY <1>1, <1>2, Zenon DEF CountBytes
<1>5. s \o t \in Seq(Byte) /\ Len(s \o t) = Len(s) + Len(t)
  BY <1>3, ConcatProperties
<1>6. 4 + 4 = 8
  BY SMT
<1>. QED  BY <1>3, <1>4, <1>5, <1>6, Zenon

\* Element k of m, of n bytes, with the mark, z zeros and the count.
PadAt(m, n, z, count, k) ==
  IF k <= n THEN m[k] ELSE IF k = n + 1 THEN 128
  ELSE IF k <= (n + 1) + z THEN 0 ELSE count[k - ((n + 1) + z)]

\* A message of n bytes, and a count of 8.
Pads(m, n, count) == n = Len(m) /\ count \in Seq(Byte) /\ Len(count) = 8

Joined(s, t, a, b) ==
  /\ s \o t \in Seq(Byte) /\ Len(s \o t) = a + b
  /\ \A i \in 1..a + b : (s \o t)[i] = IF i <= a THEN s[i] ELSE t[i - a]

\* Two sequences of bytes, one after the other.
LEMMA Join ==
  ASSUME NEW s \in Seq(Byte), NEW t \in Seq(Byte), NEW a, NEW b, Len(s) = a, Len(t) = b
  PROVE  Joined(s, t, a, b)
<1>1. /\ s \o t \in Seq(Byte) /\ Len(s \o t) = Len(s) + Len(t)
      /\ \A i \in 1..Len(s) + Len(t) : (s \o t)[i] = IF i <= Len(s) THEN s[i] ELSE t[i - Len(s)]
  BY ConcatProperties
<1>. QED  BY <1>1, Zenon DEF Joined

Padded(m, z, count) == m \o << 128 >> \o Zeros(z) \o count

PaddedAs(p, m, n, z, count) ==
  /\ p \in Seq(Byte) /\ Len(p) = ((n + 1) + z) + 8
  /\ \A k \in 1..((n + 1) + z) + 8 : p[k] = PadAt(m, n, z, count, k)

\* The byte at each place of the padded message.
LEMMA PaddedIs ==
  ASSUME NEW m \in Seq(Byte), NEW n \in Nat, NEW z \in Nat, NEW count, Pads(m, n, count)
  PROVE  PaddedAs(Padded(m, z, count), m, n, z, count)
<1>. n = Len(m) /\ count \in Seq(Byte) /\ Len(count) = 8
  BY Zenon DEF Pads
<1>. PICK mark : mark = << 128 >>
  BY Zenon
<1>20. mark \in Seq(Byte) /\ Len(mark) = 1 /\ mark[1] = 128
  BY MarkTyped, Zenon
<1>. PICK zeros : zeros = Zeros(z)
  BY Zenon
<1>21. zeros \in Seq(Byte) /\ Len(zeros) = z /\ \A k \in 1..z : zeros[k] = 0
  BY ZerosTyped, Zenon
<1>1. PICK a : a = m \o mark
  BY Zenon
<1>2. /\ a \in Seq(Byte) /\ Len(a) = n + 1
      /\ \A k \in 1..n + 1 : a[k] = IF k <= n THEN m[k] ELSE mark[k - n]
  <2>1. Joined(m, mark, n, 1)
    BY <1>20, Join, ZenonT(40)
  <2>. QED  BY <1>1, <2>1, Zenon DEF Joined
<1>3. PICK b : b = a \o zeros
  BY Zenon
<1>4. /\ b \in Seq(Byte) /\ Len(b) = (n + 1) + z
      /\ \A k \in 1..(n + 1) + z : b[k] = IF k <= n + 1 THEN a[k] ELSE zeros[k - (n + 1)]
  <2>1. Joined(a, zeros, n + 1, z)
    BY <1>2, <1>21, Join
  <2>. QED  BY <1>3, <2>1, Zenon DEF Joined
<1>5. PICK p : p = b \o count
  BY Zenon
<1>6. /\ p \in Seq(Byte) /\ Len(p) = ((n + 1) + z) + 8
      /\ \A k \in 1..((n + 1) + z) + 8 :
           p[k] = IF k <= (n + 1) + z THEN b[k] ELSE count[k - ((n + 1) + z)]
  <2>1. Joined(b, count, (n + 1) + z, 8)
    BY <1>4, Join
  <2>. QED  BY <1>5, <2>1, Zenon DEF Joined
<1>7. ASSUME NEW k \in 1..((n + 1) + z) + 8 PROVE p[k] = PadAt(m, n, z, count, k)
  <2>1. CASE k <= n
    <3>1. k \in 1..n + 1 /\ k \in 1..(n + 1) + z /\ k <= n + 1 /\ k <= (n + 1) + z
      BY <2>1, SMT
    <3>2. p[k] = b[k] /\ b[k] = a[k] /\ a[k] = m[k]
      BY <1>2, <1>4, <1>6, <2>1, <3>1, Zenon
    <3>. QED  BY <2>1, <3>2, Zenon DEF PadAt
  <2>2. CASE k = n + 1
    <3>1. ~(k <= n) /\ k \in 1..n + 1 /\ k \in 1..(n + 1) + z /\ k <= n + 1
          /\ k <= (n + 1) + z /\ k - n = 1
      BY <2>2, SMT
    <3>2. p[k] = b[k] /\ b[k] = a[k] /\ a[k] = 128
      <4>1. mark[k - n] = 128
        BY <1>20, <3>1, Zenon
      <4>. QED  BY <1>2, <1>4, <1>6, <3>1, <4>1, Zenon
    <3>. QED  BY <2>2, <3>1, <3>2, Zenon DEF PadAt
  <2>3. CASE ~(k <= n + 1) /\ k <= (n + 1) + z
    <3>1. ~(k <= n) /\ k # n + 1 /\ k \in 1..(n + 1) + z /\ k - (n + 1) \in 1..z
      BY <2>3, SMT
    <3>2. p[k] = b[k] /\ b[k] = zeros[k - (n + 1)] /\ zeros[k - (n + 1)] = 0
      BY <1>4, <1>6, <1>21, <2>3, <3>1, Zenon
    <3>. QED  BY <2>3, <3>1, <3>2, Zenon DEF PadAt
  <2>4. CASE ~(k <= (n + 1) + z)
    <3>1. ~(k <= n) /\ k # n + 1
      BY <2>4, SMT
    <3>. QED  BY <1>6, <2>4, <3>1, Zenon DEF PadAt
  <2>5. k <= n \/ k = n + 1 \/ (~(k <= n + 1) /\ k <= (n + 1) + z) \/ ~(k <= (n + 1) + z)
    BY SMT
  <2>. QED  BY <2>1, <2>2, <2>3, <2>4, <2>5, Zenon
<1>8. p = Padded(m, z, count)
  BY <1>1, <1>3, <1>5, Zenon DEF Padded
<1>. QED  BY <1>6, <1>7, <1>8, Zenon DEF PaddedAs

Puts(e, at, s, n) ==
  /\ Put(e, at, s) \in Buffer
  /\ \A k \in 1..64 : Put(e, at, s)[k] = IF k - at \in 1..n THEN s[k - at] ELSE e[k]

\* The buffer after a memcpy, with the length named.
LEMMA PutsIs ==
  ASSUME NEW e \in Buffer, NEW at \in Nat, NEW s \in Seq(Byte), NEW n, Len(s) = n
  PROVE  Puts(e, at, s, n)
<1>1. /\ Put(e, at, s) \in Buffer
      /\ \A k \in 1..64 : Put(e, at, s)[k] = IF k - at \in 1..Len(s) THEN s[k - at] ELSE e[k]
  BY PutTyped, Zenon
<1>. QED  BY <1>1, Zenon DEF Puts

MarkedAs(q, e, t, z) ==
  /\ q \in Buffer /\ \A k \in 1..t : q[k] = e[k]
  /\ q[t + 1] = 128 /\ \A k \in t + 2..(t + 1) + z : q[k] = 0

\* The buffer with the mark after t bytes and z zeros after it.
LEMMA Marked ==
  ASSUME NEW e \in Buffer, NEW t \in Nat, NEW z \in Nat, (t + 1) + z <= 64,
         NEW q, q = Put(Put(e, t, << 128 >>), t + 1, Zeros(z))
  PROVE  MarkedAs(q, e, t, z)
<1>. PICK mark : mark = << 128 >>
  BY Zenon
<1>20. mark \in Seq(Byte) /\ Len(mark) = 1 /\ mark[1] = 128
  BY MarkTyped, Zenon
<1>. PICK zeros : zeros = Zeros(z)
  BY Zenon
<1>21. zeros \in Seq(Byte) /\ Len(zeros) = z /\ \A k \in 1..z : zeros[k] = 0
  BY ZerosTyped, Zenon
<1>1. PICK a : a = Put(e, t, mark)
  BY Zenon
<1>2. a \in Buffer /\ \A k \in 1..64 : a[k] = IF k - t \in 1..1 THEN mark[k - t] ELSE e[k]
  <2>1. Puts(e, t, mark, 1)
    BY <1>20, PutsIs, ZenonT(40)
  <2>. QED  BY <1>1, <2>1, Zenon DEF Puts
<1>3. PICK u \in Nat : u = t + 1
  BY SMT
<1>4. q = Put(a, u, zeros)
  BY <1>1, <1>3, Zenon
<1>5. q \in Buffer /\ \A k \in 1..64 : q[k] = IF k - u \in 1..z THEN zeros[k - u] ELSE a[k]
  <2>1. Puts(a, u, zeros, z)
    BY <1>2, <1>21, PutsIs
  <2>. QED  BY <1>4, <2>1, Zenon DEF Puts
<1>6. ASSUME NEW k \in 1..t PROVE q[k] = e[k]
  <2>1. k \in 1..64 /\ ~(k - t \in 1..1) /\ ~(k - u \in 1..z)
    BY <1>3, SMT
  <2>. QED  BY <1>2, <1>5, <2>1, Zenon
<1>7. q[t + 1] = 128
  <2>1. u \in 1..64 /\ u - t = 1 /\ 1 \in 1..1 /\ ~(u - u \in 1..z)
    BY <1>3, SMT
  <2>2. q[u] = a[u]
    BY <1>5, <2>1, Zenon
  <2>3. a[u] = mark[u - t]
    BY <1>2, <2>1, Zenon
  <2>. QED  BY <1>3, <1>20, <2>1, <2>2, <2>3, ZenonT(60)
<1>8. ASSUME NEW k \in t + 2..(t + 1) + z PROVE q[k] = 0
  <2>1. k \in 1..64 /\ k - u \in 1..z
    BY <1>3, SMT
  <2>. QED  BY <1>5, <1>21, <2>1, Zenon
<1>. QED  BY <1>5, <1>6, <1>7, <1>8, Zenon DEF MarkedAs

\* q is what the padded message has in the block after i blocks.
Fills(q, m, n, z, count, i) == \A j \in 1..64 : q[j] = PadAt(m, n, z, count, 64 * i + j)

\* s has its blocks, and it has no more.
Filled(s, m, n, z, count) ==
  /\ 64 * Len(s) = ((n + 1) + z) + 8
  /\ \A i \in 1..Len(s) : Fills(s[i], m, n, z, count, i - 1)

\* Blocks that have the padded message in them are it.
LEMMA PaddedBlocks ==
  ASSUME NEW m \in Seq(Byte), NEW n \in Nat, NEW z \in Nat, NEW count, Pads(m, n, count),
         NEW s \in Seq(Md5Block), Filled(s, m, n, z, count)
  PROVE  FlattenSeq(s) = Padded(m, z, count)
<1>. n = Len(m) /\ count \in Seq(Byte) /\ Len(count) = 8
  BY Zenon DEF Pads
<1>. /\ 64 * Len(s) = ((n + 1) + z) + 8
     /\ \A i \in 1..Len(s), j \in 1..64 : s[i][j] = PadAt(m, n, z, count, 64 * (i - 1) + j)
  BY Zenon DEF Filled, Fills
<1>1. PICK f, p : f = FlattenSeq(s) /\ p = Padded(m, z, count)
  BY Zenon
<1>2. PICK b \in Nat : b = Len(s)
  BY LenProperties
<1>3. /\ f \in Seq(Byte) /\ Len(f) = 64 * b
      /\ \A i \in 1..b, j \in 1..64 : f[64 * (i - 1) + j] = s[i][j]
  BY <1>1, <1>2, FlatAll, Zenon
<1>4. /\ p \in Seq(Byte) /\ Len(p) = ((n + 1) + z) + 8
      /\ \A k \in 1..((n + 1) + z) + 8 : p[k] = PadAt(m, n, z, count, k)
  <2>1. PaddedAs(Padded(m, z, count), m, n, z, count)
    BY PaddedIs
  <2>. QED  BY <1>1, <2>1, Zenon DEF PaddedAs
<1>5. ASSUME NEW k \in 1..64 * b PROVE f[k] = p[k]
  <2>1. PICK i \in 1..b, j \in 1..64 : k = 64 * (i - 1) + j
    BY InBlock, Zenon
  <2>2. f[k] = PadAt(m, n, z, count, k)
    BY <1>2, <1>3, <2>1, ZenonT(60)
  <2>. QED  BY <1>2, <1>4, <2>2, Zenon
<1>6. f = p
  <2>1. Len(f) = Len(p) /\ \A k \in 1..Len(f) : f[k] = p[k]
    BY <1>2, <1>3, <1>4, <1>5, Zenon
  <2>2. f \in Seq(Byte) /\ p \in Seq(Byte)
    BY <1>3, <1>4, Zenon
  <2>. QED  BY <2>1, <2>2, SeqEqual, Zenon
<1>. QED  BY <1>1, <1>6, Zenon

\* What the lemmas below are about: a whole message, in b blocks and t bytes.
Ends(c, m, n, b, t, count) ==
  Held(c, m, n) /\ Pads(m, n, count) /\ n = 64 * b + t /\ t < 64

\* A buffer with what the padded message has there is a block.
LEMMA PadIsBlock ==
  ASSUME NEW m \in Seq(Byte), NEW n \in Nat, NEW z \in Nat, NEW count, Pads(m, n, count),
         NEW i \in Nat, 64 * i + 64 <= ((n + 1) + z) + 8,
         NEW q \in Buffer, Fills(q, m, n, z, count, i)
  PROVE  q \in Md5Block
<1>1. PICK p : p = Padded(m, z, count)
  BY Zenon
<1>2. /\ p \in Seq(Byte) /\ Len(p) = ((n + 1) + z) + 8
      /\ \A k \in 1..((n + 1) + z) + 8 : p[k] = PadAt(m, n, z, count, k)
  <2>1. PaddedAs(Padded(m, z, count), m, n, z, count)
    BY PaddedIs, Zenon
  <2>. QED  BY <1>1, <2>1, Zenon DEF PaddedAs
<1>3. ASSUME NEW j \in 1..64 PROVE q[j] \in Byte
  <2>1. 64 * i + j \in 1..((n + 1) + z) + 8
    BY SMT
  <2>2. p[64 * i + j] \in Byte
    <3>1. 64 * i + j \in 1..Len(p)
      BY <1>2, <2>1, Zenon
    <3>. QED  BY <1>2, <3>1, ElementOfSeq, Zenon
  <2>3. q[j] = PadAt(m, n, z, count, 64 * i + j)
    BY Zenon DEF Fills
  <2>. QED  BY <1>2, <2>1, <2>2, <2>3, Zenon
<1>4. q = [j \in 1..64 |-> q[j]]
  BY Zenon DEF Buffer
<1>. QED  BY <1>3, <1>4, Zenon DEF Md5Block

\* s is the b blocks of the context and e blocks of the padding.
Follows(s, c, m, n, z, count, b, e) ==
  /\ 64 * (b + e) = ((n + 1) + z) + 8 /\ Len(s) = b + e
  /\ \A i \in 1..b : s[i] = c.blocks[i]
  /\ \A i \in 1..e : Fills(s[b + i], m, n, z, count, (b + i) - 1)

\* Blocks that follow a message to its padding are the padded message.
LEMMA AllPadded ==
  ASSUME NEW c \in Md5Contexts, NEW m \in Seq(Byte), NEW n \in Nat, NEW b \in Nat, NEW t \in Nat,
         NEW z \in Nat, NEW count, Ends(c, m, n, b, t, count),
         NEW e \in Nat, NEW s \in Seq(Md5Block), Follows(s, c, m, n, z, count, b, e)
  PROVE  FlattenSeq(s) = Padded(m, z, count)
<1>1. /\ Held(c, m, n) /\ n = Len(m) /\ n = 64 * b + t /\ t < 64
      /\ count \in Seq(Byte) /\ Len(count) = 8 /\ Pads(m, n, count)
  BY Zenon DEF Ends, Pads
<1>2. \A i \in 1..b, j \in 1..64 : c.blocks[i][j] = m[64 * (i - 1) + j]
  <2>1. n \div 64 = b
    BY <1>1, SMT
  <2>. QED  BY <1>1, <2>1, Zenon DEF Held
<1>3. ASSUME NEW i \in 1..b + e, NEW j \in 1..64
      PROVE  s[i][j] = PadAt(m, n, z, count, 64 * (i - 1) + j)
  <2>1. CASE i <= b
    <3>1. i \in 1..b /\ 64 * (i - 1) + j <= n
      BY <1>1, <2>1, SMT
    <3>2. s[i] = c.blocks[i]
      BY <3>1, Zenon DEF Follows
    <3>3. s[i][j] = m[64 * (i - 1) + j]
      BY <1>2, <3>1, <3>2, Zenon
    <3>. QED  BY <3>1, <3>3, Zenon DEF PadAt
  <2>2. CASE ~(i <= b)
    <3>1. PICK h \in 1..e : h = i - b
      <4>1. i - b \in 1..e
        BY <2>2, SMT
      <4>. QED  BY <4>1, Zenon
    <3>2. b + h = i
      BY <3>1, SMT
    <3>3. s[b + h][j] = PadAt(m, n, z, count, 64 * ((b + h) - 1) + j)
      BY Zenon DEF Fills, Follows
    <3>. QED  BY <3>2, <3>3, Zenon
  <2>. QED  BY <2>1, <2>2, Zenon
<1>4. Filled(s, m, n, z, count)
  BY <1>3, Zenon DEF Filled, Fills, Follows
<1>. QED  BY <1>1, <1>4, PaddedBlocks

\* q is what the padded message has after b blocks, up to element l.
PaddedTo(q, m, n, z, count, b, l) ==
  q \in Buffer /\ \A j \in 1..l : q[j] = PadAt(m, n, z, count, 64 * b + j)

\* What is in the buffer is in the padded message, where the buffer was filled.
LEMMA BufferPadded ==
  ASSUME NEW c \in Md5Contexts, NEW m \in Seq(Byte), NEW n \in Nat, NEW b \in Nat, NEW t \in Nat,
         NEW z \in Nat, NEW count, Ends(c, m, n, b, t, count),
         NEW y \in Nat, y <= z, (t + 1) + y <= 64,
         NEW q, q = Put(Put(c.in, t, << 128 >>), t + 1, Zeros(y))
  PROVE  PaddedTo(q, m, n, z, count, b, (t + 1) + y)
<1>1. n = 64 * b + t /\ t < 64 /\ \A k \in 1..t : c.in[k] = m[64 * b + k]
  <2>1. Held(c, m, n) /\ n = 64 * b + t /\ t < 64
    BY Zenon DEF Ends
  <2>2. n \div 64 = b /\ n % 64 = t
    BY <2>1, SMT
  <2>. QED  BY <2>1, <2>2, Zenon DEF Held
<1>2. c.in \in Buffer
  BY SMT DEF Md5Contexts
<1>3. /\ q \in Buffer /\ \A k \in 1..t : q[k] = c.in[k]
      /\ q[t + 1] = 128 /\ \A k \in t + 2..(t + 1) + y : q[k] = 0
  <2>1. MarkedAs(q, c.in, t, y)
    BY <1>2, Marked, Zenon
  <2>. QED  BY <2>1, Zenon DEF MarkedAs
<1>4. ASSUME NEW j \in 1..(t + 1) + y PROVE q[j] = PadAt(m, n, z, count, 64 * b + j)
  <2>1. CASE j <= t
    <3>1. j \in 1..t /\ 64 * b + j <= n
      BY <1>1, <2>1, SMT
    <3>2. q[j] = m[64 * b + j]
      BY <1>1, <1>3, <3>1, ZenonT(60)
    <3>. QED  BY <3>1, <3>2, Zenon DEF PadAt
  <2>2. CASE j = t + 1
    <3>1. 64 * b + j = n + 1 /\ ~(n + 1 <= n)
      BY <1>1, <2>2, SMT
    <3>. QED  BY <1>3, <2>2, <3>1, Zenon DEF PadAt
  <2>3. CASE ~(j <= t + 1)
    <3>1. /\ j \in t + 2..(t + 1) + y /\ ~(64 * b + j <= n) /\ 64 * b + j # n + 1
          /\ 64 * b + j <= (n + 1) + z
      BY <1>1, <2>3, SMT
    <3>. QED  BY <1>3, <3>1, Zenon DEF PadAt
  <2>4. j <= t \/ j = t + 1 \/ ~(j <= t + 1)
    BY SMT
  <2>. QED  BY <2>1, <2>2, <2>3, <2>4, Zenon
<1>. QED  BY <1>3, <1>4, Zenon DEF PaddedTo

OneMore(s, c, t, z, count) ==
  s = Append(c.blocks, Put(Put(Put(c.in, t, << 128 >>), t + 1, Zeros(z)), 56, count))

\* There is room for the count in the block.
LEMMA PadOne ==
  ASSUME NEW c \in Md5Contexts, NEW m \in Seq(Byte), NEW n \in Nat, NEW b \in Nat, NEW t \in Nat,
         NEW z \in Nat, NEW count, Ends(c, m, n, b, t, count), t + z = 55,
         NEW s, OneMore(s, c, t, z, count)
  PROVE  s \in Seq(Md5Block) /\ FlattenSeq(s) = Padded(m, z, count)
<1>1. /\ Held(c, m, n) /\ n = Len(m) /\ n = 64 * b + t /\ t < 64
      /\ count \in Seq(Byte) /\ Len(count) = 8 /\ Pads(m, n, count)
  BY Zenon DEF Ends, Pads
<1>2. PICK q : q = Put(Put(c.in, t, << 128 >>), t + 1, Zeros(z))
  BY Zenon
<1>3. q \in Buffer /\ \A j \in 1..(t + 1) + z : q[j] = PadAt(m, n, z, count, 64 * b + j)
  <2>1. z <= z /\ (t + 1) + z <= 64
    BY SMT
  <2>2. PaddedTo(q, m, n, z, count, b, (t + 1) + z)
    BY <1>2, <2>1, BufferPadded, ZenonT(60)
  <2>. QED  BY <2>2, Zenon DEF PaddedTo
<1>4. PICK v \in Nat : v = 56
  BY SMT
<1>5. PICK last : last = Put(q, v, count)
  BY Zenon
<1>6. last \in Buffer /\ \A j \in 1..64 : last[j] = IF j - v \in 1..8 THEN count[j - v] ELSE q[j]
  <2>1. Puts(q, v, count, 8)
    BY <1>1, <1>3, PutsIs, Zenon
  <2>. QED  BY <1>5, <2>1, Zenon DEF Puts
<1>7. ASSUME NEW j \in 1..64 PROVE last[j] = PadAt(m, n, z, count, 64 * b + j)
  <2>1. CASE j <= 56
    <3>1. j \in 1..(t + 1) + z /\ ~(j - v \in 1..8)
      BY <1>4, <2>1, SMT
    <3>. QED  BY <1>3, <1>6, <3>1, Zenon
  <2>2. CASE ~(j <= 56)
    <3>1. /\ j - v \in 1..8 /\ ~(64 * b + j <= n) /\ 64 * b + j # n + 1
          /\ ~(64 * b + j <= (n + 1) + z) /\ (64 * b + j) - ((n + 1) + z) = j - v
      BY <1>1, <1>4, <2>2, SMT
    <3>. QED  BY <1>6, <3>1, Zenon DEF PadAt
  <2>. QED  BY <2>1, <2>2, Zenon
<1>8. last \in Md5Block
  <2>1. 64 * b + 64 <= ((n + 1) + z) + 8
    BY <1>1, SMT
  <2>2. Fills(last, m, n, z, count, b)
    BY <1>7, Zenon DEF Fills
  <2>. QED  BY <1>1, <1>6, <2>1, <2>2, PadIsBlock, Zenon
<1>9. c.blocks \in Seq(Md5Block) /\ Len(c.blocks) = b
  <2>1. n \div 64 = b
    BY <1>1, SMT
  <2>2. c.blocks \in Seq(Md5Block)
    BY SMT DEF Md5Contexts
  <2>. QED  BY <1>1, <2>1, <2>2, Zenon DEF Held
<1>10. PICK bs \in Seq(Md5Block) : bs = c.blocks /\ Len(bs) = b
  BY <1>9, Zenon
<1>11. s = Append(bs, last)
  BY <1>2, <1>4, <1>5, <1>10, Zenon DEF OneMore
<1>12. /\ s \in Seq(Md5Block) /\ Len(s) = b + 1
       /\ \A i \in 1..b : s[i] = bs[i]
  <2>1. /\ Append(bs, last) \in Seq(Md5Block) /\ Len(Append(bs, last)) = Len(bs) + 1
        /\ \A i \in 1..Len(bs) : Append(bs, last)[i] = bs[i]
        /\ Append(bs, last)[Len(bs) + 1] = last
    BY <1>8, AppendProperties
  <2>. QED  BY <1>10, <1>11, <2>1, Zenon
<1>13. s[b + 1] = last
  <2>1. Append(bs, last)[Len(bs) + 1] = last
    BY <1>8, AppendProperties
  <2>. QED  BY <1>10, <1>11, <2>1, Zenon
<1>14. \A i \in 1..1 : Fills(s[b + i], m, n, z, count, (b + i) - 1)
  <2>1. \A i \in 1..1 : b + i = b + 1 /\ (b + i) - 1 = b
    BY SMT
  <2>2. Fills(last, m, n, z, count, b)
    BY <1>7, Zenon DEF Fills
  <2>. QED  BY <1>13, <2>1, <2>2, Zenon
<1>15. 64 * (b + 1) = ((n + 1) + z) + 8 /\ 1 \in Nat
  BY <1>1, SMT
<1>16. \A i \in 1..b : s[i] = c.blocks[i]
  BY <1>10, <1>12, Zenon
<1>17. FlattenSeq(s) = Padded(m, z, count)
  <2>1. Follows(s, c, m, n, z, count, b, 1)
    BY <1>12, <1>14, <1>15, <1>16, Zenon DEF Follows
  <2>2. s \in Seq(Md5Block) /\ 1 \in Nat
    BY <1>12, <1>15, Zenon
  <2>. QED  BY <2>1, <2>2, AllPadded
<1>. QED  BY <1>12, <1>17, Zenon

TwoMore(s, c, t, y, count) ==
  s = c.blocks \o <<Put(Put(c.in, t, << 128 >>), t + 1, Zeros(y)), Zeros(56) \o count>>

\* The two blocks MD5Final may need.
LEMMA PairTyped ==
  \A x, y \in Md5Block :
    /\ <<x, y>> \in Seq(Md5Block) /\ Len(<<x, y>>) = 2 /\ <<x, y>>[1] = x /\ <<x, y>>[2] = y
OBVIOUS

\* z zeros, y of them in the block that has t bytes and the mark.
NoRoom(t, z, y) == t + z = 119 /\ t >= 56 /\ t + y = 63

\* There is none, and the count is in a block of its own.
LEMMA PadTwo ==
  ASSUME NEW c \in Md5Contexts, NEW m \in Seq(Byte), NEW n \in Nat, NEW b \in Nat, NEW t \in Nat,
         NEW z \in Nat, NEW count, Ends(c, m, n, b, t, count), NEW y \in Nat,
         NoRoom(t, z, y), NEW s, TwoMore(s, c, t, y, count)
  PROVE  s \in Seq(Md5Block) /\ FlattenSeq(s) = Padded(m, z, count)
<1>1. /\ Held(c, m, n) /\ n = Len(m) /\ n = 64 * b + t /\ t < 64
      /\ count \in Seq(Byte) /\ Len(count) = 8 /\ Pads(m, n, count)
  BY Zenon DEF Ends, Pads
<1>2. PICK q : q = Put(Put(c.in, t, << 128 >>), t + 1, Zeros(y))
  BY Zenon
<1>3. PaddedTo(q, m, n, z, count, b, (t + 1) + y)
  <2>1. y <= z /\ (t + 1) + y <= 64
    BY SMT DEF NoRoom
  <2>. QED  BY <1>2, <2>1, BufferPadded, Zenon
<1>4. q \in Buffer /\ Fills(q, m, n, z, count, b)
  <2>1. (t + 1) + y = 64
    BY SMT DEF NoRoom
  <2>. QED  BY <1>3, <2>1, Zenon DEF PaddedTo, Fills
<1>5. q \in Md5Block
  <2>1. 64 * b + 64 <= ((n + 1) + z) + 8
    BY <1>1, SMT DEF NoRoom
  <2>. QED  BY <1>1, <1>4, <2>1, PadIsBlock, Zenon
<1>6. PICK v \in Nat : v = 56
  BY SMT DEF NoRoom
<1>7. PICK zeros : zeros = Zeros(v)
  BY Zenon
<1>8. zeros \in Seq(Byte) /\ Len(zeros) = v /\ \A k \in 1..v : zeros[k] = 0
  BY <1>7, ZerosTyped, Zenon
<1>9. PICK last : last = zeros \o count
  BY Zenon
<1>10. /\ last \in Seq(Byte) /\ Len(last) = v + 8
       /\ \A k \in 1..v + 8 : last[k] = IF k <= v THEN zeros[k] ELSE count[k - v]
  <2>1. Joined(zeros, count, v, 8)
    BY <1>1, <1>8, Join, Zenon
  <2>. QED  BY <1>9, <2>1, Zenon DEF Joined
<1>11. v + 8 = 64
  BY <1>6, SMT DEF NoRoom
<1>12. last \in Md5Block
  BY <1>10, <1>11, SliceIsBlock, Zenon
<1>13. PICK e \in Nat : e = b + 1
  BY SMT DEF NoRoom
<1>14. Fills(last, m, n, z, count, e)
  <2>1. ASSUME NEW j \in 1..64 PROVE last[j] = PadAt(m, n, z, count, 64 * e + j)
    <3>1. CASE j <= v
      <4>1. /\ j \in 1..v /\ ~(64 * e + j <= n) /\ 64 * e + j # n + 1
            /\ 64 * e + j <= (n + 1) + z
        BY <1>1, <1>6, <1>13, <3>1, SMT DEF NoRoom
      <4>2. last[j] = 0
        BY <1>8, <1>10, <1>11, <3>1, <4>1, Zenon
      <4>. QED  BY <4>1, <4>2, Zenon DEF PadAt
    <3>2. CASE ~(j <= v)
      <4>1. /\ ~(64 * e + j <= n) /\ 64 * e + j # n + 1 /\ ~(64 * e + j <= (n + 1) + z)
            /\ (64 * e + j) - ((n + 1) + z) = j - v
        BY <1>1, <1>6, <1>13, <3>2, SMT DEF NoRoom
      <4>2. last[j] = count[j - v]
        BY <1>10, <1>11, <3>2, Zenon
      <4>. QED  BY <4>1, <4>2, Zenon DEF PadAt
    <3>. QED  BY <3>1, <3>2, Zenon
  <2>. QED  BY <2>1, Zenon DEF Fills
<1>15. c.blocks \in Seq(Md5Block) /\ Len(c.blocks) = b
  <2>1. n \div 64 = b
    BY <1>1, SMT DEF NoRoom
  <2>2. c.blocks \in Seq(Md5Block)
    BY SMT DEF Md5Contexts
  <2>. QED  BY <1>1, <2>1, <2>2, Zenon DEF Held
<1>16. PICK bs \in Seq(Md5Block) : bs = c.blocks /\ Len(bs) = b
  BY <1>15, Zenon
<1>17. PICK two \in Seq(Md5Block) :
         two = <<q, last>> /\ Len(two) = 2 /\ two[1] = q /\ two[2] = last
  BY <1>5, <1>12, PairTyped, ZenonT(60)
<1>18. s = bs \o two
  BY <1>2, <1>6, <1>7, <1>9, <1>16, <1>17, Zenon DEF TwoMore
<1>19. /\ s \in Seq(Md5Block) /\ Len(s) = b + 2
       /\ \A i \in 1..b + 2 : s[i] = IF i <= b THEN bs[i] ELSE two[i - b]
  <2>1. /\ bs \o two \in Seq(Md5Block) /\ Len(bs \o two) = Len(bs) + Len(two)
        /\ \A i \in 1..Len(bs) + Len(two) :
             (bs \o two)[i] = IF i <= Len(bs) THEN bs[i] ELSE two[i - Len(bs)]
    BY BlocksConcat, Zenon
  <2>. QED  BY <1>16, <1>17, <1>18, <2>1, Zenon
<1>20. \A i \in 1..b : s[i] = c.blocks[i]
  <2>1. \A i \in 1..b : i \in 1..b + 2 /\ i <= b
    BY SMT DEF NoRoom
  <2>. QED  BY <1>16, <1>19, <2>1, Zenon
<1>21. ASSUME NEW i \in 1..2 PROVE Fills(s[b + i], m, n, z, count, (b + i) - 1)
  <2>1. b + i \in 1..b + 2 /\ ~(b + i <= b) /\ (b + i) - b = i
    BY SMT DEF NoRoom
  <2>2. s[b + i] = two[i]
    BY <1>19, <2>1, Zenon
  <2>3. CASE i = 1
    <3>1. (b + i) - 1 = b
      BY <2>3, SMT DEF NoRoom
    <3>. QED  BY <1>4, <1>17, <2>2, <2>3, <3>1, Zenon
  <2>4. CASE i = 2
    <3>1. (b + i) - 1 = e
      BY <1>13, <2>4, SMT DEF NoRoom
    <3>. QED  BY <1>14, <1>17, <2>2, <2>4, <3>1, Zenon
  <2>5. i = 1 \/ i = 2
    BY SMT DEF NoRoom
  <2>. QED  BY <2>3, <2>4, <2>5, Zenon
<1>22. 64 * (b + 2) = ((n + 1) + z) + 8 /\ 2 \in Nat
  BY <1>1, SMT DEF NoRoom
<1>23. FlattenSeq(s) = Padded(m, z, count)
  <2>1. Follows(s, c, m, n, z, count, b, 2)
    BY <1>19, <1>20, <1>21, <1>22, Zenon DEF Follows
  <2>2. s \in Seq(Md5Block) /\ 2 \in Nat
    BY <1>19, <1>22, Zenon
  <2>. QED  BY <2>1, <2>2, AllPadded
<1>. QED  BY <1>19, <1>23, Zenon

\* MD5Final makes the padded message of what the context holds.
LEMMA FinalExact ==
  ASSUME NEW c \in Md5Contexts, NEW m \in Seq(Byte), NEW n \in Nat, n = Len(m), Held(c, m, n)
  PROVE  /\ MD5Final(c) \in Seq(Md5Block)
         /\ FlattenSeq(MD5Final(c)) = Padded(m, (119 - (n % 64)) % 64, CountBytes(BitsOf(n)))
<1>1. PICK t, b \in Nat : t = n % 64 /\ n = 64 * b + t /\ t < 64
  <2>1. n % 64 \in Nat /\ n \div 64 \in Nat /\ n = 64 * (n \div 64) + (n % 64) /\ n % 64 < 64
    BY SMT
  <2>. QED  BY <2>1, Zenon
<1>2. PICK count : count = CountBytes(BitsOf(n))
  BY Zenon
<1>3. Ends(c, m, n, b, t, count)
  BY <1>1, <1>2, CountBytesTyped, Zenon DEF Ends, Pads
<1>4. Buffered(c) = t /\ c.bits = BitsOf(n)
  <2>1. (BitsOf(n)[1] \div 8) % 64 = n % 64 /\ c.bits = BitsOf(n)
    BY BitsTyped, Zenon DEF Held
  <2>. QED  BY <1>1, <2>1, Zenon DEF Buffered
<1>5. PICK s : s = MD5Final(c)
  BY Zenon
<1>6. s = IF 63 - t < 8
          THEN c.blocks \o <<Put(Put(c.in, t, << 128 >>), t + 1, Zeros(63 - t)),
                             Zeros(56) \o count>>
          ELSE Append(c.blocks,
                      Put(Put(Put(c.in, t, << 128 >>), t + 1, Zeros((63 - t) - 8)), 56, count))
  BY <1>2, <1>4, <1>5, Zenon DEF MD5Final, PadBlocks
<1>7. CASE t < 56
  <2>1. PICK z \in Nat : z = (63 - t) - 8
    <3>1. (63 - t) - 8 \in Nat
      BY <1>7, SMT
    <3>. QED  BY <3>1, Zenon
  <2>2. ~(63 - t < 8) /\ t + z = 55 /\ (119 - t) % 64 = z
    BY <1>7, <2>1, SMT
  <2>3. OneMore(s, c, t, z, count)
    BY <1>6, <2>1, <2>2, Zenon DEF OneMore
  <2>4. s \in Seq(Md5Block) /\ FlattenSeq(s) = Padded(m, z, count)
    BY <1>3, <2>2, <2>3, PadOne
  <2>. QED  BY <1>1, <1>2, <1>5, <2>2, <2>4, Zenon
<1>8. CASE ~(t < 56)
  <2>1. PICK z, y \in Nat : z = 119 - t /\ y = 63 - t
    <3>1. 119 - t \in Nat /\ 63 - t \in Nat
      BY <1>1, SMT
    <3>. QED  BY <3>1, Zenon
  <2>2. 63 - t < 8 /\ t + z = 119 /\ t + y = 63 /\ t >= 56 /\ (119 - t) % 64 = z
    BY <1>1, <1>8, <2>1, SMT
  <2>3. TwoMore(s, c, t, y, count)
    BY <1>6, <2>1, <2>2, Zenon DEF TwoMore
  <2>4. s \in Seq(Md5Block) /\ FlattenSeq(s) = Padded(m, z, count)
    BY <1>3, <2>2, <2>3, PadTwo DEF NoRoom
  <2>. QED  BY <1>1, <1>2, <1>5, <2>2, <2>4, Zenon
<1>. QED  BY <1>7, <1>8, Zenon

-----------------------------------------------------------------------------
(* The digest of a message in pieces.                                      *)

\* The message with the padding and the count MD5Final gives it, and the text
\* of a digest, forth and back.
Closed(m) == Padded(m, (119 - (Len(m) % 64)) % 64, CountBytes(BitsOf(Len(m))))

Digits(d) == FlattenSeq([i \in DOMAIN d |-> <<d[i] \div 16, d[i] % 16>>])

ReadBack(s) == [i \in 1..16 |-> 16 * s[2 * i - 1] + s[2 * i]]

\* The inductive invariant of md5.c: until MD5Final the context holds what was
\* given, afterwards its blocks are the padded message.
Md5Inv ==
  /\ message \in Seq(Byte) /\ fed \in 0..Len(message)
  /\ md5pc \in {"idle", "open", "read", "text", "data", "done"}
  /\ unread \in BOOLEAN
  /\ ctx \in Md5Contexts
  /\ digest = Unset \/ digest \in [1..16 -> Byte]
  /\ md5pc \in {"idle", "open", "read", "data"} =>
       digest = Unset /\ text = Unset /\ unread = FALSE /\ Held(ctx, message, fed)
  /\ md5pc = "data" => fed = 0
  /\ digest # Unset => FlattenSeq(ctx.blocks) = Closed(message)
  /\ md5pc \in {"text", "done"} => (digest = Unset <=> unread)
  /\ md5pc = "text" => text = Unset
  /\ text # Unset => digest = ReadBack(text)

\* The text has the digest's digits.
LEMMA DigitsBack ==
  ASSUME NEW d \in [1..16 -> Byte]
  PROVE  d = ReadBack(Digits(d))
<1>1. PICK s : s = [i \in 1..16 |-> <<d[i] \div 16, d[i] % 16>>]
  BY Zenon
<1>2. PICK l, two \in Nat \ {0} : l = 16 /\ two = 2
  BY SMT
<1>3. \A i \in 1..16 : /\ s[i] \in Seq(Nat) /\ Len(s[i]) = two
                       /\ s[i][1] = d[i] \div 16 /\ s[i][2] = d[i] % 16
  <2>1. TAKE i \in 1..16
  <2>2. PICK a, b \in Nat : a = d[i] \div 16 /\ b = d[i] % 16
    <3>1. d[i] \in Byte
      BY Zenon
    <3>2. d[i] \div 16 \in Nat /\ d[i] % 16 \in Nat
      BY <3>1, SMT DEF Byte
    <3>. QED  BY <3>2, Zenon
  <2>3. s[i] = <<a, b>>
    BY <1>1, <2>2, Zenon
  <2>4. <<a, b>> \in Seq(Nat) /\ Len(<<a, b>>) = 2 /\ <<a, b>>[1] = a /\ <<a, b>>[2] = b
    OBVIOUS
  <2>. QED  BY <1>2, <2>2, <2>3, <2>4, Zenon
<1>4. s \in Seq(Seq(Nat)) /\ Len(s) = l
  <2>1. s \in [1..l -> Seq(Nat)]
    BY <1>1, <1>2, <1>3, Zenon
  <2>. QED  BY <2>1, FunctionIsSeq
<1>5. FlatParts(Nat, two, s)
  <2>1. Uniform(two, s)
    BY <1>2, <1>3, <1>4, Zenon DEF Uniform
  <2>. QED  BY <1>4, <2>1, FlattenUniform, Zenon
<1>6. PICK f : f = FlattenSeq(s)
  BY Zenon
<1>7. Digits(d) = f
  <2>1. DOMAIN d = 1..16
    BY Zenon
  <2>. QED  BY <1>1, <1>6, <2>1, Zenon DEF Digits
<1>8. ASSUME NEW i \in 1..16 PROVE d[i] = 16 * f[2 * i - 1] + f[2 * i]
  <2>1. \A k \in 1..2 : f[2 * (i - 1) + k] = s[i][k]
    BY <1>2, <1>4, <1>5, <1>6, Zenon DEF FlatParts
  <2>2. 2 * (i - 1) + 1 = 2 * i - 1 /\ 2 * (i - 1) + 2 = 2 * i /\ 1 \in 1..2 /\ 2 \in 1..2
    BY SMT
  <2>3. f[2 * i - 1] = s[i][1] /\ f[2 * i] = s[i][2]
    <3>1. f[2 * (i - 1) + 1] = s[i][1] /\ f[2 * (i - 1) + 2] = s[i][2]
      BY <2>1, <2>2, Zenon
    <3>. QED  BY <2>2, <3>1, Zenon
  <2>4. PICK x \in Byte : x = d[i]
    BY Zenon
  <2>5. x = 16 * (x \div 16) + (x % 16)
    BY SMT DEF Byte
  <2>. QED  BY <1>3, <2>3, <2>4, <2>5, Zenon
<1>9. d = [i \in 1..16 |-> d[i]]
  BY Zenon
<1>. QED  BY <1>7, <1>8, <1>9, Zenon DEF ReadBack

\* A step that leaves md5.c alone keeps Md5Inv.
LEMMA Md5Stutter ==
  ASSUME Md5Inv, UNCHANGED md5Vars
  PROVE  Md5Inv'
<1>1. /\ message' = message /\ ctx' = ctx /\ fed' = fed /\ md5pc' = md5pc
      /\ digest' = digest /\ text' = text /\ unread' = unread
  BY Zenon DEF md5Vars
<1>. QED  BY <1>1, Zenon DEF Md5Inv

\* Md5Inv holds before a call and when one begins.
LEMMA Md5Begins == Md5Idle \/ Md5Call => Md5Inv
<1>. SUFFICES ASSUME Md5Idle \/ Md5Call PROVE Md5Inv
  OBVIOUS
<1>1. /\ ctx = MD5Init /\ fed = 0 /\ md5pc \in {"idle", "open", "data"}
      /\ digest = Unset /\ text = Unset /\ unread = FALSE
  BY Zenon DEF Md5Idle, Md5Call
<1>2. message \in Seq(Byte)
  <2>1. << >> \in Seq(Byte) /\ Messages \subseteq Seq(Byte)
    BY Md5Assumption, EmptySeq
  <2>. QED  BY <2>1, Zenon DEF Md5Idle, Md5Call
<1>3. 0 \in 0..Len(message)
  BY <1>2, LenProperties
<1>4. ctx \in Md5Contexts /\ Held(ctx, message, fed)
  BY <1>1, InitHeld, Zenon
<1>. QED  BY <1>1, <1>2, <1>3, <1>4, Zenon DEF Md5Inv

\* MD5File_S has opened the file and set up the context.
LEMMA OpensStep ==
  ASSUME Md5Inv, FileOpens
  PROVE  Md5Inv'
<1>1. /\ md5pc = "open" /\ md5pc' = "read" /\ message' = message /\ ctx' = ctx /\ fed' = fed
      /\ digest' = digest /\ text' = text /\ unread' = unread
  BY Zenon DEF FileOpens
<1>. QED  BY <1>1, Zenon DEF Md5Inv

\* MD5File_S cannot open or read the file.
LEMMA FailsStep ==
  ASSUME Md5Inv, FileFails
  PROVE  Md5Inv'
<1>1. /\ md5pc \in {"open", "read"} /\ md5pc' = "text" /\ message' = message /\ ctx' = ctx
      /\ fed' = fed /\ digest' = digest /\ text' = text /\ unread' = TRUE
  BY Zenon DEF FileFails
<1>. QED  BY <1>1, Zenon DEF Md5Inv

\* MD5File_S reads some of the file and gives it to MD5Update.
LEMMA ReadStep ==
  ASSUME Md5Inv, FileRead
  PROVE  Md5Inv'
<1>1. /\ md5pc = "read" /\ md5pc' = "read" /\ message' = message
      /\ digest' = digest /\ text' = text /\ unread' = unread
  BY Zenon DEF FileRead
<1>2. PICK n \in 1..ReadSize :
        /\ fed + n <= Len(message)
        /\ ctx' = MD5Update(ctx, SubSeq(message, fed + 1, fed + n))
        /\ fed' = fed + n
  BY Zenon DEF FileRead
<1>3. /\ message \in Seq(Byte) /\ ctx \in Md5Contexts /\ Held(ctx, message, fed)
      /\ fed \in 0..Len(message)
  BY <1>1, Zenon DEF Md5Inv
<1>4. fed \in Nat /\ n \in Nat /\ Len(message) \in Nat /\ ReadSize \in Nat
  <2>1. ReadSize \in Nat /\ Len(message) \in Nat
    BY <1>3, Md5Assumption, LenProperties
  <2>. QED  BY <1>3, <2>1, SMT
<1>5. PICK a \in Nat \ {0}, b \in Nat : a = fed + 1 /\ b = fed + n
  BY <1>4, SMT
<1>6. a <= b + 1 /\ (b + 1) - a = n /\ a - 1 = fed /\ b <= Len(message) /\ b \in 0..Len(message)
  BY <1>2, <1>4, <1>5, SMT
<1>7. PICK data : data = SubSeq(message, a, b)
  BY Zenon
<1>8. data \in Seq(Byte) /\ Len(data) = n /\ \A i \in 1..n : data[i] = message[fed + i]
  <2>1. /\ SubSeq(message, a, b) \in Seq(Byte) /\ Len(SubSeq(message, a, b)) = (b + 1) - a
        /\ \A i \in 1..(b + 1) - a : SubSeq(message, a, b)[i] = message[(a - 1) + i]
    BY <1>3, <1>6, Slice
  <2>. QED  BY <1>6, <1>7, <2>1, Zenon
<1>9. Continues(data, message, fed) /\ BytesTo(message, fed)
  <2>1. \A i \in 1..fed : i \in 1..Len(message)
    BY <1>3, <1>4, SMT
  <2>2. \A i \in 1..Len(message) : message[i] \in Byte
    BY <1>3, ElementOfSeq
  <2>. QED  BY <1>8, <2>1, <2>2, Zenon DEF Continues, BytesTo
<1>10. MD5Update(ctx, data) \in Md5Contexts /\ Held(MD5Update(ctx, data), message, fed + Len(data))
  BY <1>3, <1>4, <1>8, <1>9, UpdateHeld, Zenon
<1>11. ctx' \in Md5Contexts /\ Held(ctx', message', fed') /\ fed' \in 0..Len(message')
  BY <1>1, <1>2, <1>5, <1>6, <1>7, <1>8, <1>10, Zenon
<1>. QED  BY <1>1, <1>11, Zenon DEF Md5Inv

\* A context with the blocks of the padding.
LEMMA ContextEnds ==
  ASSUME NEW c \in Md5Contexts, NEW s \in Seq(Md5Block)
  PROVE  [c EXCEPT !.blocks = s] \in Md5Contexts /\ [c EXCEPT !.blocks = s].blocks = s
BY SMT DEF Md5Contexts

\* MD5Final closes a context that holds the whole message.
LEMMA FinalStep ==
  ASSUME NEW c \in Md5Contexts, NEW m \in Seq(Byte), Held(c, m, Len(m)),
         NEW d, d = [c EXCEPT !.blocks = MD5Final(c)]
  PROVE  /\ d \in Md5Contexts /\ FlattenSeq(d.blocks) = Closed(m)
         /\ DigestOf(d.blocks) \in [1..16 -> Byte] /\ DigestOf(d.blocks) # Unset
<1>1. PICK n \in Nat : n = Len(m)
  BY LenProperties
<1>2. Held(c, m, n)
  BY <1>1, Zenon
<1>3. /\ MD5Final(c) \in Seq(Md5Block)
      /\ FlattenSeq(MD5Final(c)) = Padded(m, (119 - (n % 64)) % 64, CountBytes(BitsOf(n)))
  BY <1>1, <1>2, FinalExact
<1>4. PICK s \in Seq(Md5Block) : s = MD5Final(c)
  BY <1>3, Zenon
<1>5. d \in Md5Contexts /\ d.blocks = s
  BY <1>4, ContextEnds, Zenon
<1>. QED  BY <1>1, <1>3, <1>4, <1>5, DigestTyped, Zenon DEF Closed

\* MD5File_S has met the end of the file.
LEMMA EndsStep ==
  ASSUME Md5Inv, FileEnds
  PROVE  Md5Inv'
<1>1. /\ md5pc = "read" /\ md5pc' = "text" /\ fed = Len(message) /\ message' = message
      /\ fed' = fed /\ ctx' = [ctx EXCEPT !.blocks = MD5Final(ctx)]
      /\ digest' = DigestOf(ctx'.blocks) /\ text' = text /\ unread' = unread
  BY Zenon DEF FileEnds
<1>2. /\ message \in Seq(Byte) /\ ctx \in Md5Contexts /\ Held(ctx, message, Len(message))
      /\ unread = FALSE /\ text = Unset /\ fed \in 0..Len(message)
  BY <1>1, Zenon DEF Md5Inv
<1>3. PICK d : d = [ctx EXCEPT !.blocks = MD5Final(ctx)]
  BY Zenon
<1>4. /\ d \in Md5Contexts /\ FlattenSeq(d.blocks) = Closed(message)
      /\ DigestOf(d.blocks) \in [1..16 -> Byte] /\ DigestOf(d.blocks) # Unset
  BY <1>2, <1>3, FinalStep, Zenon
<1>5. ctx' = d /\ digest' = DigestOf(d.blocks)
  BY <1>1, <1>3, Zenon
<1>. QED  BY <1>1, <1>2, <1>4, <1>5, Zenon DEF Md5Inv

\* MD5Data gives the whole message in one call.
LEMMA DataStep ==
  ASSUME Md5Inv, DataDigest
  PROVE  Md5Inv'
<1>1. /\ md5pc = "data" /\ md5pc' = "done" /\ message' = message /\ fed' = Len(message)
      /\ ctx' = [MD5Update(ctx, message) EXCEPT !.blocks = MD5Final(MD5Update(ctx, message))]
      /\ digest' = DigestOf(ctx'.blocks) /\ text' = text /\ unread' = unread
  BY Zenon DEF DataDigest
<1>2. /\ message \in Seq(Byte) /\ ctx \in Md5Contexts /\ Held(ctx, message, fed) /\ fed = 0
      /\ unread = FALSE /\ text = Unset
  BY <1>1, Zenon DEF Md5Inv
<1>3. PICK z \in Nat : z = 0
  BY SMT
<1>4. PICK n \in Nat : n = Len(message)
  BY <1>2, LenProperties
<1>5. z + n = n /\ n \in 0..n /\ (\A i \in 1..z : FALSE) /\ \A i \in 1..n : z + i = i
  BY <1>3, SMT
<1>6. Continues(message, message, z) /\ BytesTo(message, z)
  BY <1>4, <1>5, Zenon DEF Continues, BytesTo
<1>7. Held(ctx, message, z)
  BY <1>2, <1>3, Zenon
<1>8. PICK c : c = MD5Update(ctx, message)
  BY Zenon
<1>9. c \in Md5Contexts /\ Held(c, message, Len(message))
  <2>1. /\ MD5Update(ctx, message) \in Md5Contexts
        /\ Held(MD5Update(ctx, message), message, z + Len(message))
    BY <1>2, <1>6, <1>7, UpdateHeld, Zenon
  <2>. QED  BY <1>4, <1>5, <1>8, <2>1, Zenon
<1>10. PICK d : d = [c EXCEPT !.blocks = MD5Final(c)]
  BY Zenon
<1>11. /\ d \in Md5Contexts /\ FlattenSeq(d.blocks) = Closed(message)
       /\ DigestOf(d.blocks) \in [1..16 -> Byte] /\ DigestOf(d.blocks) # Unset
  BY <1>2, <1>9, <1>10, FinalStep, Zenon
<1>12. ctx' = d /\ digest' = DigestOf(d.blocks) /\ fed' \in 0..Len(message)
  BY <1>1, <1>4, <1>5, <1>8, <1>10, Zenon
<1>. QED  BY <1>1, <1>2, <1>11, <1>12, Zenon DEF Md5Inv

\* The digest is written as text.
LEMMA FormatStep ==
  ASSUME Md5Inv, Format
  PROVE  Md5Inv'
<1>1. /\ md5pc = "text" /\ md5pc' = "done" /\ message' = message /\ ctx' = ctx /\ fed' = fed
      /\ digest' = digest /\ unread' = unread /\ text' = Digits(digest)
  BY Zenon DEF Format, Digits
<1>2. text' # Unset => digest = ReadBack(text')
  <2>1. CASE digest = Unset
    <3>1. DOMAIN << >> = {}
      OBVIOUS
    <3>2. [i \in {} |-> << <<>>[i] \div 16, <<>>[i] % 16 >>] = << >>
      OBVIOUS
    <3>3. Digits(<< >>) = << >>
      BY <3>1, <3>2, FlattenEmpty, Zenon DEF Digits
    <3>. QED  BY <1>1, <2>1, <3>3, Zenon DEF Unset
  <2>2. CASE digest # Unset
    <3>1. digest \in [1..16 -> Byte]
      BY <2>2, Zenon DEF Md5Inv
    <3>. QED  BY <1>1, <3>1, DigitsBack, Zenon
  <2>. QED  BY <2>1, <2>2, Zenon
<1>. QED  BY <1>1, <1>2, Zenon DEF Md5Inv

\* Every step of md5.c keeps Md5Inv.
LEMMA Md5Step ==
  ASSUME Md5Inv, Md5Next
  PROVE  Md5Inv'
BY OpensStep, FailsStep, ReadStep, EndsStep, FormatStep, DataStep, Zenon DEF Md5Next

\* The two ways the padded message is written.
LEMMA ClosedIs ==
  PaddedMessage = Closed(message)
BY Zenon DEF PaddedMessage, Closed, Padded, BitsOf

\* What Md5Inv gives.
LEMMA Md5InvGives ==
  ASSUME Md5Inv
  PROVE  Md5TypeOK /\ StreamExact /\ PaddingExact
<1>1. StreamExact
  <2>1. SUFFICES ASSUME md5pc = "read"
        PROVE  /\ FlattenSeq(ctx.blocks) \o SubSeq(ctx.in, 1, fed % 64) = SubSeq(message, 1, fed)
               /\ ctx.bits[1] + Word * ctx.bits[2] = (8 * fed) % (Word * Word)
    BY Zenon DEF StreamExact
  <2>2. /\ message \in Seq(Byte) /\ ctx \in Md5Contexts /\ Held(ctx, message, fed)
        /\ fed \in 0..Len(message)
    BY <2>1, Zenon DEF Md5Inv
  <2>3. fed \in Nat /\ fed <= Len(message)
    <3>1. Len(message) \in Nat
      BY <2>2, LenProperties
    <3>. QED  BY <2>2, <3>1, SMT
  <2>. QED  BY <2>2, <2>3, HeldStream, Zenon
<1>2. PaddingExact
  BY ClosedIs, Zenon DEF Md5Inv, PaddingExact, ReadBack
<1>3. Md5TypeOK
  <2>1. /\ ctx.bits \in (0..Word - 1) \X (0..Word - 1) /\ ctx.in \in Buffer
        /\ ctx.blocks \in Seq(Md5Block)
    <3>1. ctx \in Md5Contexts
      BY Zenon DEF Md5Inv
    <3>. QED  BY <3>1, SMT DEF Md5Contexts
  <2>2. \A k \in DOMAIN ctx.blocks : ctx.blocks[k] \in [1..64 -> Byte]
    <3>1. DOMAIN ctx.blocks = 1..Len(ctx.blocks)
      BY <2>1, LenProperties
    <3>2. \A k \in 1..Len(ctx.blocks) : ctx.blocks[k] \in Md5Block
      BY <2>1, ElementOfSeq
    <3>. QED  BY <3>1, <3>2, Zenon DEF Md5Block
  <2>. QED  BY <2>1, <2>2, Zenon DEF Md5Inv, Md5TypeOK, Buffer
<1>. QED  BY <1>1, <1>2, <1>3, Zenon

-----------------------------------------------------------------------------
(* Password.                                                               *)

\* The two have no variable in common: the digest is copied into the key.
PasswordInv == Md5Inv /\ AesInv

\* The inductive invariant holds at the start.
LEMMA InitPassword == PasswordInit => PasswordInv
<1>1. AesIdle => AesInv
  BY Zenon DEF AesIdle, AesInv
<1>. QED  BY <1>1, Md5Begins, Zenon DEF PasswordInit, PasswordInv

\* Every step keeps it: one of md5.c, one of aes.c, or a digest that becomes
\* the key.
LEMMA NextKeepsPassword == PasswordInv /\ [PasswordNext]_passwordVars => PasswordInv'
<1>. SUFFICES ASSUME PasswordInv, [PasswordNext]_passwordVars PROVE PasswordInv'
  OBVIOUS
<1>0. Md5Inv /\ AesInv
  BY Zenon DEF PasswordInv
<1>1. CASE Md5Next /\ UNCHANGED aesVars
  BY <1>0, <1>1, Md5Step, AesStutter, Zenon DEF PasswordInv
<1>2. CASE AesNext /\ UNCHANGED md5Vars
  BY <1>0, <1>2, AesStep, Md5Stutter, Zenon DEF PasswordInv
<1>3. CASE InitKey
  <2>1. PICK k \in AesKeys : AesCall(k)
    BY <1>3, Zenon DEF InitKey
  <2>2. k \in Seq(Byte) /\ Len(k) >= 16
    BY AesAssumption, Zenon
  <2>3. UNCHANGED md5Vars
    BY <1>3, Zenon DEF InitKey
  <2>. QED  BY <1>0, <2>1, <2>2, <2>3, CallStep, Md5Stutter, Zenon DEF PasswordInv
<1>4. CASE PwdInit
  <2>1. AesCall(digest) /\ UNCHANGED md5Vars /\ digest # Unset
    BY <1>4, Zenon DEF PwdInit
  <2>2. digest \in Seq(Byte) /\ Len(digest) >= 16
    <3>1. digest \in [1..16 -> Byte]
      BY <1>0, <2>1, Zenon DEF Md5Inv
    <3>2. PICK l \in Nat : l = 16
      BY SMT
    <3>3. digest \in [1..l -> Byte]
      BY <3>1, <3>2, Zenon
    <3>4. digest \in Seq(Byte) /\ Len(digest) = l
      BY <3>3, FunctionIsSeq
    <3>. QED  BY <3>2, <3>4, SMT
  <2>. QED  BY <1>0, <2>1, <2>2, CallStep, Md5Stutter, Zenon DEF PasswordInv
<1>5. CASE UNCHANGED passwordVars
  <2>1. UNCHANGED md5Vars /\ UNCHANGED aesVars
    BY <1>5, Zenon DEF passwordVars
  <2>. QED  BY <1>0, <2>1, AesStutter, Md5Stutter, Zenon DEF PasswordInv
<1>. QED  BY <1>1, <1>2, <1>3, <1>4, <1>5, Zenon DEF PasswordNext

\* So it always holds.
LEMMA PasswordInvariant == PasswordSpec => []PasswordInv
BY InitPassword, NextKeepsPassword, PTL DEF PasswordSpec

\* The two words of MD5's count stay words, its buffer sixty-four bytes and
\* its blocks whole; the state, the schedule and the rounds of the cipher
\* keep their sizes, for every message, every way it is read and every key
\* of at least sixteen bytes.
THEOREM PasswordTypes == PasswordSpec => []PasswordTypeOK
<1>1. PasswordInv => PasswordTypeOK
  BY Md5InvGives, AesInvGives, Zenon DEF PasswordInv, PasswordTypeOK
<1>. QED  BY <1>1, PasswordInvariant, PTL

\* However the reads of MD5File_S cut a file into calls of MD5Update, the
\* blocks transformed and the bytes left in the buffer are what was read, in
\* order, and the two words of the count are its length in bits: the carry
\* of MD5Update (md5.c) loses nothing, for every width of the words.
THEOREM DigestStream == PasswordSpec => []StreamExact
<1>1. PasswordInv => StreamExact
  BY Md5InvGives, Zenon DEF PasswordInv
<1>. QED  BY <1>1, PasswordInvariant, PTL

\* A digest is that of the padded message of RFC 1321, whether the count
\* fits after the data or takes a block of its own (MD5Final); there is one
\* exactly when no open or read failed, and the text of MD5File_S has its
\* digits.
THEOREM DigestPadding == PasswordSpec => []PaddingExact
<1>1. PasswordInv => PaddingExact
  BY Md5InvGives, Zenon DEF PasswordInv
<1>. QED  BY <1>1, PasswordInvariant, PTL

\* For every key and every block, inv_cipher goes back through the states
\* cipher went through, round by round, and ends with the block: no
\* ciphertext of the log is lost.
THEOREM CipherUndone == PasswordSpec => []RoundsUndo
<1>1. PasswordInv => RoundsUndo
  BY AesInvGives, Zenon DEF PasswordInv
<1>. QED  BY <1>1, PasswordInvariant, PTL

=============================================================================
