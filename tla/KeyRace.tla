------------------------------ MODULE KeyRace ------------------------------
(***************************************************************************)
(* Threads that create encrypted handles at the same time: each runs       *)
(* key_expansion of util/aes.c, and all of them compute their round        *)
(* constants in the one global array R, which no lock protects.            *)
(*                                                                         *)
(* R[0] is a power of x = 0x02 in GF(2^8) and is represented by its        *)
(* exponent; x has order 51.  Module Aes has the bytes.                    *)
(***************************************************************************)
EXTENDS Naturals, Sequences

CONSTANTS
  Threads,
  Rounds        \* calls of Rcon in one key expansion: 10 for AES-128

VARIABLES
  inRegister,   \* the build: gcc -O2 keeps R[0] in a register, -O0 does not
  R0,           \* R[0]
  pc,           \* per thread: next step
  i,            \* per thread: i of Rcon in its loop
  reg,          \* per thread: the value the thread itself computed
  used          \* per thread: the constants its key schedule was made with

vars == <<inRegister, R0, pc, i, reg, used>>

Order == 51

Goto(t, label) == pc' = [pc EXCEPT ![t] = label]

\* What an access to R[0] of this thread reads: a race in C, where the build
\* may reread the memory or go on with its own value.
Read(t) == IF inRegister THEN reg[t] ELSE R0

Store(t, v) == R0' = v /\ reg' = [reg EXCEPT ![t] = v]

\* _file_handle_create with ENCRYPT, down to the first Rcon(1).
KeyExpansion(t) ==
  /\ pc[t] = "idle"
  /\ Goto(t, "rcon")
  /\ UNCHANGED <<inRegister, R0, i, reg, used>>

\* R[0] = 0x01.
RconFirst(t) ==
  /\ pc[t] = "rcon"
  /\ used[t] = << >>
  /\ Store(t, 0)
  /\ Goto(t, "add")
  /\ UNCHANGED <<inRegister, i, used>>

\* R[0] = 0x02.
RconStart(t) ==
  /\ pc[t] = "rcon"
  /\ used[t] # << >>
  /\ Store(t, 1)
  /\ i' = [i EXCEPT ![t] = Len(used[t])]
  /\ Goto(t, "loop")
  /\ UNCHANGED <<inRegister, used>>

\* The argument of gmult(R[0], 0x02).
RconLoad(t) ==
  /\ pc[t] = "loop"
  /\ i[t] - 1 > 0
  /\ reg' = [reg EXCEPT ![t] = Read(t)]
  /\ Goto(t, "store")
  /\ UNCHANGED <<inRegister, R0, i, used>>

\* Its result.
RconStore(t) ==
  /\ pc[t] = "store"
  /\ Store(t, (reg[t] + 1) % Order)
  /\ i' = [i EXCEPT ![t] = i[t] - 1]
  /\ Goto(t, "loop")
  /\ UNCHANGED <<inRegister, used>>

RconReturn(t) ==
  /\ pc[t] = "loop"
  /\ i[t] - 1 = 0
  /\ Goto(t, "add")
  /\ UNCHANGED <<inRegister, R0, i, reg, used>>

\* coef_add reads what Rcon has returned a pointer to.
CoefAdd(t) ==
  /\ pc[t] = "add"
  /\ used' = [used EXCEPT ![t] = Append(used[t], Read(t))]
  /\ Goto(t, IF Len(used[t]) + 1 = Rounds THEN "done" ELSE "rcon")
  /\ UNCHANGED <<inRegister, R0, i, reg>>

Init ==
  /\ inRegister \in BOOLEAN
  /\ R0 = 1
  /\ pc = [t \in Threads |-> "idle"]
  /\ i = [t \in Threads |-> 1]
  /\ reg = [t \in Threads |-> 0]
  /\ used = [t \in Threads |-> << >>]

Next ==
  \E t \in Threads :
    \/ KeyExpansion(t)
    \/ RconFirst(t) \/ RconStart(t)
    \/ RconLoad(t) \/ RconStore(t) \/ RconReturn(t)
    \/ CoefAdd(t)

Spec == Init /\ [][Next]_vars

\* A key schedule is made with the round constants x^0, x^1, ... whatever
\* other threads do: "Multiple threads And Multiple Handles" (README.md).
SchedulesRight ==
  \A t \in Threads : \A r \in DOMAIN used[t] : used[t][r] = r - 1

=============================================================================
