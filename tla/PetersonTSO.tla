---------------------------- MODULE PetersonTSO -----------------------------
(***************************************************************************)
(* Peterson's lock on the memory the programs run on.  flags, victim and   *)
(* shared_value are volatile and not atomic, and no fence separates the    *)
(* stores of lock() from its loads, so the C data race lets the processor  *)
(* do what x86 does (total store order): a store waits in the thread's     *)
(* own FIFO buffer, where only that thread sees it, until it is flushed.   *)
(* The variables of Peterson are the memory.                               *)
(***************************************************************************)
EXTENDS Peterson, Sequences, SequencesExt

VARIABLE buffer     \* the stores of each thread that are not in memory yet

tsoVars == <<vars, buffer>>

\* The locations.
Flag(t) == <<"flags", t>>
Victim == <<"victim", 0>>
Shared == <<"shared_value", 0>>

Memory(x) == CASE x = Victim -> victim
               [] x = Shared -> shared_value
               [] OTHER -> flags[x[2]]

Pending(t, x) == SelectSeq(buffer[t], LAMBDA s : s.loc = x)

\* What thread t loads from x: its own latest store, or else the memory.
Load(t, x) == IF Pending(t, x) = <<>> THEN Memory(x) ELSE Last(Pending(t, x)).val

Store(t, x, v) ==
  /\ buffer' = [buffer EXCEPT ![t] = Append(@, [loc |-> x, val |-> v])]
  /\ UNCHANGED <<flags, victim, shared_value>>

\* A local step: only registers and the program counter change.
Local == UNCHANGED <<flags, victim, shared_value, buffer>>

\* Memory receives the store s.
WriteBack(s) ==
  /\ flags' = [t \in Threads |-> IF s.loc = Flag(t) THEN s.val ELSE flags[t]]
  /\ victim' = IF s.loc = Victim THEN s.val ELSE victim
  /\ shared_value' = IF s.loc = Shared THEN s.val ELSE shared_value

\* The processor writes t's oldest buffered store to memory.
Flush(t) == /\ buffer[t] # <<>>
            /\ WriteBack(Head(buffer[t]))
            /\ buffer' = [buffer EXCEPT ![t] = Tail(@)]
            /\ UNCHANGED <<prog, pc, temp, done>>

StoreFlag(t) == /\ Step(t, "lock", "victim")
                /\ Store(t, Flag(t), TRUE)
                /\ UNCHANGED <<prog, temp, done>>

StoreVictim(t) == /\ Step(t, "victim", "flag?")
                  /\ Store(t, Victim, VictimOf(t))
                  /\ UNCHANGED <<prog, temp, done>>

LoadFlag(t) ==
  /\ Step(t, "flag?", IF Load(t, Flag(Other(t))) THEN "victim?" ELSE "read")
  /\ Local /\ UNCHANGED <<prog, temp, done>>

LoadVictim(t) ==
  /\ Step(t, "victim?", IF Load(t, Victim) = t THEN "flag?" ELSE "read")
  /\ Local /\ UNCHANGED <<prog, temp, done>>

LoadShared(t) == /\ Step(t, "read", "write")
                 /\ temp' = [temp EXCEPT ![t] = Load(t, Shared)]
                 /\ Local /\ UNCHANGED <<prog, done>>

StoreShared(t) ==
  /\ pc[t] = "write"
  /\ Store(t, Shared, temp[t] + 1)
  /\ done' = [done EXCEPT ![t] = @ + 1]
  /\ Goto(t, IF prog.once /\ done[t] + 1 < Increments THEN "read" ELSE "unlock")
  /\ UNCHANGED <<prog, temp>>

StoreUnlock(t) == /\ pc[t] = "unlock"
                  /\ Leave(t)
                  /\ Store(t, Flag(t), FALSE)
                  /\ UNCHANGED <<prog, temp, done>>

Run(t) == \/ StoreFlag(t)   \/ StoreVictim(t) \/ LoadFlag(t) \/ LoadVictim(t)
          \/ LoadShared(t)  \/ StoreShared(t) \/ StoreUnlock(t)

TSOInit == Init /\ buffer = [t \in Threads |-> <<>>]

TSOJoined == /\ AllDone
             /\ \A t \in Threads : buffer[t] = <<>>
             /\ UNCHANGED tsoVars

TSONext == (\E t \in Threads : Run(t) \/ Flush(t)) \/ TSOJoined

TSOSpec == TSOInit /\ [][TSONext]_tsoVars
=============================================================================
