------------------------------- MODULE ALock --------------------------------
(***************************************************************************)
(* The array queue lock.  A thread takes the next slot of the array and    *)
(* spins on that slot's flag; unlock() clears the flag and sets the next.  *)
(* Seven programs: six reduce the slot modulo CAPACITY (prog.wraps), and   *)
(* "Queue Locks/QueueLock" does not: its threads take the lock once, there *)
(* are as many slots as threads, and the last unlock() writes to the word  *)
(* behind flags[], where the struct keeps the key slot_index.              *)
(* A flag is TRUE when the slot's owner may go (1, or 0 in Three3).        *)
(***************************************************************************)
EXTENDS QueuedWorker

CONSTANTS Programs,
          Capacity      \* CAPACITY

ASSUME ProgramsAssumption == Programs \subseteq [once : BOOLEAN, wraps : BOOLEAN]
\* main() creates no more threads than there are slots.
ASSUME CapacityAssumption == /\ Capacity \in Nat \ {0}
                             /\ Cardinality(Threads) <= Capacity

VARIABLES tail,     \* the next slot to be taken, not reduced
          flags,    \* the array, and behind it at Capacity the key's word
          index     \* the slot that each thread took, not reduced

vars == <<workVars, pc, queueVars, tail, flags, index>>

Init == /\ prog \in Programs
        /\ WorkInit
        /\ QueueInit
        /\ tail = 0
        /\ flags = [i \in 0..Capacity |-> i = 0]
        /\ index = [t \in Threads |-> 0]

\* The element of flags[] for slot i.
Slot(i) == IF prog.wraps THEN i % Capacity ELSE i

\* __sync_fetch_and_add(&tail, 1), and setSlot: the slot is thread-specific.
TakeSlot(t) == /\ Step(t, "lock", "spin")
               /\ index' = [index EXCEPT ![t] = tail]
               /\ tail' = tail + 1
               /\ Join(t)
               /\ UNCHANGED <<workVars, flags>>

\* Mutant: 0 and 1 are confused (Three3 uses them the other way around).
GoOnWait(t) == /\ Step(t, "spin", "read")
               /\ ~flags[Slot(index[t])]
               /\ UNCHANGED <<workVars, queueVars, tail, flags, index>>

\* The spinning loop sees the flag of the thread's slot.
Go(t) == /\ Step(t, "spin", "read")
         /\ flags[Slot(index[t])]
         /\ UNCHANGED <<workVars, queueVars, tail, flags, index>>

\* Mutant: unlock() leaves its own flag set, for the slot's next owner.
KeepFlag(t) == /\ Step(t, "unlock", "grant")
               /\ UNCHANGED <<workVars, queueVars, tail, flags, index>>

\* The first store of unlock(): clear the own flag.
ClearFlag(t) == /\ Step(t, "unlock", "grant")
                /\ flags' = [flags EXCEPT ![Slot(index[t])] = FALSE]
                /\ UNCHANGED <<workVars, queueVars, tail, index>>

\* The second store: set the flag of the next slot.
Grant(t) == /\ pc[t] = "grant"
            /\ Leave(t)
            /\ flags' = [flags EXCEPT ![Slot(index[t] + 1)] = TRUE]
            /\ Depart(t)
            /\ UNCHANGED <<workVars, tail, index>>

Act(t) == \/ Work(t) /\ UNCHANGED <<queueVars, tail, flags, index>>
          \/ TakeSlot(t)
          \/ Go(t)
          \/ ClearFlag(t)
          \/ Grant(t)

Joined == AllDone /\ UNCHANGED vars

Next == (\E t \in Threads : Act(t)) \/ Joined

Spec == Init /\ [][Next]_vars

-----------------------------------------------------------------------------
ALock_QueueLocks == [once |-> TRUE, wraps |-> FALSE]
Wrapping == [once |-> FALSE, wraps |-> TRUE]
ALock_Again2 == Wrapping
ALock2_Again2 == Wrapping
ALock3_Again2 == Wrapping
ALock_Three3 == Wrapping
ALock2_Three3 == Wrapping
ALock_Three3_Last == Wrapping

AllALocks == {ALock_QueueLocks, ALock_Again2, ALock2_Again2, ALock3_Again2,
              ALock_Three3, ALock2_Three3, ALock_Three3_Last}

-----------------------------------------------------------------------------
(* A queued thread spins on a slot within the array.  The one store behind *)
(* it overwrites slot_index, the key of the thread-specific slot; it       *)
(* happens only when no thread will use the key.                           *)
KeyIntact == /\ \A t \in queued : Slot(index[t]) < Capacity
             /\ flags[Capacity] => AllDone
=============================================================================
