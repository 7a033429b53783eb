------------------------------ MODULE Peterson ------------------------------
(***************************************************************************)
(* Peterson's lock for two threads, on a sequentially consistent memory.   *)
(* There are two programs, which differ in whom lock() makes the victim:   *)
(* "Spin Locks/PetersonLock" itself, exam_preparation/second/Again2 the    *)
(* other thread.  Each access to flags and victim is a step of its own:    *)
(* the while condition loads flags[j] and then, if it is set, victim.      *)
(***************************************************************************)
EXTENDS Worker

CONSTANT Programs

\* thread_ids: the other thread is 1 - tid.
ASSUME ThreadsAssumption == Threads = {0, 1}
\* self: lock() makes the caller the victim.
ASSUME ProgramsAssumption == Programs \subseteq [once : BOOLEAN, self : BOOLEAN]

VARIABLES flags, victim

vars == <<workVars, pc, flags, victim>>

Other(t) == 1 - t

Init == /\ prog \in Programs
        /\ WorkInit
        /\ flags = [t \in Threads |-> FALSE]
        /\ victim = 0

SetFlag(t) == /\ Step(t, "lock", "victim")
              /\ flags' = [flags EXCEPT ![t] = TRUE]
              /\ UNCHANGED <<workVars, victim>>

\* Mutant: the victim is the other thread in both programs.
AlwaysOther(t) == Other(t)

VictimOf(t) == IF prog.self THEN t ELSE Other(t)

SetVictim(t) == /\ Step(t, "victim", "flag?")
                /\ victim' = VictimOf(t)
                /\ UNCHANGED <<workVars, flags>>

\* Mutant: the loop tests the thread's own flag.
TestOwnFlag(t) == /\ Step(t, "flag?", IF flags[t] THEN "victim?" ELSE "read")
                  /\ UNCHANGED <<workVars, flags, victim>>

\* while (flags[j] && ...
TestFlag(t) == /\ Step(t, "flag?", IF flags[Other(t)] THEN "victim?" ELSE "read")
               /\ UNCHANGED <<workVars, flags, victim>>

\* Mutant: the victim is the one to go first.
TestRival(t) == /\ Step(t, "victim?", IF victim # t THEN "flag?" ELSE "read")
                /\ UNCHANGED <<workVars, flags, victim>>

\* ... && victim == id)
TestVictim(t) == /\ Step(t, "victim?", IF victim = t THEN "flag?" ELSE "read")
                 /\ UNCHANGED <<workVars, flags, victim>>

Unlock(t) == /\ pc[t] = "unlock"
             /\ Leave(t)
             /\ flags' = [flags EXCEPT ![t] = FALSE]
             /\ UNCHANGED <<workVars, victim>>

Act(t) == \/ Work(t) /\ UNCHANGED <<flags, victim>>
          \/ SetFlag(t)
          \/ SetVictim(t)
          \/ TestFlag(t)
          \/ TestVictim(t)
          \/ Unlock(t)

Joined == AllDone /\ UNCHANGED vars

Next == (\E t \in Threads : Act(t)) \/ Joined

\* Each thread goes on running.
Fairness == \A t \in Threads : WF_vars(Act(t))

Spec == Init /\ [][Next]_vars
FairSpec == Spec /\ Fairness

-----------------------------------------------------------------------------
Peterson_SpinLocks == [once |-> TRUE, self |-> TRUE]
Peterson_Again2 == [once |-> FALSE, self |-> FALSE]

SelfVictim == {Peterson_SpinLocks}
OtherVictim == {Peterson_Again2}

-----------------------------------------------------------------------------
(* A flag is up from lock() to unlock() and at no other time.              *)
TypeOK == /\ prog \in Programs
          /\ WorkTypeOK({"victim", "flag?", "victim?"})
          /\ flags = [t \in Threads |-> pc[t] \notin {"lock", "done"}]
          /\ victim \in Threads

(* The threads enter in the order the victim decides: no thread goes from  *)
(* its loop into the critical section while the other one waits in its own *)
(* loop and the newcomer is the victim.                                    *)
NoOvertaking ==
  [][\A t, u \in Threads :
       /\ u = Other(t)
       /\ pc[t] \in {"flag?", "victim?"}
       /\ victim = u
       => ~(u \notin Inside /\ u \in Inside')]_vars
=============================================================================
