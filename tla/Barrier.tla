------------------------------ MODULE Barrier -------------------------------
(***************************************************************************)
(* The pthread barriers: a monitor that counts arrivals.  Four programs,   *)
(* told apart by                                                           *)
(*   retests    a thread that wakes up tests the count again (while, not   *)
(*              if);                                                       *)
(*   everyone   each thread broadcasts when it leaves, not only the one    *)
(*              that arrived last.                                         *)
(* Each program uses its barrier once; the count is never reset.           *)
(***************************************************************************)
EXTENDS Monitor

CONSTANTS Threads, Programs,
          Spurious        \* those in which pthread_cond_wait may return by itself

ASSUME ThreadsAssumption == IsFiniteSet(Threads) /\ Threads # {}
ASSUME ConditionsAssumption == Conditions = {"cond"}
ASSUME ProgramsAssumption == /\ Programs \subseteq [retests : BOOLEAN, everyone : BOOLEAN]
                             /\ Spurious \subseteq Programs

VARIABLES prog, pc,
          current_threads     \* threads that have arrived

vars == <<prog, pc, asleep, current_threads>>

\* What initBarrier() was called with: the number of threads.
thread_nums == Cardinality(Threads)

Init == /\ prog \in Programs
        /\ pc = [t \in Threads |-> "arrive"]
        /\ NobodyAsleep
        /\ current_threads = 0

Goto(t, label) == pc' = [pc EXCEPT ![t] = label]

\* Mutant: the arrivals are compared with one thread less.
OneMissing(n) == n >= thread_nums - 1

\* Everybody has arrived, when n have.
Complete(n) == n >= thread_nums

\* Not the last to arrive: wait.
ArriveAndWait(t) == /\ pc[t] = "arrive"
                    /\ ~Complete(current_threads + 1)
                    /\ current_threads' = current_threads + 1
                    /\ Goto(t, "wait")
                    /\ Sleep(t, "cond")
                    /\ UNCHANGED prog

\* Mutant: the others are not woken.
ArriveLastQuietly(t) == /\ pc[t] = "arrive"
                        /\ Complete(current_threads + 1)
                        /\ current_threads' = current_threads + 1
                        /\ Goto(t, "done")
                        /\ UNCHANGED <<prog, asleep>>

\* The last to arrive wakes the others and goes on.
ArriveLast(t) == /\ pc[t] = "arrive"
                 /\ Complete(current_threads + 1)
                 /\ current_threads' = current_threads + 1
                 /\ Goto(t, "done")
                 /\ Broadcast("cond")
                 /\ UNCHANGED prog

\* A thread that has woken up leaves, having tested the count or not.
Leave(t) == /\ pc[t] = "wait" /\ Awake(t)
            /\ prog.retests => Complete(current_threads)
            /\ Goto(t, "done")
            /\ IF prog.everyone THEN Broadcast("cond") ELSE UNCHANGED asleep
            /\ UNCHANGED <<prog, current_threads>>

\* It finds that threads are missing and waits again.
WaitAgain(t) == /\ pc[t] = "wait" /\ Awake(t)
                /\ prog.retests /\ ~Complete(current_threads)
                /\ Sleep(t, "cond")
                /\ UNCHANGED <<prog, pc, current_threads>>

Act(t) == ArriveAndWait(t) \/ ArriveLast(t) \/ Leave(t) \/ WaitAgain(t)

SpuriousWakeup(t) == /\ prog \in Spurious
                     /\ WakeUp(t)
                     /\ UNCHANGED <<prog, pc, current_threads>>

AllDone == \A t \in Threads : pc[t] = "done"

Joined == AllDone /\ UNCHANGED vars

Next == (\E t \in Threads : Act(t) \/ SpuriousWakeup(t)) \/ Joined

\* A thread that is awake goes on running.
Fairness == \A t \in Threads : WF_vars(Act(t))

Spec == Init /\ [][Next]_vars
FairSpec == Spec /\ Fairness

-----------------------------------------------------------------------------
Barrier_Pthread == [retests |-> FALSE, everyone |-> FALSE]
Barrier_Preparation == [retests |-> FALSE, everyone |-> FALSE]
Barrier_Three3 == [retests |-> FALSE, everyone |-> TRUE]
Barrier_Again2 == [retests |-> TRUE, everyone |-> TRUE]

TestOnce == {Barrier_Pthread, Barrier_Preparation, Barrier_Three3}
Retesting == {Barrier_Again2}
AllBarriers == TestOnce \cup Retesting

-----------------------------------------------------------------------------
(* Nobody passes the barrier before everybody has reached it.              *)
NobodyEarly == (\E t \in Threads : pc[t] = "done") => \A u \in Threads : pc[u] # "arrive"

(* Everybody passes the barrier.                                           *)
Termination == <>AllDone
=============================================================================
