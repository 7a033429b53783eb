------------------------------- MODULE Worker -------------------------------
(***************************************************************************)
(* The thread function that all the lock programs share: take the lock,    *)
(* increment the shared counter, give the lock back.  It comes in two      *)
(* shapes, told apart by prog.once: the thread takes the lock once and     *)
(* increments in a loop while it holds it ("Spin Locks/", "Queue Locks/"), *)
(* or it loops and takes the lock for each increment (exam_preparation/).  *)
(*                                                                         *)
(* shared_value++ is not an atomic operation: it is the load ReadShared    *)
(* and the store WriteShared.  A module of a lock algorithm EXTENDS this   *)
(* one, adds the steps from "lock" to "read" and those from "unlock" to    *)
(* Leave, and leaves the steps in between to Work.                         *)
(***************************************************************************)
EXTENDS Integers, FiniteSets

CONSTANTS Threads,      \* the threads main() creates
          Increments    \* increments per thread: times, TIMES, LOOP_NUM

ASSUME FiniteThreads == IsFiniteSet(Threads)
ASSUME IncrementsAssumption == Increments \in Nat \ {0}

VARIABLES prog,          \* the features of the program that runs (constant)
          pc,            \* the statement each thread executes next
          shared_value,  \* the global counter
          temp,          \* the register (or local) it is loaded into
          done           \* increments each thread has completed

workVars == <<prog, shared_value, temp, done>>

\* The statements from the lock's acquisition to the step that frees it.
Critical == {"read", "write", "unlock"}

WorkInit == /\ pc = [t \in Threads |-> "lock"]
            /\ shared_value = 0
            /\ temp = [t \in Threads |-> 0]
            /\ done = [t \in Threads |-> 0]

Goto(t, label) == pc' = [pc EXCEPT ![t] = label]

\* Thread t goes from statement `from` to statement `to`.
Step(t, from, to) == pc[t] = from /\ Goto(t, to)

ReadShared(t) == /\ Step(t, "read", "write")
                 /\ temp' = [temp EXCEPT ![t] = shared_value]
                 /\ UNCHANGED <<prog, shared_value, done>>

\* Mutant: i <= TIMES, one round too many.
WriteOneMore(t) ==
  /\ pc[t] = "write"
  /\ shared_value' = temp[t] + 1
  /\ done' = [done EXCEPT ![t] = @ + 1]
  /\ Goto(t, IF prog.once /\ done[t] < Increments THEN "read" ELSE "unlock")
  /\ UNCHANGED <<prog, temp>>

WriteShared(t) ==
  /\ pc[t] = "write"
  /\ shared_value' = temp[t] + 1
  /\ done' = [done EXCEPT ![t] = @ + 1]
  /\ Goto(t, IF prog.once /\ done[t] + 1 < Increments THEN "read" ELSE "unlock")
  /\ UNCHANGED <<prog, temp>>

Work(t) == ReadShared(t) \/ WriteShared(t)

\* The rest of the thread function after unlock(): loop, or return.
Leave(t) == Goto(t, IF done[t] < Increments THEN "lock" ELSE "done")

\* main() has joined every thread.
AllDone == \A t \in Threads : pc[t] = "done"

WorkTypeOK(labels) ==
  /\ pc \in [Threads -> {"lock", "done"} \cup Critical \cup labels]
  /\ shared_value \in Nat
  /\ temp \in [Threads -> Nat]
  /\ done \in [Threads -> 0..Increments]

\* The threads in the critical section.
Inside == {t \in Threads : pc[t] \in Critical}

-----------------------------------------------------------------------------
(* Parts of the inductive invariant of each lock that is proved.           *)

\* The value a thread is about to increment is still the counter's.
FreshRead == \A t \in Threads : pc[t] = "write" => temp[t] = shared_value

\* A thread before its next WriteShared has an increment to do; entry: the
\* labels of lock().
WorkLeft(entry) ==
  \A t \in Threads :
    pc[t] \in entry \cup {"lock", "read", "write"} => done[t] < Increments

\* A thread returns with all its increments done.
WorkDone == \A t \in Threads : pc[t] = "done" => done[t] = Increments

\* The increments made so far, each by its thread and number.
Completed == {p \in Threads \X (1..Increments) : p[2] <= done[p[1]]}

\* Each of them is in the counter, once.
EachCounted == shared_value = Cardinality(Completed)

-----------------------------------------------------------------------------
(* What the modules that extend this one check of their lock.              *)

(* At most one thread is between lock() and the release in unlock().       *)
MutualExclusion == \A t, u \in Inside : t = u

Abstract == INSTANCE LockedCounter WITH inside <- Inside, count <- shared_value

(* What main() of MCSLock/main2.c tests once it has joined the threads,    *)
(* and the other programs exist to show: shared_value holds every          *)
(* increment of every thread, none lost between a load and a store.        *)
NothingLost == AllDone => shared_value = Cardinality(Threads) * Increments

(* The lock makes shared_value++ atomic: the program implements the        *)
(* counter that only the thread inside can change.                         *)
ImplementsLockedCounter == Abstract!Spec

(* Every thread gets through all its rounds: no thread waits forever for a *)
(* lock that the others go on releasing.                                   *)
Termination == <>AllDone
=============================================================================
