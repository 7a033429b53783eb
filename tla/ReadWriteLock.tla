--------------------------- MODULE ReadWriteLock ----------------------------
(***************************************************************************)
(* The readers-writer locks: a monitor with two conditions that prefers    *)
(* writers.  The programs are told apart by                                *)
(*   signals     unlock() wakes one writer (pthread_cond_signal), not all; *)
(*   writeLocks  the writing threads call wLock (in                        *)
(*               "Pthread/ReadWriteLock" they call rLock);                 *)
(*   until       a thread loops while shared_value < Limit, which it reads *)
(*               without the lock, rather than a number of times.          *)
(* Where the program has while (1), Rounds cuts the loop off.              *)
(***************************************************************************)
EXTENDS Monitor

CONSTANTS Readers, Writers, Programs,
          Rounds,        \* rounds of a counting loop
          Limit          \* 11 in the loops that test shared_value

Threads == Readers \cup Writers

ASSUME ThreadsAssumption == /\ Readers \cap Writers = {} /\ Threads # {}
                            /\ IsFiniteSet(Readers) /\ IsFiniteSet(Writers)
ASSUME ConditionsAssumption == Conditions = {"readerCondition", "writerCondition"}
ASSUME ProgramsAssumption ==
         Programs \subseteq [signals : BOOLEAN, writeLocks : BOOLEAN, until : BOOLEAN]
ASSUME BoundsAssumption == Rounds \in Nat \ {0} /\ Limit \in Nat \ {0}

VARIABLES prog, pc,
          readers, writers, pendingWriters,   \* the fields of the lock
          shared_value,
          temp,                               \* the value a thread has loaded
          rounds                              \* rounds each thread has finished

lockVars == <<readers, writers, pendingWriters>>
valueVars == <<shared_value, temp>>
vars == <<prog, pc, asleep, lockVars, valueVars, rounds>>

\* Where a round of the thread function starts.
Start == IF prog.until THEN "while" ELSE "lock"

Init == /\ prog \in Programs
        /\ pc = [t \in Threads |-> Start]
        /\ NobodyAsleep
        /\ readers = 0 /\ writers = 0 /\ pendingWriters = 0
        /\ shared_value = 0
        /\ temp = [t \in Threads |-> 0]
        /\ rounds = [t \in Threads |-> 0]

Goto(t, label) == pc' = [pc EXCEPT ![t] = label]
Step(t, from, to) == pc[t] = from /\ Goto(t, to)

\* while (shared_value < 11), read without the lock.
TestLoop(t) ==
  /\ Step(t, "while", IF shared_value < Limit THEN "lock" ELSE "done")
  /\ UNCHANGED <<prog, asleep, lockVars, valueVars, rounds>>

\* The threads that call rLock.
Sharers == IF prog.writeLocks THEN Readers ELSE Threads

\* What a thread does with the lock: a reader prints the value.
Body(t) == IF t \in Writers THEN "load" ELSE "unlock"

\* Mutant: a pending writer does not hold readers back.
MayReadEarly == writers = 0

MayRead == writers = 0 /\ pendingWriters = 0

\* Mutant: a writer does not hold writers back.
MayWriteEarly == readers = 0

MayWrite == writers = 0 /\ readers = 0

\* The thread runs, after calling the lock function or after waking up in it.
Calls(t) == pc[t] \in {"lock", "wait"} /\ Awake(t)

RLock(t) == /\ t \in Sharers /\ Calls(t)
            /\ MayRead
            /\ readers' = readers + 1
            /\ Goto(t, Body(t))
            /\ UNCHANGED <<prog, asleep, writers, pendingWriters, valueVars, rounds>>

RWait(t) == /\ t \in Sharers /\ Calls(t)
            /\ ~MayRead
            /\ Sleep(t, "readerCondition")
            /\ Goto(t, "wait")
            /\ UNCHANGED <<prog, lockVars, valueVars, rounds>>

\* pendingWriters once wLock has counted t: it does so once, on entry.
Pending(t) == IF pc[t] = "lock" THEN pendingWriters + 1 ELSE pendingWriters

WLock(t) == /\ t \in Threads \ Sharers /\ Calls(t)
            /\ MayWrite
            /\ pendingWriters' = Pending(t) - 1
            /\ writers' = 1
            /\ Goto(t, Body(t))
            /\ UNCHANGED <<prog, asleep, readers, valueVars, rounds>>

WWait(t) == /\ t \in Threads \ Sharers /\ Calls(t)
            /\ ~MayWrite
            /\ pendingWriters' = Pending(t)
            /\ Sleep(t, "writerCondition")
            /\ Goto(t, "wait")
            /\ UNCHANGED <<prog, readers, writers, valueVars, rounds>>

\* shared_counter++ is a load and a store.
LoadValue(t) == /\ Step(t, "load", "store")
                /\ temp' = [temp EXCEPT ![t] = shared_value]
                /\ UNCHANGED <<prog, asleep, lockVars, shared_value, rounds>>

StoreValue(t) == /\ Step(t, "store", "unlock")
                 /\ shared_value' = temp[t] + 1
                 /\ UNCHANGED <<prog, asleep, lockVars, temp, rounds>>

\* Mutant: readers are never woken.
WakeWritersOnly == IF prog.signals THEN Signal("writerCondition")
                   ELSE Broadcast("writerCondition")

\* Whom unlock() wakes up.
WakeNext == IF pendingWriters > 0
            THEN IF prog.signals THEN Signal("writerCondition")
                 ELSE Broadcast("writerCondition")
            ELSE Broadcast("readerCondition")

\* Mutant: unlock() resets both counts.
ResetCounts == readers' = 0 /\ writers' = 0

\* Takes one off the readers if there are any, else off the writers.
GiveBack == IF readers > 0 THEN readers' = readers - 1 /\ UNCHANGED writers
               ELSE writers' = 0 /\ UNCHANGED readers

Unlock(t) ==
  /\ pc[t] = "unlock"
  /\ GiveBack
  /\ WakeNext
  /\ IF prog.until THEN Goto(t, "while") /\ UNCHANGED rounds
     ELSE /\ Goto(t, IF rounds[t] + 1 < Rounds THEN "lock" ELSE "done")
          /\ rounds' = [rounds EXCEPT ![t] = @ + 1]
  /\ UNCHANGED <<prog, pendingWriters, valueVars>>

Act(t) == \/ TestLoop(t)  \/ RLock(t)      \/ RWait(t)      \/ WLock(t)
          \/ WWait(t)     \/ LoadValue(t)  \/ StoreValue(t) \/ Unlock(t)

SpuriousWakeup(t) == /\ WakeUp(t)
                     /\ UNCHANGED <<prog, pc, lockVars, valueVars, rounds>>

AllDone == \A t \in Threads : pc[t] = "done"

Joined == AllDone /\ UNCHANGED vars

Next == (\E t \in Threads : Act(t) \/ SpuriousWakeup(t)) \/ Joined

\* A thread that is awake goes on running; nobody has to wake up by itself.
Fairness == \A t \in Threads : WF_vars(Act(t))

Spec == Init /\ [][Next]_vars
FairSpec == Spec /\ Fairness

-----------------------------------------------------------------------------
RW_Pthread == [signals |-> TRUE, writeLocks |-> FALSE, until |-> FALSE]
\* ReadWriteLock.c by itself, its three functions called as they are meant.
RW_Pthread_Functions == [signals |-> TRUE, writeLocks |-> TRUE, until |-> FALSE]
RW_Preparation == [signals |-> FALSE, writeLocks |-> TRUE, until |-> TRUE]
RW_Three3 == [signals |-> FALSE, writeLocks |-> TRUE, until |-> FALSE]
RW_Again2 == [signals |-> FALSE, writeLocks |-> TRUE, until |-> FALSE]

WriteLocking == {RW_Pthread_Functions, RW_Preparation, RW_Three3, RW_Again2}
WritersRead == {RW_Pthread}

-----------------------------------------------------------------------------
Inside == {t \in Threads : pc[t] \in {"load", "store", "unlock"}}

(* A waiting thread sleeps on the condition of its kind, and the fields of *)
(* the lock count the threads that are inside or wait.                     *)
TypeOK ==
  /\ prog \in Programs
  /\ pc \in [Threads -> {"while", "lock", "wait", "load", "store", "unlock", "done"}]
  /\ asleep["readerCondition"] \subseteq {t \in Sharers : pc[t] = "wait"}
  /\ asleep["writerCondition"] \subseteq {t \in Threads \ Sharers : pc[t] = "wait"}
  /\ readers = Cardinality(Inside \cap Sharers)
  /\ writers = Cardinality(Inside \ Sharers)
  /\ pendingWriters = Cardinality({t \in Threads \ Sharers : pc[t] = "wait"})
  /\ shared_value \in Nat /\ temp \in [Threads -> Nat]
  /\ rounds \in [Threads -> 0..Rounds]

(* A writing thread has the shared variable to itself.                     *)
WriterAlone == \A w \in Inside \cap Writers : Inside = {w}

Abstract == INSTANCE ReadersWriters
              WITH reading <- Inside \cap Readers, writing <- Inside \cap Writers,
                   value <- shared_value

(* The monitor implements the readers-writer lock.                         *)
ImplementsReadersWriters == Abstract!Spec

(* Nobody sleeps on a condition that has come true: readers sleep only     *)
(* while a writer is inside or pending, and when writers sleep, a thread   *)
(* inside will wake one, or one has been woken already.                    *)
NoLostWakeup ==
  /\ asleep["readerCondition"] # {} => ~MayRead
  /\ asleep["writerCondition"] # {} =>
       \/ Inside # {}
       \/ \E w \in Threads \ Sharers : pc[w] = "wait" /\ Awake(w)

(* Writers go first: no reader enters while a writer waits.                *)
WritersFirst ==
  [][\A r \in Readers : r \notin Inside /\ r \in Inside' =>
       \A w \in Writers : pc[w] # "wait"]_vars

(* The value that is left at the end.  The test of shared_value without    *)
(* the lock may be out of date when wLock returns: each other writer may   *)
(* add one more.                                                           *)
FinalValue ==
  AllDone => IF prog.until
             THEN shared_value \in Limit..(Limit + Cardinality(Writers) - 1)
             ELSE shared_value = Cardinality(Writers) * Rounds

(* Readers and writers all get through, with writers preferred.            *)
Termination == <>AllDone
=============================================================================
