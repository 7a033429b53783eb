---------------------------- MODULE WorkerProofs ----------------------------
(***************************************************************************)
(* Lemmas on the thread function, for the proofs of the lock algorithms:   *)
(* what a step of Work, a step into the critical section and a step out of *)
(* it do to the parts of the invariant and to the abstract counter.        *)
(***************************************************************************)
EXTENDS Worker, FiniteSetTheorems, TLAPS

\* The invariant of the thread function under a lock that works; entry and
\* exit are the labels that the lock adds to lock() and to unlock().
WorkInv(entry, exit) == /\ WorkTypeOK(entry \cup exit)
                        /\ MutualExclusion
                        /\ FreshRead
                        /\ WorkLeft(entry)
                        /\ WorkDone
                        /\ EachCounted

\* The labels of a lock are its own.
Labelled(entry, exit) ==
  /\ (entry \cup exit) \cap (Critical \cup {"lock", "done"}) = {}
  /\ entry \cap exit = {}

LEMMA CompletedFinite == IsFiniteSet(Completed)
<1>1. IsFiniteSet(Threads \X (1..Increments))
  <2>1. IsFiniteSet(1..Increments)
    BY FS_Interval, IncrementsAssumption
  <2> QED
    BY <2>1, FS_Product, FiniteThreads
<1>2. Completed \in SUBSET (Threads \X (1..Increments))
  BY DEF Completed
<1> QED
  BY <1>1, <1>2, FS_Subset

(* One more increment by a thread is one more in all.                      *)
LEMMA CountIncrement ==
  ASSUME NEW t \in Threads, done \in [Threads -> 0..Increments],
         done[t] < Increments, done' = [done EXCEPT ![t] = @ + 1]
  PROVE  Cardinality(Completed') = Cardinality(Completed) + 1
<1>1. Completed' = Completed \cup {<<t, done[t] + 1>>}
  BY IncrementsAssumption DEF Completed
<1>2. <<t, done[t] + 1>> \notin Completed
  BY IncrementsAssumption DEF Completed
<1> QED
  BY <1>1, <1>2, CompletedFinite, FS_AddElement

(* When all threads have returned, the counter holds all increments.       *)
LEMMA CountAll ==
  ASSUME WorkDone, EachCounted
  PROVE  NothingLost
<1> SUFFICES ASSUME AllDone
             PROVE  shared_value = Cardinality(Threads) * Increments
  BY DEF NothingLost
<1>1. Completed = Threads \X (1..Increments)
  BY IncrementsAssumption DEF AllDone, WorkDone, Completed
<1>2. IsFiniteSet(1..Increments) /\ Cardinality(1..Increments) = Increments
  BY FS_Interval, IncrementsAssumption
<1> QED
  BY <1>1, <1>2, FS_Product, FiniteThreads DEF EachCounted

(* A worker's own steps keep the invariant, leave the set of threads in    *)
(* the critical section alone and increment the abstract counter by one    *)
(* or not at all.                                                          *)
LEMMA WorkStep ==
  ASSUME NEW entry, NEW exit, Labelled(entry, exit), NEW t \in Threads,
         prog.once \in BOOLEAN, WorkInv(entry, exit), Work(t)
  PROVE  /\ WorkInv(entry, exit)'
         /\ Inside' = Inside
         /\ Abstract!Increment(t) \/ UNCHANGED Abstract!vars
<1>0. Increments \in Nat \ {0}
  BY IncrementsAssumption
<1>1. CASE ReadShared(t)
  <2>1. WorkTypeOK(entry \cup exit)'
    BY <1>1 DEF ReadShared, Step, Goto, WorkInv, WorkTypeOK, Critical
  <2>2. Inside' = Inside
    BY <1>1 DEF ReadShared, Step, Goto, WorkInv, WorkTypeOK, Inside, Critical
  <2>3. FreshRead' /\ WorkLeft(entry)'
    BY <1>1 DEF ReadShared, Step, Goto, WorkInv, WorkTypeOK, FreshRead, WorkLeft
  <2>5. WorkDone' /\ EachCounted'
    BY <1>1 DEF ReadShared, Step, Goto, WorkInv, WorkTypeOK, WorkDone,
                EachCounted, Completed
  <2>4. UNCHANGED Abstract!vars
    BY <2>2, <1>1 DEF ReadShared, Abstract!vars
  <2> QED
    BY <2>1, <2>2, <2>3, <2>4, <2>5 DEF WorkInv, MutualExclusion
<1>2. CASE WriteShared(t)
  <2>1. done[t] < Increments /\ temp[t] = shared_value /\ done[t] \in Nat
    BY <1>2, <1>0 DEF WriteShared, WorkInv, WorkLeft, FreshRead, WorkTypeOK
  <2>2. WorkTypeOK(entry \cup exit)'
    <3>1. pc' \in [Threads -> {"lock", "done"} \cup Critical \cup (entry \cup exit)]
      BY <1>2 DEF WriteShared, Goto, WorkInv, WorkTypeOK, Critical
    <3>2. shared_value' \in Nat /\ temp' \in [Threads -> Nat]
      BY <1>2 DEF WriteShared, WorkInv, WorkTypeOK
    <3>3. done' \in [Threads -> 0..Increments]
      BY <1>2, <1>0, <2>1 DEF WriteShared, WorkInv, WorkTypeOK
    <3> QED
      BY <3>1, <3>2, <3>3 DEF WorkTypeOK
  <2>3. Inside' = Inside
    BY <1>2 DEF WriteShared, Goto, WorkInv, WorkTypeOK, Inside, Critical
  <2>4. \A u \in Threads : u # t => pc[u] # "write"
    BY <1>2 DEF WriteShared, WorkInv, MutualExclusion, Inside, Critical
  <2>5. FreshRead'
    BY <1>2, <2>4 DEF WriteShared, Goto, WorkInv, WorkTypeOK, FreshRead
  <2>6. WorkLeft(entry)'
    BY <1>2, <1>0, <2>1
    DEF WriteShared, Goto, WorkInv, WorkTypeOK, WorkLeft, Labelled, Critical
  <2>7. Inside = {t}
    BY <1>2 DEF WriteShared, WorkInv, MutualExclusion, Inside, Critical
  <2>8. Abstract!Increment(t)
    BY <1>2, <2>1, <2>3, <2>7 DEF WriteShared, Abstract!Increment
  <2>9. WorkDone'
    BY <1>2 DEF WriteShared, Goto, WorkInv, WorkTypeOK, WorkDone
  <2>10. EachCounted'
    BY <1>2, <2>1, CountIncrement DEF WriteShared, WorkInv, WorkTypeOK, EachCounted
  <2> QED
    BY <2>2, <2>3, <2>5, <2>6, <2>8, <2>9, <2>10 DEF WorkInv, MutualExclusion
<1> QED
  BY <1>1, <1>2 DEF Work

(* A step within lock(), or within unlock() behind the critical section,   *)
(* is no step of the abstract counter.                                     *)
LEMMA OutsideStep ==
  ASSUME NEW entry, NEW exit, Labelled(entry, exit), NEW t \in Threads, NEW to,
         \/ pc[t] \in entry \cup {"lock"} /\ to \in entry \cup {"lock"}
         \/ pc[t] \in exit /\ to \in exit,
         WorkInv(entry, exit), Goto(t, to), UNCHANGED workVars
  PROVE  /\ WorkInv(entry, exit)'
         /\ Inside' = Inside
         /\ UNCHANGED Abstract!vars
<1> USE DEF Labelled, Goto, workVars, WorkInv, WorkTypeOK
<1>1. WorkTypeOK(entry \cup exit)'
  OBVIOUS
<1>2. Inside' = Inside
  BY DEF Inside, Critical
<1>3. FreshRead'
  BY DEF FreshRead, Critical
<1>4. WorkLeft(entry)'
  BY DEF WorkLeft, Critical
<1>5. UNCHANGED Abstract!vars
  BY <1>2 DEF Abstract!vars
<1>6. WorkDone' /\ EachCounted'
  BY DEF WorkDone, EachCounted, Completed, Critical
<1> QED
  BY <1>1, <1>2, <1>3, <1>4, <1>5, <1>6 DEF MutualExclusion

(* A step into the empty critical section.                                 *)
LEMMA EnterStep ==
  ASSUME NEW entry, NEW exit, Labelled(entry, exit), NEW t \in Threads,
         Inside = {}, pc[t] \in entry \cup {"lock"},
         WorkInv(entry, exit), Goto(t, "read"), UNCHANGED workVars
  PROVE  /\ WorkInv(entry, exit)'
         /\ Inside' = {t}
         /\ Abstract!Enter(t)
<1> USE DEF Labelled, Goto, workVars, WorkInv, WorkTypeOK
<1>1. WorkTypeOK(entry \cup exit)'
  BY DEF Critical
<1>2. Inside' = {t}
  BY DEF Inside, Critical
<1>3. FreshRead'
  BY DEF FreshRead
<1>4. WorkLeft(entry)'
  BY DEF WorkLeft, Critical
<1>5. Abstract!Enter(t)
  BY <1>2 DEF Abstract!Enter
<1>6. WorkDone' /\ EachCounted'
  BY DEF WorkDone, EachCounted, Completed, Critical
<1> QED
  BY <1>1, <1>2, <1>3, <1>4, <1>5, <1>6 DEF MutualExclusion

(* The step from the critical section to the rest of unlock(), or straight *)
(* out of it.                                                              *)
LEMMA ExitStep ==
  ASSUME NEW entry, NEW exit, Labelled(entry, exit), NEW t \in Threads,
         pc[t] = "unlock", Leave(t) \/ \E to \in exit : Goto(t, to),
         WorkInv(entry, exit), UNCHANGED workVars
  PROVE  /\ WorkInv(entry, exit)'
         /\ Inside = {t}
         /\ Inside' = {}
         /\ Abstract!Exit(t)
<1> USE DEF Labelled, Leave, Goto, workVars, WorkInv, WorkTypeOK
<1>1. WorkTypeOK(entry \cup exit)'
  BY DEF Critical
<1>2. Inside = {t}
  BY DEF MutualExclusion, Inside, Critical
<1>3. Inside' = {}
  BY <1>2 DEF Inside, Critical
<1>4. FreshRead' /\ WorkLeft(entry)'
  BY DEF FreshRead, WorkLeft, Critical
<1>5. Abstract!Exit(t)
  BY <1>2, <1>3 DEF Abstract!Exit
<1>6. WorkDone' /\ EachCounted'
  <2>1. WorkDone'
    BY IncrementsAssumption DEF WorkDone, Critical
  <2>2. EachCounted'
    BY DEF EachCounted, Completed
  <2> QED
    BY <2>1, <2>2
<1> QED
  BY <1>1, <1>2, <1>3, <1>4, <1>5, <1>6 DEF MutualExclusion

(* The last step of an unlock() that leaves in several steps.              *)
LEMMA LeaveStep ==
  ASSUME NEW entry, NEW exit, Labelled(entry, exit), NEW t \in Threads,
         pc[t] \in exit, Leave(t), WorkInv(entry, exit), UNCHANGED workVars
  PROVE  /\ WorkInv(entry, exit)'
         /\ Inside' = Inside
         /\ UNCHANGED Abstract!vars
<1> USE DEF Labelled, Leave, Goto, workVars, WorkInv, WorkTypeOK
<1>1. WorkTypeOK(entry \cup exit)'
  BY DEF Critical
<1>2. Inside' = Inside
  BY DEF Inside, Critical
<1>3. FreshRead' /\ WorkLeft(entry)'
  BY DEF FreshRead, WorkLeft, Critical
<1>4. UNCHANGED Abstract!vars
  BY <1>2 DEF Abstract!vars
<1>5. WorkDone' /\ EachCounted'
  <2>1. WorkDone'
    BY IncrementsAssumption DEF WorkDone, Critical
  <2>2. EachCounted'
    BY DEF EachCounted, Completed
  <2> QED
    BY <2>1, <2>2
<1> QED
  BY <1>1, <1>2, <1>3, <1>4, <1>5 DEF MutualExclusion

(* A step that changes no variable of the thread function changes nothing  *)
(* that the lemmas above are about.                                        *)
LEMMA WorkStutter ==
  ASSUME NEW entry, NEW exit, WorkInv(entry, exit), UNCHANGED <<workVars, pc>>
  PROVE  WorkInv(entry, exit)' /\ Inside' = Inside /\ UNCHANGED Abstract!vars
BY DEF workVars, WorkInv, WorkTypeOK, MutualExclusion, FreshRead, WorkLeft,
       WorkDone, EachCounted, Completed, Inside, Abstract!vars

(* The thread function starts in its invariant and in the abstract         *)
(* counter's initial state.                                                *)
LEMMA WorkStart ==
  ASSUME NEW entry, NEW exit, Labelled(entry, exit), WorkInit
  PROVE  WorkInv(entry, exit) /\ Inside = {} /\ Abstract!Init
<1>1. WorkTypeOK(entry \cup exit)
  BY IncrementsAssumption DEF WorkInit, WorkTypeOK
<1>2. Inside = {}
  BY DEF WorkInit, Inside, Critical
<1>3. FreshRead /\ WorkLeft(entry)
  BY IncrementsAssumption DEF WorkInit, FreshRead, WorkLeft
<1>4. WorkDone
  BY DEF WorkInit, WorkDone
<1>5. Completed = {}
  BY DEF WorkInit, Completed
<1>6. EachCounted
  BY <1>5, FS_EmptySet DEF WorkInit, EachCounted
<1> QED
  BY <1>1, <1>2, <1>3, <1>4, <1>6
  DEF WorkInv, MutualExclusion, WorkInit, Abstract!Init

-----------------------------------------------------------------------------
(* The queue of QueuedWorker: q are the threads in it, a[t] those ahead of *)
(* t.  The threads ahead of t are in the queue, so are those ahead of      *)
(* them, and of two threads one is ahead of the other.                     *)

Ordered(q, a) ==
  /\ q \subseteq Threads
  /\ a \in [Threads -> SUBSET Threads]
  /\ \A t \in q : a[t] \subseteq q /\ t \notin a[t]
  /\ \A t, u \in q : t \in a[u] => a[t] \subseteq a[u]
  /\ \A t, u \in q : t = u \/ t \in a[u] \/ u \in a[t]

(* Joining at the end keeps the order.                                     *)
LEMMA JoinOrder ==
  ASSUME NEW q, NEW a, NEW t \in Threads, t \notin q, Ordered(q, a)
  PROVE  Ordered(q \cup {t}, [a EXCEPT ![t] = q])
BY DEF Ordered

(* So does the departure of any thread.                                    *)
LEMMA DepartOrder ==
  ASSUME NEW q, NEW a, NEW t \in Threads, Ordered(q, a)
  PROVE  Ordered(q \ {t}, [u \in Threads |-> a[u] \ {t}])
BY DEF Ordered
=============================================================================
