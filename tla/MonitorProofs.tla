---------------------------- MODULE MonitorProofs ---------------------------
(***************************************************************************)
(* The programs built on a pthread monitor, for any number of threads.     *)
(*                                                                         *)
(* Readers-writer locks: the type invariant with its counts, that nobody   *)
(* sleeps through his turn, and, for the programs whose writers call       *)
(* wLock, that pending writers go first, that the lock implements          *)
(* ReadersWriters, and what value is left.  TypeOK is not inductive:       *)
(* unlock() takes one off the readers if there are any, so that the counts *)
(* stay right only because a thread that has called wLock is alone inside. *)
(*                                                                         *)
(* Producers and consumers: no slot is overfilled or taken from empty, and *)
(* nobody sleeps through his wake-up.  Each needs the other: a consumer    *)
(* that wakes up may take only because it tests again, and OwnCondition    *)
(* says that a broadcast reaches all those that an item concerns.          *)
(*                                                                         *)
(* Barriers: nobody passes before everybody has arrived, and whoever has   *)
(* arrived last has left nobody asleep.  Neither is inductive: what the    *)
(* count says of the threads, and that a thread that wakes up in a program *)
(* that does not test again has been woken by the last one, are added in   *)
(* BarrierInv.                                                             *)
(***************************************************************************)
EXTENDS ReadWriteLock, FiniteSetTheorems, TLAPS

\* The threads that call wLock, and those of them that wait in it.
Lockers == Threads \ Sharers
Pendings == {t \in Lockers : pc[t] = "wait"}

Alone == \A w \in Inside \cap Lockers : Inside = {w}

\* The value about to be incremented under the write lock is still current.
FreshValue == \A w \in Lockers : pc[w] = "store" => temp[w] = shared_value

RoundsLeft == \A t \in Threads : ~prog.until /\ pc[t] # "done" => rounds[t] < Rounds

SleepersOK == asleep \in [Conditions -> SUBSET Threads]

Inv == TypeOK /\ SleepersOK /\ RoundsLeft /\ Alone /\ FreshValue /\ NoLostWakeup

Labels == {"while", "lock", "wait", "load", "store", "unlock", "done"}
InsideLabels == {"load", "store", "unlock"}

-----------------------------------------------------------------------------
(* The three sets of threads that the fields of the lock count.            *)

LEMMA FiniteThreads == \A S \in SUBSET Threads : IsFiniteSet(S)
<1>1. IsFiniteSet(Threads)
  BY ThreadsAssumption, FS_Union DEF Threads
<1> QED
  BY <1>1, FS_Subset

\* A count that is 0 is that of an empty set, and one step changes it by one.
LEMMA Counting1 ==
  ASSUME NEW S \in SUBSET Threads
  PROVE  /\ Cardinality(S) \in Nat
         /\ Cardinality(S) = 0 <=> S = {}
         /\ \A t \in Threads \ S : Cardinality(S \cup {t}) = Cardinality(S) + 1
         /\ \A t \in S : Cardinality(S \ {t}) = Cardinality(S) - 1
<1>1. IsFiniteSet(S)
  BY FiniteThreads
<1> QED
  BY <1>1, FS_CardinalityType, FS_EmptySet, FS_AddElement, FS_RemoveElement

\* What TypeOK says of the counts.
LEMMA Counts ==
  ASSUME TypeOK
  PROVE  /\ {readers, writers, pendingWriters} \subseteq Nat
         /\ readers = 0 <=> Inside \cap Sharers = {}
         /\ writers = 0 <=> Inside \cap Lockers = {}
         /\ pendingWriters = 0 <=> Pendings = {}
         /\ Inside \subseteq Threads /\ Sharers \subseteq Threads
<1>1. Inside \subseteq Threads /\ Sharers \subseteq Threads
  BY DEF Inside, Sharers, Threads
<1>2. Inside \ Sharers = Inside \cap Lockers
  BY <1>1 DEF Lockers
<1>3. /\ readers = Cardinality(Inside \cap Sharers)
      /\ writers = Cardinality(Inside \cap Lockers)
      /\ pendingWriters = Cardinality(Pendings)
  BY <1>2 DEF TypeOK, Pendings, Lockers
<1>4. /\ Inside \cap Sharers \in SUBSET Threads
      /\ Inside \cap Lockers \in SUBSET Threads
      /\ Pendings \in SUBSET Threads
  BY <1>1 DEF Pendings, Lockers
<1> QED
  BY <1>1, <1>3, <1>4, Counting1

\* TypeOK of the next state, when the sets are known.
LEMMA TypeNext ==
  ASSUME prog' \in Programs, pc' \in [Threads -> Labels],
         asleep'["readerCondition"] \subseteq {t \in Sharers : pc'[t] = "wait"},
         asleep'["writerCondition"] \subseteq Pendings',
         prog' = prog,
         readers' = Cardinality(Inside' \cap Sharers),
         writers' = Cardinality(Inside' \cap Lockers),
         pendingWriters' = Cardinality(Pendings'),
         shared_value' \in Nat, temp' \in [Threads -> Nat],
         rounds' \in [Threads -> 0..Rounds]
  PROVE  TypeOK'
<1>1. Sharers' = Sharers /\ Lockers' = Lockers
  BY DEF Sharers, Lockers
<1>2. Inside' \ Sharers = Inside' \cap Lockers
  BY DEF Inside, Lockers
<1>3. Pendings' = {t \in Threads \ Sharers : pc'[t] = "wait"}
  BY <1>1 DEF Pendings, Lockers
<1> QED
  BY <1>1, <1>2, <1>3 DEF TypeOK, Labels

LEMMA InvInit == Init => Inv
<1> SUFFICES ASSUME Init PROVE Inv
  OBVIOUS
<1> USE DEF Init
<1>1. Start \in {"while", "lock"} /\ (~prog.until => Start = "lock")
  BY DEF Start
<1>2. Inside = {} /\ Pendings = {}
  BY <1>1 DEF Inside, Pendings, Lockers
<1>3. {t \in Threads \ Sharers : pc[t] = "wait"} = {}
  BY <1>1
<1>4. Cardinality({}) = 0
  BY FS_EmptySet
<1>5. asleep["readerCondition"] = {} /\ asleep["writerCondition"] = {}
  BY ConditionsAssumption DEF NobodyAsleep
<1>6. TypeOK
  BY <1>1, <1>2, <1>3, <1>4, <1>5, BoundsAssumption DEF TypeOK
<1>7. SleepersOK
  BY DEF SleepersOK, NobodyAsleep
<1>8. RoundsLeft
  BY BoundsAssumption DEF RoundsLeft
<1> QED
  BY <1>1, <1>2, <1>5, <1>6, <1>7, <1>8
  DEF Inv, Alone, FreshValue, NoLostWakeup, Lockers

-----------------------------------------------------------------------------
(* The steps.                                                              *)

\* A thread goes on outside the lock or inside, without touching its fields.
LEMMA Passing ==
  ASSUME Inv, NEW t \in Threads, NEW to \in Labels, Goto(t, to),
         \/ pc[t] \in InsideLabels /\ to \in InsideLabels
         \/ pc[t] \in {"while", "lock", "done"} /\ to \in {"while", "lock", "done"},
         UNCHANGED <<prog, asleep, lockVars>>,
         shared_value' \in Nat, temp' \in [Threads -> Nat],
         rounds' = rounds
  PROVE  /\ TypeOK' /\ SleepersOK' /\ NoLostWakeup'
         /\ Inside' = Inside
         /\ Alone'
         /\ Sharers' = Sharers /\ Lockers' = Lockers
<1> USE DEF Inv
<1>1. Sharers' = Sharers /\ Lockers' = Lockers
  BY DEF Sharers, Lockers
<1>2. pc' = [pc EXCEPT ![t] = to] /\ pc \in [Threads -> Labels]
  BY DEF Goto, TypeOK, Labels
<1>3. Inside' = Inside
  BY <1>2 DEF Inside, InsideLabels
<1>4. Pendings' = Pendings
  BY <1>1, <1>2 DEF Pendings, InsideLabels
<1>5. /\ Pendings = {u \in Threads \ Sharers : pc[u] = "wait"}
      /\ Inside \ Sharers = Inside \cap Lockers
  BY DEF Pendings, Lockers, Inside
<1>6. TypeOK'
  <2>1. asleep'["readerCondition"] \subseteq {u \in Sharers : pc'[u] = "wait"}
    BY <1>2 DEF TypeOK, InsideLabels, Sharers, Threads
  <2> QED
    BY <1>2, <1>3, <1>4, <1>5, <2>1, TypeNext DEF TypeOK, lockVars
<1>7. SleepersOK' /\ Alone'
  BY <1>1, <1>3 DEF SleepersOK, Alone
<1>8. NoLostWakeup'
  <2>1. MayRead' = MayRead
    BY DEF MayRead, lockVars
  <2>2. \A w \in Threads \ Sharers :
          pc[w] = "wait" /\ Awake(w) => pc'[w] = "wait" /\ Awake(w)'
    BY <1>2 DEF Awake, InsideLabels
  <2> QED
    BY <1>1, <1>3, <2>1, <2>2 DEF NoLostWakeup
<1> QED
  BY <1>1, <1>3, <1>6, <1>7, <1>8

LEMMA TestLoopInv ==
  ASSUME Inv, NEW t \in Threads, TestLoop(t)
  PROVE  Inv'
<1>1. \E to \in {"lock", "done"} : Goto(t, to)
  BY DEF TestLoop, Step
<1>2. /\ TypeOK' /\ SleepersOK' /\ NoLostWakeup'
      /\ Alone'
      /\ Lockers' = Lockers
  BY <1>1, Passing DEF TestLoop, Step, Labels, Inv, TypeOK, valueVars
<1>3. RoundsLeft' /\ FreshValue'
  BY <1>1, <1>2 DEF TestLoop, Step, Inv, TypeOK, RoundsLeft, FreshValue, Goto,
                    valueVars
<1> QED
  BY <1>2, <1>3 DEF Inv

LEMMA LoadValueInv ==
  ASSUME Inv, NEW t \in Threads, LoadValue(t)
  PROVE  Inv' /\ Inside' = Inside
<1>1. /\ TypeOK' /\ SleepersOK' /\ NoLostWakeup'
      /\ Alone' /\ Inside' = Inside
      /\ Lockers' = Lockers
  BY Passing DEF LoadValue, Step, Labels, InsideLabels, Inv, TypeOK
<1>2. RoundsLeft' /\ FreshValue'
  BY <1>1 DEF LoadValue, Step, Inv, TypeOK, RoundsLeft, FreshValue, Goto
<1> QED
  BY <1>1, <1>2 DEF Inv

LEMMA StoreValueInv ==
  ASSUME Inv, NEW t \in Threads, StoreValue(t)
  PROVE  Inv' /\ Inside' = Inside
<1>0. /\ shared_value' \in Nat /\ temp' \in [Threads -> Nat]
      /\ pc[t] = "store" /\ Goto(t, "unlock")
      /\ UNCHANGED <<prog, asleep, lockVars>> /\ rounds' = rounds
  BY DEF StoreValue, Step, Inv, TypeOK
<1>1. /\ TypeOK' /\ SleepersOK' /\ NoLostWakeup'
      /\ Alone' /\ Inside' = Inside
      /\ Lockers' = Lockers
  BY <1>0, Passing DEF Labels, InsideLabels
<1>2. RoundsLeft'
  BY DEF StoreValue, Step, Inv, TypeOK, RoundsLeft, Goto
<1>3. FreshValue'
  <2> SUFFICES ASSUME NEW w \in Lockers, pc'[w] = "store"
               PROVE  FALSE
    BY <1>1 DEF FreshValue
  <2>1. w # t /\ pc[w] = "store"
    BY DEF StoreValue, Step, Goto, Inv, TypeOK
  <2>2. {w, t} \subseteq Inside
    BY <2>1 DEF StoreValue, Step, Inside, Lockers
  <2> QED
    BY <2>1, <2>2 DEF Inv, Alone
<1> QED
  BY <1>1, <1>2, <1>3 DEF Inv

\* A thread in Sharers gets the lock.
LEMMA RLockInv ==
  ASSUME Inv, NEW t \in Threads, RLock(t)
  PROVE  /\ Inv'
         /\ Inside' = Inside \cup {t}
         /\ Inside \cap Lockers = {}
         /\ Pendings = {}
<1> USE DEF Inv
<1>0. /\ readers \in Nat
      /\ Inside \cap Lockers = {} /\ Pendings = {}
  BY Counts DEF RLock, MayRead
<1>1. /\ t \in Sharers /\ t \notin Lockers /\ t \notin Inside
      /\ Sharers' = Sharers /\ Lockers' = Lockers
  BY DEF RLock, Calls, Inside, Sharers, Lockers
<1>2. /\ pc' = [pc EXCEPT ![t] = Body(t)]
      /\ Body(t) \in InsideLabels
      /\ Body(t) # "store"
      /\ pc \in [Threads -> Labels]
  BY DEF RLock, Goto, TypeOK, Labels, Body, InsideLabels
<1>3. Inside' = Inside \cup {t}
  BY <1>2 DEF Inside, InsideLabels
<1>4. Pendings' = Pendings
  BY <1>1, <1>2 DEF Pendings, InsideLabels
<1>5. readers' = Cardinality(Inside' \cap Sharers)
  <2>1. Inside' \cap Sharers = (Inside \cap Sharers) \cup {t}
    BY <1>1, <1>3
  <2>2. Inside \cap Sharers \in SUBSET Threads /\ t \in Threads \ (Inside \cap Sharers)
    BY <1>1 DEF Inside
  <2>3. Cardinality((Inside \cap Sharers) \cup {t}) = Cardinality(Inside \cap Sharers) + 1
    BY <2>2, Counting1
  <2> QED
    BY <2>1, <2>3 DEF RLock, TypeOK
<1>6. /\ writers' = Cardinality(Inside' \cap Lockers)
      /\ pendingWriters' = Cardinality(Pendings')
  <2>1. Inside' \cap Lockers = Inside \ Sharers
    BY <1>1, <1>3 DEF Lockers, Inside
  <2>2. Pendings = {u \in Threads \ Sharers : pc[u] = "wait"}
    BY DEF Pendings, Lockers
  <2> QED
    BY <1>4, <2>1, <2>2 DEF RLock, TypeOK
<1>7. t \notin asleep["readerCondition"] /\ t \notin asleep["writerCondition"]
  BY ConditionsAssumption DEF RLock, Calls, Awake
<1>8. /\ asleep'["readerCondition"] \subseteq {u \in Sharers : pc'[u] = "wait"}
      /\ asleep'["writerCondition"] \subseteq Pendings'
  BY <1>2, <1>4, <1>7 DEF RLock, TypeOK, Pendings, Lockers, Sharers, Threads
<1>9. TypeOK'
  BY <1>2, <1>5, <1>6, <1>8, TypeNext
  DEF RLock, TypeOK, Labels, InsideLabels, valueVars
<1>10. SleepersOK' /\ RoundsLeft'
  BY <1>2 DEF RLock, SleepersOK, RoundsLeft, Calls
<1>11. Alone'
  BY <1>0, <1>1, <1>3 DEF Alone
<1>12. FreshValue'
  BY <1>1, <1>2 DEF RLock, FreshValue, valueVars
<1>13. asleep["readerCondition"] = {}
  BY DEF RLock, NoLostWakeup
<1>14. NoLostWakeup'
  BY <1>3, <1>13 DEF RLock, NoLostWakeup
<1> QED
  BY <1>0, <1>3, <1>9, <1>10, <1>11, <1>12, <1>14

\* A thread in Sharers goes to sleep.
LEMMA RWaitInv ==
  ASSUME Inv, NEW t \in Threads, RWait(t)
  PROVE  Inv' /\ Inside' = Inside
<1> USE DEF Inv
<1>1. /\ t \in Sharers /\ t \notin Lockers /\ t \notin Inside
      /\ Sharers' = Sharers /\ Lockers' = Lockers
  BY DEF RWait, Calls, Inside, Sharers, Lockers
<1>2. pc' = [pc EXCEPT ![t] = "wait"] /\ pc \in [Threads -> Labels]
  BY DEF RWait, Goto, TypeOK, Labels
<1>3. Inside' = Inside
  BY <1>1, <1>2 DEF Inside
<1>4. Pendings' = Pendings
  BY <1>1, <1>2 DEF Pendings
<1>5. /\ Inside \ Sharers = Inside \cap Lockers
      /\ Pendings = {u \in Threads \ Sharers : pc[u] = "wait"}
  BY DEF Lockers, Inside, Pendings
<1>6. /\ asleep' = [asleep EXCEPT !["readerCondition"] = @ \cup {t}]
      /\ asleep'["readerCondition"] = asleep["readerCondition"] \cup {t}
      /\ asleep'["writerCondition"] = asleep["writerCondition"]
      /\ SleepersOK'
  BY ConditionsAssumption DEF RWait, Sleep, SleepersOK
<1>7. asleep'["readerCondition"] \subseteq {u \in Sharers : pc'[u] = "wait"}
  BY <1>1, <1>2, <1>6 DEF TypeOK
<1>8. TypeOK'
  BY <1>2, <1>3, <1>4, <1>5, <1>6, <1>7, TypeNext
  DEF RWait, TypeOK, Labels, lockVars, valueVars
<1>9. RoundsLeft'
  BY <1>2 DEF RWait, RoundsLeft, Calls
<1>10. Alone' /\ FreshValue'
  BY <1>1, <1>2, <1>3 DEF RWait, Alone, FreshValue, valueVars
<1>11. NoLostWakeup'
  <2>1. ~MayRead'
    BY DEF RWait, MayRead, lockVars
  <2>2. \A w \in Threads \ Sharers :
          pc[w] = "wait" /\ Awake(w) => pc'[w] = "wait" /\ Awake(w)'
    BY <1>1, <1>2, <1>6, ConditionsAssumption DEF Awake
  <2> QED
    BY <1>1, <1>3, <1>6, <2>1, <2>2 DEF NoLostWakeup
<1> QED
  BY <1>3, <1>6, <1>8, <1>9, <1>10, <1>11

\* A thread gets the write lock.
LEMMA WLockInv ==
  ASSUME Inv, NEW t \in Threads, WLock(t)
  PROVE  Inv' /\ Inside' = {t} /\ Inside = {}
<1> USE DEF Inv
<1>1. /\ t \in Lockers /\ t \notin Sharers /\ t \in Writers
      /\ Sharers' = Sharers /\ Lockers' = Lockers
  BY DEF WLock, Sharers, Lockers, Threads
<1>2. Inside \cap Sharers = {} /\ Inside \cap Lockers = {} /\ pendingWriters \in Nat
  BY Counts DEF WLock, MayWrite
<1>3. Inside = {}
  BY <1>2 DEF Inside, Lockers
<1>4. /\ pc' = [pc EXCEPT ![t] = "load"]
      /\ pc \in [Threads -> Labels]
      /\ pc[t] \in {"lock", "wait"}
  BY <1>1 DEF WLock, Goto, Body, TypeOK, Labels, Calls
<1>5. Inside' = {t}
  BY <1>3, <1>4 DEF Inside
<1>6. Pendings' = Pendings \ {t}
  BY <1>1, <1>4 DEF Pendings
<1>7. Pendings \in SUBSET Threads /\ pendingWriters = Cardinality(Pendings)
  BY DEF Pendings, Lockers, TypeOK
<1>8. pendingWriters' = Cardinality(Pendings')
  <2>1. CASE pc[t] = "lock"
    <3>1. Pendings' = Pendings
      BY <1>6, <2>1 DEF Pendings
    <3> QED
      BY <1>2, <1>7, <2>1, <3>1 DEF WLock, Pending
  <2>2. CASE pc[t] = "wait"
    <3>1. t \in Pendings
      BY <1>1, <2>2 DEF Pendings
    <3>2. Cardinality(Pendings \ {t}) = Cardinality(Pendings) - 1
      BY <1>7, <3>1, Counting1
    <3> QED
      BY <1>6, <1>7, <2>2, <3>2 DEF WLock, Pending
  <2> QED
    BY <1>4, <2>1, <2>2
<1>9. /\ readers' = Cardinality(Inside' \cap Sharers)
      /\ writers' = Cardinality(Inside' \cap Lockers)
  <2>1. Inside' \cap Sharers = {} /\ Inside' \cap Lockers = {t}
    BY <1>1, <1>5
  <2> QED
    BY <2>1, FS_EmptySet, FS_Singleton DEF WLock, MayWrite
<1>10. t \notin asleep["readerCondition"] /\ t \notin asleep["writerCondition"]
  BY ConditionsAssumption DEF WLock, Calls, Awake
<1>11. /\ asleep'["readerCondition"] \subseteq {u \in Sharers : pc'[u] = "wait"}
       /\ asleep'["writerCondition"] \subseteq Pendings'
  BY <1>1, <1>4, <1>6, <1>10 DEF WLock, TypeOK, Pendings, Lockers
<1>12. TypeOK'
  BY <1>4, <1>8, <1>9, <1>11, TypeNext DEF WLock, TypeOK, Labels, valueVars
<1>13. SleepersOK' /\ RoundsLeft'
  BY <1>4 DEF WLock, SleepersOK, RoundsLeft
<1>14. Alone'
  BY <1>5 DEF Alone
<1>15. FreshValue'
  BY <1>1, <1>4 DEF WLock, FreshValue, valueVars
<1>16. NoLostWakeup'
  BY <1>5 DEF WLock, NoLostWakeup, MayRead
<1> QED
  BY <1>3, <1>5, <1>12, <1>13, <1>14, <1>15, <1>16

\* A thread goes to sleep in wLock.
LEMMA WWaitInv ==
  ASSUME Inv, NEW t \in Threads, WWait(t)
  PROVE  Inv' /\ Inside' = Inside
<1> USE DEF Inv
<1>1. /\ t \in Lockers /\ t \notin Sharers /\ t \notin Inside
      /\ Sharers' = Sharers /\ Lockers' = Lockers
  BY DEF WWait, Calls, Inside, Sharers, Lockers
<1>2. /\ pc' = [pc EXCEPT ![t] = "wait"]
      /\ pc \in [Threads -> Labels]
      /\ pc[t] \in {"lock", "wait"}
  BY DEF WWait, Goto, TypeOK, Labels, Calls
<1>3. Inside' = Inside
  BY <1>1, <1>2 DEF Inside
<1>4. Pendings' = Pendings \cup {t}
  BY <1>1, <1>2 DEF Pendings
<1>5. /\ Pendings \in SUBSET Threads
      /\ pendingWriters = Cardinality(Pendings)
      /\ pendingWriters \in Nat
  BY Counts DEF Pendings, Lockers, TypeOK
<1>6. pendingWriters' = Cardinality(Pendings') /\ pendingWriters' > 0
  <2>1. CASE pc[t] = "lock"
    <3>1. t \in Threads \ Pendings
      BY <2>1 DEF Pendings
    <3>2. Cardinality(Pendings \cup {t}) = Cardinality(Pendings) + 1
      BY <1>5, <3>1, Counting1
    <3> QED
      BY <1>4, <1>5, <2>1, <3>2 DEF WWait, Pending
  <2>2. CASE pc[t] = "wait"
    <3>1. Pendings' = Pendings /\ Pendings # {}
      BY <1>1, <1>4, <2>2 DEF Pendings
    <3>2. pendingWriters # 0
      BY <3>1, Counts
    <3> QED
      BY <1>5, <2>2, <3>1, <3>2 DEF WWait, Pending
  <2> QED
    BY <1>2, <2>1, <2>2
<1>7. Inside \ Sharers = Inside \cap Lockers
  BY DEF Lockers, Inside
<1>8. /\ asleep' = [asleep EXCEPT !["writerCondition"] = @ \cup {t}]
      /\ asleep'["writerCondition"] = asleep["writerCondition"] \cup {t}
      /\ asleep'["readerCondition"] = asleep["readerCondition"]
      /\ SleepersOK'
  BY ConditionsAssumption DEF WWait, Sleep, SleepersOK
<1>9. /\ asleep'["readerCondition"] \subseteq {u \in Sharers : pc'[u] = "wait"}
      /\ asleep'["writerCondition"] \subseteq Pendings'
  BY <1>1, <1>2, <1>4, <1>8 DEF TypeOK, Pendings, Lockers
<1>10. TypeOK'
  BY <1>2, <1>3, <1>6, <1>7, <1>9, TypeNext DEF WWait, TypeOK, Labels, valueVars
<1>11. RoundsLeft'
  BY <1>2 DEF WWait, RoundsLeft
<1>12. Alone' /\ FreshValue'
  BY <1>1, <1>2, <1>3 DEF WWait, Alone, FreshValue, valueVars
<1>13. NoLostWakeup'
  <2>1. ~MayRead'
    BY <1>6 DEF MayRead
  <2>2. Inside # {}
    BY Counts DEF WWait, MayWrite
  <2> QED
    BY <1>3, <2>1, <2>2 DEF NoLostWakeup
<1> QED
  BY <1>3, <1>8, <1>10, <1>11, <1>12, <1>13

\* Whoever is woken by unlock(), nobody else goes to sleep.
LEMMA WakeNextOK ==
  ASSUME Inv, WakeNext
  PROVE  /\ SleepersOK'
         /\ asleep'["readerCondition"] \subseteq asleep["readerCondition"]
         /\ asleep'["writerCondition"] \subseteq asleep["writerCondition"]
         /\ pendingWriters = 0 => asleep'["readerCondition"] = {}
         /\ pendingWriters > 0 /\ asleep'["writerCondition"] # {} =>
              \E u \in asleep["writerCondition"] :
                asleep' = [asleep EXCEPT !["writerCondition"] = @ \ {u}]
<1> USE ConditionsAssumption DEF Inv, SleepersOK
<1>0. pendingWriters \in Nat
  BY Counts
<1>1. CASE pendingWriters > 0 /\ prog.signals
  BY <1>0, <1>1 DEF WakeNext, Signal
<1>2. CASE pendingWriters > 0 /\ ~prog.signals
  BY <1>0, <1>2 DEF WakeNext, Broadcast
<1>3. CASE ~(pendingWriters > 0)
  BY <1>0, <1>3 DEF WakeNext, Broadcast
<1> QED
  BY <1>1, <1>2, <1>3

LEMMA UnlockInv ==
  ASSUME Inv, NEW t \in Threads, Unlock(t)
  PROVE  Inv' /\ Inside' = Inside \ {t}
<1> USE DEF Inv
<1>0. /\ pc[t] = "unlock" /\ t \in Inside
      /\ Sharers' = Sharers /\ Lockers' = Lockers
      /\ prog' = prog /\ pendingWriters' = pendingWriters
      /\ shared_value' = shared_value /\ temp' = temp
  BY DEF Unlock, Inside, Sharers, Lockers, valueVars
<1>1. PICK to \in {"while", "lock", "done"} : Goto(t, to)
  BY DEF Unlock
<1>2. pc' = [pc EXCEPT ![t] = to] /\ pc \in [Threads -> Labels]
  BY <1>1 DEF Goto, TypeOK, Labels
<1>3. Inside' = Inside \ {t}
  BY <1>2 DEF Inside
<1>4. Pendings' = Pendings
  BY <1>0, <1>2 DEF Pendings
<1>5. rounds' \in [Threads -> 0..Rounds] /\ RoundsLeft'
  <2>1. CASE prog.until
    BY <1>0, <2>1 DEF Unlock, TypeOK, RoundsLeft
  <2>2. CASE ~prog.until
    <3>1. rounds[t] < Rounds /\ rounds[t] \in Nat /\ Rounds \in Nat
      BY <1>0, <2>2, BoundsAssumption DEF RoundsLeft, TypeOK
    <3>2. /\ rounds' = [rounds EXCEPT ![t] = @ + 1]
          /\ rounds \in [Threads -> 0..Rounds]
      BY <2>2 DEF Unlock, TypeOK
    <3>3. rounds' \in [Threads -> 0..Rounds]
      BY <3>1, <3>2
    <3>4. \A u \in Threads : pc'[u] # "done" => rounds'[u] < Rounds
      <4> SUFFICES ASSUME NEW u \in Threads, pc'[u] # "done" PROVE rounds'[u] < Rounds
        OBVIOUS
      <4>1. CASE u = t
        <5>1. Goto(t, IF rounds[t] + 1 < Rounds THEN "lock" ELSE "done")
          BY <2>2 DEF Unlock
        <5>2. rounds[t] + 1 < Rounds
          BY <4>1, <5>1, <1>2 DEF Goto
        <5> QED
          BY <3>2, <4>1, <5>2
      <4>2. CASE u # t
        BY <2>2, <1>2, <3>2, <4>2 DEF RoundsLeft
      <4> QED
        BY <4>1, <4>2
    <3> QED
      BY <3>3, <3>4 DEF RoundsLeft
  <2> QED
    BY <2>1, <2>2
<1>6. /\ readers' = Cardinality(Inside' \cap Sharers)
      /\ writers' = Cardinality(Inside' \cap Lockers)
  <2>0. /\ readers \in Nat /\ readers = Cardinality(Inside \cap Sharers)
        /\ writers = Cardinality(Inside \cap Lockers)
        /\ readers = 0 <=> Inside \cap Sharers = {}
    <3>1. Inside \ Sharers = Inside \cap Lockers
      BY DEF Inside, Lockers
    <3> QED
      BY <3>1, Counts DEF TypeOK
  <2>1. CASE t \in Sharers
    <3>1. readers > 0
      BY <1>0, <2>0, <2>1
    <3>2. /\ Inside' \cap Sharers = (Inside \cap Sharers) \ {t}
          /\ Inside' \cap Lockers = Inside \cap Lockers
      BY <1>3, <2>1 DEF Lockers
    <3>3. Cardinality((Inside \cap Sharers) \ {t}) = Cardinality(Inside \cap Sharers) - 1
      <4>1. Inside \cap Sharers \in SUBSET Threads /\ t \in Inside \cap Sharers
        BY <1>0, <2>1 DEF Inside
      <4> QED
        BY <4>1, Counting1
    <3> QED
      BY <2>0, <3>1, <3>2, <3>3 DEF Unlock, GiveBack
  <2>2. CASE t \notin Sharers
    <3>1. Inside = {t}
      BY <1>0, <2>2 DEF Alone, Lockers
    <3>2. readers = 0 /\ Inside' = {}
      BY <1>3, <2>0, <2>2, <3>1
    <3> QED
      BY <3>2, FS_EmptySet DEF Unlock, GiveBack
  <2> QED
    BY <2>1, <2>2
<1>7. /\ SleepersOK'
      /\ asleep'["readerCondition"] \subseteq asleep["readerCondition"]
      /\ asleep'["writerCondition"] \subseteq asleep["writerCondition"]
  BY WakeNextOK DEF Unlock
<1>8. /\ asleep'["readerCondition"] \subseteq {u \in Sharers : pc'[u] = "wait"}
      /\ asleep'["writerCondition"] \subseteq Pendings'
  BY <1>0, <1>2, <1>4, <1>7 DEF TypeOK, Pendings, Lockers, Sharers, Threads
<1>9. pendingWriters' = Cardinality(Pendings')
  <2>1. Pendings = {u \in Threads \ Sharers : pc[u] = "wait"}
    BY DEF Pendings, Lockers
  <2> QED
    BY <1>0, <1>4, <2>1 DEF TypeOK
<1>10. TypeOK'
  BY <1>0, <1>2, <1>5, <1>6, <1>8, <1>9, TypeNext DEF TypeOK, Labels
<1>11. Alone'
  BY <1>0, <1>3 DEF Alone
<1>12. FreshValue'
  BY <1>0, <1>2 DEF FreshValue
<1>13. NoLostWakeup'
  <2>0. pendingWriters \in Nat /\ WakeNext
    BY Counts DEF Unlock
  <2>1. asleep'["readerCondition"] # {} => ~MayRead'
    BY <1>0, <2>0, WakeNextOK DEF MayRead
  <2>2. ASSUME asleep'["writerCondition"] # {}
        PROVE  \E w \in Threads \ Sharers : pc'[w] = "wait" /\ Awake(w)'
    <3>1. Pendings # {}
      BY <1>7, <2>2 DEF TypeOK, Pendings, Lockers
    <3>2. pendingWriters > 0
      BY <2>0, <3>1, Counts
    <3>3. PICK u \in asleep["writerCondition"] :
                 asleep' = [asleep EXCEPT !["writerCondition"] = @ \ {u}]
      BY <2>0, <2>2, <3>2, WakeNextOK
    <3>4. /\ u \in Threads \ Sharers
          /\ pc[u] = "wait"
          /\ u \notin asleep["readerCondition"]
      BY DEF TypeOK
    <3>5. Awake(u)'
      BY <3>3, <3>4, ConditionsAssumption DEF Awake, SleepersOK
    <3>6. pc'[u] = "wait"
      BY <1>0, <1>2, <3>4
    <3> QED
      BY <3>4, <3>5, <3>6
  <2> QED
    BY <1>0, <2>1, <2>2 DEF NoLostWakeup
<1> QED
  BY <1>3, <1>5, <1>7, <1>10, <1>11, <1>12, <1>13

LEMMA SpuriousInv ==
  ASSUME Inv, NEW t \in Threads, SpuriousWakeup(t)
  PROVE  Inv' /\ Inside' = Inside
<1> USE DEF Inv
<1>1. /\ UNCHANGED <<prog, pc, lockVars, valueVars, rounds>>
      /\ Sharers' = Sharers /\ Lockers' = Lockers
      /\ Inside' = Inside /\ Pendings' = Pendings
  BY DEF SpuriousWakeup, Sharers, Lockers, Inside, Pendings
<1>2. PICK c \in Conditions : asleep' = [asleep EXCEPT ![c] = @ \ {t}]
  BY DEF SpuriousWakeup, WakeUp
<1>3. /\ SleepersOK'
      /\ asleep'["readerCondition"] \subseteq asleep["readerCondition"]
      /\ asleep'["writerCondition"] \subseteq asleep["writerCondition"]
      /\ \A w \in Threads : Awake(w) => Awake(w)'
  BY <1>2, ConditionsAssumption DEF SleepersOK, Awake
<1>4. TypeOK' /\ RoundsLeft' /\ Alone' /\ FreshValue'
  BY <1>1, <1>3 DEF TypeOK, RoundsLeft, Alone, FreshValue, lockVars, valueVars
<1>5. NoLostWakeup'
  BY <1>1, <1>3 DEF NoLostWakeup, MayRead, lockVars
<1> QED
  BY <1>1, <1>3, <1>4, <1>5

LEMMA StutterInv ==
  ASSUME Inv, UNCHANGED vars
  PROVE  Inv' /\ Inside' = Inside
<1> USE DEF Inv, vars, lockVars, valueVars
<1>1. Sharers' = Sharers /\ Lockers' = Lockers /\ Inside' = Inside
  BY DEF Sharers, Lockers, Inside
<1> QED
  BY <1>1 DEF TypeOK, SleepersOK, RoundsLeft, Alone, FreshValue, NoLostWakeup,
              MayRead, Awake

LEMMA InvNext ==
  ASSUME Inv, [Next]_vars
  PROVE  Inv'
BY TestLoopInv, LoadValueInv, StoreValueInv, RLockInv, RWaitInv, WLockInv, WWaitInv,
   UnlockInv, SpuriousInv, StutterInv DEF Next, Act, Joined

LEMMA Invariance == Spec => []Inv
BY InvInit, InvNext, PTL DEF Spec

-----------------------------------------------------------------------------
(* The fields of the lock count the threads inside and the pending ones,   *)
(* in all four programs.                                                   *)
THEOREM TypeCorrect == Spec => []TypeOK
<1>1. Inv => TypeOK
  BY DEF Inv
<1> QED
  BY <1>1, Invariance, PTL

(* Nobody sleeps on a condition that has come true, although unlock()      *)
(* wakes only one writer or only writers, whatever spurious wake-ups       *)
(* there are.                                                              *)
THEOREM NobodySleepsThrough == Spec => []NoLostWakeup
<1>1. Inv => NoLostWakeup
  BY DEF Inv
<1> QED
  BY <1>1, Invariance, PTL

-----------------------------------------------------------------------------
(* The programs in which the writers call wLock.                           *)

WritersLock == \A p \in Programs : p.writeLocks

\* There the threads that share the lock are the readers.
LEMMA SharersRead ==
  ASSUME WritersLock, prog \in Programs
  PROVE  Sharers = Readers /\ Lockers = Writers
BY ThreadsAssumption DEF WritersLock, Sharers, Lockers, Threads

(* A reader that enters has found no writer waiting.                       *)
LEMMA ReadersYield ==
  ASSUME WritersLock, Inv, [Next]_vars, NEW r \in Readers,
         r \notin Inside, r \in Inside'
  PROVE  \A w \in Writers : pc[w] # "wait"
<1>0. Sharers = Readers /\ Lockers = Writers
  BY SharersRead DEF Inv, TypeOK
<1>1. ASSUME NEW t \in Threads, RLock(t)
      PROVE  \A w \in Writers : pc[w] # "wait"
  <2>1. Pendings = {}
    BY <1>1, RLockInv
  <2> QED
    BY <1>0, <2>1 DEF Pendings
<1>2. ASSUME NEW t \in Threads, WLock(t)
      PROVE  FALSE
  <2>1. Inside' = {t} /\ t \in Lockers
    BY <1>2, WLockInv DEF WLock, Lockers
  <2> QED
    BY <1>0, <2>1, ThreadsAssumption
<1>3. ASSUME NEW t \in Threads, TestLoop(t)
      PROVE  FALSE
  <2>1. Inside' = Inside
    BY <1>3 DEF TestLoop, Step, Goto, Inside, Inv, TypeOK
  <2> QED
    BY <2>1
<1> QED
  BY <1>1, <1>2, <1>3, LoadValueInv, StoreValueInv, RWaitInv, WWaitInv, UnlockInv,
     SpuriousInv, StutterInv DEF Next, Act, Joined

(* Writers go first: no reader enters while a writer waits.                *)
THEOREM WritersGoFirst ==
  ASSUME WritersLock
  PROVE  Spec => WritersFirst
<1>1. Inv /\ [Next]_vars =>
        [\A r \in Readers : r \notin Inside /\ r \in Inside' =>
           \A w \in Writers : pc[w] # "wait"]_vars
  BY ReadersYield
<1> QED
  BY <1>1, Invariance, PTL DEF Spec, WritersFirst

-----------------------------------------------------------------------------
(* Refinement.                                                             *)

\* Only writers go to the load and the store.
WritersStore == \A t \in Threads : pc[t] \in {"load", "store"} => t \in Writers

LEMMA WritersStoreNext ==
  ASSUME TypeOK, WritersStore, [Next]_vars
  PROVE  WritersStore'
<1> USE DEF WritersStore
<1>1. ASSUME NEW t \in Threads, Act(t)
      PROVE  WritersStore'
  <2>1. PICK to \in Labels : /\ Goto(t, to)
                             /\ to \in {"load", "store"} => pc[t] = "load" \/ t \in Writers
    BY <1>1 DEF Act, TestLoop, RLock, RWait, WLock, WWait, LoadValue,
                StoreValue, Unlock,
                Step, Body, Labels
  <2> QED
    BY <2>1 DEF Goto, TypeOK
<1>2. CASE UNCHANGED pc
  BY <1>2
<1> QED
  BY <1>1, <1>2 DEF Next, SpuriousWakeup, Joined, vars

LEMMA StepSimulates ==
  ASSUME WritersLock, Inv, WritersStore, [Next]_vars
  PROVE  [Abstract!Next]_(Abstract!vars)
<1> USE DEF Inv
<1>0. /\ Sharers = Readers /\ Lockers = Writers
      /\ Inside \subseteq Threads /\ Readers \cap Writers = {}
      /\ shared_value \in Nat
  BY SharersRead, ThreadsAssumption DEF TypeOK, Inside
<1>1. ASSUME NEW t \in Threads, RLock(t)
      PROVE  Abstract!StartRead(t) /\ t \in Readers
  <2>1. /\ Inside' = Inside \cup {t} /\ Inside \cap Lockers = {}
        /\ t \in Readers /\ t \notin Inside /\ shared_value' = shared_value
    BY <1>0, <1>1, RLockInv DEF RLock, Calls, Inside, valueVars
  <2> QED
    BY <1>0, <2>1 DEF Abstract!StartRead
<1>2. ASSUME NEW t \in Threads, WLock(t)
      PROVE  Abstract!StartWrite(t) /\ t \in Writers
  <2>1. /\ Inside' = {t}
        /\ Inside = {}
        /\ t \in Writers
        /\ shared_value' = shared_value
    BY <1>0, <1>2, WLockInv DEF WLock, valueVars, Lockers
  <2> QED
    BY <1>0, <2>1 DEF Abstract!StartWrite
<1>3. ASSUME NEW t \in Threads, StoreValue(t)
      PROVE  Abstract!Write(t) /\ t \in Writers
  <2>1. t \in Writers /\ Inside = {t} /\ Inside' = Inside
    BY <1>0, <1>3, StoreValueInv DEF StoreValue, Step, WritersStore, Inside, Alone
  <2>2. shared_value' = shared_value + 1
    BY <1>0, <1>3, <2>1 DEF StoreValue, Step, FreshValue
  <2> QED
    BY <1>0, <2>1, <2>2 DEF Abstract!Write
<1>4. ASSUME NEW t \in Threads, Unlock(t)
      PROVE  \/ Abstract!EndRead(t) /\ t \in Readers
             \/ Abstract!EndWrite(t) /\ t \in Writers
  <2>1. t \in Inside /\ Inside' = Inside \ {t} /\ shared_value' = shared_value
    BY <1>4, UnlockInv DEF Unlock, Inside, valueVars
  <2>2. CASE t \in Readers
    BY <1>0, <2>1, <2>2 DEF Abstract!EndRead
  <2>3. CASE t \in Writers
    <3>1. Inside = {t}
      BY <1>0, <2>1, <2>3 DEF Alone
    <3> QED
      BY <1>0, <2>1, <2>3, <3>1 DEF Abstract!EndWrite
  <2> QED
    BY <2>2, <2>3 DEF Threads
<1>5. ASSUME NEW t \in Threads,
             TestLoop(t) \/ LoadValue(t) \/ RWait(t) \/ WWait(t) \/ SpuriousWakeup(t)
      PROVE  UNCHANGED Abstract!vars
  <2>1. Inside' = Inside
    <3>1. CASE TestLoop(t)
      BY <3>1 DEF TestLoop, Step, Goto, Inside, TypeOK
    <3> QED
      BY <1>5, <3>1, LoadValueInv, RWaitInv, WWaitInv, SpuriousInv
  <2>2. shared_value' = shared_value
    BY <1>5 DEF TestLoop, LoadValue, RWait, WWait, SpuriousWakeup, valueVars
  <2> QED
    BY <2>1, <2>2 DEF Abstract!vars
<1>6. CASE UNCHANGED vars
  BY <1>6, StutterInv DEF vars, valueVars, Abstract!vars
<1> QED
  BY <1>1, <1>2, <1>3, <1>4, <1>5, <1>6 DEF Next, Act, Joined, Abstract!Next

(* The monitor implements the readers-writer lock: readers together, a     *)
(* writer alone, and no increment lost.                                    *)
THEOREM Refines ==
  ASSUME WritersLock
  PROVE  Spec => ImplementsReadersWriters
<1>1. Init => WritersStore /\ Abstract!Init
  BY DEF Init, WritersStore, Start, Inside, Abstract!Init
<1>2. Inv /\ WritersStore /\ [Next]_vars => WritersStore'
  BY WritersStoreNext DEF Inv
<1>3. Inv /\ WritersStore /\ [Next]_vars => [Abstract!Next]_(Abstract!vars)
  BY StepSimulates
<1> QED
  BY <1>1, <1>2, <1>3, Invariance, PTL
  DEF Spec, ImplementsReadersWriters, Abstract!Spec

-----------------------------------------------------------------------------
(* The final value.  In the programs that count rounds it is the number of *)
(* rounds that writers have credited to it, one for each pair of a writer  *)
(* and a round.  In those that loop until the limit, each writer past the  *)
(* test may still add one, which leaves room for the others' additions.    *)

Credited == {p \in Writers \X (1..Rounds) :
               p[2] <= IF pc[p[1]] = "unlock" THEN rounds[p[1]] + 1 ELSE rounds[p[1]]}

RoundsCredited == ~prog.until =>
  /\ shared_value = Cardinality(Credited)
  /\ \A t \in Threads : /\ pc[t] # "while"
                        /\ pc[t] = "done" => rounds[t] = Rounds

\* The writers that have found the limit not reached and have yet to store.
Committed == {w \in Writers : pc[w] \in {"lock", "wait", "load", "store"}}

LimitKept == prog.until =>
  /\ shared_value + Cardinality(Committed) <= Limit - 1 + Cardinality(Writers)
  /\ \A t \in Threads : pc[t] = "done" => shared_value >= Limit

ValueInv == WritersStore /\ RoundsCredited /\ LimitKept

LEMMA CreditedFinite ==
  /\ Cardinality(Writers) \in Nat /\ Rounds \in Nat
  /\ Cardinality(Writers \X (1..Rounds)) = Cardinality(Writers) * Rounds
  /\ \A S \in SUBSET (Writers \X (1..Rounds)) : IsFiniteSet(S)
<1>1. IsFiniteSet(Writers) /\ Rounds \in Nat /\ Rounds > 0
  BY ThreadsAssumption, BoundsAssumption
<1>2. IsFiniteSet(1..Rounds) /\ Cardinality(1..Rounds) = Rounds
  BY <1>1, FS_Interval
<1>3. /\ IsFiniteSet(Writers \X (1..Rounds))
      /\ Cardinality(Writers \X (1..Rounds)) = Cardinality(Writers) * Rounds
  BY <1>1, <1>2, FS_Product
<1> QED
  BY <1>1, <1>3, FS_Subset, FS_CardinalityType

LEMMA CommittedFinite ==
  /\ Committed \in SUBSET Threads /\ Cardinality(Committed) \in Nat
  /\ Cardinality(Committed) <= Cardinality(Writers)
<1>1. Committed \in SUBSET Threads /\ Committed \in SUBSET Writers
  BY DEF Committed, Threads
<1> QED
  BY <1>1, Counting1, ThreadsAssumption, FS_Subset

LEMMA ValueInit == Init => ValueInv
<1> SUFFICES ASSUME Init PROVE ValueInv
  OBVIOUS
<1> USE DEF Init
<1>1. WritersStore
  BY DEF WritersStore, Start
<1>2. RoundsCredited
  <2>1. Credited = {}
    BY DEF Credited, Start, Threads
  <2> QED
    BY <2>1, FS_EmptySet DEF RoundsCredited, Start
<1>3. LimitKept
  <2>1. prog.until => Committed = {}
    BY DEF Committed, Start, Threads
  <2>2. Cardinality(Writers) \in Nat /\ Limit \in Nat /\ Limit > 0
    BY CreditedFinite, BoundsAssumption
  <2>3. 0 + 0 <= Limit - 1 + Cardinality(Writers)
    BY <2>2
  <2>4. prog.until => \A t \in Threads : pc[t] # "done"
    BY DEF Start
  <2> QED
    BY <2>1, <2>3, <2>4, FS_EmptySet DEF LimitKept
<1> QED
  BY <1>1, <1>2, <1>3 DEF ValueInv

\* A writer's store is the credit for a round, or uses up its permission.
LEMMA StoreKeepsValue ==
  ASSUME WritersLock, Inv, ValueInv, NEW t \in Threads, StoreValue(t)
  PROVE  RoundsCredited' /\ LimitKept'
<1> USE DEF Inv, ValueInv
<1>1. /\ t \in Writers /\ pc[t] = "store" /\ pc' = [pc EXCEPT ![t] = "unlock"]
      /\ prog' = prog /\ rounds' = rounds
  BY DEF StoreValue, Step, Goto, WritersStore
<1>2. shared_value \in Nat /\ shared_value' = shared_value + 1
  BY <1>1, SharersRead DEF StoreValue, FreshValue, TypeOK
<1>3. pc \in [Threads -> Labels] /\ Writers \subseteq Threads
  BY DEF TypeOK, Labels, Threads
<1>4. RoundsCredited'
  <2> SUFFICES ASSUME ~prog.until PROVE RoundsCredited'
    BY <1>1 DEF RoundsCredited
  <2>1. /\ rounds[t] \in Nat /\ rounds[t] + 1 \in 1..Rounds
        /\ \A u \in Threads : rounds[u] \in Nat
    BY <1>1, BoundsAssumption DEF RoundsLeft, TypeOK
  <2>2. Credited' = Credited \cup {<<t, rounds[t] + 1>>}
    <3> DEFINE credit(w) == IF pc[w] = "unlock" THEN rounds[w] + 1 ELSE rounds[w]
    <3>1. \A w \in Writers : credit(w)' = IF w = t THEN rounds[t] + 1 ELSE credit(w)
      BY <1>1, <1>3
    <3>2. credit(t) = rounds[t]
      BY <1>1
    <3>3. \A k \in 1..Rounds : k <= rounds[t] + 1 <=> k <= rounds[t] \/ k = rounds[t] + 1
      BY <2>1
    <3>4. \A w \in Writers, k \in 1..Rounds :
            k <= credit(w)' <=> k <= credit(w) \/ (w = t /\ k = rounds[t] + 1)
      BY <3>1, <3>2, <3>3
    <3>5. Credited = {p \in Writers \X (1..Rounds) : p[2] <= credit(p[1])}
      BY DEF Credited
    <3>6. Credited' = {p \in Writers \X (1..Rounds) : p[2] <= credit(p[1])'}
      BY DEF Credited
    <3> HIDE DEF credit
    <3> QED
      BY <1>1, <2>1, <3>4, <3>5, <3>6
  <2>3. <<t, rounds[t] + 1>> \notin Credited
    BY <1>1, <2>1 DEF Credited
  <2>4. Cardinality(Credited') = Cardinality(Credited) + 1
    <3>1. Credited \in SUBSET (Writers \X (1..Rounds))
      BY DEF Credited
    <3>2. IsFiniteSet(Credited)
      BY <3>1, CreditedFinite
    <3> QED
      BY <2>2, <2>3, <3>2, FS_AddElement
  <2> QED
    BY <1>1, <1>2, <1>3, <2>4 DEF RoundsCredited
<1>5. LimitKept'
  <2>1. Committed' = Committed \ {t} /\ t \in Committed
    BY <1>1, <1>3 DEF Committed
  <2>2. Cardinality(Committed') = Cardinality(Committed) - 1
    BY <2>1, CommittedFinite, Counting1
  <2>3. Limit \in Nat
    BY BoundsAssumption
  <2> QED
    BY <1>1, <1>2, <1>3, <2>2, <2>3, CommittedFinite, CreditedFinite DEF LimitKept
<1> QED
  BY <1>4, <1>5

\* unlock() counts the round that has been credited.
LEMMA UnlockKeepsValue ==
  ASSUME Inv, ValueInv, NEW t \in Threads, Unlock(t)
  PROVE  RoundsCredited' /\ LimitKept'
<1> USE DEF Inv, ValueInv
<1>1. PICK to \in {"while", "lock", "done"} : pc' = [pc EXCEPT ![t] = to]
  BY DEF Unlock, Goto
<1>2. pc[t] = "unlock" /\ prog' = prog /\ shared_value' = shared_value
  BY DEF Unlock, valueVars
<1>3. pc \in [Threads -> Labels] /\ Writers \subseteq Threads
  BY DEF TypeOK, Labels, Threads
<1>4. RoundsCredited'
  <2> SUFFICES ASSUME ~prog.until PROVE RoundsCredited'
    BY <1>2 DEF RoundsCredited
  <2>1. /\ rounds' = [rounds EXCEPT ![t] = @ + 1]
        /\ pc' = [pc EXCEPT ![t] = IF rounds[t] + 1 < Rounds THEN "lock" ELSE "done"]
    BY DEF Unlock, Goto
  <2>2. /\ rounds[t] \in Nat /\ rounds[t] < Rounds /\ Rounds \in Nat
        /\ rounds \in [Threads -> 0..Rounds]
    BY <1>2, BoundsAssumption DEF RoundsLeft, TypeOK
  <2>3. Credited' = Credited
    BY <1>2, <1>3, <2>1, <2>2 DEF Credited
  <2>4. \A u \in Threads : /\ pc'[u] # "while"
                           /\ pc'[u] = "done" => rounds'[u] = Rounds
    <3>1. pc'[t] = "done" => rounds'[t] = Rounds
      BY <1>3, <2>1, <2>2
    <3>2. \A u \in Threads : u # t => pc'[u] = pc[u] /\ rounds'[u] = rounds[u]
      BY <1>3, <2>1, <2>2
    <3> QED
      BY <1>3, <2>1, <3>1, <3>2 DEF RoundsCredited
  <2>5. shared_value' = Cardinality(Credited')
    BY <1>2, <2>3 DEF RoundsCredited
  <2> QED
    BY <2>4, <2>5 DEF RoundsCredited
<1>5. LimitKept'
  <2> SUFFICES ASSUME prog.until PROVE LimitKept'
    BY <1>2 DEF LimitKept
  <2>1. pc' = [pc EXCEPT ![t] = "while"]
    BY DEF Unlock, Goto
  <2>2. Committed' = Committed
    BY <1>2, <1>3, <2>1 DEF Committed
  <2> QED
    BY <1>2, <1>3, <2>1, <2>2 DEF LimitKept
<1> QED
  BY <1>4, <1>5

\* The test finds the limit reached, or lets one more writer commit itself.
LEMMA TestKeepsValue ==
  ASSUME Inv, ValueInv, NEW t \in Threads, TestLoop(t)
  PROVE  RoundsCredited' /\ LimitKept'
<1> USE DEF Inv, ValueInv
<1>1. /\ pc[t] = "while"
      /\ pc' = [pc EXCEPT ![t] = IF shared_value < Limit THEN "lock" ELSE "done"]
      /\ prog' = prog /\ shared_value' = shared_value /\ rounds' = rounds
  BY DEF TestLoop, Step, Goto, valueVars
<1>2. pc \in [Threads -> Labels] /\ shared_value \in Nat /\ Limit \in Nat
  BY BoundsAssumption DEF TypeOK, Labels
<1>3. prog.until
  BY <1>1 DEF RoundsCredited
<1>4. CASE shared_value < Limit
  <2>1. \A u \in Threads : pc'[u] = "done" => pc[u] = "done"
    BY <1>1, <1>2, <1>4
  <2>2. /\ (Cardinality(Committed) <= Cardinality(Writers))'
        /\ Cardinality(Committed)' \in Nat
    <3>1. Committed' \in SUBSET Writers /\ Writers \in SUBSET Threads
      BY DEF Committed, Threads
    <3> QED
      BY <3>1, Counting1, ThreadsAssumption, FS_Subset
  <2> QED
    BY <1>1, <1>2, <1>3, <1>4, <2>1, <2>2, CreditedFinite
    DEF RoundsCredited, LimitKept
<1>5. CASE ~(shared_value < Limit)
  <2>1. Committed' = Committed
    BY <1>1, <1>2, <1>5 DEF Committed, Threads
  <2> QED
    BY <1>1, <1>2, <1>3, <1>5, <2>1 DEF RoundsCredited, LimitKept
<1> QED
  BY <1>4, <1>5

(* Every step keeps ValueInv.                                              *)
LEMMA ValueNext ==
  ASSUME WritersLock, Inv, ValueInv, [Next]_vars
  PROVE  ValueInv'
<1> USE DEF Inv, ValueInv
<1>0. /\ WritersStore' /\ Sharers = Readers /\ Readers \cap Writers = {}
      /\ pc \in [Threads -> Labels] /\ Writers \subseteq Threads
  BY WritersStoreNext, SharersRead, ThreadsAssumption DEF TypeOK, Labels, Threads
<1>1. ASSUME UNCHANGED <<prog, shared_value, rounds>>,
             \A u \in Threads :
               \/ pc'[u] = pc[u]
               \/ /\ pc[u] \in {"lock", "wait", "load"}
                  /\ \/ pc'[u] \in {"wait", "load", "store"}
                     \/ u \in Readers /\ pc'[u] = "unlock"
      PROVE  ValueInv'
  <2>1. \A w \in Writers : pc'[w] = "unlock" <=> pc[w] = "unlock"
    BY <1>0, <1>1
  <2>2. Credited' = Credited
    BY <1>1, <2>1 DEF Credited
  <2>3. Committed' = Committed
    BY <1>0, <1>1 DEF Committed
  <2>4. \A u \in Threads : /\ pc'[u] = "while" <=> pc[u] = "while"
                           /\ pc'[u] = "done" <=> pc[u] = "done"
    BY <1>1
  <2> QED
    BY <1>0, <1>1, <2>2, <2>3, <2>4 DEF RoundsCredited, LimitKept
<1>2. ASSUME NEW t \in Threads,
             RLock(t) \/ RWait(t) \/ WLock(t) \/ WWait(t) \/ LoadValue(t)
      PROVE  ValueInv'
  <2>1. UNCHANGED <<prog, shared_value, rounds>>
    BY <1>2 DEF RLock, RWait, WLock, WWait, LoadValue, valueVars
  <2>2. PICK to \in {"wait", "load", "store", "unlock"} :
          /\ pc' = [pc EXCEPT ![t] = to] /\ pc[t] \in {"lock", "wait", "load"}
          /\ to = "unlock" => t \in Readers
    <3>1. RLock(t) => Goto(t, Body(t)) /\ pc[t] \in {"lock", "wait"} /\ t \in Readers
      BY <1>0 DEF RLock, Calls
    <3>2. WLock(t) => Goto(t, Body(t)) /\ pc[t] \in {"lock", "wait"} /\ t \in Writers
      BY <1>0 DEF WLock, Calls, Threads
    <3>3. RWait(t) \/ WWait(t) => Goto(t, "wait") /\ pc[t] \in {"lock", "wait"}
      BY DEF RWait, WWait, Calls
    <3>4. LoadValue(t) => Goto(t, "store") /\ pc[t] = "load"
      BY DEF LoadValue, Step
    <3>5. Body(t) \in {"load", "unlock"} /\ (t \in Writers => Body(t) = "load")
      BY DEF Body
    <3> QED
      BY <1>2, <3>1, <3>2, <3>3, <3>4, <3>5 DEF Goto
  <2>3. \A u \in Threads :
          \/ pc'[u] = pc[u]
          \/ /\ pc[u] \in {"lock", "wait", "load"}
             /\ \/ pc'[u] \in {"wait", "load", "store"}
                \/ u \in Readers /\ pc'[u] = "unlock"
    BY <1>0, <2>2
  <2> QED
    BY <1>1, <2>1, <2>3
<1>3. ASSUME UNCHANGED <<prog, pc, valueVars, rounds>>
      PROVE  ValueInv'
  BY <1>1, <1>3 DEF valueVars
<1> QED
  BY <1>0, <1>2, <1>3, StoreKeepsValue, UnlockKeepsValue, TestKeepsValue
  DEF Next, Act, SpuriousWakeup, Joined, vars

(* Where the writers take the write lock, a program that counts rounds     *)
(* ends with the product of writers and rounds; one that tests the value   *)
(* without the lock passes its limit by at most the other writers.         *)
THEOREM EndsAtLimit ==
  ASSUME WritersLock
  PROVE  Spec => []FinalValue
<1>1. ASSUME Inv, ValueInv, AllDone PROVE FinalValue
  <2> USE <1>1 DEF Inv, ValueInv, AllDone
  <2>1. CASE prog.until
    <3>1. Committed = {}
      BY DEF Committed, Threads
    <3>2. \E t \in Threads : pc[t] = "done"
      BY ThreadsAssumption
    <3> QED
      BY <2>1, <3>1, <3>2, FS_EmptySet, CreditedFinite, BoundsAssumption
      DEF LimitKept, FinalValue, TypeOK
  <2>2. CASE ~prog.until
    <3>1. Credited = Writers \X (1..Rounds)
      BY <2>2, CreditedFinite DEF Credited, RoundsCredited, Threads
    <3> QED
      BY <2>2, <3>1, CreditedFinite DEF RoundsCredited, FinalValue
  <2> QED
    BY <2>1, <2>2
<1>2. Inv /\ ValueInv => FinalValue
  BY <1>1 DEF FinalValue
<1>3. Inv /\ ValueInv /\ [Next]_vars => ValueInv'
  BY ValueNext
<1> QED
  BY <1>2, <1>3, ValueInit, Invariance, PTL DEF Spec

-----------------------------------------------------------------------------
(* Producers and consumers.                                                *)

CONSTANTS N, Producers, Consumers, Capacity,
          Buffers          \* the programs

VARIABLE level             \* the items in each slot

BufferConditions == {"cond_producer", "cond_consumer"}

Buffer == INSTANCE BoundedBuffer WITH Programs <- Buffers,
                                      Conditions <- BufferConditions

\* What BoundedBuffer assumes of its constants, as far as it is needed.
BufferAssumption ==
  /\ Producers \cap Consumers = {}
  /\ Buffers \subseteq [waits : {"while", "if", "poll"}, once : BOOLEAN,
                        slots : {"one", "pair", "ring", "line", "spill"}]
  /\ \A p \in Buffers : p.once \/ p.slots # "one" => p.waits = "poll"
  /\ Capacity \in Nat \ {0}

\* The programs that test again after a wait.
Retested == \A p \in Buffers : p.waits # "if"

BufferTypeOK == /\ prog \in Buffers
                /\ pc \in [Buffer!Threads -> {"lock", "wait", "done"}]
                /\ asleep \in [BufferConditions -> SUBSET Buffer!Threads]
                /\ level \in [Buffer!Slots -> 0..Buffer!Size]

\* Threads wait in the programs that count items in one slot, each on its
\* own condition.
OwnCondition ==
  /\ prog.waits # "while" => /\ \A c \in BufferConditions : asleep[c] = {}
                             /\ \A t \in Buffer!Threads : pc[t] # "wait"
  /\ asleep["cond_producer"] \subseteq Producers
  /\ asleep["cond_consumer"] \cap Producers = {}

BufferInv == BufferTypeOK /\ OwnCondition /\ Buffer!NoLostWakeup

-----------------------------------------------------------------------------
\* What a program is, and that only the one with a slot for all waits.
LEMMA ProgramFacts ==
  ASSUME BufferAssumption, Retested, BufferTypeOK
  PROVE  /\ prog.waits \in {"while", "poll"}
         /\ prog.once \in BOOLEAN
         /\ prog.slots \in {"one", "pair", "ring", "line", "spill"}
         /\ prog.waits = "while" => prog.slots = "one" /\ ~prog.once
BY DEF BufferAssumption, Retested, BufferTypeOK

\* No thread has a choice of slots.
LEMMA OneSlotEach ==
  ASSUME BufferAssumption, Retested, BufferTypeOK, NEW t \in Buffer!Threads
  PROVE  /\ \A r, s \in Buffer!PutsInto(t) : r = s
         /\ \A r, s \in Buffer!TakesFrom(t) : r = s
BY ProgramFacts DEF Buffer!PutsInto, Buffer!TakesFrom

\* The slots have room for one item at least.
LEMMA SizePositive ==
  ASSUME BufferAssumption
  PROVE  /\ Buffer!Size \in Nat
         /\ Buffer!Size > 0
         /\ prog.slots = "pair" => Buffer!Size = 1
BY DEF BufferAssumption, Buffer!Size

\* Who gets past the test, and puts, has room; who takes finds an item.
LEMMA TestHolds ==
  ASSUME BufferAssumption, Retested, BufferInv, NEW t \in Buffer!Threads
  PROVE  /\ Buffer!Produce(t) =>
              \A s \in Buffer!PutsInto(t) :
                prog.slots = "pair" \/ level[s] < Buffer!Size
         /\ Buffer!Consume(t) => \A s \in Buffer!TakesFrom(t) : level[s] > 0
<1> USE DEF BufferInv
<1>1. Buffer!Passes(t) => Buffer!May(t)
  BY ProgramFacts DEF Buffer!Passes, OwnCondition
<1>2. Buffer!Produce(t) => Buffer!HasRoom(t)
  BY <1>1 DEF Buffer!Produce, Buffer!PutsNow, Buffer!May
<1>3. Buffer!Consume(t) => Buffer!HasItem(t)
  <2>1. Buffer!PutsInto(t) = {} => ~Buffer!HasRoom(t)
    BY DEF Buffer!HasRoom
  <2> QED
    BY <1>1, <2>1 DEF Buffer!Consume, Buffer!PutsNow, Buffer!May
<1> QED
  BY <1>2, <1>3, OneSlotEach DEF Buffer!HasRoom, Buffer!HasItem

\* Where threads sleep, who may go on.
LEMMA MayInOneSlot ==
  ASSUME BufferAssumption, prog.slots = "one", NEW t \in Buffer!Threads
  PROVE  /\ Buffer!May(t) <=> \/ t \in Producers /\ level[0] < Buffer!Size
                              \/ t \in Consumers /\ level[0] > 0
         /\ t \in Producers => Buffer!PutsInto(t) = {0} /\ Buffer!TakesFrom(t) = {}
         /\ t \notin Producers => Buffer!PutsInto(t) = {}
         /\ t \in Consumers => Buffer!TakesFrom(t) = {0}
BY DEF BufferAssumption, Buffer!May, Buffer!HasRoom, Buffer!HasItem,
       Buffer!PutsInto, Buffer!TakesFrom

LEMMA BufferInit == BufferAssumption /\ Retested /\ Buffer!Init => BufferInv
<1> SUFFICES ASSUME BufferAssumption, Retested, Buffer!Init PROVE BufferInv
  OBVIOUS
<1> USE DEF Buffer!Init, Buffer!NobodyAsleep
<1>1. BufferTypeOK
  BY SizePositive DEF BufferTypeOK
<1>2. OwnCondition /\ Buffer!NoLostWakeup
  BY DEF BufferConditions, OwnCondition, Buffer!NoLostWakeup, Buffer!Awake
<1> QED
  BY <1>1, <1>2 DEF BufferInv

\* Broadcasting to the others keeps the threads on their own conditions.
LEMMA FinishFacts ==
  ASSUME BufferAssumption, Retested, BufferInv, NEW t \in Buffer!Threads, Buffer!Finish(t)
  PROVE  /\ prog' = prog
         /\ pc' \in [Buffer!Threads -> {"lock", "wait", "done"}]
         /\ asleep' \in [BufferConditions -> SUBSET Buffer!Threads]
         /\ asleep' = [asleep EXCEPT ![Buffer!Other(t)] = {}]
         /\ OwnCondition'
<1> USE DEF BufferInv, BufferTypeOK, Buffer!Finish, Buffer!Broadcast, Buffer!Goto
<1>1. Buffer!Other(t) \in BufferConditions
  BY DEF BufferConditions, Buffer!Other
<1>2. asleep' \in [BufferConditions -> SUBSET Buffer!Threads]
  BY <1>1
<1>3. \A c \in BufferConditions : asleep'[c] \subseteq asleep[c]
  BY <1>1
<1>4. OwnCondition'
  <2>1. /\ asleep'["cond_producer"] \subseteq Producers
        /\ asleep'["cond_consumer"] \cap Producers = {}
    BY <1>3 DEF BufferConditions, OwnCondition
  <2>2. prog.waits # "while" => /\ \A c \in BufferConditions : asleep'[c] = {}
                                /\ \A u \in Buffer!Threads : pc'[u] # "wait"
    BY <1>3 DEF OwnCondition
  <2> QED
    BY <2>1, <2>2 DEF OwnCondition
<1> QED
  BY <1>2, <1>4

\* An item put or taken wakes those that may take or put the next.
LEMMA WakesTheRight ==
  ASSUME BufferAssumption, Retested, BufferInv, NEW t \in Buffer!Threads,
         Buffer!Produce(t) \/ Buffer!Consume(t)
  PROVE  Buffer!NoLostWakeup'
<1> USE DEF BufferInv, BufferTypeOK
<1>0. Buffer!Finish(t)
  BY DEF Buffer!Produce, Buffer!Consume
<1>1. /\ prog' = prog
      /\ asleep' = [asleep EXCEPT ![Buffer!Other(t)] = {}]
      /\ OwnCondition'
  BY <1>0, FinishFacts
<1> SUFFICES ASSUME NEW u \in Buffer!Threads, ~Buffer!Awake(u)'
             PROVE  ~Buffer!May(u)'
  BY DEF Buffer!NoLostWakeup
<1>2. prog.waits = "while" /\ prog.slots = "one"
  BY <1>1, ProgramFacts DEF OwnCondition, Buffer!Awake
<1>3. ~Buffer!Awake(u) /\ (u \in Producers <=> t \in Producers)
  BY <1>1 DEF BufferConditions, Buffer!Awake, OwnCondition, Buffer!Other
<1>4. ~Buffer!May(u)
  BY <1>3 DEF Buffer!NoLostWakeup
<1>5. /\ Buffer!Size' = Buffer!Size
      /\ Buffer!Slots = {0}
      /\ level[0] \in Nat
      /\ Buffer!Size \in Nat
  BY <1>1, <1>2, SizePositive DEF Buffer!Size, Buffer!Slots
<1>6. CASE Buffer!Produce(t)
  <2>1. t \in Producers
    BY <1>2, <1>6, MayInOneSlot DEF Buffer!Produce
  <2>2. level'[0] = level[0] + 1
    BY <1>2, <1>5, <1>6, <2>1, MayInOneSlot DEF Buffer!Produce
  <2>3. ~(level[0] < Buffer!Size)
    BY <1>2, <1>3, <1>4, <2>1, MayInOneSlot
  <2>4. ~(level'[0] < Buffer!Size)
    BY <1>5, <2>2, <2>3
  <2>5. u \notin Consumers
    BY <1>3, <2>1 DEF BufferAssumption
  <2> QED
    BY <1>1, <1>2, <1>5, <2>4, <2>5
    DEF Buffer!May, Buffer!HasRoom, Buffer!HasItem, Buffer!PutsInto,
        Buffer!TakesFrom
<1>7. CASE Buffer!Consume(t)
  <2>1. t \notin Producers /\ t \in Consumers
    BY <1>2, <1>7, MayInOneSlot DEF Buffer!Consume, Buffer!TakesFrom
  <2>2. level'[0] = level[0] - 1
    BY <1>2, <1>5, <1>7, <2>1, MayInOneSlot DEF Buffer!Consume, Buffer!Without
  <2>3. u \in Consumers => ~(level[0] > 0)
    BY <1>2, <1>4, MayInOneSlot
  <2>4. u \in Consumers => ~(level'[0] > 0)
    BY <1>5, <2>2, <2>3
  <2> QED
    BY <1>1, <1>2, <1>3, <2>1, <2>4
    DEF Buffer!May, Buffer!HasRoom, Buffer!HasItem, Buffer!PutsInto,
        Buffer!TakesFrom
<1> QED
  BY <1>6, <1>7

(* Every step keeps BufferInv.                                             *)
LEMMA BufferNext ==
  ASSUME BufferAssumption, Retested, BufferInv, [Buffer!Next]_(Buffer!vars)
  PROVE  BufferInv'
<1> USE DEF BufferInv
<1>1. ASSUME NEW t \in Buffer!Threads, Buffer!Wait(t)
      PROVE  BufferInv'
  <2>1. /\ prog' = prog /\ level' = level /\ Buffer!Goto(t, "wait")
        /\ Buffer!Sleep(t, Buffer!Own(t)) /\ ~Buffer!May(t) /\ prog.waits = "while"
    BY <1>1, ProgramFacts DEF Buffer!Wait
  <2>2. Buffer!Own(t) \in BufferConditions
    BY DEF BufferConditions, Buffer!Own
  <2>3. BufferTypeOK'
    BY <2>1, <2>2 DEF BufferTypeOK, Buffer!Goto, Buffer!Sleep, Buffer!Slots,
                      Buffer!Size
  <2>4. OwnCondition'
    BY <2>1, <2>2 DEF BufferConditions, BufferTypeOK, OwnCondition, Buffer!Own,
                      Buffer!Sleep
  <2>5. Buffer!NoLostWakeup'
    <3>1. \A u \in Buffer!Threads : ~Buffer!Awake(u)' => u = t \/ ~Buffer!Awake(u)
      BY <2>1, <2>2 DEF Buffer!Awake, Buffer!Sleep, BufferTypeOK
    <3>2. \A u \in Buffer!Threads : Buffer!May(u)' <=> Buffer!May(u)
      BY <2>1 DEF Buffer!May, Buffer!HasRoom, Buffer!HasItem, Buffer!PutsInto,
                  Buffer!TakesFrom, Buffer!Slots, Buffer!Size
    <3> QED
      BY <2>1, <3>1, <3>2 DEF Buffer!NoLostWakeup
  <2> QED
    BY <2>3, <2>4, <2>5
<1>2. ASSUME NEW t \in Buffer!Threads,
         Buffer!Produce(t) \/ Buffer!Consume(t)
      PROVE  BufferInv'
  <2>1. Buffer!Finish(t)
    BY <1>2 DEF Buffer!Produce, Buffer!Consume
  <2>2. /\ prog' = prog
        /\ pc' \in [Buffer!Threads -> {"lock", "wait", "done"}]
        /\ asleep' \in [BufferConditions -> SUBSET Buffer!Threads]
        /\ OwnCondition'
    BY <2>1, FinishFacts
  <2>3. \A s \in Buffer!Slots : level[s] \in 0..Buffer!Size
    BY DEF BufferTypeOK
  <2>4. level' \in [Buffer!Slots -> 0..Buffer!Size]
    <3>1. CASE Buffer!Produce(t)
      <4>1. \A s \in Buffer!PutsInto(t) : prog.slots = "pair" \/ level[s] < Buffer!Size
        BY <3>1, TestHolds
      <4>2. \A s \in Buffer!Slots :
              s \in Buffer!PutsInto(t) /\ prog.slots # "pair" =>
                level[s] + 1 \in 0..Buffer!Size
        BY <2>3, <4>1, SizePositive
      <4>3. prog.slots = "pair" => 1 \in 0..Buffer!Size
        BY SizePositive
      <4> QED
        BY <2>3, <3>1, <4>2, <4>3 DEF Buffer!Produce
    <3>2. CASE Buffer!Consume(t)
      <4>1. \A s \in Buffer!TakesFrom(t) : level[s] > 0
        BY <3>2, TestHolds
      <4>2. \A s \in Buffer!Slots :
              s \in Buffer!TakesFrom(t) => level[s] - 1 \in 0..Buffer!Size
        BY <2>3, <4>1, SizePositive
      <4> QED
        BY <2>3, <3>2, <4>2 DEF Buffer!Consume, Buffer!Without
    <3> QED
      BY <1>2, <3>1, <3>2
  <2>5. BufferTypeOK'
    BY <2>2, <2>4 DEF BufferTypeOK, Buffer!Slots, Buffer!Size
  <2> QED
    BY <1>2, <2>2, <2>5, WakesTheRight
<1>3. ASSUME NEW t \in Buffer!Threads, Buffer!SpuriousWakeup(t)
      PROVE  BufferInv'
  <2>1. UNCHANGED <<prog, pc, level>>
    BY <1>3 DEF Buffer!SpuriousWakeup
  <2>2. PICK c \in BufferConditions : asleep' = [asleep EXCEPT ![c] = @ \ {t}]
    BY <1>3 DEF Buffer!SpuriousWakeup, Buffer!WakeUp
  <2>3. \A d \in BufferConditions : asleep'[d] \subseteq asleep[d]
    BY <2>2 DEF BufferTypeOK
  <2>4. BufferTypeOK'
    BY <2>1, <2>2 DEF BufferTypeOK, Buffer!Slots, Buffer!Size
  <2>5. OwnCondition'
    BY <2>1, <2>3 DEF BufferConditions, OwnCondition
  <2>6. \A u \in Buffer!Threads : /\ Buffer!May(u)' <=> Buffer!May(u)
                                  /\ ~Buffer!Awake(u)' => ~Buffer!Awake(u)
    BY <2>1, <2>3 DEF Buffer!Awake, Buffer!May, Buffer!HasRoom, Buffer!HasItem,
                      Buffer!PutsInto, Buffer!TakesFrom, Buffer!Slots,
                      Buffer!Size
  <2> QED
    BY <2>4, <2>5, <2>6 DEF Buffer!NoLostWakeup
<1>4. CASE UNCHANGED Buffer!vars
  BY <1>4 DEF Buffer!vars, BufferTypeOK, OwnCondition, Buffer!NoLostWakeup,
              Buffer!Awake, Buffer!May, Buffer!HasRoom, Buffer!HasItem, Buffer!PutsInto,
              Buffer!TakesFrom, Buffer!Slots, Buffer!Size
<1> QED
  BY <1>1, <1>2, <1>3, <1>4 DEF Buffer!Next, Buffer!Act, Buffer!Joined

-----------------------------------------------------------------------------
(* No item is taken out of an empty slot or put into a full one, by        *)
(* whatever number of producers, consumers or neighbours in a ring, where  *)
(* a test that has put a thread to sleep is repeated when it wakes up.     *)
THEOREM NeverOverfilled ==
  ASSUME BufferAssumption, Retested
  PROVE  Buffer!Spec => []Buffer!InBounds
<1>1. BufferInv => Buffer!InBounds
  BY DEF BufferInv, BufferTypeOK, Buffer!InBounds
<1> QED
  BY <1>1, BufferInit, BufferNext, PTL DEF Buffer!Spec

(* Nobody sleeps through his wake-up: the consumers that sleep have nothing *)
(* to consume, the producers no room.                                      *)
THEOREM NobodyStarves ==
  ASSUME BufferAssumption, Retested
  PROVE  Buffer!Spec => []Buffer!NoLostWakeup
<1>1. BufferInv => Buffer!NoLostWakeup
  BY DEF BufferInv
<1> QED
  BY <1>1, BufferInit, BufferNext, PTL DEF Buffer!Spec

-----------------------------------------------------------------------------
(* Barriers.                                                               *)

CONSTANTS Parties,         \* the threads that meet at the barrier
          Barriers,        \* the programs
          Spurious         \* those in which pthread_cond_wait may return by itself

VARIABLE current_threads   \* threads that have arrived

Barrier == INSTANCE Barrier WITH Threads <- Parties, Programs <- Barriers,
                                 Conditions <- {"cond"}

Arrived == {t \in Parties : pc[t] # "arrive"}

\* The programs that get spurious wake-ups test the count again.
Robust == \A p \in Spurious : p.retests

BarrierTypeOK == /\ prog \in Barriers
                 /\ pc \in [Parties -> {"arrive", "wait", "done"}]
                 /\ asleep \in [{"cond"} -> SUBSET Parties]

Counted == current_threads = Cardinality(Arrived)

\* A thread leaves because everybody has arrived.
WokenLast == Arrived = Parties \/ prog.retests
               \/ \A t \in Parties : pc[t] = "wait" => ~Barrier!Awake(t)

\* Nobody sleeps once everybody has arrived.
NobodyLeftBehind == Arrived = Parties => \A t \in Parties : Barrier!Awake(t)

BarrierInv == /\ BarrierTypeOK
              /\ Counted
              /\ WokenLast
              /\ Barrier!NobodyEarly
              /\ NobodyLeftBehind

-----------------------------------------------------------------------------
\* The instance counts as this module does.
LEMMA SameCount == \A S : Barrier!Cardinality(S) = Cardinality(S)
BY DEF Barrier!Cardinality, Cardinality

\* The count is complete exactly when everybody has arrived.
LEMMA CompleteCount ==
  ASSUME IsFiniteSet(Parties), NEW S \in SUBSET Parties
  PROVE  /\ IsFiniteSet(S)
         /\ Cardinality(S) \in Nat
         /\ Barrier!Complete(Cardinality(S)) <=> S = Parties
<1>1. /\ IsFiniteSet(S)
      /\ Cardinality(S) <= Cardinality(Parties)
      /\ Cardinality(Parties) = Cardinality(S) => Parties = S
  BY FS_Subset
<1>2. Cardinality(S) \in Nat /\ Cardinality(Parties) \in Nat
  BY <1>1, FS_CardinalityType
<1> QED
  BY <1>1, <1>2, SameCount DEF Barrier!Complete, Barrier!thread_nums

\* One more arrival: the count is that of the threads that have arrived then.
LEMMA OneMore ==
  ASSUME IsFiniteSet(Parties), BarrierInv,
         NEW t \in Parties, pc[t] = "arrive",
         NEW to \in {"wait", "done"}, Barrier!Goto(t, to)
  PROVE  /\ pc' \in [Parties -> {"arrive", "wait", "done"}]
         /\ Arrived' = Arrived \cup {t}
         /\ Arrived # Parties
         /\ current_threads + 1 = Cardinality(Arrived')
         /\ Barrier!Complete(current_threads + 1) <=> Arrived' = Parties
<1> USE DEF BarrierInv, BarrierTypeOK, Counted
<1>1. pc' \in [Parties -> {"arrive", "wait", "done"}]
  BY DEF Barrier!Goto
<1>2. Arrived' = Arrived \cup {t} /\ t \notin Arrived
  BY DEF Barrier!Goto, Arrived
<1>3. Arrived \in SUBSET Parties /\ Arrived' \in SUBSET Parties
  BY DEF Arrived
<1>4. IsFiniteSet(Arrived)
  BY <1>3, CompleteCount
<1>5. Cardinality(Arrived \cup {t}) = Cardinality(Arrived) + 1
  BY <1>2, <1>4, FS_AddElement
<1>6. Barrier!Complete(Cardinality(Arrived')) <=> Arrived' = Parties
  BY <1>3, CompleteCount
<1>7. current_threads + 1 = Cardinality(Arrived')
  BY <1>2, <1>5
<1> QED
  BY <1>1, <1>2, <1>6, <1>7

LEMMA BarrierInit == Barrier!Init => BarrierInv
<1> SUFFICES ASSUME Barrier!Init PROVE BarrierInv
  OBVIOUS
<1> USE DEF Barrier!Init
<1>1. BarrierTypeOK
  BY DEF BarrierTypeOK, Barrier!NobodyAsleep
<1>2. Arrived = {}
  BY DEF Arrived
<1>3. Counted
  BY <1>2, FS_EmptySet DEF Counted
<1>4. WokenLast /\ Barrier!NobodyEarly /\ NobodyLeftBehind
  BY <1>2 DEF WokenLast, Barrier!NobodyEarly, NobodyLeftBehind,
              Barrier!NobodyAsleep, Barrier!Awake
<1> QED
  BY <1>1, <1>3, <1>4 DEF BarrierInv

(* Every step keeps BarrierInv.                                                   *)
LEMMA BarrierNext ==
  ASSUME IsFiniteSet(Parties), Robust, BarrierInv, [Barrier!Next]_(Barrier!vars)
  PROVE  BarrierInv'
<1> USE DEF BarrierInv
<1>1. ASSUME NEW t \in Parties, Barrier!ArriveAndWait(t)
      PROVE  BarrierInv'
  <2>0. Barrier!Goto(t, "wait") /\ pc[t] = "arrive"
    BY <1>1 DEF Barrier!ArriveAndWait
  <2>1. /\ pc' \in [Parties -> {"arrive", "wait", "done"}]
        /\ Arrived' = Arrived \cup {t}
        /\ Arrived # Parties
        /\ current_threads + 1 = Cardinality(Arrived')
        /\ Barrier!Complete(current_threads + 1) <=> Arrived' = Parties
    BY <2>0, OneMore
  <2>2. BarrierTypeOK'
    BY <1>1, <2>1 DEF Barrier!ArriveAndWait, Barrier!Sleep, BarrierTypeOK
  <2>3. Counted'
    BY <1>1, <2>1 DEF Barrier!ArriveAndWait, Counted
  <2>4. Arrived' # Parties
    BY <1>1, <2>1 DEF Barrier!ArriveAndWait
  <2>5. WokenLast'
    <3> SUFFICES ASSUME ~prog.retests, NEW u \in Parties, pc'[u] = "wait"
                 PROVE  ~Barrier!Awake(u)'
      BY <1>1 DEF WokenLast, Barrier!ArriveAndWait
    <3>1. CASE u = t
      BY <1>1, <3>1 DEF Barrier!ArriveAndWait, Barrier!Sleep, Barrier!Awake,
                        BarrierTypeOK
    <3>2. CASE u # t
      <4>1. pc[u] = "wait"
        BY <2>0, <3>2 DEF Barrier!Goto, BarrierTypeOK
      <4>2. ~Barrier!Awake(u)
        BY <2>1, <4>1 DEF WokenLast
      <4> QED
        BY <1>1, <4>2 DEF Barrier!ArriveAndWait, Barrier!Sleep, Barrier!Awake,
                          BarrierTypeOK
    <3> QED
      BY <3>1, <3>2
  <2>6. Barrier!NobodyEarly'
    BY <2>0, <2>1 DEF Barrier!NobodyEarly, Barrier!Goto, BarrierTypeOK, Arrived
  <2> QED
    BY <2>2, <2>3, <2>4, <2>5, <2>6 DEF NobodyLeftBehind
<1>2. ASSUME NEW t \in Parties, Barrier!ArriveLast(t)
      PROVE  BarrierInv'
  <2>0. Barrier!Goto(t, "done") /\ pc[t] = "arrive"
    BY <1>2 DEF Barrier!ArriveLast
  <2>1. /\ pc' \in [Parties -> {"arrive", "wait", "done"}]
        /\ current_threads + 1 = Cardinality(Arrived')
        /\ Barrier!Complete(current_threads + 1) <=> Arrived' = Parties
    BY <2>0, OneMore
  <2>2. Arrived' = Parties
    BY <1>2, <2>1 DEF Barrier!ArriveLast
  <2>3. BarrierTypeOK' /\ Counted' /\ WokenLast'
    BY <1>2, <2>1, <2>2 DEF Barrier!ArriveLast, Barrier!Broadcast,
                            BarrierTypeOK, Counted, WokenLast
  <2>4. Barrier!NobodyEarly'
    BY <2>2 DEF Barrier!NobodyEarly, Arrived
  <2>5. NobodyLeftBehind'
    BY <1>2 DEF Barrier!ArriveLast, Barrier!Broadcast, NobodyLeftBehind,
                Barrier!Awake, BarrierTypeOK
  <2> QED
    BY <2>3, <2>4, <2>5
<1>3. ASSUME NEW t \in Parties, Barrier!Leave(t)
      PROVE  BarrierInv'
  <2>1. /\ pc[t] = "wait"
        /\ Barrier!Goto(t, "done")
        /\ UNCHANGED <<prog, current_threads>>
    BY <1>3 DEF Barrier!Leave
  <2>2. asleep' = asleep \/ Barrier!Broadcast("cond")
    BY <1>3 DEF Barrier!Leave
  <2>3. BarrierTypeOK' /\ Arrived' = Arrived
    BY <2>1, <2>2 DEF BarrierTypeOK, Barrier!Broadcast, Barrier!Goto, Arrived
  <2>4. Arrived = Parties
    <3>1. CASE prog.retests
      <4>1. Barrier!Complete(Cardinality(Arrived))
        BY <1>3, <3>1 DEF Barrier!Leave, Counted
      <4> QED
        BY <4>1, CompleteCount DEF Arrived
    <3>2. CASE ~prog.retests
      BY <1>3, <3>2 DEF Barrier!Leave, WokenLast
    <3> QED
      BY <3>1, <3>2
  <2>5. Counted' /\ WokenLast'
    BY <2>1, <2>3, <2>4 DEF Counted, WokenLast
  <2>6. Barrier!NobodyEarly'
    BY <2>3, <2>4 DEF Barrier!NobodyEarly, Arrived
  <2>7. NobodyLeftBehind'
    BY <2>2, <2>4 DEF NobodyLeftBehind, Barrier!Awake, Barrier!Broadcast,
                      BarrierTypeOK
  <2> QED
    BY <2>3, <2>5, <2>6, <2>7
<1>4. ASSUME NEW t \in Parties, Barrier!WaitAgain(t)
      PROVE  BarrierInv'
  <2>1. prog.retests /\ UNCHANGED <<prog, pc, current_threads>>
    BY <1>4 DEF Barrier!WaitAgain
  <2>2. BarrierTypeOK' /\ Arrived' = Arrived
    BY <1>4, <2>1 DEF Barrier!WaitAgain, Barrier!Sleep, BarrierTypeOK, Arrived
  <2>3. Arrived # Parties
    <3>1. ~Barrier!Complete(Cardinality(Arrived))
      BY <1>4 DEF Barrier!WaitAgain, Counted
    <3> QED
      BY <3>1, CompleteCount DEF Arrived
  <2> QED
    BY <2>1, <2>2, <2>3 DEF Counted, WokenLast, Barrier!NobodyEarly,
                            NobodyLeftBehind
<1>5. ASSUME NEW t \in Parties, Barrier!SpuriousWakeup(t)
      PROVE  BarrierInv'
  <2>1. prog.retests /\ UNCHANGED <<prog, pc, current_threads>>
    BY <1>5 DEF Barrier!SpuriousWakeup, Robust
  <2>2. PICK c \in {"cond"} : asleep' = [asleep EXCEPT ![c] = @ \ {t}]
    BY <1>5 DEF Barrier!SpuriousWakeup, Barrier!WakeUp
  <2>3. BarrierTypeOK' /\ Arrived' = Arrived
    BY <2>1, <2>2 DEF BarrierTypeOK, Arrived
  <2>4. NobodyLeftBehind'
    BY <2>2, <2>3 DEF NobodyLeftBehind, Barrier!Awake, BarrierTypeOK
  <2> QED
    BY <2>1, <2>3, <2>4 DEF Counted, WokenLast, Barrier!NobodyEarly
<1>6. CASE UNCHANGED Barrier!vars
  BY <1>6 DEF Barrier!vars, BarrierTypeOK, Counted, WokenLast,
              Barrier!NobodyEarly, NobodyLeftBehind, Arrived, Barrier!Awake
<1> QED
  BY <1>1, <1>2, <1>3, <1>4, <1>5, <1>6
  DEF Barrier!Next, Barrier!Act, Barrier!Joined

LEMMA BarrierInvariance ==
  ASSUME IsFiniteSet(Parties), Robust
  PROVE  Barrier!Spec => []BarrierInv
<1> QED
  BY BarrierInit, BarrierNext, PTL DEF Barrier!Spec

-----------------------------------------------------------------------------
(* Nobody passes the barrier before everybody has reached it, with         *)
(* spurious wake-ups where the count is tested again.                      *)
THEOREM NobodyPassesEarly ==
  ASSUME IsFiniteSet(Parties), Robust
  PROVE  Barrier!Spec => []Barrier!NobodyEarly
<1>1. BarrierInv => Barrier!NobodyEarly
  BY DEF BarrierInv
<1> QED
  BY <1>1, BarrierInvariance, PTL

(* When everybody has arrived nobody sleeps: the broadcast misses no       *)
(* thread, and none goes to sleep after it.                                *)
THEOREM NobodySleepsOn ==
  ASSUME IsFiniteSet(Parties), Robust
  PROVE  Barrier!Spec => []NobodyLeftBehind
<1>1. BarrierInv => NobodyLeftBehind
  BY DEF BarrierInv
<1> QED
  BY <1>1, BarrierInvariance, PTL
=============================================================================
