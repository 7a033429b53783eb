--------------------------- MODULE SpinLockProofs ---------------------------
(***************************************************************************)
(* The locks of "Spin Locks/": the test-and-set locks, for every set of    *)
(* threads, number of increments and choice of programs (type correctness, *)
(* mutual exclusion, the back-off delay, and the refinement of the atomic  *)
(* counter), and Peterson's lock for its two threads (the same without the *)
(* delay, and the order in which they are served).                         *)
(*                                                                         *)
(* MutualExclusion is not inductive: that lock_status is 0 must say that   *)
(* nobody is inside.  Inv adds that, and what the thread function needs.   *)
(* For the delay, a thread that is about to double it has been beaten by   *)
(* an acquisition that no doubling has counted yet.                        *)
(***************************************************************************)
EXTENDS SpinLock, WorkerProofs

Labels == {"cas", "delay"}

\* A thread inside keeps lock_status set.
LockHeld == Inside # {} => lock_status = 1

SpinTypeOK == /\ prog \in Programs
              /\ lock_status \in {0, 1}
              /\ limit \in [Threads -> prog.min..MaxDelay]

Inv == SpinTypeOK /\ WorkInv(Labels, {}) /\ LockHeld

\* What Programs and the labels are to the lemmas on the thread function.
LEMMA ProgramFacts ==
  ASSUME prog \in Programs
  PROVE  /\ prog.once \in BOOLEAN
         /\ prog.min \in Nat
         /\ prog.min <= MaxDelay
         /\ MaxDelay \in Nat
BY ProgramsAssumption, DelayAssumption

LEMMA LabelsDisjoint == Labelled(Labels, {})
BY DEF Labelled, Labels, Critical

LEMMA InvInit == Init => Inv /\ Abstract!Init
<1> SUFFICES ASSUME Init PROVE Inv /\ Abstract!Init
  OBVIOUS
<1>1. WorkInv(Labels, {}) /\ Inside = {} /\ Abstract!Init
  BY WorkStart, LabelsDisjoint DEF Init
<1>2. SpinTypeOK
  BY ProgramFacts DEF Init, SpinTypeOK
<1> QED
  BY <1>1, <1>2 DEF Inv, LockHeld

(* Every step keeps Inv and is a step of the abstract counter or changes   *)
(* nothing there.                                                          *)
LEMMA InvNext == Inv /\ [Next]_vars => Inv' /\ [Abstract!Next]_(Abstract!vars)
<1> SUFFICES ASSUME Inv, [Next]_vars
             PROVE  Inv' /\ [Abstract!Next]_(Abstract!vars)
  OBVIOUS
<1> USE DEF Inv
<1>0. /\ prog.once \in BOOLEAN
      /\ prog.min \in Nat
      /\ prog.min <= MaxDelay
      /\ MaxDelay \in Nat
  BY ProgramFacts DEF SpinTypeOK
<1>1. ASSUME NEW t \in Threads, Act(t)
      PROVE  Inv' /\ [Abstract!Next]_(Abstract!vars)
  <2>1. CASE Work(t) /\ UNCHANGED <<lock_status, limit>>
    <3>1. /\ WorkInv(Labels, {})'
          /\ Inside' = Inside
          /\ Abstract!Increment(t) \/ UNCHANGED Abstract!vars
      BY <2>1, <1>0, LabelsDisjoint, WorkStep
    <3>2. prog' = prog
      BY <2>1 DEF Work, ReadShared, WriteShared
    <3>3. SpinTypeOK' /\ LockHeld'
      BY <2>1, <3>1, <3>2 DEF SpinTypeOK, LockHeld
    <3> QED
      BY <3>1, <3>3 DEF Abstract!Next
  <2>2. ASSUME TestAndSet(t) \/ WinCas(t)
        PROVE  Inv' /\ [Abstract!Next]_(Abstract!vars)
    <3>1. /\ pc[t] \in Labels \cup {"lock"}
          /\ lock_status = 0
          /\ lock_status' = 1
          /\ Goto(t, "read")
          /\ UNCHANGED workVars
      BY <2>2 DEF TestAndSet, WinCas, Step, Labels
    <3>2. Inside = {}
      BY <3>1 DEF LockHeld
    <3>3. WorkInv(Labels, {})' /\ Abstract!Enter(t)
      BY <3>1, <3>2, LabelsDisjoint, EnterStep
    <3>4. SpinTypeOK' /\ LockHeld'
      BY <2>2, <3>1, <1>0
      DEF TestAndSet, WinCas, workVars, SpinTypeOK, LockHeld
    <3> QED
      BY <3>3, <3>4 DEF Abstract!Next
  <2>3. ASSUME NEW to \in Labels \cup {"lock"}, Goto(t, to), UNCHANGED workVars,
               pc[t] \in Labels \cup {"lock"}, UNCHANGED lock_status,
               limit' \in [Threads -> prog.min..MaxDelay]
        PROVE  Inv' /\ [Abstract!Next]_(Abstract!vars)
    <3>1. WorkInv(Labels, {})' /\ Inside' = Inside /\ UNCHANGED Abstract!vars
      BY <2>3, LabelsDisjoint, OutsideStep
    <3>2. SpinTypeOK' /\ LockHeld'
      BY <2>3, <3>1 DEF workVars, SpinTypeOK, LockHeld
    <3> QED
      BY <3>1, <3>2
  <2>4. CASE SeeFree(t) \/ LoseCas(t)
    <3>1. limit' \in [Threads -> prog.min..MaxDelay]
      BY <2>4 DEF SeeFree, LoseCas, SpinTypeOK
    <3>2. CASE SeeFree(t)
      BY <3>1, <3>2, <2>3 DEF SeeFree, Step, Labels
    <3>3. CASE LoseCas(t) /\ prog.min > 0
      BY <3>1, <3>3, <2>3 DEF LoseCas, Step, Labels
    <3>4. CASE LoseCas(t) /\ ~(prog.min > 0)
      BY <3>1, <3>4, <2>3 DEF LoseCas, Step, Labels
    <3> QED
      BY <2>4, <3>2, <3>3, <3>4
  <2>5. CASE Delay(t)
    <3>1. Capped(2 * limit[t]) \in prog.min..MaxDelay
      BY <1>0 DEF Capped, SpinTypeOK
    <3>2. limit' \in [Threads -> prog.min..MaxDelay]
      BY <2>5, <3>1 DEF Delay, SpinTypeOK
    <3> QED
      BY <2>5, <3>2, <2>3 DEF Delay, Step, Labels
  <2>6. CASE Unlock(t)
    <3>1. WorkInv(Labels, {})' /\ Inside' = {} /\ Abstract!Exit(t)
      BY <2>6, LabelsDisjoint, ExitStep DEF Unlock
    <3>2. SpinTypeOK' /\ LockHeld'
      BY <2>6, <3>1, <1>0 DEF Unlock, workVars, SpinTypeOK, LockHeld
    <3> QED
      BY <3>1, <3>2 DEF Abstract!Next
  <2> QED
    BY <1>1, <2>1, <2>2, <2>4, <2>5, <2>6 DEF Act
<1>2. CASE UNCHANGED vars
  <2>1. WorkInv(Labels, {})' /\ Inside' = Inside /\ UNCHANGED Abstract!vars
    BY <1>2, WorkStutter DEF vars
  <2>2. Inv'
    BY <1>2, <2>1 DEF vars, workVars, SpinTypeOK, LockHeld
  <2> QED
    BY <2>1, <2>2
<1> QED
  BY <1>1, <1>2 DEF Next, Joined

(* The type invariant: in particular rand() % limit never divides by 0 in  *)
(* a program that backs off, and no delay exceeds MAXDELAY.                *)
THEOREM TypeCorrect == Spec => []TypeOK
<1>1. Inv => TypeOK
  BY DEF Inv, SpinTypeOK, WorkInv, TypeOK, Labels
<1> QED
  BY <1>1, InvInit, InvNext, PTL DEF Spec

(* At most one thread is between lock() and the release in unlock().       *)
THEOREM MutuallyExclusive == Spec => []MutualExclusion
<1>1. Inv => MutualExclusion
  BY DEF Inv, WorkInv
<1> QED
  BY <1>1, InvInit, InvNext, PTL DEF Spec

(* When main() has joined the threads, shared_value holds every increment  *)
(* of every one of them.                                                   *)
THEOREM CountComplete == Spec => []NothingLost
<1>1. Inv => NothingLost
  BY CountAll DEF Inv, WorkInv
<1> QED
  BY <1>1, InvInit, InvNext, PTL DEF Spec

(* The program implements the counter with atomic increments.              *)
THEOREM Refines == Spec => ImplementsLockedCounter
BY InvInit, InvNext, PTL DEF Spec, ImplementsLockedCounter, Abstract!Spec

-----------------------------------------------------------------------------
(* The back-off delay.  A thread in front of its delay has been beaten by  *)
(* an acquisition that no earlier doubling has counted; so has one in      *)
(* front of its compare-and-swap once the lock is taken, which was free    *)
(* when the thread came there.                                             *)

Beaten(t) == pc[t] = "delay" \/ (pc[t] = "cas" /\ lock_status = 1)

DelayPaid ==
  prog.min > 0 => \A t \in Threads :
    (IF Beaten(t) THEN 2 ELSE 1) * limit[t] <= prog.min * 2^Cardinality(Contention(t))

\* A thread that takes the lock once has no increment before, all behind.
OnceThrough ==
  prog.once => \A t \in Threads :
    /\ pc[t] \in Labels \cup {"lock"} => done[t] = 0
    /\ pc[t] = "unlock" => done[t] = Increments

DelayInv == Inv /\ OnceThrough /\ DelayPaid

(* A set with one more element has twice as many subsets.                  *)
LEMMA PowerDoubles ==
  ASSUME NEW S, IsFiniteSet(S), NEW x, x \notin S
  PROVE  2^Cardinality(S \cup {x}) = 2 * 2^Cardinality(S)
<1> DEFINE with == {X \cup {x} : X \in SUBSET S}
           add == [X \in SUBSET S |-> X \cup {x}]
<1>1. IsFiniteSet(SUBSET S) /\ Cardinality(SUBSET S) = 2^Cardinality(S)
  BY FS_SUBSET
<1>2. add \in Bijection(SUBSET S, with)
  <2>1. add \in [SUBSET S -> with] /\ \A Y \in with : \E X \in SUBSET S : add[X] = Y
    OBVIOUS
  <2>2. \A X, Y \in SUBSET S : add[X] = add[Y] => X = Y
    <3> SUFFICES ASSUME NEW X \in SUBSET S, NEW Y \in SUBSET S, X \cup {x} = Y \cup {x}
                 PROVE  X = Y
      OBVIOUS
    <3> QED
      OBVIOUS
  <2> QED
    BY <2>1, <2>2 DEF Bijection, Injection, Surjection, IsInjective
<1>3. IsFiniteSet(with) /\ Cardinality(with) = Cardinality(SUBSET S)
  BY <1>1, <1>2, FS_Bijection DEF ExistsBijection
<1>4. SUBSET (S \cup {x}) = (SUBSET S) \cup with
  <2>1. ASSUME NEW X \in SUBSET (S \cup {x}) PROVE X \in (SUBSET S) \cup with
    <3>1. CASE x \in X
      <4>1. X = (X \ {x}) \cup {x} /\ X \ {x} \in SUBSET S
        BY <3>1
      <4> QED
        BY <4>1
    <3> QED
      BY <3>1
  <2> QED
    BY <2>1
<1>5. (SUBSET S) \cap with = {}
  OBVIOUS
<1>6. Cardinality(SUBSET (S \cup {x})) = Cardinality(SUBSET S) + Cardinality(SUBSET S)
  <2>1. Cardinality((SUBSET S) \cap with) = 0
    BY <1>5, FS_EmptySet
  <2>2. Cardinality(SUBSET S) \in Nat
    BY <1>1, FS_CardinalityType
  <2>3. Cardinality((SUBSET S) \cup with)
           = Cardinality(SUBSET S) + Cardinality(with) - Cardinality((SUBSET S) \cap with)
    <3> HIDE DEF with
    <3> QED
      BY <1>1, <1>3, FS_Union
  <2>4. Cardinality(SUBSET (S \cup {x})) = Cardinality((SUBSET S) \cup with)
    BY <1>4
  <2> HIDE DEF with, add
  <2> QED
    BY <1>3, <2>1, <2>2, <2>3, <2>4
<1>7. IsFiniteSet(S \cup {x})
  BY FS_AddElement
<1>8. Cardinality(SUBSET (S \cup {x})) = 2^Cardinality(S \cup {x})
  BY <1>7, FS_SUBSET
<1>9. Cardinality(SUBSET S) \in Nat
  BY <1>1, FS_CardinalityType
<1> QED
  BY <1>1, <1>6, <1>8, <1>9

(* The powers of two do not shrink, and double, as the exponent's set grows. *)
LEMMA PowerGrows ==
  ASSUME NEW S, NEW T, IsFiniteSet(T), S \subseteq T
  PROVE  /\ 2^Cardinality(S) \in Nat \ {0}
         /\ 2^Cardinality(T) \in Nat \ {0}
         /\ 2^Cardinality(S) <= 2^Cardinality(T)
         /\ S # T => 2 * 2^Cardinality(S) <= 2^Cardinality(T)
<1>1. ASSUME NEW A, IsFiniteSet(A) PROVE 2^Cardinality(A) \in Nat \ {0}
  <2>1. IsFiniteSet(SUBSET A) /\ Cardinality(SUBSET A) = 2^Cardinality(A)
    BY <1>1, FS_SUBSET
  <2>2. SUBSET A # {}
    OBVIOUS
  <2> QED
    BY <2>1, <2>2, FS_CardinalityType, FS_EmptySet
<1>2. ASSUME NEW A, NEW B, IsFiniteSet(B), A \subseteq B
      PROVE  2^Cardinality(A) <= 2^Cardinality(B)
  <2>1. IsFiniteSet(A) /\ SUBSET A \in SUBSET (SUBSET B)
    BY <1>2, FS_Subset
  <2>2. IsFiniteSet(SUBSET B) /\ Cardinality(SUBSET B) = 2^Cardinality(B)
    BY <1>2, FS_SUBSET
  <2>3. Cardinality(SUBSET A) = 2^Cardinality(A)
    BY <2>1, FS_SUBSET
  <2>4. Cardinality(SUBSET A) <= Cardinality(SUBSET B)
    BY <2>1, <2>2, FS_Subset
  <2> QED
    BY <2>2, <2>3, <2>4
<1>3. IsFiniteSet(S)
  BY FS_Subset
<1>4. ASSUME S # T PROVE 2 * 2^Cardinality(S) <= 2^Cardinality(T)
  <2>1. PICK x \in T : x \notin S
    BY <1>4
  <2>2. 2^Cardinality(S \cup {x}) = 2 * 2^Cardinality(S)
    BY <1>3, <2>1, PowerDoubles
  <2>3. S \cup {x} \subseteq T
    BY <2>1
  <2> QED
    BY <1>2, <2>2, <2>3
<1> QED
  BY <1>1, <1>2, <1>3, <1>4

LEMMA ContentionFinite ==
  ASSUME NEW t \in Threads
  PROVE  IsFiniteSet(Contention(t)) /\ IsFiniteSet(Contention(t)')
<1>1. IsFiniteSet(Threads \X (1..Increments))
  <2>1. IsFiniteSet(1..Increments)
    BY FS_Interval, IncrementsAssumption
  <2> QED
    BY <2>1, FS_Product, FiniteThreads
<1>2. /\ Contention(t) \in SUBSET (Threads \X (1..Increments))
      /\ Contention(t)' \in SUBSET (Threads \X (1..Increments))
  BY DEF Contention
<1> QED
  BY <1>1, <1>2, FS_Subset

(* What the steps of a thread are to the others: each leaves their pc and  *)
(* delay alone; only an acquisition sets lock_status, and counts.          *)
LEMMA OneStep ==
  ASSUME Inv, NEW t \in Threads, Act(t)
  PROVE  /\ prog' = prog
         /\ \A u \in Threads \ {t} :
              pc'[u] = pc[u] /\ done'[u] = done[u] /\ limit'[u] = limit[u]
         /\ pc \in [Threads -> {"lock", "done"} \cup Critical \cup Labels]
         /\ done \in [Threads -> 0..Increments]
         /\ limit \in [Threads -> Nat]
<1> USE DEF Inv, SpinTypeOK, WorkInv, WorkTypeOK
<1>1. limit \in [Threads -> Nat]
  BY ProgramFacts
<1>2. \A u \in Threads \ {t} : limit'[u] = limit[u]
  BY DEF Act, TestAndSet, SeeFree, WinCas, LoseCas, Delay, Unlock
<1>3. prog' = prog /\ \A u \in Threads \ {t} : pc'[u] = pc[u] /\ done'[u] = done[u]
  BY DEF Act, Work, ReadShared, WriteShared, TestAndSet, SeeFree, WinCas, LoseCas,
         Delay, Unlock, Leave, Step, Goto, workVars
<1> QED
  BY <1>1, <1>2, <1>3

LEMMA OnceThroughNext ==
  ASSUME Inv, OnceThrough, NEW t \in Threads, Act(t)
  PROVE  OnceThrough'
<1> USE OneStep
<1> SUFFICES ASSUME prog.once
             PROVE  /\ pc'[t] \in Labels \cup {"lock"} => done'[t] = 0
                    /\ pc'[t] = "unlock" => done'[t] = Increments
  BY DEF OnceThrough
<1>1. CASE Work(t)
  <2>1. Increments \in Nat /\ done[t] \in Nat
    BY IncrementsAssumption
  <2>2. pc[t] = "write" => done[t] < Increments
    BY DEF Inv, WorkInv, WorkLeft
  <2> QED
    BY <1>1, <2>1, <2>2 DEF Work, ReadShared, WriteShared, Step, Goto, Labels
<1>2. CASE TestAndSet(t) \/ SeeFree(t) \/ WinCas(t) \/ LoseCas(t) \/ Delay(t)
  BY <1>2 DEF OnceThrough, TestAndSet, SeeFree, WinCas, LoseCas, Delay, Step, Goto,
              workVars, Labels
<1>3. CASE Unlock(t)
  BY <1>3, IncrementsAssumption DEF OnceThrough, Unlock, Leave, Goto, workVars, Labels
<1> QED
  BY <1>1, <1>2, <1>3 DEF Act

(* The acquisitions are counted within the increments, none is forgotten,  *)
(* and the step out of lock() is one more.                                 *)
LEMMA AcquiredGrows ==
  ASSUME Inv, OnceThrough, NEW t \in Threads, Act(t), NEW u \in Threads
  PROVE  /\ Acquired(u) \in Nat
         /\ Acquired(u)' \in Acquired(u)..Increments
         /\ u = t /\ lock_status = 0 /\ lock_status' = 1 => Acquired(u)' = Acquired(u) + 1
<1> USE OneStep
<1>0. Increments \in Nat \ {0} /\ done[u] \in 0..Increments
  BY IncrementsAssumption
<1>1. pc[u] \in Labels \cup {"lock", "read", "write"} => done[u] < Increments
  BY DEF Inv, WorkInv, WorkLeft
<1>2. Acquired(u) \in 0..Increments
  BY <1>0, <1>1 DEF Acquired
<1>3. CASE u # t
  BY <1>2, <1>3, <1>0 DEF Acquired
<1>4. CASE u = t /\ Work(t)
  <2>1. lock_status' = lock_status
    BY <1>4 DEF Act, Work, ReadShared, WriteShared, TestAndSet, SeeFree, WinCas, LoseCas,
                Delay, Unlock, Step
  <2>2. CASE ReadShared(t)
    BY <2>1, <2>2, <1>0, <1>2, <1>4 DEF ReadShared, Step, Goto, Acquired, Critical
  <2>3. CASE WriteShared(t)
    BY <2>1, <2>3, <1>0, <1>1, <1>2, <1>4 DEF WriteShared, Goto, Acquired, Critical
  <2> QED
    BY <2>2, <2>3, <1>4 DEF Work
<1>5. CASE u = t /\ (TestAndSet(t) \/ WinCas(t))
  <2>1. pc[t] \in Labels \cup {"lock"} /\ pc'[t] = "read" /\ done' = done
    BY <1>5 DEF TestAndSet, WinCas, Step, Goto, workVars, Labels
  <2>2. prog.once => done[t] = 0
    BY <2>1 DEF OnceThrough
  <2> QED
    BY <1>0, <1>1, <1>2, <1>5, <2>1, <2>2 DEF Acquired, Critical, Labels
<1>6. CASE u = t /\ (SeeFree(t) \/ LoseCas(t) \/ Delay(t))
  <2>1. /\ pc[t] \in Labels \cup {"lock"} /\ pc'[t] \in Labels \cup {"lock"}
        /\ done' = done /\ lock_status' = lock_status
    BY <1>6 DEF SeeFree, LoseCas, Delay, Step, Goto, workVars, Labels
  <2> QED
    BY <1>0, <1>2, <1>6, <2>1 DEF Acquired, Critical, Labels
<1>7. CASE u = t /\ Unlock(t)
  <2>1. pc[t] = "unlock" /\ pc'[t] \in {"lock", "done"} /\ done' = done /\ lock_status' = 0
    BY <1>7 DEF Unlock, Leave, Goto, workVars
  <2>2. prog.once => done[t] = Increments
    BY <2>1 DEF OnceThrough
  <2> QED
    BY <1>0, <1>2, <1>7, <2>1, <2>2 DEF Acquired, Critical
<1> QED
  BY <1>3, <1>4, <1>5, <1>6, <1>7 DEF Act

\* The step that sets lock_status is an acquisition.
LEMMA ContentionGrows ==
  ASSUME Inv, OnceThrough, NEW t \in Threads, Act(t), NEW u \in Threads
  PROVE  /\ Contention(u) \subseteq Contention(u)'
         /\ u # t /\ lock_status = 0 /\ lock_status' = 1 => Contention(u) # Contention(u)'
<1>1. Increments \in Nat
  BY IncrementsAssumption
<1>2. \A v \in Threads : Acquired(v) \in Nat /\ Acquired(v)' \in Acquired(v)..Increments
  BY AcquiredGrows
<1>3. Contention(u) \subseteq Contention(u)'
  BY <1>1, <1>2 DEF Contention
<1>4. ASSUME u # t, lock_status = 0, lock_status' = 1
      PROVE  Contention(u) # Contention(u)'
  <2>1. Acquired(t)' = Acquired(t) + 1
    BY <1>4, AcquiredGrows
  <2>2. <<t, Acquired(t) + 1>> \in Contention(u)'
    BY <1>1, <1>2, <1>4, <2>1 DEF Contention
  <2>3. <<t, Acquired(t) + 1>> \notin Contention(u)
    BY <1>2 DEF Contention
  <2> QED
    BY <2>2, <2>3
<1> QED
  BY <1>3, <1>4

LEMMA DelayPaidNext ==
  ASSUME Inv, Inv', OnceThrough, DelayPaid, NEW t \in Threads, Act(t)
  PROVE  DelayPaid'
<1> SUFFICES ASSUME prog.min > 0, NEW u \in Threads
             PROVE  (IF Beaten(u)' THEN 2 ELSE 1) * limit'[u]
                      <= prog.min * 2^Cardinality(Contention(u)')
  BY OneStep DEF DelayPaid
<1> DEFINE before == 2^Cardinality(Contention(u))
           after == 2^Cardinality(Contention(u)')
<1>1. prog.min \in Nat /\ limit \in [Threads -> Nat]
  BY OneStep, ProgramFacts DEF Inv, SpinTypeOK
<1>2. (IF Beaten(u) THEN 2 ELSE 1) * limit[u] <= prog.min * before
  BY DEF DelayPaid
<1>3. /\ before \in Nat \ {0} /\ after \in Nat \ {0} /\ before <= after
      /\ u # t /\ lock_status = 0 /\ lock_status' = 1 => 2 * before <= after
  <2>1. IsFiniteSet(Contention(u)')
    BY ContentionFinite
  <2> QED
    BY <2>1, PowerGrows, ContentionGrows
<1> HIDE DEF before, after
<1>4. /\ prog.min * before \in Nat /\ prog.min * after \in Nat
      /\ prog.min <= prog.min * after /\ prog.min * before <= prog.min * after
  BY <1>1, <1>3
<1>5. lock_status \in {0, 1} /\ lock_status' \in {0, 1}
  BY DEF Inv, SpinTypeOK
<1>6. CASE u # t
  <2>1. pc'[u] = pc[u] /\ limit'[u] = limit[u]
    BY <1>6, OneStep
  <2>2. CASE lock_status = 0 /\ lock_status' = 1
    <3>1. prog.min * (2 * before) <= prog.min * after
      BY <1>1, <1>3, <1>6, <2>2
    <3>2. limit[u] <= prog.min * before
      BY <1>1, <1>2, <1>4
    <3>3. 2 * limit[u] <= prog.min * after
      BY <1>1, <1>3, <3>1, <3>2
    <3> QED
      BY <1>1, <1>4, <2>1, <3>3 DEF after
  <2>3. CASE ~(lock_status = 0 /\ lock_status' = 1)
    <3>1. Beaten(u)' => Beaten(u)
      BY <1>5, <2>1, <2>3 DEF Beaten
    <3> QED
      BY <1>1, <1>2, <1>3, <1>4, <2>1, <3>1 DEF after
  <2> QED
    BY <2>2, <2>3
<1>7. CASE u = t /\ ~Beaten(t)' /\ limit'[t] \in {limit[t], prog.min}
  BY <1>1, <1>2, <1>3, <1>4, <1>7 DEF after
<1>8. CASE u = t /\ Work(t) /\ UNCHANGED <<lock_status, limit>>
  <2>1. ~Beaten(t)'
    BY <1>8, OneStep DEF Work, ReadShared, WriteShared, Step, Goto, Beaten
  <2> QED
    BY <1>7, <1>8, <2>1
<1>9. CASE u = t /\ (TestAndSet(t) \/ SeeFree(t) \/ WinCas(t) \/ Unlock(t))
  <2>1. ~Beaten(t)'
    BY <1>9, OneStep DEF TestAndSet, SeeFree, WinCas, Unlock, Leave, Step, Goto, Beaten
  <2>2. limit'[t] \in {limit[t], prog.min}
    BY <1>1, <1>9 DEF TestAndSet, SeeFree, WinCas, Unlock
  <2> QED
    BY <1>7, <1>9, <2>1, <2>2
<1>10. CASE u = t /\ LoseCas(t)
  <2>1. Beaten(t) /\ limit' = limit
    BY <1>10 DEF LoseCas, Step, Beaten
  <2> QED
    BY <1>1, <1>2, <1>3, <1>4, <1>10, <2>1 DEF after
<1>11. CASE u = t /\ Delay(t)
  <2>1. Beaten(t) /\ ~Beaten(t)'
    <3>1. pc[t] = "delay" /\ pc'[t] = "lock"
      BY <1>11, OneStep DEF Delay, Step, Goto
    <3> QED
      BY <3>1 DEF Beaten
  <2>2. limit'[t] <= 2 * limit[t] /\ limit'[t] \in Nat
    <3>1. limit'[t] = Capped(2 * limit[t])
      BY <1>1, <1>11 DEF Delay
    <3>2. MaxDelay \in Nat
      BY ProgramFacts DEF Inv, SpinTypeOK
    <3> QED
      BY <1>1, <3>1, <3>2 DEF Capped
  <2> QED
    BY <1>1, <1>2, <1>3, <1>4, <1>11, <2>1, <2>2 DEF after
<1> QED
  BY <1>6, <1>8, <1>9, <1>10, <1>11 DEF Act

(* A thread's delay is at most its shortest one, doubled as often as other *)
(* threads have taken the lock, for any number of threads and increments   *)
(* and any two delays: who competes with nobody does not wait.             *)
THEOREM DelayIsPaidFor == Spec => []DelayNeedsContention
<1>1. Init => DelayInv
  <2> SUFFICES ASSUME Init PROVE DelayInv
    OBVIOUS
  <2>1. Inv
    BY InvInit
  <2>2. OnceThrough
    BY IncrementsAssumption DEF Init, WorkInit, OnceThrough
  <2>3. DelayPaid
    <3> SUFFICES ASSUME prog.min > 0, NEW t \in Threads
                 PROVE  (IF Beaten(t) THEN 2 ELSE 1) * limit[t]
                          <= prog.min * 2^Cardinality(Contention(t))
      BY DEF DelayPaid
    <3>1. ~Beaten(t) /\ limit[t] = prog.min /\ prog.min \in Nat
      BY ProgramFacts DEF Init, WorkInit, Beaten
    <3>2. 2^Cardinality(Contention(t)) \in Nat \ {0}
      BY ContentionFinite, PowerGrows
    <3> QED
      BY <3>1, <3>2
  <2> QED
    BY <2>1, <2>2, <2>3 DEF DelayInv
<1>2. DelayInv /\ [Next]_vars => DelayInv'
  <2> SUFFICES ASSUME DelayInv, [Next]_vars PROVE DelayInv'
    OBVIOUS
  <2> USE DEF DelayInv
  <2>1. Inv'
    BY InvNext
  <2>2. CASE UNCHANGED vars
    BY <2>1, <2>2
    DEF vars, workVars, OnceThrough, DelayPaid, Beaten, Contention, Acquired
  <2> QED
    BY <2>1, <2>2, OnceThroughNext, DelayPaidNext DEF Next, Joined
<1>3. DelayInv => DelayNeedsContention
  <2> SUFFICES ASSUME DelayInv, prog.min > 0, NEW t \in Threads
               PROVE  limit[t] <= prog.min * 2^Cardinality(Contention(t))
    BY DEF DelayNeedsContention
  <2>1. (IF Beaten(t) THEN 2 ELSE 1) * limit[t] <= prog.min * 2^Cardinality(Contention(t))
    BY DEF DelayInv, DelayPaid
  <2>2. prog.min \in Nat /\ limit[t] \in Nat
    BY ProgramFacts DEF DelayInv, Inv, SpinTypeOK
  <2>3. 2^Cardinality(Contention(t)) \in Nat
    BY ContentionFinite, PowerGrows
  <2> QED
    BY <2>1, <2>2, <2>3
<1> QED
  BY <1>1, <1>2, <1>3, PTL DEF Spec
-----------------------------------------------------------------------------
(* Peterson's lock excludes, for every number of increments, when lock()   *)
(* makes the calling thread the victim, as "Spin Locks/PetersonLock" does, *)
(* and the memory is sequentially consistent.                              *)
(*                                                                         *)
(* The invariant says what a thread inside knows of the other one: it is   *)
(* not in its loop yet, or it is there and is the victim.                  *)

CONSTANT PetersonPrograms
VARIABLES flags, victim

Peterson == INSTANCE Peterson WITH Programs <- PetersonPrograms

\* What Peterson assumes of its constants, and that the caller is the victim.
PetersonAssumption ==
  /\ Threads = {0, 1}
  /\ PetersonPrograms \subseteq [once : BOOLEAN, self : BOOLEAN]
  /\ \A p \in PetersonPrograms : p.self

PetersonLabels == {"victim", "flag?", "victim?"}

\* A flag is up from lock() to unlock() and at no other time.
FlagsUp == flags = [t \in Threads |-> pc[t] \notin {"lock", "done"}]

\* The other thread is kept out of the critical section that t is in.
KeptOut ==
  \A t \in Threads : pc[t] \in Critical =>
    \/ pc[Peterson!Other(t)] \in {"lock", "victim", "done"}
    \/ pc[Peterson!Other(t)] \in {"flag?", "victim?"} /\ victim = Peterson!Other(t)

PetersonInv == /\ prog \in PetersonPrograms
               /\ victim \in Threads
               /\ WorkInv(PetersonLabels, {})
               /\ FlagsUp
               /\ KeptOut

LEMMA OtherFacts ==
  ASSUME PetersonAssumption, NEW t \in Threads
  PROVE  /\ Peterson!Other(t) \in Threads
         /\ Peterson!Other(t) # t
         /\ Peterson!Other(Peterson!Other(t)) = t
         /\ \A u \in Threads : u = t \/ u = Peterson!Other(t)
BY DEF PetersonAssumption, Peterson!Other

LEMMA PetersonLabelled == Labelled(PetersonLabels, {})
BY DEF Labelled, PetersonLabels, Critical

(* What the instance has of the thread function is the thread function.    *)
LEMMA SameWorker ==
  /\ Peterson!WorkInit <=> WorkInit
  /\ \A labels : WorkTypeOK(labels) => Peterson!WorkTypeOK(labels)
  /\ \A t : Peterson!Work(t) <=> Work(t)
  /\ \A t, to : Peterson!Goto(t, to) <=> Goto(t, to)
  /\ \A t, from, to : Peterson!Step(t, from, to) <=> Step(t, from, to)
  /\ \A t : Peterson!Leave(t) <=> Leave(t)
  /\ UNCHANGED Peterson!workVars <=> UNCHANGED workVars
  /\ Peterson!Inside = Inside
BY DEF Peterson!WorkInit, WorkInit, Peterson!WorkTypeOK, WorkTypeOK,
       Peterson!Work, Work, Peterson!ReadShared, ReadShared,
       Peterson!WriteShared, WriteShared, Peterson!Goto, Goto, Peterson!Step, Step,
       Peterson!Leave, Leave, Peterson!workVars, workVars,
       Peterson!Inside, Inside, Peterson!Critical, Critical

LEMMA PetersonStart ==
  ASSUME PetersonAssumption, Peterson!Init
  PROVE  PetersonInv /\ Abstract!Init
<1>1. WorkInv(PetersonLabels, {}) /\ Inside = {} /\ Abstract!Init
  BY WorkStart, PetersonLabelled, SameWorker DEF Peterson!Init
<1>2. FlagsUp /\ KeptOut
  BY SameWorker DEF Peterson!Init, WorkInit, FlagsUp, KeptOut, Critical
<1>3. victim \in Threads
  BY DEF Peterson!Init, PetersonAssumption
<1> QED
  BY <1>1, <1>2, <1>3 DEF PetersonInv, Peterson!Init

(* Every step keeps the invariant and is a step of the abstract counter or *)
(* changes nothing there.                                                  *)
LEMMA PetersonStep ==
  ASSUME PetersonAssumption, PetersonInv, [Peterson!Next]_(Peterson!vars)
  PROVE  PetersonInv' /\ [Abstract!Next]_(Abstract!vars)
<1> USE DEF PetersonInv
<1>0. /\ prog.once \in BOOLEAN
      /\ pc \in [Threads -> {"lock", "done"} \cup Critical \cup PetersonLabels]
  BY DEF PetersonAssumption, WorkInv, WorkTypeOK
<1>1. ASSUME NEW t \in Threads, Peterson!Act(t)
      PROVE  PetersonInv' /\ [Abstract!Next]_(Abstract!vars)
    \* Two kinds of lock() steps, told apart by where they lead.
  <2>1. ASSUME NEW to \in PetersonLabels, pc[t] \in PetersonLabels \cup {"lock"}, Goto(t, to),
               UNCHANGED workVars, victim' \in Threads, FlagsUp', KeptOut'
        PROVE  PetersonInv' /\ [Abstract!Next]_(Abstract!vars)
    <3>1. WorkInv(PetersonLabels, {})' /\ UNCHANGED Abstract!vars
      BY <2>1, PetersonLabelled, OutsideStep
    <3> QED
      BY <2>1, <3>1 DEF workVars
  <2>2. ASSUME pc[t] \in PetersonLabels, Goto(t, "read"), UNCHANGED workVars,
               UNCHANGED <<flags, victim>>,
               \/ pc[Peterson!Other(t)] \in {"lock", "done"}
               \/ pc[Peterson!Other(t)] = "victim"
               \/ pc[Peterson!Other(t)] \in {"flag?", "victim?"} /\ victim = Peterson!Other(t)
        PROVE  PetersonInv' /\ [Abstract!Next]_(Abstract!vars)
    <3>1. Inside = {}
      BY <2>2, OtherFacts DEF Inside, PetersonLabels, Critical
    <3>2. WorkInv(PetersonLabels, {})' /\ Abstract!Enter(t)
      BY <2>2, <3>1, PetersonLabelled, EnterStep
    <3>3. FlagsUp'
      BY <2>2, <1>0 DEF Goto, FlagsUp, PetersonLabels
    <3>4. KeptOut'
      BY <2>2, <3>1, <1>0, OtherFacts DEF Goto, KeptOut, Inside, Critical
    <3> QED
      BY <2>2, <3>2, <3>3, <3>4 DEF workVars, Abstract!Next
  <2> USE OtherFacts, SameWorker
  <2>3. CASE Work(t) /\ UNCHANGED <<flags, victim>>
    <3>1. WorkInv(PetersonLabels, {})' /\ (Abstract!Increment(t) \/ UNCHANGED Abstract!vars)
      BY <2>3, <1>0, PetersonLabelled, WorkStep
    <3>2. prog' = prog /\ FlagsUp' /\ KeptOut'
      BY <2>3, <1>0 DEF Work, ReadShared, WriteShared, Step, Goto,
                        FlagsUp, KeptOut, Critical
    <3> QED
      BY <2>3, <3>1, <3>2 DEF Abstract!Next
  <2>4. CASE Peterson!SetFlag(t)
    <3>1. FlagsUp' /\ KeptOut'
      BY <2>4, <1>0
      DEF Peterson!SetFlag, Peterson!Step, Peterson!Goto, FlagsUp, KeptOut, Critical
    <3> QED
      BY <2>4, <3>1, <2>1 DEF Peterson!SetFlag, Step, PetersonLabels
  <2>5. CASE Peterson!SetVictim(t)
    <3>1. victim' = t
      BY <2>5 DEF Peterson!SetVictim, Peterson!VictimOf, PetersonAssumption
    <3>2. FlagsUp' /\ KeptOut'
      BY <2>5, <3>1, <1>0
      DEF Peterson!SetVictim, Step, Goto, FlagsUp, KeptOut, Critical
    <3> QED
      BY <2>5, <3>1, <3>2, <2>1 DEF Peterson!SetVictim, Step, PetersonLabels
  <2>6. CASE Peterson!TestFlag(t)
    <3>1. CASE flags[Peterson!Other(t)]
      <4>1. FlagsUp' /\ KeptOut'
        BY <2>6, <3>1, <1>0 DEF Peterson!TestFlag, Step, Goto, FlagsUp, KeptOut, Critical
      <4> QED
        BY <2>6, <3>1, <4>1, <2>1 DEF Peterson!TestFlag, Step, PetersonLabels
    <3>2. CASE ~flags[Peterson!Other(t)]
      <4>1. pc[Peterson!Other(t)] \in {"lock", "done"}
        BY <3>2 DEF FlagsUp
      <4> QED
        BY <2>6, <3>2, <4>1, <2>2 DEF Peterson!TestFlag, Step, PetersonLabels
    <3> QED
      BY <3>1, <3>2
  <2>7. CASE Peterson!TestVictim(t)
    <3>1. CASE victim = t
      <4>1. FlagsUp' /\ KeptOut'
        BY <2>7, <3>1, <1>0
        DEF Peterson!TestVictim, Step, Goto, FlagsUp, KeptOut, Critical
      <4> QED
        BY <2>7, <3>1, <4>1, <2>1 DEF Peterson!TestVictim, Step, PetersonLabels
    <3>2. CASE victim # t
      <4>1. victim = Peterson!Other(t)
        BY <3>2
      <4>2. pc[Peterson!Other(t)] \notin Critical
        BY <2>7, <4>1 DEF Peterson!TestVictim, Step, KeptOut
      <4>3. \/ pc[Peterson!Other(t)] \in {"lock", "done"}
            \/ pc[Peterson!Other(t)] = "victim"
            \/ pc[Peterson!Other(t)] \in {"flag?", "victim?"} /\ victim = Peterson!Other(t)
        BY <4>1, <4>2, <1>0 DEF PetersonLabels
      <4> QED
        BY <2>7, <3>2, <4>3, <2>2 DEF Peterson!TestVictim, Step, PetersonLabels
    <3> QED
      BY <3>1, <3>2
  <2>8. CASE Peterson!Unlock(t)
    <3>1. WorkInv(PetersonLabels, {})' /\ Abstract!Exit(t)
      BY <2>8, PetersonLabelled, ExitStep DEF Peterson!Unlock
    <3>2. FlagsUp' /\ KeptOut'
      BY <2>8, <1>0
      DEF Peterson!Unlock, Peterson!Leave, Peterson!Goto, FlagsUp, KeptOut, Critical
    <3> QED
      BY <2>8, <3>1, <3>2 DEF Peterson!Unlock, workVars, Abstract!Next
  <2> QED
    BY <1>1, <2>3, <2>4, <2>5, <2>6, <2>7, <2>8 DEF Peterson!Act
<1>2. CASE UNCHANGED Peterson!vars
  <2>1. WorkInv(PetersonLabels, {})' /\ Inside' = Inside /\ UNCHANGED Abstract!vars
    BY <1>2, WorkStutter, SameWorker DEF Peterson!vars
  <2>2. PetersonInv'
    BY <1>2, <2>1, SameWorker DEF Peterson!vars, workVars, FlagsUp, KeptOut
  <2> QED
    BY <2>1, <2>2
<1> QED
  BY <1>1, <1>2 DEF Peterson!Next, Peterson!Joined

(* Types, and each flag up exactly from lock() to unlock().                *)
THEOREM PetersonTypes ==
  ASSUME PetersonAssumption
  PROVE  Peterson!Spec => []Peterson!TypeOK
<1>1. PetersonInv => Peterson!TypeOK
  BY SameWorker DEF PetersonInv, WorkInv, Peterson!TypeOK, FlagsUp, PetersonLabels
<1>2. Peterson!Init => PetersonInv
  BY PetersonStart
<1> QED
  BY <1>1, <1>2, PetersonStep, PTL DEF Peterson!Spec

(* The two threads are never in the critical section together.             *)
THEOREM PetersonExcludes ==
  ASSUME PetersonAssumption
  PROVE  Peterson!Spec => []MutualExclusion
<1>1. PetersonInv => MutualExclusion
  BY DEF PetersonInv, WorkInv
<1>2. Peterson!Init => PetersonInv
  BY PetersonStart
<1> QED
  BY <1>1, <1>2, PetersonStep, PTL DEF Peterson!Spec

(* When main() has joined the threads, shared_value holds every increment  *)
(* of every one of them.                                                   *)
THEOREM PetersonCounts ==
  ASSUME PetersonAssumption
  PROVE  Peterson!Spec => []NothingLost
<1>1. PetersonInv => NothingLost
  BY CountAll DEF PetersonInv, WorkInv
<1>2. Peterson!Init => PetersonInv
  BY PetersonStart
<1> QED
  BY <1>1, <1>2, PetersonStep, PTL DEF Peterson!Spec

(* A thread that is in its loop is not overtaken by the victim: in every   *)
(* step the victim finds the other's flag up and itself the victim.        *)
THEOREM VictimWaits ==
  ASSUME PetersonAssumption
  PROVE  Peterson!Spec => Peterson!NoOvertaking
<1> DEFINE Overtakes(t, u) == /\ u = Peterson!Other(t)
                              /\ pc[t] \in {"flag?", "victim?"}
                              /\ victim = u
                              /\ u \notin Inside /\ u \in Inside'
<1>1. ASSUME PetersonInv, [Peterson!Next]_(Peterson!vars),
             NEW t \in Threads, NEW u \in Threads, Overtakes(t, u)
      PROVE  FALSE
  <2> USE <1>1 DEF PetersonInv
  <2>0. pc \in [Threads -> {"lock", "done"} \cup Critical \cup PetersonLabels]
    BY DEF WorkInv, WorkTypeOK
  <2>1. pc'[u] # pc[u] /\ pc[u] \notin Critical /\ pc'[u] \in Critical
    BY DEF Inside
  <2>2. PICK v \in Threads : Peterson!Act(v)
    BY <2>1 DEF Peterson!Next, Peterson!Joined, Peterson!vars
  <2> USE DEF Peterson!Act, Peterson!Work, Peterson!ReadShared, Peterson!WriteShared,
              Peterson!SetFlag, Peterson!SetVictim, Peterson!TestFlag, Peterson!TestVictim,
              Peterson!Unlock, Peterson!Leave, Peterson!Step, Peterson!Goto
  <2>3. v = u
    BY <2>0, <2>1, <2>2
  <2>4. flags[Peterson!Other(u)] /\ victim = u
    BY OtherFacts DEF FlagsUp
  <2> QED
    BY <2>0, <2>1, <2>2, <2>3, <2>4 DEF Critical
<1>2. ASSUME PetersonInv, [Peterson!Next]_(Peterson!vars)
      PROVE  \A t, u \in Threads :
               /\ u = Peterson!Other(t)
               /\ pc[t] \in {"flag?", "victim?"}
               /\ victim = u
               => ~(u \notin Peterson!Inside /\ u \in Peterson!Inside')
  BY <1>1, <1>2, SameWorker DEF Peterson!Inside, Inside, Peterson!Critical, Critical
<1>3. Peterson!Init => PetersonInv
  BY PetersonStart
<1>4. PetersonInv /\ [Peterson!Next]_(Peterson!vars) => PetersonInv'
  BY PetersonStep
<1> QED
  BY <1>2, <1>3, <1>4, PTL DEF Peterson!Spec, Peterson!NoOvertaking

(* The program implements the counter with atomic increments.              *)
THEOREM PetersonRefines ==
  ASSUME PetersonAssumption
  PROVE  Peterson!Spec => ImplementsLockedCounter
<1>1. Peterson!Init => PetersonInv /\ Abstract!Init
  BY PetersonStart
<1> QED
  BY <1>1, PetersonStep, PTL DEF Peterson!Spec, ImplementsLockedCounter, Abstract!Spec
=============================================================================
