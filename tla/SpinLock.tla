------------------------------ MODULE SpinLock ------------------------------
(***************************************************************************)
(* The test-and-set locks: TAS, test-and-test-and-set, and TATAS with      *)
(* exponential back-off.  Nine programs, told apart by                     *)
(*   tests   lock() spins reading lock_status before it tries to set it;   *)
(*   min     the shortest back-off delay (MINDELAY); 0: no back-off;       *)
(*   resets  unlock() sets the delay back to min as well.                  *)
(* A failed attempt changes nothing but the thread's own delay, so an      *)
(* iteration that spins is no step: the step that leaves the loop has the  *)
(* loop's exit condition as its guard.  The __sync builtins are full       *)
(* barriers and are taken to be atomic.                                    *)
(***************************************************************************)
EXTENDS Worker

CONSTANTS Programs,     \* the programs a behaviour may run
          MaxDelay      \* MAXDELAY: 10000 in all of them

ASSUME ProgramsAssumption ==
         Programs \subseteq [once : BOOLEAN, tests : BOOLEAN,
                             min : Nat, resets : BOOLEAN]
ASSUME DelayAssumption ==
         /\ MaxDelay \in Nat
         /\ \A p \in Programs : p.min <= MaxDelay

VARIABLES lock_status,  \* 0: free, 1: held
          limit         \* each thread's BackOff.limit

vars == <<workVars, pc, lock_status, limit>>

Init == /\ prog \in Programs
        /\ WorkInit
        /\ lock_status = 0
        /\ limit = [t \in Threads |-> prog.min]

\* __sync_lock_test_and_set returned 0.
TestAndSet(t) == /\ ~prog.tests
                 /\ Step(t, "lock", "read")
                 /\ lock_status = 0
                 /\ lock_status' = 1
                 /\ UNCHANGED <<workVars, limit>>

\* Mutant: no reading loop, each attempt goes straight to the CAS.
SeeAny(t) == /\ prog.tests
             /\ Step(t, "lock", "cas")
             /\ UNCHANGED <<workVars, lock_status, limit>>

\* The reading loop saw the lock free.
SeeFree(t) == /\ prog.tests
              /\ Step(t, "lock", "cas")
              /\ lock_status = 0
              /\ UNCHANGED <<workVars, lock_status, limit>>

\* Mutant: a plain store where the code compares and swaps.
BlindWinCas(t) == /\ Step(t, "cas", "read")
                  /\ lock_status' = 1
                  /\ limit' = [limit EXCEPT ![t] = prog.min]
                  /\ UNCHANGED workVars

\* The compare-and-swap finds the lock still free.
WinCas(t) == /\ Step(t, "cas", "read")
             /\ lock_status = 0
             /\ lock_status' = 1
             /\ limit' = [limit EXCEPT ![t] = prog.min]
             /\ UNCHANGED workVars

\* Another thread took the lock since SeeFree.
LoseCas(t) == /\ Step(t, "cas", IF prog.min > 0 THEN "delay" ELSE "lock")
              /\ lock_status = 1
              /\ UNCHANGED <<workVars, lock_status, limit>>

\* Mutant: the delay doubles without a bound.
Uncapped(n) == n

Capped(n) == IF n < MaxDelay THEN n ELSE MaxDelay

\* Sleep rand() % limit microseconds, then double the limit up to MaxDelay.
Delay(t) == /\ Step(t, "delay", "lock")
            /\ limit' = [limit EXCEPT ![t] = Capped(2 * @)]
            /\ UNCHANGED <<workVars, lock_status>>

\* __sync_lock_release.  Only some of the programs reset the delay here.
Unlock(t) == /\ pc[t] = "unlock"
             /\ Leave(t)
             /\ lock_status' = 0
             /\ limit' = IF prog.resets
                         THEN [limit EXCEPT ![t] = prog.min] ELSE limit
             /\ UNCHANGED workVars

Act(t) == \/ Work(t) /\ UNCHANGED <<lock_status, limit>>
          \/ TestAndSet(t)
          \/ SeeFree(t)
          \/ WinCas(t)
          \/ LoseCas(t)
          \/ Delay(t)
          \/ Unlock(t)

Joined == AllDone /\ UNCHANGED vars

Next == (\E t \in Threads : Act(t)) \/ Joined

Spec == Init /\ [][Next]_vars

-----------------------------------------------------------------------------
(* The programs, by the features above. *)

TAS(once) == [once |-> once, tests |-> FALSE, min |-> 0, resets |-> FALSE]
TATAS(once) == [once |-> once, tests |-> TRUE, min |-> 0, resets |-> FALSE]
BackOff(once, min, resets) ==
  [once |-> once, tests |-> TRUE, min |-> min, resets |-> resets]

TAS_SpinLocks == TAS(TRUE)
TAS_Three3 == TAS(FALSE)
TAS_Again2 == TAS(FALSE)
TATAS_SpinLocks == TATAS(TRUE)
TATAS_Three3 == TATAS(FALSE)
TATAS_Again2 == TATAS(FALSE)
BackOff_SpinLocks == BackOff(TRUE, 10, FALSE)
BackOff_Three3 == BackOff(FALSE, 10, TRUE)
BackOff_Again2 == BackOff(FALSE, 100, TRUE)

AllSpinLocks == {TAS_SpinLocks, TAS_Three3, TAS_Again2,
                 TATAS_SpinLocks, TATAS_Three3, TATAS_Again2,
                 BackOff_SpinLocks, BackOff_Three3, BackOff_Again2}

-----------------------------------------------------------------------------
(* The delay is never 0 in a program that backs off (rand() % limit) and   *)
(* never beyond MAXDELAY.                                                  *)
TypeOK == /\ prog \in Programs
          /\ WorkTypeOK({"cas", "delay"})
          /\ lock_status \in {0, 1}
          /\ limit \in [Threads -> prog.min..MaxDelay]

\* How often a thread has come out of lock() so far.
Acquired(t) ==
  IF prog.once THEN IF done[t] > 0 \/ pc[t] \in Critical THEN 1 ELSE 0
  ELSE done[t] + (IF pc[t] \in {"read", "write"} THEN 1 ELSE 0)

\* The acquisitions of the other threads, each by its thread and number.
Contention(t) ==
  {a \in (Threads \ {t}) \X (1..Increments) : a[2] <= Acquired(a[1])}

(* Back-off is paid for by progress: a thread's k-th doubling in a row     *)
(* took k acquisitions by other threads, so a thread that competes with    *)
(* nobody never waits, and the delay cannot run away on its own.           *)
DelayNeedsContention ==
  prog.min > 0 =>
    \A t \in Threads : limit[t] <= prog.min * 2^Cardinality(Contention(t))
=============================================================================
