------------------------------- MODULE TOLock -------------------------------
(***************************************************************************)
(* The timeout queue lock of "Queue Locks/TOLock".  Like CLH, a thread     *)
(* exchanges the tail for its node and spins on its predecessor's, until   *)
(* the predecessor's pred is AVAILABLE; but a thread whose patience ends   *)
(* gives up: it takes its node off the tail, or, when somebody has queued  *)
(* behind it, makes its own pred AVAILABLE.  Every thread locks once, so a *)
(* node is named by its thread.  Time is abstracted: a thread may give up  *)
(* in any state in which it waits.                                         *)
(***************************************************************************)
EXTENDS QueuedWorker

CONSTANTS Impatient,    \* the threads that may run out of patience
          AVAILABLE,    \* the address of AVAILABLE_NODE
          NULL

ASSUME ImpatientAssumption == Impatient \subseteq Threads
ASSUME NodeAssumption == AVAILABLE \notin Threads /\ NULL \notin Threads \cup {AVAILABLE}

VARIABLES tail,             \* the last node, or AVAILABLE
          pred,             \* each node's field pred
          pred_to_wait_on   \* the node each thread spins on

nodeVars == <<tail, pred, pred_to_wait_on>>
vars == <<workVars, pc, queueVars, nodeVars>>

Init == /\ prog = [once |-> TRUE]
        /\ WorkInit
        /\ QueueInit
        /\ tail = AVAILABLE
        /\ pred = [t \in Threads |-> NULL]
        /\ pred_to_wait_on = [t \in Threads |-> NULL]

\* atomic_exchange(&lock->tail, current).  The store of NULL before it finds
\* the pred of a new node NULL already.
Exchange(t) == /\ Step(t, "lock", IF tail = AVAILABLE THEN "read" ELSE "poll")
               /\ tail' = t
               /\ pred_to_wait_on' = [pred_to_wait_on EXCEPT ![t] = tail]
               /\ Join(t)
               /\ UNCHANGED <<workVars, pred>>

\* An iteration of the loop that finds a pred: the lock's, or a further node
\* to wait on.
Poll(t) == /\ pc[t] = "poll"
           /\ LET predPred == pred[pred_to_wait_on[t]] IN
                /\ predPred # NULL
                /\ IF predPred = AVAILABLE
                   THEN Goto(t, "read") /\ UNCHANGED pred_to_wait_on
                   ELSE /\ pred_to_wait_on' = [pred_to_wait_on EXCEPT ![t] = predPred]
                        /\ UNCHANGED pc
           /\ UNCHANGED <<workVars, queueVars, tail, pred>>

\* The loop ends with the thread's patience.
TimeOut(t) == /\ t \in Impatient
              /\ Step(t, "poll", "give up")
              /\ UNCHANGED <<workVars, queueVars, nodeVars>>

\* Mutant: the tail is reset to AVAILABLE instead of the predecessor.
WithdrawAll(t) == /\ Step(t, "give up", "done")
                  /\ tail = t
                  /\ tail' = AVAILABLE
                  /\ Depart(t)
                  /\ UNCHANGED <<workVars, pred, pred_to_wait_on>>

\* The compare-and-swap finds the thread last in the queue: the next one will
\* wait on the predecessor.
Withdraw(t) == /\ Step(t, "give up", "done")
               /\ tail = t
               /\ tail' = pred_to_wait_on[t]
               /\ Depart(t)
               /\ UNCHANGED <<workVars, pred, pred_to_wait_on>>

\* Somebody has queued behind the thread.
WithdrawFails(t) == /\ Step(t, "give up", "abandon")
                    /\ tail # t
                    /\ UNCHANGED <<workVars, queueVars, nodeVars>>

\* atomic_store(&current->pred, AVAILABLE), and lock() returns 0.
Abandon(t) == /\ Step(t, "abandon", "done")
              /\ pred' = [pred EXCEPT ![t] = AVAILABLE]
              /\ Depart(t)
              /\ UNCHANGED <<workVars, tail, pred_to_wait_on>>

\* un_lock() of the last thread in the queue.
Release(t) == /\ pc[t] = "unlock"
              /\ tail = t
              /\ tail' = AVAILABLE
              /\ Leave(t)
              /\ Depart(t)
              /\ UNCHANGED <<workVars, pred, pred_to_wait_on>>

ReleaseFails(t) == /\ Step(t, "unlock", "hand on")
                   /\ tail # t
                   /\ UNCHANGED <<workVars, queueVars, nodeVars>>

\* Mutant: nothing is stored for the successor.
ForgetSuccessor(t) == /\ pc[t] = "hand on"
                      /\ Leave(t)
                      /\ Depart(t)
                      /\ UNCHANGED <<workVars, nodeVars>>

\* un_lock() with a successor: atomic_store(&qnode->pred, AVAILABLE)
HandOn(t) == /\ pc[t] = "hand on"
             /\ pred' = [pred EXCEPT ![t] = AVAILABLE]
             /\ Leave(t)
             /\ Depart(t)
             /\ UNCHANGED <<workVars, tail, pred_to_wait_on>>

Act(t) == \/ Work(t) /\ UNCHANGED <<queueVars, nodeVars>>
          \/ Exchange(t)  \/ Poll(t)     \/ Withdraw(t)      \/ WithdrawFails(t)
          \/ Abandon(t)   \/ Release(t)  \/ ReleaseFails(t)  \/ HandOn(t)

Joined == AllDone /\ UNCHANGED vars

Next == (\E t \in Threads : Act(t) \/ TimeOut(t)) \/ Joined

\* Each thread goes on running; nobody has to lose patience.
Fairness == \A t \in Threads : WF_vars(Act(t))

Spec == Init /\ [][Next]_vars
FairSpec == Spec /\ Fairness

-----------------------------------------------------------------------------
\* The threads that gave up with somebody queued behind them.
Abandoned == {t \in Threads : /\ pc[t] = "done" /\ done[t] = 0
                              /\ pred[t] = AVAILABLE}

(* A thread that gives up last in the queue harms nobody, and one that     *)
(* gives up in the middle lets in its successor and no more.               *)
OneIntruderEach == Cardinality(Inside) <= 1 + Cardinality(Abandoned)

(* Whoever gave up, and whenever, the lock is left free: the next thread   *)
(* to call lock() would find AVAILABLE at the tail or behind it.           *)
LeftFree == AllDone => tail = AVAILABLE \/ pred[tail] = AVAILABLE
=============================================================================
