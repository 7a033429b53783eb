---------------------------- MODULE QueuedWorker ----------------------------
(***************************************************************************)
(* The thread function under a queue lock (array lock, CLH, MCS).  One     *)
(* atomic instruction of lock() decides a thread's place in the queue: a   *)
(* fetch-and-add, an exchange, or a compare-and-swap on the tail.  The     *)
(* history variables queued and ahead record what it decided; no step of   *)
(* the programs depends on them.                                           *)
(***************************************************************************)
EXTENDS Worker

VARIABLES queued,   \* the threads between that instruction and their release
          ahead     \* for each of them, those that queued before it

queueVars == <<queued, ahead>>

QueueInit == queued = {} /\ ahead = [t \in Threads |-> {}]

\* t takes its place at the end of the queue.
Join(t) == /\ queued' = queued \cup {t}
           /\ ahead' = [ahead EXCEPT ![t] = queued]

\* t hands the lock on.
Depart(t) == /\ queued' = queued \ {t}
             /\ ahead' = [u \in Threads |-> ahead[u] \ {t}]

(* The lock is granted in the order of the queue: nobody who queued before *)
(* the thread inside is still waiting.                                     *)
FirstComeFirstServed == \A t \in Inside : t \in queued /\ ahead[t] = {}
=============================================================================
