------------------------------ MODULE MCSLock -------------------------------
(***************************************************************************)
(* The MCS queue lock.  A thread puts its node at the tail by compare-and- *)
(* swap, links it to the predecessor's node and spins on its own; unlock() *)
(* takes the node off an otherwise empty queue, or wakes the successor.    *)
(* Each thread has one node all its life, so a node is named by its thread.*)
(* Between the compare-and-swap that queues a successor and the store that *)
(* links it, next is still NULL: main2.c waits for the link (prog.waits),  *)
(* the four other programs go on and dereference next.                     *)
(***************************************************************************)
EXTENDS QueuedWorker

CONSTANTS Programs,
          NULL

ASSUME ProgramsAssumption == Programs \subseteq [once : BOOLEAN, waits : BOOLEAN]
ASSUME NullAssumption == NULL \notin Threads

VARIABLES tail,    \* the last node in the queue, or NULL
          next,    \* each node's link to its successor
          lock,    \* each node's flag: TRUE while the owner must wait
          pred     \* the tail that each thread last read

nodeVars == <<tail, next, lock, pred>>
vars == <<workVars, pc, queueVars, nodeVars>>

Init == /\ prog \in Programs
        /\ WorkInit
        /\ QueueInit
        /\ tail = NULL
        /\ next = [t \in Threads |-> NULL]
        /\ lock = [t \in Threads |-> TRUE]
        /\ pred = [t \in Threads |-> NULL]

\* get_node(): lock = 1 and next = NULL; no other thread knows the node yet.
Prepare(t) == /\ Step(t, "lock", "tail")
              /\ lock' = [lock EXCEPT ![t] = TRUE]
              /\ next' = [next EXCEPT ![t] = NULL]
              /\ UNCHANGED <<workVars, queueVars, tail, pred>>

\* pred_node = tail, before the compare-and-swap and after it failed.
ReadTail(t) == /\ Step(t, "tail", "cas")
               /\ pred' = [pred EXCEPT ![t] = tail]
               /\ UNCHANGED <<workVars, queueVars, tail, next, lock>>

\* Mutant: the tail is stored whether or not it has changed.
BlindEnqueue(t) == /\ Step(t, "cas", IF pred[t] = NULL THEN "read" ELSE "link")
                   /\ tail' = t
                   /\ Join(t)
                   /\ UNCHANGED <<workVars, next, lock, pred>>

\* The compare-and-swap succeeds; an empty queue lets the thread in at once.
Enqueue(t) == /\ Step(t, "cas", IF pred[t] = NULL THEN "read" ELSE "link")
              /\ tail = pred[t]
              /\ tail' = t
              /\ Join(t)
              /\ UNCHANGED <<workVars, next, lock, pred>>

\* The compare-and-swap fails.
EnqueueFails(t) == /\ Step(t, "cas", "tail")
                   /\ tail # pred[t]
                   /\ UNCHANGED <<workVars, queueVars, nodeVars>>

\* Mutant: the successor stores the link in its own node.
LinkBackwards(t) == /\ Step(t, "link", "spin")
                    /\ next' = [next EXCEPT ![t] = pred[t]]
                    /\ UNCHANGED <<workVars, queueVars, tail, lock, pred>>

\* pred_node->next = current_node
Link(t) == /\ Step(t, "link", "spin")
           /\ next' = [next EXCEPT ![pred[t]] = t]
           /\ UNCHANGED <<workVars, queueVars, tail, lock, pred>>

\* The spinning loop sees its own lock = 0.
Go(t) == /\ Step(t, "spin", "read")
         /\ ~lock[t]
         /\ UNCHANGED <<workVars, queueVars, nodeVars>>

\* unlock(): if (current_node->next == NULL)
TestNext(t) == /\ Step(t, "unlock", IF next[t] = NULL THEN "release" ELSE "wake")
               /\ UNCHANGED <<workVars, queueVars, nodeVars>>

\* Mutant: the tail is stored whether or not a successor has queued.
BlindRelease(t) == /\ pc[t] = "release"
                   /\ tail' = NULL
                   /\ Leave(t)
                   /\ Depart(t)
                   /\ UNCHANGED <<workVars, next, lock, pred>>

\* The node is the only one: compare-and-swap the tail back to NULL.
Release(t) == /\ pc[t] = "release"
              /\ tail = t
              /\ tail' = NULL
              /\ Leave(t)
              /\ Depart(t)
              /\ UNCHANGED <<workVars, next, lock, pred>>

\* Mutant: nobody waits for the link.
NoWait(t) == /\ Step(t, "release", "wake")
             /\ tail # t
             /\ UNCHANGED <<workVars, queueVars, nodeVars>>

\* A successor has queued since TestNext.  Only main2.c waits for its link.
ReleaseFails(t) == /\ Step(t, "release", IF prog.waits THEN "await" ELSE "wake")
                   /\ tail # t
                   /\ UNCHANGED <<workVars, queueVars, nodeVars>>

AwaitNext(t) == /\ Step(t, "await", "wake")
                /\ next[t] # NULL
                /\ UNCHANGED <<workVars, queueVars, nodeVars>>

\* Mutant: the thread unlocks its own node.
WakeSelf(t) == /\ pc[t] = "wake"
               /\ next[t] # NULL
               /\ lock' = [lock EXCEPT ![t] = FALSE]
               /\ Leave(t)
               /\ Depart(t)
               /\ UNCHANGED <<workVars, tail, next, pred>>

\* current_node->next->lock = 0.  A program that gets here with next = NULL
\* has crashed: NoNullDereference is false, and no step follows.
Wake(t) == /\ pc[t] = "wake"
           /\ next[t] # NULL
           /\ lock' = [lock EXCEPT ![next[t]] = FALSE]
           /\ Leave(t)
           /\ Depart(t)
           /\ UNCHANGED <<workVars, tail, next, pred>>

Act(t) == \/ Work(t) /\ UNCHANGED <<queueVars, nodeVars>>
          \/ Prepare(t)   \/ ReadTail(t)     \/ Enqueue(t)
          \/ EnqueueFails(t)                 \/ Link(t)
          \/ Go(t)        \/ TestNext(t)     \/ Release(t)
          \/ ReleaseFails(t)                 \/ AwaitNext(t)
          \/ Wake(t)

Joined == AllDone /\ UNCHANGED vars

Next == (\E t \in Threads : Act(t)) \/ Joined

\* Each thread goes on running.
Fairness == \A t \in Threads : WF_vars(Act(t))

Spec == Init /\ [][Next]_vars
FairSpec == Spec /\ Fairness

-----------------------------------------------------------------------------
MCS_main2 == [once |-> TRUE, waits |-> TRUE]
MCS_main == [once |-> TRUE, waits |-> FALSE]
MCS_Three3 == [once |-> FALSE, waits |-> FALSE]
MCS_Three3_Last == [once |-> FALSE, waits |-> FALSE]
MCS_Again2 == [once |-> FALSE, waits |-> FALSE]

Waiting == {MCS_main2}
NotWaiting == {MCS_main, MCS_Three3, MCS_Three3_Last, MCS_Again2}

-----------------------------------------------------------------------------
(* A thread in the queue is linked to another thread, never to itself.     *)
TypeOK == /\ prog \in Programs
          /\ WorkTypeOK({"tail", "cas", "link", "spin",
                         "release", "await", "wake"})
          /\ queued \subseteq Threads
          /\ ahead \in [Threads -> SUBSET Threads]
          /\ tail \in Threads \cup {NULL}
          /\ next \in [Threads -> Threads \cup {NULL}]
          /\ lock \in [Threads -> BOOLEAN]
          /\ pred \in [Threads -> Threads \cup {NULL}]

(* unlock() finds the successor's node behind next.                        *)
NoNullDereference == \A t \in Threads : pc[t] = "wake" => next[t] # NULL

(* The destructor of main2.c frees a node when its thread returns: no      *)
(* thread still has the pointer and a store to make through it, neither    *)
(* the successor that links itself nor the predecessor that wakes it.      *)
NoDanglingNode ==
  \A t \in Threads : /\ pc[t] = "link" => pc[pred[t]] # "done"
                     /\ pc[t] = "wake" => pc[next[t]] # "done"

(* The links follow the order of the queue: next is the thread that queued *)
(* just behind, and only the last thread has none once all links are made. *)
LinksFollowQueue ==
  \A t \in queued :
    /\ next[t] # NULL => next[t] \in queued /\ ahead[next[t]] = ahead[t] \cup {t}
    /\ tail # t /\ next[t] = NULL =>
         \E u \in queued : pc[u] = "link" /\ pred[u] = t
=============================================================================
