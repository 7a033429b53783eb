------------------------------ MODULE CLHLock -------------------------------
(***************************************************************************)
(* The CLH queue lock.  A thread sets lock in its node, exchanges the tail *)
(* for the node, and spins on the node it got, its predecessor's; unlock() *)
(* clears the own node.  Five programs, told apart by                      *)
(*   sets   lock() sets my_node->lock (CLHLock2.c forgets to);             *)
(*   node   what the thread's node is for its next lock(): "keep" the same *)
(*          one, "fresh" from malloc, or the predecessor's ("pred").       *)
(* The k-th node a thread allocates is <<t, k>>; no program frees one.     *)
(***************************************************************************)
EXTENDS QueuedWorker

CONSTANTS Programs,
          InitNode,     \* init_clh(): the node the first thread finds
          NoNode        \* NULL

ASSUME ProgramsAssumption ==
         Programs \subseteq [once : BOOLEAN, sets : BOOLEAN,
                             node : {"keep", "fresh", "pred"}]

OwnNodes == Threads \X (0..Increments)
Nodes == OwnNodes \cup {InitNode}

ASSUME NodeAssumption == /\ InitNode \notin OwnNodes
                         /\ NoNode \notin Nodes

VARIABLES tail,      \* the node of the last thread in the queue
          lock,      \* the nodes whose field lock is 1
          my_node,   \* each thread's own node, by its key, or NoNode
          pre_node   \* the node each thread spins on

vars == <<workVars, pc, queueVars, tail, lock, my_node, pre_node>>

Init == /\ prog \in Programs
        /\ WorkInit
        /\ QueueInit
        /\ tail = InitNode
        /\ lock = {}
        /\ my_node = [t \in Threads |-> NoNode]
        /\ pre_node = [t \in Threads |-> NoNode]

\* get_node(): a node of its own, allocated when the thread has none.
Node(t) == IF my_node[t] = NoNode THEN <<t, done[t]>> ELSE my_node[t]

\* Mutant: no program sets the lock (CLHLock2.c does not).
NeverSet(t) == /\ Step(t, "lock", "swap")
               /\ my_node' = [my_node EXCEPT ![t] = Node(t)]
               /\ UNCHANGED <<workVars, queueVars, tail, lock, pre_node>>

\* my_node->lock = 1, where the program has that statement.
Prepare(t) == /\ Step(t, "lock", "swap")
              /\ my_node' = [my_node EXCEPT ![t] = Node(t)]
              /\ lock' = IF prog.sets THEN lock \cup {Node(t)} ELSE lock
              /\ UNCHANGED <<workVars, queueVars, tail, pre_node>>

\* Mutant: the tail is read, but the node is not stored there.
ReadTail(t) == /\ Step(t, "swap", "spin")
               /\ pre_node' = [pre_node EXCEPT ![t] = tail]
               /\ Join(t)
               /\ UNCHANGED <<workVars, tail, lock, my_node>>

\* __sync_lock_test_and_set(&tail, my_node)
Swap(t) == /\ Step(t, "swap", "spin")
           /\ pre_node' = [pre_node EXCEPT ![t] = tail]
           /\ tail' = my_node[t]
           /\ Join(t)
           /\ UNCHANGED <<workVars, lock, my_node>>

\* The spinning loop sees pre_node->lock = 0.
Go(t) == /\ Step(t, "spin", "read")
         /\ pre_node[t] \notin lock
         /\ UNCHANGED <<workVars, queueVars, tail, lock, my_node, pre_node>>

\* Mutant: unlock() clears the predecessor's node.
UnlockPred(t) == /\ pc[t] = "unlock"
                 /\ Leave(t)
                 /\ lock' = lock \ {pre_node[t]}
                 /\ my_node' = [my_node EXCEPT ![t] = NoNode]
                 /\ Depart(t)
                 /\ UNCHANGED <<workVars, tail, pre_node>>

\* my_node->lock = 0; what becomes of the node depends on the program.
Unlock(t) ==
  /\ pc[t] = "unlock"
  /\ Leave(t)
  /\ lock' = lock \ {my_node[t]}
  /\ my_node' = [my_node EXCEPT ![t] = CASE prog.node = "keep" -> @
                                         [] prog.node = "fresh" -> NoNode
                                         [] prog.node = "pred" -> pre_node[t]]
  /\ Depart(t)
  /\ UNCHANGED <<workVars, tail, pre_node>>

Act(t) == \/ Work(t) /\ UNCHANGED <<queueVars, tail, lock, my_node, pre_node>>
          \/ Prepare(t)
          \/ Swap(t)
          \/ Go(t)
          \/ Unlock(t)

Joined == AllDone /\ UNCHANGED vars

Next == (\E t \in Threads : Act(t)) \/ Joined

Spec == Init /\ [][Next]_vars

-----------------------------------------------------------------------------
CLH_QueueLocks == [once |-> TRUE, sets |-> TRUE, node |-> "keep"]
CLH_Three3 == [once |-> FALSE, sets |-> TRUE, node |-> "fresh"]
CLH_Three3_Last == [once |-> FALSE, sets |-> TRUE, node |-> "fresh"]
CLH_Again2 == [once |-> FALSE, sets |-> TRUE, node |-> "keep"]
CLH2_Again2 == [once |-> FALSE, sets |-> FALSE, node |-> "pred"]

\* The programs that never set lock in a node that another thread knows.
SoundCLH == {CLH_QueueLocks, CLH_Three3, CLH_Three3_Last}
KeepsNode == {CLH_Again2}
NeverSets == {CLH2_Again2}

-----------------------------------------------------------------------------
(* A queued thread has a node of its own that it shares with nobody.       *)
TypeOK == /\ prog \in Programs
          /\ WorkTypeOK({"swap", "spin"})
          /\ queued \subseteq Threads
          /\ ahead \in [Threads -> SUBSET Threads]
          /\ tail \in Nodes
          /\ lock \subseteq Nodes
          /\ my_node \in [Threads -> Nodes \cup {NoNode}]
          /\ pre_node \in [Threads -> Nodes \cup {NoNode}]

(* The queue is implicit in the nodes: each waiting thread spins on the    *)
(* node of the thread that queued just before it, or on a node that has    *)
(* been released for good; the tail is the node of the last one.           *)
ImplicitQueue ==
  /\ \A t \in queued :
       IF ahead[t] = {} THEN pre_node[t] \notin lock
       ELSE \E u \in ahead[t] : /\ pre_node[t] = my_node[u]
                                /\ ahead[t] = ahead[u] \cup {u}
  /\ IF queued = {} THEN tail \notin lock
     ELSE \E u \in queued : tail = my_node[u] /\ queued = ahead[u] \cup {u}
=============================================================================
