--------------------------- MODULE MCSLockProofs ----------------------------
(***************************************************************************)
(* The MCS lock whose unlock() waits for the successor's link, for every   *)
(* set of threads and every number of increments: mutual exclusion, first  *)
(* come first served, no NULL dereference, no access to a freed node, and  *)
(* the refinement of the atomic counter.  Then the CLH lock: exclusion,    *)
(* order, the queue implicit in its nodes, and the same refinement.        *)
(*                                                                         *)
(* MCS: the invariant ties the pointers to the order of the queue: pred of *)
(* a waiting thread is the one just ahead of it, next is the inverse of    *)
(* pred where a link has been made, and the tail is the last thread.       *)
(***************************************************************************)
EXTENDS MCSLock, WorkerProofs

Entry == {"tail", "cas", "link", "spin"}
Exit == {"release", "await", "wake"}

\* What the theorems assume of the programs.
Sound == \A p \in Programs : p.waits

\* t is in the queue and the lock has not been passed to it.
Waits(t) == (pc[t] = "link" \/ pc[t] = "spin") /\ lock[t]

QueueTypeOK ==
  /\ queued = {t \in Threads : pc[t] \in {"link", "spin"} \cup Critical \cup Exit}
  /\ Ordered(queued, ahead)
  /\ tail \in Threads \cup {NULL}
  /\ next \in [Threads -> Threads \cup {NULL}]
  /\ lock \in [Threads -> BOOLEAN]
  /\ pred \in [Threads -> Threads \cup {NULL}]

\* Only the first thread of the queue has the lock.
FirstHolds == \A t \in queued : ~Waits(t) => ahead[t] = {}

\* A waiting thread knows the one just ahead of it.
PredIsAhead ==
  \A t \in Threads : Waits(t) =>
    /\ pred[t] \in queued
    /\ ahead[t] = ahead[pred[t]] \cup {pred[t]}

TailIsLast == IF queued = {} THEN tail = NULL
              ELSE tail \in queued /\ queued = ahead[tail] \cup {tail}

\* Each thread but the last has a successor that waits behind it.
HasSuccessor == \A t \in queued \ {tail} : \E u \in Threads : Waits(u) /\ pred[u] = t

\* next and pred are inverse once the link is made.
Linked ==
  /\ \A t \in queued : next[t] # NULL =>
       pc[next[t]] = "spin" /\ lock[next[t]] /\ pred[next[t]] = t
  /\ \A t \in Threads : pc[t] = "spin" /\ lock[t] => next[pred[t]] = t

\* A node that is about to be queued is in its initial state.
Prepared == \A t \in Threads :
              /\ pc[t] \in {"tail", "cas"} => next[t] = NULL
              /\ pc[t] \in {"tail", "cas", "link"} => lock[t]

Inv == /\ prog \in Programs /\ prog.waits
       /\ WorkInv(Entry, Exit)
       /\ QueueTypeOK
       /\ FirstHolds
       /\ PredIsAhead
       /\ TailIsLast
       /\ HasSuccessor
       /\ Linked
       /\ Prepared
       /\ NoNullDereference

\* The parts of Inv on the queue, and what they are about.
QueueInv == /\ QueueTypeOK /\ FirstHolds /\ PredIsAhead /\ TailIsLast
            /\ HasSuccessor /\ Linked /\ Prepared /\ NoNullDereference

LEMMA Labels == Labelled(Entry, Exit)
BY DEF Labelled, Entry, Exit, Critical

LEMMA Types ==
  ASSUME Inv
  PROVE  /\ pc \in [Threads -> {"lock", "done"} \cup Critical \cup Entry \cup Exit]
         /\ prog.once \in BOOLEAN
         /\ queued \subseteq Threads
         /\ NULL \notin Threads
BY ProgramsAssumption, NullAssumption
DEF Inv, WorkInv, WorkTypeOK, QueueTypeOK, Ordered

LEMMA InvInit ==
  ASSUME Sound, Init
  PROVE  Inv /\ Abstract!Init
<1>1. WorkInv(Entry, Exit) /\ Inside = {} /\ Abstract!Init
  BY WorkStart, Labels DEF Init
<1>2. QueueTypeOK
  BY DEF Init, WorkInit, QueueInit, QueueTypeOK, Ordered, Critical, Exit
<1>3. FirstHolds /\ PredIsAhead /\ TailIsLast /\ HasSuccessor
  BY DEF Init, WorkInit, QueueInit, FirstHolds, PredIsAhead, TailIsLast,
         HasSuccessor, Waits
<1>4. Linked /\ Prepared /\ NoNullDereference
  BY DEF Init, WorkInit, QueueInit, Linked, Prepared, NoNullDereference
<1> QED
  BY <1>1, <1>2, <1>3, <1>4 DEF Inv, Init, Sound

-----------------------------------------------------------------------------
(* One lemma per action, or group of actions with the same effect.         *)

(* Steps that move a thread without touching the queue or a node, except   *)
(* the thread's own pred while it is not queued.                           *)
LEMMA LocalSteps ==
  ASSUME Inv, NEW t \in Threads, UNCHANGED <<queueVars, tail, next, lock>>,
         NEW to, prog' = prog, pc' = [pc EXCEPT ![t] = to],
         \/ UNCHANGED pred
         \/ pc[t] = "tail" /\ pred' = [pred EXCEPT ![t] = tail],
         \/ pc[t] \in {"tail", "cas"} /\ to \in {"tail", "cas"}
         \/ /\ pc[t] \in Critical \cup Exit
            /\ to \in Critical \cup Exit
            /\ to = "wake" => next[t] # NULL
  PROVE  QueueInv'
<1> USE DEF Inv, queueVars
<1>1. QueueTypeOK'
  BY Types DEF QueueTypeOK, Critical, Exit
<1>2. \A u \in Threads : Waits(u)' <=> Waits(u)
  BY Types DEF Waits, Critical, Exit
<1>3. \A u \in Threads : Waits(u) => pred'[u] = pred[u]
  BY Types DEF Waits, QueueTypeOK
<1>4. FirstHolds' /\ TailIsLast'
  BY <1>2, Types DEF FirstHolds, TailIsLast
<1>5. PredIsAhead' /\ HasSuccessor'
  BY <1>2, <1>3 DEF PredIsAhead, HasSuccessor
<1>6. Linked'
  <2>1. \A u \in Threads : (pc'[u] = "spin") <=> (pc[u] = "spin")
    BY Types DEF Critical, Exit
  <2>2. \A u \in Threads : pc[u] = "spin" => pred'[u] = pred[u]
    BY Types DEF QueueTypeOK
  <2>3. \A u \in queued : next[u] # NULL => next[u] \in Threads
    BY Types DEF QueueTypeOK
  <2> QED
    BY <2>1, <2>2, <2>3 DEF Linked
<1>7. Prepared'
  BY Types DEF Prepared, Critical, Exit
<1>8. NoNullDereference'
  BY Types DEF NoNullDereference, Critical, Exit
<1> QED
  BY <1>1, <1>4, <1>5, <1>6, <1>7, <1>8 DEF QueueInv

LEMMA PrepareAction ==
  ASSUME Inv, NEW t \in Threads, Prepare(t)
  PROVE  QueueInv'
<1> USE DEF Inv, queueVars, workVars
<1>1. t \notin queued /\ pc[t] = "lock"
  BY DEF Prepare, Step, QueueTypeOK, Critical, Exit
<1>2. /\ pc' = [pc EXCEPT ![t] = "tail"]
      /\ lock' = [lock EXCEPT ![t] = TRUE] /\ next' = [next EXCEPT ![t] = NULL]
      /\ UNCHANGED <<queued, ahead, tail, pred>>
  BY DEF Prepare, Step, Goto
<1>3. QueueTypeOK'
  BY <1>1, <1>2, Types DEF QueueTypeOK, Critical, Exit
<1>4. \A u \in Threads : Waits(u)' <=> Waits(u)
  BY <1>1, <1>2, Types DEF Waits, QueueTypeOK
<1>5. FirstHolds' /\ TailIsLast' /\ PredIsAhead' /\ HasSuccessor'
  BY <1>2, <1>4, Types DEF FirstHolds, TailIsLast, PredIsAhead, HasSuccessor
<1>6. Linked'
  <2>1. \A u \in Threads : pc[u] = "spin" /\ lock[u] => pred[u] # t
    BY <1>1 DEF PredIsAhead, Waits
  <2>2. \A u \in queued : next[u] # NULL => next[u] \in Threads /\ next[u] # t
    BY <1>1, Types DEF QueueTypeOK, Linked
  <2> QED
    BY <1>1, <1>2, <2>1, <2>2, Types DEF Linked, QueueTypeOK
<1>7. Prepared' /\ NoNullDereference'
  BY <1>1, <1>2, Types DEF Prepared, NoNullDereference, QueueTypeOK
<1> QED
  BY <1>3, <1>5, <1>6, <1>7 DEF QueueInv

LEMMA EnqueueAction ==
  ASSUME Inv, NEW t \in Threads, Enqueue(t)
  PROVE  QueueInv'
<1> USE DEF Inv, queueVars, workVars
<1> DEFINE to == IF pred[t] = NULL THEN "read" ELSE "link"
<1>1. t \notin queued /\ pc[t] = "cas" /\ next[t] = NULL /\ lock[t]
  BY DEF Enqueue, Step, QueueTypeOK, Prepared, Critical, Exit
<1>2. /\ pc' = [pc EXCEPT ![t] = to] /\ to \in {"read", "link"}
      /\ queued' = queued \cup {t} /\ ahead' = [ahead EXCEPT ![t] = queued]
      /\ tail = pred[t] /\ tail' = t
      /\ UNCHANGED <<next, lock, pred>>
  BY DEF Enqueue, Step, Goto, Join
<1> HIDE DEF to
<1>3. to = "read" <=> queued = {}
  BY <1>2, Types DEF TailIsLast, to
<1>4. /\ ahead'[t] = queued
      /\ \A u \in queued : u # t /\ ahead'[u] = ahead[u] /\ ahead[u] \subseteq queued
  BY <1>1, <1>2 DEF QueueTypeOK, Ordered
<1>5. QueueTypeOK'
  <2>1. Ordered(queued, ahead)'
    BY <1>1, <1>2, JoinOrder DEF QueueTypeOK
  <2> QED
    BY <1>1, <1>2, <2>1, Types DEF QueueTypeOK, Critical, Exit
<1>6. /\ \A u \in Threads \ {t} : Waits(u)' <=> Waits(u)
      /\ Waits(t)' <=> to = "link"
      /\ ~Waits(t)
      /\ \A u \in Threads : Waits(u) => u \in queued
  BY <1>1, <1>2, Types DEF Waits, QueueTypeOK
<1>7. FirstHolds'
  BY <1>2, <1>3, <1>4, <1>6, Types DEF FirstHolds
<1>8. PredIsAhead'
  <2>1. Waits(t)' => pred[t] \in queued /\ queued = ahead[pred[t]] \cup {pred[t]}
    BY <1>2, <1>3, <1>6 DEF TailIsLast
  <2>2. ASSUME NEW u \in Threads, Waits(u)'
        PROVE  pred'[u] \in queued' /\ ahead'[u] = ahead'[pred'[u]] \cup {pred'[u]}
    <3>1. CASE u = t
      BY <3>1, <2>1, <2>2, <1>2, <1>4
    <3>2. CASE u # t
      BY <3>2, <2>2, <1>2, <1>4, <1>6 DEF PredIsAhead
    <3> QED
      BY <3>1, <3>2
  <2> QED
    BY <2>2 DEF PredIsAhead
<1>9. TailIsLast'
  BY <1>2, <1>4 DEF TailIsLast
<1>10. HasSuccessor'
  <2>1. ASSUME NEW u \in queued' \ {tail'}
        PROVE  \E v \in Threads : Waits(v)' /\ pred'[v] = u
    <3>1. u \in queued /\ queued # {}
      BY <1>2, <2>1
    <3>2. CASE u = tail
      BY <3>1, <3>2, <1>2, <1>3, <1>6
    <3>3. CASE u # tail
      BY <3>1, <3>3, <1>2, <1>6 DEF HasSuccessor
    <3> QED
      BY <3>2, <3>3
  <2> QED
    BY <2>1 DEF HasSuccessor
<1>11. Linked'
  <2>1. \A u \in Threads \ {t} : pc'[u] = pc[u]
    BY <1>2, Types
  <2>2. pc'[t] # "spin" /\ pc[t] # "spin"
    BY <1>1, <1>2, Types
  <2>3. \A u \in queued : next[u] # NULL => next[u] \in Threads \ {t}
    BY <1>1, Types DEF QueueTypeOK, Linked
  <2> QED
    BY <1>1, <1>2, <2>1, <2>2, <2>3 DEF Linked
<1>12. Prepared' /\ NoNullDereference'
  BY <1>1, <1>2, Types DEF Prepared, NoNullDereference
<1> QED
  BY <1>5, <1>7, <1>8, <1>9, <1>10, <1>11, <1>12 DEF QueueInv

(* Two threads do not wait behind the same one.                            *)
LEMMA OneSuccessor ==
  ASSUME Inv, NEW t \in Threads, NEW u \in Threads, Waits(t), Waits(u),
         pred[t] = pred[u]
  PROVE  t = u
<1>1. t \in queued /\ u \in queued /\ ahead[t] = ahead[u]
  BY DEF Inv, Waits, QueueTypeOK, PredIsAhead
<1> QED
  BY <1>1 DEF Inv, QueueTypeOK, Ordered

LEMMA LinkAction ==
  ASSUME Inv, NEW t \in Threads, Link(t)
  PROVE  QueueInv'
<1> USE DEF Inv, queueVars, workVars
<1>1. /\ pc[t] = "link" /\ pc' = [pc EXCEPT ![t] = "spin"]
      /\ next' = [next EXCEPT ![pred[t]] = t]
      /\ UNCHANGED <<queued, ahead, tail, lock, pred>>
  BY DEF Link, Step, Goto
<1>2. Waits(t) /\ lock[t] /\ pred[t] \in queued /\ t \in queued
  BY <1>1 DEF Waits, Prepared, PredIsAhead, QueueTypeOK
<1>3. QueueTypeOK'
  BY <1>1, <1>2, Types DEF QueueTypeOK, Critical, Exit
<1>4. \A u \in Threads : Waits(u)' <=> Waits(u)
  BY <1>1, <1>2, Types DEF Waits
<1>5. FirstHolds' /\ TailIsLast' /\ PredIsAhead' /\ HasSuccessor'
  BY <1>1, <1>4, Types DEF FirstHolds, TailIsLast, PredIsAhead, HasSuccessor
<1>6. Linked'
  <2>1. ASSUME NEW u \in Threads, pc'[u] = "spin", lock'[u]
        PROVE  next'[pred'[u]] = u
    <3>1. CASE u = t
      BY <3>1, <1>1, <1>2, Types DEF QueueTypeOK
    <3>2. CASE u # t
      <4>1. Waits(u) /\ pred[u] # pred[t] /\ pred[u] \in queued
        BY <3>2, <2>1, <1>1, <1>2, Types, OneSuccessor DEF Waits, PredIsAhead
      <4> QED
        BY <3>2, <4>1, <2>1, <1>1, Types DEF Linked, QueueTypeOK
    <3> QED
      BY <3>1, <3>2
  <2>2. ASSUME NEW u \in queued', next'[u] # NULL
        PROVE  /\ pc'[next'[u]] = "spin" /\ lock'[next'[u]]
               /\ pred'[next'[u]] = u
    <3>1. CASE u = pred[t]
      BY <3>1, <1>1, <1>2, Types DEF QueueTypeOK
    <3>2. CASE u # pred[t]
      <4>1. next'[u] = next[u] /\ u \in queued
        BY <3>2, <1>1, <2>2, Types DEF QueueTypeOK
      <4>2. next[u] \in Threads
        BY <4>1, <2>2, Types DEF QueueTypeOK
      <4>3. pc[next[u]] = "spin" /\ lock[next[u]] /\ pred[next[u]] = u
        BY <4>1, <2>2 DEF Linked
      <4> QED
        BY <4>1, <4>2, <4>3, <1>1, Types
    <3> QED
      BY <3>1, <3>2
  <2> QED
    BY <2>1, <2>2 DEF Linked
<1>7. Prepared'
  <2>1. pc[pred[t]] \notin {"tail", "cas"}
    BY <1>2 DEF QueueTypeOK, Critical, Exit
  <2> QED
    BY <1>1, <2>1, Types DEF Prepared, QueueTypeOK
<1>8. NoNullDereference'
  BY <1>1, Types DEF NoNullDereference, QueueTypeOK
<1> QED
  BY <1>3, <1>5, <1>6, <1>7, <1>8 DEF QueueInv

(* The first thread in the queue is alone in having the lock.              *)
LEMMA OneHolder ==
  ASSUME Inv, NEW t \in queued, NEW u \in queued, ahead[t] = {}, ~Waits(u)
  PROVE  t = u
BY DEF Inv, FirstHolds, QueueTypeOK, Ordered

LEMMA GoAction ==
  ASSUME Inv, NEW t \in Threads, Go(t)
  PROVE  Inside = {} /\ QueueInv'
<1> USE DEF Inv, queueVars, workVars, nodeVars
<1>1. /\ pc[t] = "spin" /\ pc' = [pc EXCEPT ![t] = "read"] /\ ~lock[t]
      /\ UNCHANGED <<queued, ahead, tail, next, lock, pred>>
  BY DEF Go, Step, Goto
<1>2. t \in queued /\ ~Waits(t) /\ ahead[t] = {}
  BY <1>1 DEF QueueTypeOK, FirstHolds, Waits
<1>3. Inside = {}
  <2> SUFFICES ASSUME NEW u \in Inside PROVE FALSE
    OBVIOUS
  <2>1. u \in queued /\ ~Waits(u) /\ u # t
    BY <1>1 DEF QueueTypeOK, Waits, Inside, Critical
  <2> QED
    BY <1>2, <2>1, OneHolder
<1>4. QueueTypeOK'
  BY <1>1, Types DEF QueueTypeOK, Critical, Exit
<1>5. \A u \in Threads : Waits(u)' <=> Waits(u)
  BY <1>1, Types DEF Waits
<1>6. FirstHolds' /\ TailIsLast' /\ PredIsAhead' /\ HasSuccessor'
  BY <1>1, <1>5, Types DEF FirstHolds, TailIsLast, PredIsAhead, HasSuccessor
<1>7. Linked'
  <2>1. \A u \in queued : next[u] # NULL => next[u] \in Threads /\ next[u] # t
    BY <1>1, Types DEF Linked, QueueTypeOK
  <2> QED
    BY <1>1, <2>1, Types DEF Linked
<1>8. Prepared' /\ NoNullDereference'
  BY <1>1, Types DEF Prepared, NoNullDereference
<1> QED
  BY <1>3, <1>4, <1>6, <1>7, <1>8 DEF QueueInv

LEMMA ReleaseAction ==
  ASSUME Inv, NEW t \in Threads, Release(t)
  PROVE  QueueInv'
<1> USE DEF Inv, queueVars, workVars
<1>1. /\ pc[t] = "release" /\ tail = t /\ tail' = NULL
      /\ pc' = [pc EXCEPT ![t] = pc'[t]] /\ pc'[t] \in {"lock", "done"}
      /\ UNCHANGED <<next, lock, pred>>
  BY Types DEF Release, Leave, Goto
<1>2. queued = {t}
  <2>1. t \in queued /\ ~Waits(t) /\ ahead[t] = {}
    BY <1>1 DEF QueueTypeOK, FirstHolds, Waits, Exit
  <2> QED
    BY <2>1, <1>1 DEF TailIsLast
<1>3. queued' = {} /\ ahead' = [u \in Threads |-> ahead[u] \ {t}]
  BY <1>2 DEF Release, Depart
<1>4. \A u \in Threads : pc'[u] \notin {"link", "spin"} \cup Critical \cup Exit
  <2>1. \A u \in Threads \ {t} : pc'[u] = pc[u] /\ u \notin queued
    BY <1>1, <1>2, Types
  <2> QED
    BY <1>1, <2>1 DEF QueueTypeOK, Critical, Exit
<1>5. QueueTypeOK'
  <2>1. Ordered(queued, ahead)'
    BY DepartOrder DEF Release, Depart, QueueTypeOK
  <2> QED
    BY <1>1, <1>3, <1>4, <2>1 DEF QueueTypeOK
<1>6. /\ FirstHolds' /\ TailIsLast' /\ PredIsAhead' /\ HasSuccessor'
      /\ Linked' /\ NoNullDereference'
  BY <1>1, <1>3, <1>4
  DEF FirstHolds, TailIsLast, PredIsAhead, HasSuccessor, Linked, Waits,
      NoNullDereference, Exit
<1>7. Prepared'
  BY <1>1, Types DEF Prepared
<1> QED
  BY <1>5, <1>6, <1>7 DEF QueueInv

LEMMA WakeAction ==
  ASSUME Inv, NEW t \in Threads, Wake(t)
  PROVE  QueueInv'
<1> USE DEF Inv, queueVars, workVars
<1> DEFINE s == next[t]
<1>1. /\ pc[t] = "wake" /\ s # NULL /\ lock' = [lock EXCEPT ![s] = FALSE]
      /\ pc' = [pc EXCEPT ![t] = pc'[t]] /\ pc'[t] \in {"lock", "done"}
      /\ queued' = queued \ {t} /\ ahead' = [u \in Threads |-> ahead[u] \ {t}]
      /\ UNCHANGED <<next, tail, pred>>
  BY Types DEF Wake, Leave, Goto, Depart
<1>2. t \in queued /\ ~Waits(t) /\ ahead[t] = {}
  BY <1>1 DEF QueueTypeOK, FirstHolds, Waits, Exit
<1>3. /\ s \in Threads /\ pc[s] = "spin" /\ lock[s] /\ pred[s] = t /\ s # t
  BY <1>1, <1>2, Types DEF Linked, QueueTypeOK
<1>4. Waits(s) /\ s \in queued /\ ahead[s] = {t}
  BY <1>2, <1>3 DEF Waits, QueueTypeOK, PredIsAhead
<1> HIDE DEF s
<1>5. \A u \in Threads \ {t} : pc'[u] = pc[u]
  BY <1>1, Types
<1>6. \A u \in Threads : Waits(u)' <=> Waits(u) /\ u # s
  BY <1>1, <1>2, <1>3, <1>5 DEF Waits, QueueTypeOK
<1>7. \A u \in Threads : Waits(u) /\ u # s => pred[u] # t
  BY <1>3, <1>4, OneSuccessor
<1>8. QueueTypeOK'
  <2>1. Ordered(queued, ahead)'
    BY <1>1, DepartOrder DEF QueueTypeOK
  <2>2. queued' = {u \in Threads :
                     pc'[u] \in {"link", "spin"} \cup Critical \cup Exit}
    BY <1>1, <1>5 DEF QueueTypeOK, Critical, Exit
  <2> QED
    BY <1>1, <1>3, <2>1, <2>2 DEF QueueTypeOK
<1>9. FirstHolds'
  BY <1>1, <1>4, <1>6, Types DEF FirstHolds
<1>10. PredIsAhead'
  <2> SUFFICES ASSUME NEW u \in Threads, Waits(u), u # s
               PROVE  /\ pred[u] \in queued'
                      /\ ahead'[u] = ahead'[pred[u]] \cup {pred[u]}
    BY <1>1, <1>6 DEF PredIsAhead
  <2>1. pred[u] \in queued /\ ahead[u] = ahead[pred[u]] \cup {pred[u]} /\ pred[u] # t
    BY <1>7 DEF PredIsAhead
  <2> QED
    BY <1>1, <2>1, Types
<1>11. tail # t
  BY <1>2, <1>3, <1>4 DEF TailIsLast
<1>12. TailIsLast'
  <2>1. tail \in queued /\ queued = ahead[tail] \cup {tail}
    BY <1>2 DEF TailIsLast
  <2> QED
    BY <1>1, <1>11, <2>1, Types DEF TailIsLast
<1>13. HasSuccessor'
  <2> SUFFICES ASSUME NEW u \in queued \ {tail}, u # t
               PROVE  \E v \in Threads : Waits(v)' /\ pred[v] = u
    BY <1>1 DEF HasSuccessor
  <2>1. PICK v \in Threads : Waits(v) /\ pred[v] = u
    BY DEF HasSuccessor
  <2> QED
    BY <2>1, <1>3, <1>6
<1>14. Linked'
  <2>1. ASSUME NEW u \in queued', next'[u] # NULL
        PROVE  /\ pc'[next'[u]] = "spin" /\ lock'[next'[u]]
               /\ pred'[next'[u]] = u
    <3>1. u \in queued /\ u # t /\ next[u] \in Threads /\ next[u] # NULL
      BY <2>1, <1>1, Types DEF QueueTypeOK
    <3>2. pc[next[u]] = "spin" /\ lock[next[u]] /\ pred[next[u]] = u
      BY <3>1 DEF Linked
    <3>3. next[u] # s /\ next[u] # t
      BY <3>1, <3>2, <1>1, <1>3
    <3> QED
      BY <3>1, <3>2, <3>3, <1>1, <1>5 DEF QueueTypeOK
  <2>2. ASSUME NEW u \in Threads, pc'[u] = "spin", lock'[u]
        PROVE  next'[pred'[u]] = u
    <3>1. Waits(u)'
      BY <2>2 DEF Waits
    <3>2. Waits(u) /\ u # s
      BY <3>1, <1>6
    <3>3. pc[u] = "spin" /\ lock[u]
      BY <2>2, <3>2, <1>1, <1>5 DEF QueueTypeOK
    <3> QED
      BY <3>3, <1>1 DEF Linked
  <2> QED
    BY <2>1, <2>2 DEF Linked
<1>15. Prepared'
  BY <1>1, <1>3, <1>5 DEF Prepared, QueueTypeOK
<1>16. NoNullDereference'
  BY <1>1, <1>5 DEF NoNullDereference
<1> QED
  BY <1>8, <1>9, <1>10, <1>12, <1>13, <1>14, <1>15, <1>16 DEF QueueInv

-----------------------------------------------------------------------------
LEMMA InvNext == Inv /\ [Next]_vars => Inv' /\ [Abstract!Next]_(Abstract!vars)
<1> SUFFICES ASSUME Inv, [Next]_vars
             PROVE  Inv' /\ [Abstract!Next]_(Abstract!vars)
  OBVIOUS
<1>0. Inv => WorkInv(Entry, Exit) /\ prog \in Programs /\ prog.waits
  BY DEF Inv
<1>1. ASSUME QueueInv', WorkInv(Entry, Exit)', prog' = prog PROVE Inv'
  BY <1>0, <1>1 DEF QueueInv, Inv
<1>2. CASE UNCHANGED vars
  <2>1. WorkInv(Entry, Exit)' /\ UNCHANGED Abstract!vars
    BY <1>0, <1>2, WorkStutter DEF vars
  <2>2. QueueInv'
    BY <1>2 DEF Inv, vars, queueVars, nodeVars, QueueInv, QueueTypeOK, Ordered,
         FirstHolds, PredIsAhead, TailIsLast, HasSuccessor, Linked, Prepared,
         Waits, NoNullDereference
  <2> QED
    BY <1>1, <1>2, <2>1, <2>2 DEF vars, workVars
<1>3. ASSUME NEW t \in Threads, Act(t)
      PROVE  Inv' /\ [Abstract!Next]_(Abstract!vars)
  <2>1. CASE Work(t) /\ UNCHANGED <<queueVars, nodeVars>>
    <3>1. WorkInv(Entry, Exit)' /\ (Abstract!Increment(t) \/ UNCHANGED Abstract!vars)
      BY <1>0, <2>1, Labels, Types, WorkStep
    <3>2. prog' = prog /\ QueueInv'
      <4>1. PICK to \in Critical : /\ prog' = prog /\ pc' = [pc EXCEPT ![t] = to]
                                   /\ pc[t] \in Critical
        BY <2>1 DEF Work, ReadShared, WriteShared, Step, Goto, Critical
      <4> QED
        BY <2>1, <4>1, LocalSteps DEF nodeVars, Critical
    <3> QED
      BY <1>1, <3>1, <3>2 DEF Abstract!Next
  <2>2. CASE Prepare(t) \/ ReadTail(t) \/ EnqueueFails(t) \/ Link(t)
    <3>1. WorkInv(Entry, Exit)' /\ UNCHANGED Abstract!vars
      BY <1>0, <2>2, Labels, OutsideStep
      DEF Prepare, ReadTail, EnqueueFails, Link, Step, Entry
    <3>2. QueueInv'
      <4>1. CASE ReadTail(t)
        BY <4>1, LocalSteps DEF ReadTail, Step, Goto, workVars
      <4>2. CASE EnqueueFails(t)
        BY <4>2, LocalSteps DEF EnqueueFails, Step, Goto, workVars, nodeVars
      <4> QED
        BY <2>2, <4>1, <4>2, PrepareAction, LinkAction
    <3>3. prog' = prog
      BY <2>2 DEF Prepare, ReadTail, EnqueueFails, Link, workVars
    <3> QED
      BY <1>1, <3>1, <3>2, <3>3
  <2>3. CASE Enqueue(t) /\ pred[t] # NULL
    <3>1. WorkInv(Entry, Exit)' /\ UNCHANGED Abstract!vars
      BY <1>0, <2>3, Labels, OutsideStep DEF Enqueue, Step, Entry
    <3> QED
      BY <1>1, <2>3, <3>1, EnqueueAction DEF Enqueue, workVars
  <2>4. CASE Enqueue(t) /\ pred[t] = NULL
    <3>1. Inside = {}
      BY <2>4, NullAssumption
      DEF Enqueue, Inv, TailIsLast, QueueTypeOK, Ordered, Inside
    <3>2. WorkInv(Entry, Exit)' /\ Abstract!Enter(t)
      BY <1>0, <2>4, <3>1, Labels, EnterStep DEF Enqueue, Step, Entry
    <3> QED
      BY <1>1, <2>4, <3>2, EnqueueAction DEF Enqueue, workVars, Abstract!Next
  <2>5. CASE Go(t)
    <3>1. Inside = {} /\ QueueInv'
      BY <2>5, GoAction
    <3>2. WorkInv(Entry, Exit)' /\ Abstract!Enter(t)
      BY <1>0, <2>5, <3>1, Labels, EnterStep DEF Go, Step, Entry
    <3> QED
      BY <1>1, <2>5, <3>1, <3>2 DEF Go, workVars, Abstract!Next
  <2>6. CASE TestNext(t)
    <3>1. PICK to \in Exit : Goto(t, to) /\ (to = "wake" => next[t] # NULL)
      BY <2>6 DEF TestNext, Step, Exit
    <3>2. WorkInv(Entry, Exit)' /\ Abstract!Exit(t)
      BY <1>0, <2>6, <3>1, Labels, ExitStep DEF TestNext, Step
    <3>3. QueueInv'
      BY <2>6, <3>1, LocalSteps
      DEF TestNext, Step, Goto, workVars, nodeVars, Critical
    <3> QED
      BY <1>1, <2>6, <3>2, <3>3 DEF TestNext, workVars, Abstract!Next
  <2>7. CASE ReleaseFails(t) \/ AwaitNext(t)
    <3>1. PICK to \in Exit : /\ Goto(t, to) /\ (to = "wake" => next[t] # NULL)
                             /\ pc[t] \in Exit
      BY <1>0, <2>7 DEF ReleaseFails, AwaitNext, Step, Exit
    <3>2. WorkInv(Entry, Exit)' /\ UNCHANGED Abstract!vars
      BY <1>0, <2>7, <3>1, Labels, OutsideStep DEF ReleaseFails, AwaitNext
    <3>3. QueueInv'
      BY <2>7, <3>1, LocalSteps
      DEF ReleaseFails, AwaitNext, Goto, workVars, nodeVars
    <3> QED
      BY <1>1, <2>7, <3>2, <3>3 DEF ReleaseFails, AwaitNext, workVars
  <2>8. CASE Release(t) \/ Wake(t)
    <3>1. WorkInv(Entry, Exit)' /\ UNCHANGED Abstract!vars
      BY <1>0, <2>8, Labels, LeaveStep DEF Release, Wake, Exit
    <3> QED
      BY <1>1, <2>8, <3>1, ReleaseAction, WakeAction DEF Release, Wake, workVars
  <2> QED
    BY <1>3, <2>1, <2>2, <2>3, <2>4, <2>5, <2>6, <2>7, <2>8 DEF Act
<1> QED
  BY <1>2, <1>3 DEF Next, Joined

-----------------------------------------------------------------------------
LEMMA Invariance ==
  ASSUME Sound
  PROVE  Spec => []Inv
<1>1. Init => Inv
  BY InvInit
<1> QED
  BY <1>1, InvNext, PTL DEF Spec

(* At most one thread is between lock() and unlock().                      *)
THEOREM MutuallyExclusive ==
  ASSUME Sound
  PROVE  Spec => []MutualExclusion
<1>1. Inv => MutualExclusion
  BY DEF Inv, WorkInv
<1> QED
  BY <1>1, Invariance, PTL

(* When main() has joined the threads, shared_value holds every increment  *)
(* of every one of them.                                                   *)
THEOREM CountComplete ==
  ASSUME Sound
  PROVE  Spec => []NothingLost
<1>1. Inv => NothingLost
  BY CountAll DEF Inv, WorkInv
<1> QED
  BY <1>1, Invariance, PTL

(* The threads are served in the order of their compare-and-swaps.         *)
THEOREM InOrder ==
  ASSUME Sound
  PROVE  Spec => []FirstComeFirstServed
<1>1. Inv => FirstComeFirstServed
  BY DEF Inv, QueueTypeOK, FirstHolds, FirstComeFirstServed, Waits, Inside,
         Critical
<1> QED
  BY <1>1, Invariance, PTL

(* unlock() finds the successor behind next.                               *)
THEOREM PointersSafe ==
  ASSUME Sound
  PROVE  Spec => []NoNullDereference
<1>1. Inv => NoNullDereference
  BY DEF Inv
<1> QED
  BY <1>1, Invariance, PTL

(* No thread has a pointer to use to the node of a thread that has         *)
(* returned: the one to link itself behind is still queued, and the one to *)
(* wake still spins.                                                       *)
THEOREM NodesAlive ==
  ASSUME Sound
  PROVE  Spec => []NoDanglingNode
<1>1. ASSUME Inv PROVE NoDanglingNode
  <2>1. \A t \in queued : pc[t] # "done"
    BY <1>1 DEF Inv, QueueTypeOK, Critical, Exit
  <2>2. \A t \in Threads : pc[t] = "link" => pred[t] \in queued
    BY <1>1 DEF Inv, PredIsAhead, Waits, Prepared
  <2>3. \A t \in Threads : pc[t] = "wake" => pc[next[t]] = "spin"
    BY <1>1 DEF Inv, NoNullDereference, Linked, QueueTypeOK, Exit
  <2> QED
    BY <2>1, <2>2, <2>3 DEF NoDanglingNode
<1> QED
  BY <1>1, Invariance, PTL

(* Each link leads to the thread that queued next, and a thread without a  *)
(* link is the last one or about to be linked.                             *)
THEOREM LinksInOrder ==
  ASSUME Sound
  PROVE  Spec => []LinksFollowQueue
<1>1. ASSUME Inv PROVE LinksFollowQueue
  <2> SUFFICES ASSUME NEW t \in queued
               PROVE  /\ next[t] # NULL =>
                           next[t] \in queued /\ ahead[next[t]] = ahead[t] \cup {t}
                      /\ tail # t /\ next[t] = NULL =>
                           \E u \in queued : pc[u] = "link" /\ pred[u] = t
    BY DEF LinksFollowQueue
  <2>1. ASSUME next[t] # NULL
        PROVE  next[t] \in queued /\ ahead[next[t]] = ahead[t] \cup {t}
    <3>1. next[t] \in Threads /\ Waits(next[t]) /\ pred[next[t]] = t
      BY <1>1, <2>1, Types DEF Inv, Linked, Waits, QueueTypeOK
    <3> QED
      BY <1>1, <3>1 DEF Inv, PredIsAhead, Waits, QueueTypeOK
  <2>2. ASSUME tail # t, next[t] = NULL
        PROVE  \E u \in queued : pc[u] = "link" /\ pred[u] = t
    <3>1. PICK u \in Threads : Waits(u) /\ pred[u] = t
      BY <1>1, <2>2 DEF Inv, HasSuccessor
    <3>2. pc[u] = "link"
      BY <1>1, <2>2, <3>1, Types DEF Inv, Linked, Waits
    <3> QED
      BY <1>1, <3>1, <3>2 DEF Inv, QueueTypeOK
  <2> QED
    BY <2>1, <2>2
<1> QED
  BY <1>1, Invariance, PTL

(* The program implements the counter with atomic increments.              *)
THEOREM Refines ==
  ASSUME Sound
  PROVE  Spec => ImplementsLockedCounter
<1>1. Init => Inv /\ Abstract!Init
  BY InvInit
<1> QED
  BY <1>1, InvNext, PTL DEF Spec, ImplementsLockedCounter, Abstract!Spec
-----------------------------------------------------------------------------
(* The CLH lock excludes and serves in order, for every set of threads and *)
(* every number of increments, when lock() sets the node's field and no    *)
(* thread sets it in a node that it has used before: each thread locks     *)
(* once, or takes a fresh node each time.                                  *)
(*                                                                         *)
(* The core of the invariant is ImplicitQueue.  It is inductive only with  *)
(* the knowledge that the nodes another thread may look at are old ones,   *)
(* so that Prepare, which sets lock in a node, sets it in none of them.    *)
(*                                                                         *)
(* Its variables tail and lock are those above: a node of its own is a     *)
(* pair here, and lock the set of those whose field is set.                *)

CONSTANTS CLHPrograms, InitNode, NoNode
VARIABLES my_node, pre_node

CLH == INSTANCE CLHLock WITH Programs <- CLHPrograms

CLHEntry == {"swap", "spin"}

\* What CLHLock assumes of its constants, and that the programs set lock in a
\* node when they use it, and use it once.
CLHAssumption ==
  /\ CLHPrograms \subseteq [once : BOOLEAN, sets : BOOLEAN, node : {"keep", "fresh", "pred"}]
  /\ InitNode \notin CLH!OwnNodes /\ NoNode \notin CLH!Nodes
  /\ \A p \in CLHPrograms : p.sets /\ (p.once \/ p.node = "fresh")

\* The node n has been in the queue: its owner did not allocate it just now.
Old(n) == \/ n = InitNode
          \/ /\ n \in CLH!OwnNodes
             /\ \/ n[2] < done[n[1]]
                \/ n[2] = done[n[1]] /\ pc[n[1]] \in {"spin", "read", "write"}

\* The queue consists of the threads from Swap to Unlock.
NodesTypeOK == /\ queued = {t \in Threads : pc[t] \in {"spin"} \cup Critical}
               /\ Ordered(queued, ahead)
               /\ tail \in CLH!Nodes
               /\ lock \subseteq CLH!Nodes
               /\ my_node \in [Threads -> CLH!Nodes \cup {NoNode}]
               /\ pre_node \in [Threads -> CLH!Nodes \cup {NoNode}]

\* From Prepare to Unlock a thread has a node of its own, with lock set.
OwnNode ==
  \A t \in Threads :
    /\ pc[t] = "lock" => my_node[t] = NoNode
    /\ pc[t] \in {"swap"} \cup {"spin"} \cup Critical =>
         my_node[t] \in CLH!OwnNodes /\ my_node[t][1] = t /\ my_node[t] \in lock
    /\ pc[t] \in {"swap", "spin"} => my_node[t][2] = done[t]
    /\ pc[t] \in {"read", "write"} => my_node[t][2] <= done[t]
    /\ pc[t] = "unlock" => my_node[t][2] < done[t]
    /\ pc[t] = "unlock" /\ prog.once => done[t] = Increments

\* The nodes that other threads spin on, or will.
OnlyOld == /\ Old(tail)
           /\ \A t \in queued : Old(pre_node[t])

CLHInv == /\ prog \in CLHPrograms /\ prog.sets /\ (prog.once \/ prog.node = "fresh")
          /\ WorkInv(CLHEntry, {})
          /\ NodesTypeOK
          /\ OwnNode
          /\ OnlyOld
          /\ CLH!ImplicitQueue
          /\ FirstComeFirstServed

LEMMA CLHLabels == Labelled(CLHEntry, {})
BY DEF Labelled, CLHEntry, Critical

\* The thread function that CLHLock extends is the one above.
LEMMA SameWorker ==
  /\ CLH!WorkInit <=> WorkInit
  /\ CLH!QueueInit <=> QueueInit
  /\ \A labels : WorkTypeOK(labels) => CLH!WorkTypeOK(labels)
  /\ \A t : CLH!Work(t) <=> Work(t)
  /\ \A t, from, to : CLH!Step(t, from, to) <=> Step(t, from, to)
  /\ \A t : CLH!Leave(t) <=> Leave(t)
  /\ \A t : CLH!Join(t) <=> Join(t)
  /\ \A t : CLH!Depart(t) <=> Depart(t)
  /\ UNCHANGED CLH!workVars <=> UNCHANGED workVars
  /\ UNCHANGED CLH!queueVars <=> UNCHANGED queueVars
BY DEF CLH!WorkInit, WorkInit, CLH!QueueInit, QueueInit, CLH!WorkTypeOK, WorkTypeOK,
       CLH!Work, Work, CLH!ReadShared, ReadShared, CLH!WriteShared, WriteShared,
       CLH!Goto, Goto, CLH!Step, Step, CLH!Leave, Leave, CLH!Critical, Critical,
       CLH!Join, Join, CLH!Depart, Depart,
       CLH!workVars, workVars, CLH!queueVars, queueVars

LEMMA CLHStart ==
  ASSUME CLHAssumption, CLH!Init
  PROVE  CLHInv /\ Abstract!Init
<1> USE SameWorker
<1>1. WorkInv(CLHEntry, {}) /\ Inside = {} /\ Abstract!Init
  BY WorkStart, CLHLabels DEF CLH!Init
<1>2. NodesTypeOK
  BY DEF CLH!Init, WorkInit, QueueInit, NodesTypeOK, Ordered, CLH!Nodes, Critical
<1>3. OwnNode
  BY DEF CLH!Init, WorkInit, OwnNode, Critical
<1>4. OnlyOld /\ CLH!ImplicitQueue
  BY DEF CLH!Init, QueueInit, OnlyOld, Old, CLH!ImplicitQueue
<1>5. FirstComeFirstServed
  BY <1>1 DEF FirstComeFirstServed
<1> QED
  BY <1>1, <1>2, <1>3, <1>4, <1>5 DEF CLHInv, CLH!Init, CLHAssumption

-----------------------------------------------------------------------------
(* One lemma per action: it keeps Inv and maps to the abstract counter.    *)

LEMMA CLHWork ==
  ASSUME CLHAssumption, CLHInv, NEW t \in Threads, Work(t),
         UNCHANGED <<queueVars, tail, lock, my_node, pre_node>>
  PROVE  CLHInv' /\ [Abstract!Next]_(Abstract!vars)
<1> USE DEF CLHInv, queueVars
<1>0. /\ prog.once \in BOOLEAN
      /\ pc \in [Threads -> {"lock", "done"} \cup Critical \cup CLHEntry]
      /\ done \in [Threads -> 0..Increments]
      /\ Increments \in Nat \ {0}
  BY IncrementsAssumption DEF CLHAssumption, WorkInv, WorkTypeOK
<1>1. /\ WorkInv(CLHEntry, {})'
      /\ Inside' = Inside
      /\ Abstract!Increment(t) \/ UNCHANGED Abstract!vars
  BY <1>0, CLHLabels, WorkStep
<1>2. prog' = prog
  BY DEF Work, ReadShared, WriteShared
<1>3. done[t] < Increments
  BY DEF Work, ReadShared, WriteShared, Step, WorkInv, WorkLeft
<1>4. CASE ReadShared(t)
  <2>1. NodesTypeOK'
    BY <1>4, <1>0 DEF ReadShared, Step, Goto, NodesTypeOK, Critical
  <2>2. OwnNode'
    BY <1>4, <1>0 DEF ReadShared, Step, Goto, OwnNode, Critical
  <2>3. OnlyOld'
    BY <1>4, <1>0 DEF ReadShared, Step, Goto, OnlyOld, Old, CLH!OwnNodes
  <2>4. CLH!ImplicitQueue' /\ FirstComeFirstServed'
    BY <1>1 DEF CLH!ImplicitQueue, FirstComeFirstServed
  <2> QED
    BY <1>1, <1>2, <2>1, <2>2, <2>3, <2>4 DEF Abstract!Next
<1>5. CASE WriteShared(t)
  <2>1. NodesTypeOK'
    BY <1>5, <1>0 DEF WriteShared, Step, Goto, NodesTypeOK, Critical
  <2>2. OwnNode'
    <3>1. \A u \in Threads \ {t} : pc'[u] = pc[u] /\ done'[u] = done[u]
      BY <1>5, <1>0 DEF WriteShared, Goto
    <3>2. /\ pc'[t] \in {"read", "unlock"} /\ pc[t] = "write"
          /\ done'[t] = done[t] + 1
          /\ pc'[t] = "unlock" /\ prog.once => done[t] + 1 = Increments
      BY <1>5, <1>0, <1>3 DEF WriteShared, Goto
    <3>3. my_node[t] \in CLH!OwnNodes /\ my_node[t][2] \in Nat /\ done[t] \in Nat
      BY <3>2, <1>0 DEF OwnNode, CLH!OwnNodes, Critical
    <3> QED
      BY <1>2, <3>1, <3>2, <3>3 DEF OwnNode, Critical
  <2>3. OnlyOld'
    <3>1. ASSUME NEW n, Old(n) PROVE Old(n)'
      BY <1>5, <1>0, <3>1 DEF WriteShared, Goto, Old, CLH!OwnNodes
    <3> QED
      BY <3>1 DEF OnlyOld
  <2>4. CLH!ImplicitQueue' /\ FirstComeFirstServed'
    BY <1>1 DEF CLH!ImplicitQueue, FirstComeFirstServed
  <2> QED
    BY <1>1, <1>2, <2>1, <2>2, <2>3, <2>4 DEF Abstract!Next
<1> QED
  BY <1>4, <1>5 DEF Work

LEMMA CLHPrepare ==
  ASSUME CLHAssumption, CLHInv, NEW t \in Threads, CLH!Prepare(t)
  PROVE  CLHInv' /\ [Abstract!Next]_(Abstract!vars)
<1> USE SameWorker DEF CLHInv, queueVars, workVars
<1>0. /\ pc \in [Threads -> {"lock", "done"} \cup Critical \cup CLHEntry]
      /\ done \in [Threads -> 0..Increments]
      /\ Increments \in Nat \ {0}
  BY IncrementsAssumption DEF WorkInv, WorkTypeOK
<1>1. WorkInv(CLHEntry, {})' /\ Inside' = Inside /\ UNCHANGED Abstract!vars
  BY CLHLabels, OutsideStep DEF CLH!Prepare, Step, CLHEntry
<1>a. /\ pc[t] = "lock" /\ pc' = [pc EXCEPT ![t] = "swap"]
      /\ UNCHANGED <<prog, done, queued, ahead, tail, pre_node>>
  BY DEF CLH!Prepare, Step, Goto
<1>2. CLH!Node(t) = <<t, done[t]>> /\ CLH!Node(t) \in CLH!OwnNodes
  BY <1>0 DEF CLH!Prepare, Step, OwnNode, CLH!Node, CLH!OwnNodes
<1>3. ~Old(CLH!Node(t))
  BY <1>0, <1>2 DEF CLHAssumption, CLH!Prepare, Step, Old
<1>4. CLH!Node(t) # tail /\ \A u \in queued : CLH!Node(t) # pre_node[u]
  BY <1>3 DEF OnlyOld
<1>5. lock' = lock \cup {CLH!Node(t)} /\ t \notin queued
  BY DEF CLH!Prepare, Step, NodesTypeOK, Critical
<1>6. \A u \in queued : u # t /\ my_node'[u] = my_node[u]
  BY <1>5 DEF CLH!Prepare, NodesTypeOK, Ordered
<1>7. NodesTypeOK'
  BY <1>0, <1>a, <1>2, <1>5 DEF CLH!Prepare, NodesTypeOK, CLH!Nodes, Critical
<1>8. OwnNode'
  BY <1>0, <1>a, <1>2, <1>5 DEF CLH!Prepare, OwnNode, NodesTypeOK, Critical
<1>9. OnlyOld'
  BY <1>0 DEF CLH!Prepare, Step, Goto, OnlyOld, Old, CLH!OwnNodes
<1>10. CLH!ImplicitQueue'
  BY <1>4, <1>5, <1>6
  DEF CLH!Prepare, CLH!ImplicitQueue, NodesTypeOK, Ordered
<1>11. FirstComeFirstServed'
  BY <1>1 DEF CLH!Prepare, FirstComeFirstServed
<1> QED
  BY <1>1, <1>7, <1>8, <1>9, <1>10, <1>11 DEF CLH!Prepare

LEMMA CLHSwap ==
  ASSUME CLHAssumption, CLHInv, NEW t \in Threads, CLH!Swap(t)
  PROVE  CLHInv' /\ [Abstract!Next]_(Abstract!vars)
<1> USE SameWorker DEF CLHInv, queueVars, workVars
<1>0. /\ pc \in [Threads -> {"lock", "done"} \cup Critical \cup CLHEntry]
      /\ done \in [Threads -> 0..Increments]
      /\ Increments \in Nat \ {0}
  BY IncrementsAssumption DEF WorkInv, WorkTypeOK
<1>1. WorkInv(CLHEntry, {})' /\ Inside' = Inside /\ UNCHANGED Abstract!vars
  BY CLHLabels, OutsideStep DEF CLH!Swap, Step, CLHEntry
<1>2. t \notin queued
  BY DEF CLH!Swap, Step, NodesTypeOK, Critical
<1>3. /\ queued' = queued \cup {t}
      /\ ahead'[t] = queued
      /\ pre_node'[t] = tail
      /\ \A u \in queued : ahead'[u] = ahead[u] /\ pre_node'[u] = pre_node[u]
      /\ tail' = my_node[t]
      /\ my_node' = my_node /\ lock' = lock
  BY <1>2 DEF CLH!Swap, Join, NodesTypeOK, Ordered
<1>4. Ordered(queued, ahead)'
  <2>1. queued' = queued \cup {t} /\ ahead' = [ahead EXCEPT ![t] = queued]
    BY DEF CLH!Swap, Join
  <2> QED
    BY <1>2, <2>1, JoinOrder DEF NodesTypeOK
<1>5. NodesTypeOK'
  <2>1. queued' = {u \in Threads : pc'[u] \in {"spin"} \cup Critical}
    <3>1. pc' = [pc EXCEPT ![t] = "spin"]
      BY DEF CLH!Swap, Step, Goto
    <3> QED
      BY <1>0, <1>3, <3>1 DEF NodesTypeOK, Critical
  <2>2. tail' \in CLH!Nodes
    BY <1>3 DEF CLH!Swap, Step, OwnNode, CLH!Nodes
  <2>3. pre_node' \in [Threads -> CLH!Nodes \cup {NoNode}]
    BY DEF CLH!Swap, NodesTypeOK
  <2> QED
    BY <1>3, <1>4, <2>1, <2>2, <2>3 DEF NodesTypeOK
<1>6. OwnNode'
  BY <1>0 DEF CLH!Swap, Step, Goto, OwnNode, Critical
<1>7. OnlyOld'
  <2>1. ASSUME NEW n, Old(n) PROVE Old(n)'
    BY <1>0, <2>1 DEF CLH!Swap, Step, Goto, Old, CLH!OwnNodes
  <2>2. Old(my_node[t])'
    BY <1>0 DEF CLH!Swap, Step, Goto, OwnNode, Old
  <2> QED
    BY <1>3, <2>1, <2>2 DEF OnlyOld
<1>8. CLH!ImplicitQueue'
  <2>1. ASSUME NEW u \in queued'
        PROVE  IF ahead'[u] = {} THEN pre_node'[u] \notin lock'
               ELSE \E v \in ahead'[u] : /\ pre_node'[u] = my_node'[v]
                                         /\ ahead'[u] = ahead'[v] \cup {v}
    <3>1. CASE u = t
      BY <3>1, <1>3 DEF CLH!ImplicitQueue
    <3>2. CASE u \in queued
      <4>1. ahead[u] \subseteq queued
        BY <3>2 DEF NodesTypeOK, Ordered
      <4> QED
        BY <3>2, <4>1, <1>3 DEF CLH!ImplicitQueue
    <3> QED
      BY <3>1, <3>2, <1>3
  <2>2. tail' = my_node'[t] /\ queued' = ahead'[t] \cup {t}
    BY <1>3
  <2> QED
    BY <2>1, <2>2, <1>3 DEF CLH!ImplicitQueue
<1>9. FirstComeFirstServed'
  BY <1>1, <1>3 DEF FirstComeFirstServed
<1> QED
  BY <1>1, <1>5, <1>6, <1>7, <1>8, <1>9 DEF CLH!Swap

LEMMA CLHGo ==
  ASSUME CLHAssumption, CLHInv, NEW t \in Threads, CLH!Go(t)
  PROVE  CLHInv' /\ [Abstract!Next]_(Abstract!vars)
<1> USE SameWorker DEF CLHInv, queueVars, workVars
<1>0. /\ pc \in [Threads -> {"lock", "done"} \cup Critical \cup CLHEntry]
      /\ done \in [Threads -> 0..Increments]
      /\ Increments \in Nat \ {0}
  BY IncrementsAssumption DEF WorkInv, WorkTypeOK
<1>1. t \in queued
  BY DEF CLH!Go, Step, NodesTypeOK
<1>2. ahead[t] = {}
  <2> SUFFICES ASSUME ahead[t] # {} PROVE FALSE
    OBVIOUS
  <2>1. PICK u \in ahead[t] : pre_node[t] = my_node[u]
    BY <1>1 DEF CLH!ImplicitQueue
  <2>2. u \in queued
    BY <1>1, <2>1 DEF NodesTypeOK, Ordered
  <2>3. my_node[u] \in lock
    BY <2>2 DEF NodesTypeOK, OwnNode
  <2> QED
    BY <2>1, <2>3 DEF CLH!Go
<1>3. Inside = {}
  BY <1>1, <1>2 DEF CLH!Go, Step, FirstComeFirstServed, NodesTypeOK, Ordered,
                    Inside, Critical
<1>4. WorkInv(CLHEntry, {})' /\ Inside' = {t} /\ Abstract!Enter(t)
  BY <1>3, CLHLabels, EnterStep DEF CLH!Go, Step, CLHEntry
<1>5. NodesTypeOK'
  BY <1>0 DEF CLH!Go, Step, Goto, NodesTypeOK, Critical
<1>6. OwnNode'
  BY <1>0 DEF CLH!Go, Step, Goto, OwnNode, Critical
<1>7. OnlyOld'
  BY <1>0 DEF CLH!Go, Step, Goto, OnlyOld, Old, CLH!OwnNodes
<1>8. CLH!ImplicitQueue' /\ FirstComeFirstServed'
  BY <1>1, <1>2, <1>4 DEF CLH!Go, CLH!ImplicitQueue, FirstComeFirstServed
<1> QED
  BY <1>4, <1>5, <1>6, <1>7, <1>8 DEF CLH!Go, Abstract!Next

LEMMA CLHUnlock ==
  ASSUME CLHAssumption, CLHInv, NEW t \in Threads, CLH!Unlock(t)
  PROVE  CLHInv' /\ [Abstract!Next]_(Abstract!vars)
<1> USE SameWorker DEF CLHInv, queueVars, workVars
<1>0. /\ pc \in [Threads -> {"lock", "done"} \cup Critical \cup CLHEntry]
      /\ done \in [Threads -> 0..Increments]
      /\ Increments \in Nat \ {0}
  BY IncrementsAssumption DEF WorkInv, WorkTypeOK
<1>1. WorkInv(CLHEntry, {})' /\ Inside' = {} /\ Abstract!Exit(t)
  BY CLHLabels, ExitStep DEF CLH!Unlock
<1>2. t \in queued /\ ahead[t] = {}
  BY DEF CLH!Unlock, FirstComeFirstServed, Inside, Critical
<1>3. /\ queued' = queued \ {t}
      /\ \A u \in Threads : ahead'[u] = ahead[u] \ {t}
      /\ lock' = lock \ {my_node[t]}
      /\ \A u \in Threads \ {t} : my_node'[u] = my_node[u] /\ pc'[u] = pc[u]
      /\ tail' = tail /\ pre_node' = pre_node /\ done' = done
      /\ pc[t] = "unlock" /\ pc'[t] \in {"lock", "done"}
  <2>1. queued' = queued \ {t} /\ ahead' = [u \in Threads |-> ahead[u] \ {t}]
    BY DEF CLH!Unlock, Depart
  <2>2. pc[t] = "unlock" /\ (pc' = [pc EXCEPT ![t] = "lock"] \/ pc' = [pc EXCEPT ![t] = "done"])
    BY DEF CLH!Unlock, Leave, Goto
  <2> QED
    BY <1>0, <2>1, <2>2 DEF CLH!Unlock, NodesTypeOK
<1>4. \A u \in queued' : u # t /\ t \in ahead[u] /\ ahead[u] \subseteq queued
  BY <1>2, <1>3 DEF NodesTypeOK, Ordered
<1>5. \A u \in queued : my_node[u] \in lock /\ (u # t => my_node[u] # my_node[t])
  BY <1>2 DEF NodesTypeOK, OwnNode
<1>6. NodesTypeOK'
  <2>1. Ordered(queued, ahead)'
    BY DepartOrder DEF CLH!Unlock, Depart, NodesTypeOK
  <2>2. queued' = {u \in Threads : pc'[u] \in {"spin"} \cup Critical}
    BY <1>3 DEF NodesTypeOK, Critical
  <2>3. my_node' \in [Threads -> CLH!Nodes \cup {NoNode}]
    <3>1. prog.node \in {"keep", "fresh", "pred"}
      BY DEF CLHAssumption
    <3>2. CASE prog.node = "keep"
      BY <3>2 DEF CLH!Unlock, NodesTypeOK
    <3>3. CASE prog.node = "fresh"
      BY <3>3 DEF CLH!Unlock, NodesTypeOK
    <3>4. CASE prog.node = "pred"
      BY <3>4 DEF CLH!Unlock, NodesTypeOK
    <3> QED
      BY <3>1, <3>2, <3>3, <3>4
  <2> QED
    BY <1>3, <2>1, <2>2, <2>3 DEF NodesTypeOK
<1>7. OwnNode'
  <2>1. pc'[t] = "lock" => my_node'[t] = NoNode
    <3>1. pc'[t] = "lock" => prog.node = "fresh"
      BY <1>0 DEF CLH!Unlock, Leave, Goto, OwnNode
    <3>2. prog.node = "fresh" => my_node'[t] = NoNode
      BY DEF CLH!Unlock, NodesTypeOK
    <3> QED
      BY <3>1, <3>2
  <2>2. \A u \in Threads \ {t} :
          pc[u] \in {"swap"} \cup {"spin"} \cup Critical =>
            my_node[u] \in lock'
    <3>1. my_node[t][1] = t
      BY <1>3 DEF OwnNode, Critical
    <3>2. ASSUME NEW u \in Threads \ {t},
                 pc[u] \in {"swap"} \cup {"spin"} \cup Critical
          PROVE  my_node[u][1] = u /\ my_node[u] \in lock
      BY <3>2 DEF OwnNode
    <3> QED
      BY <1>3, <3>1, <3>2
  <2>3. prog' = prog /\ pc'[t] \notin {"swap", "spin"} \cup Critical
    BY <1>3 DEF CLH!Unlock, Critical
  <2>4. \A u \in Threads \ {t} : /\ my_node'[u] = my_node[u]
                                /\ pc'[u] = pc[u] /\ done'[u] = done[u]
    BY <1>3
  <2> QED
    BY <2>1, <2>2, <2>3, <2>4 DEF OwnNode, Critical
<1>8. OnlyOld'
  <2>1. ASSUME NEW n, Old(n) PROVE Old(n)'
    BY <1>0, <1>3, <2>1 DEF Old, CLH!OwnNodes
  <2> QED
    BY <1>3, <2>1 DEF OnlyOld
<1>9. CLH!ImplicitQueue'
  <2>1. ASSUME NEW u \in queued'
        PROVE  IF ahead'[u] = {} THEN pre_node'[u] \notin lock'
               ELSE \E v \in ahead'[u] : /\ pre_node'[u] = my_node'[v]
                                         /\ ahead'[u] = ahead'[v] \cup {v}
    <3>1. PICK v \in ahead[u] : pre_node[u] = my_node[v] /\ ahead[u] = ahead[v] \cup {v}
      BY <1>3, <1>4 DEF CLH!ImplicitQueue
    <3>2. CASE v = t
      BY <1>2, <1>3, <3>1, <3>2, <1>4 DEF NodesTypeOK, Ordered
    <3>3. CASE v # t
      <4>1. v \in ahead'[u] /\ v \in Threads /\ u \in Threads
        BY <1>3, <1>4, <3>1, <3>3 DEF NodesTypeOK, Ordered
      <4> QED
        BY <1>3, <3>1, <3>3, <4>1
    <3> QED
      BY <3>2, <3>3
  <2>2. PICK u \in queued : tail = my_node[u] /\ queued = ahead[u] \cup {u}
    BY <1>2 DEF CLH!ImplicitQueue
  <2>3. CASE u = t
    BY <1>2, <1>3, <2>2, <2>3, <2>1 DEF CLH!ImplicitQueue
  <2>4. CASE u # t
    <3>1. u \in queued' /\ u \in Threads
      BY <1>3, <2>4 DEF NodesTypeOK, Ordered
    <3>2. tail' = my_node'[u] /\ queued' = ahead'[u] \cup {u}
      BY <1>3, <2>2, <2>4, <3>1
    <3> QED
      BY <2>1, <3>1, <3>2 DEF CLH!ImplicitQueue
  <2> QED
    BY <2>3, <2>4
<1>10. FirstComeFirstServed'
  BY <1>1 DEF FirstComeFirstServed
<1> QED
  BY <1>1, <1>6, <1>7, <1>8, <1>9, <1>10 DEF CLH!Unlock, Abstract!Next

LEMMA CLHStep ==
  ASSUME CLHAssumption, CLHInv, [CLH!Next]_(CLH!vars)
  PROVE  CLHInv' /\ [Abstract!Next]_(Abstract!vars)
<1> USE SameWorker
<1>1. CASE UNCHANGED CLH!vars
  <2>1. WorkInv(CLHEntry, {})' /\ Inside' = Inside /\ UNCHANGED Abstract!vars
    BY <1>1, WorkStutter DEF CLH!vars, CLHInv, workVars, CLH!workVars
  <2>2. CLHInv'
    BY <1>1, <2>1
    DEF CLH!vars, CLH!workVars, CLH!queueVars, workVars, queueVars, CLHInv,
        NodesTypeOK, Ordered, OwnNode, OnlyOld, Old, CLH!ImplicitQueue,
        FirstComeFirstServed
  <2> QED
    BY <2>1, <2>2
<1>2. ASSUME NEW t \in Threads, CLH!Act(t)
      PROVE  CLHInv' /\ [Abstract!Next]_(Abstract!vars)
  BY <1>2, CLHWork, CLHPrepare, CLHSwap, CLHGo, CLHUnlock
  DEF CLH!Act, queueVars
<1> QED
  BY <1>1, <1>2 DEF CLH!Next, CLH!Joined

-----------------------------------------------------------------------------
LEMMA CLHInvariance ==
  ASSUME CLHAssumption
  PROVE  CLH!Spec => [](CLHInv /\ CLH!TypeOK)
<1>1. CLH!Init => CLHInv
  BY CLHStart
<1>2. CLHInv => CLH!TypeOK
  <2> SUFFICES ASSUME CLHInv PROVE CLH!TypeOK
    OBVIOUS
  <2>1. WorkTypeOK({"swap", "spin"})
    BY DEF CLHInv, WorkInv, CLHEntry, WorkTypeOK
  <2>2. CLH!WorkTypeOK({"swap", "spin"})
    BY <2>1, SameWorker
  <2> QED
    BY <2>2 DEF CLHInv, NodesTypeOK, Ordered, CLH!TypeOK
<1> QED
  BY <1>1, <1>2, CLHStep, PTL DEF CLH!Spec

(* At most one thread is between lock() and the store in unlock().         *)
THEOREM CLHExcludes ==
  ASSUME CLHAssumption
  PROVE  CLH!Spec => []MutualExclusion
<1>1. CLHInv => MutualExclusion
  BY DEF CLHInv, WorkInv
<1> QED
  BY <1>1, CLHInvariance, PTL

(* When main() has joined the threads, shared_value holds every increment  *)
(* of every one of them.                                                   *)
THEOREM CLHCounts ==
  ASSUME CLHAssumption
  PROVE  CLH!Spec => []NothingLost
<1>1. CLHInv => NothingLost
  BY CountAll DEF CLHInv, WorkInv
<1> QED
  BY <1>1, CLHInvariance, PTL

(* The threads are served in the order of their exchanges on the tail.     *)
THEOREM CLHInOrder ==
  ASSUME CLHAssumption
  PROVE  CLH!Spec => []FirstComeFirstServed
<1>1. CLHInv => FirstComeFirstServed
  BY DEF CLHInv
<1> QED
  BY <1>1, CLHInvariance, PTL

(* The nodes form the queue that the algorithm never stores as such.       *)
THEOREM QueueIsImplicit ==
  ASSUME CLHAssumption
  PROVE  CLH!Spec => []CLH!ImplicitQueue
<1>1. CLHInv => CLH!ImplicitQueue
  BY DEF CLHInv
<1> QED
  BY <1>1, CLHInvariance, PTL

(* The program implements the counter with atomic increments.              *)
THEOREM CLHRefines ==
  ASSUME CLHAssumption
  PROVE  CLH!Spec => ImplementsLockedCounter
<1>1. CLH!Init => CLHInv /\ Abstract!Init
  BY CLHStart
<1> QED
  BY <1>1, CLHStep, PTL DEF CLH!Spec, ImplementsLockedCounter, Abstract!Spec
=============================================================================
