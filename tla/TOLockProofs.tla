---------------------------- MODULE TOLockProofs ----------------------------
(***************************************************************************)
(* The timeout lock, for every finite set of threads, every choice of      *)
(* those that may give up and every number of increments: a thread that    *)
(* gives up in the middle of the queue lets in one other and no more, and  *)
(* the lock is left free.                                                  *)
(*                                                                         *)
(* OneIntruderEach counts; it rests on Balance, which counts permissions   *)
(* to enter.  There is one to begin with, and each thread that abandons    *)
(* its node makes one.  A permission is the lock's tail AVAILABLE, a node  *)
(* made AVAILABLE that let nobody in yet, or a thread that holds the lock. *)
(* The rest of Inv says that none is used twice: OneBehind.                *)
(***************************************************************************)
EXTENDS TOLock, WorkerProofs

Waiting == {t \in Threads : pc[t] \in {"poll", "give up", "abandon"}}
Holders == {t \in Threads : pc[t] \in Critical \cup {"hand on"}}

\* The threads that got the lock, now or before.
Entered == Holders \cup {t \in Threads : pc[t] = "done" /\ done[t] > 0}

\* The threads that spin on x's node, or got the lock from it.
Behind(x) == {t \in Waiting \cup Entered : pred_to_wait_on[t] = x}

\* The nodes that will let the next thread behind them in.
Open == {x \in Threads : pred[x] = AVAILABLE /\ Behind(x) \cap Entered = {}}

TOTypeOK ==
  /\ prog.once
  /\ pc \in [Threads -> {"lock", "poll", "give up", "abandon", "hand on", "done"}
                          \cup Critical]
  /\ done \in [Threads -> 0..Increments]
  /\ tail \in Threads \cup {AVAILABLE}
  /\ pred \in [Threads -> {NULL, AVAILABLE}]
  /\ pred_to_wait_on \in [Threads -> Threads \cup {NULL, AVAILABLE}]

\* A thread does all its increments, or none.
AllOrNone ==
  \A t \in Threads :
    /\ pc[t] = "lock" \/ t \in Waiting => done[t] = 0
    /\ pc[t] \in {"read", "write"} => done[t] < Increments
    /\ pc[t] \in {"unlock", "hand on"} => done[t] = Increments

\* A thread's node is made AVAILABLE by its last step.
AvailableLast == \A x \in Threads : pred[x] = AVAILABLE => pc[x] = "done"

\* Whoever left a node that can still be reached has made it AVAILABLE.
NoDeadEnd == \A x \in Threads :
  tail = x \/ Behind(x) # {} =>
    /\ pc[x] # "lock"
    /\ pc[x] = "done" => pred[x] = AVAILABLE

\* A thread waits on a node, and got the lock from AVAILABLE.
LetIn ==
  /\ \A t \in Waiting : pred_to_wait_on[t] \in Threads
  /\ \A t \in Entered : \/ pred_to_wait_on[t] = AVAILABLE
                        \/ /\ pred_to_wait_on[t] \in Threads
                           /\ pred[pred_to_wait_on[t]] = AVAILABLE

\* No two threads have the same node before them, also not the next to come.
OneBehind == \A x \in Threads : /\ \A t, u \in Behind(x) : t = u
                                /\ tail = x => Behind(x) = {}

Free == IF tail = AVAILABLE THEN 1 ELSE 0

Balance == Cardinality(Holders) + Cardinality(Open) + Free
             = 1 + Cardinality(Abandoned)

Inv == /\ TOTypeOK /\ AllOrNone /\ AvailableLast /\ NoDeadEnd
       /\ LetIn /\ OneBehind /\ Balance

-----------------------------------------------------------------------------
\* The sets that Balance counts are finite.
LEMMA Finite ==
  ASSUME NEW S \in SUBSET Threads
  PROVE  IsFiniteSet(S) /\ Cardinality(S) \in Nat
BY FiniteThreads, FS_Subset, FS_CardinalityType

LEMMA Counted ==
  ASSUME NEW S \in SUBSET Threads, NEW t \in Threads
  PROVE  /\ Cardinality(S) \in Nat
         /\ t \notin S => Cardinality(S \cup {t}) = Cardinality(S) + 1
         /\ t \in S => Cardinality(S \ {t}) = Cardinality(S) - 1
BY Finite, FS_AddElement, FS_RemoveElement

LEMMA IncrementsPositive == Increments \in Nat /\ Increments > 0
BY IncrementsAssumption

\* A thread that has done nothing, and one that has done everything.
LEMMA NothingDone == ASSUME NEW n, n = 0 PROVE ~(n > 0)
OBVIOUS

LEMMA EverythingDone == ASSUME NEW n, n = Increments PROVE ~(n < Increments) /\ n > 0
BY IncrementsPositive

LEMMA Sizes ==
  /\ Cardinality(Holders) \in Nat /\ Cardinality(Open) \in Nat
  /\ Cardinality(Abandoned) \in Nat
<1>1. Holders \in SUBSET Threads /\ Open \in SUBSET Threads /\ Abandoned \in SUBSET Threads
  BY DEF Holders, Open, Abandoned
<1> QED
  BY <1>1, Finite

LEMMA InvInit == Init => Inv
<1> SUFFICES ASSUME Init PROVE Inv
  OBVIOUS
<1> USE DEF Init, WorkInit
<1>1. TOTypeOK
  BY IncrementsAssumption DEF TOTypeOK
<1>2. Waiting = {} /\ Entered = {} /\ Holders = {} /\ Abandoned = {}
  BY DEF Waiting, Entered, Holders, Abandoned, Critical
<1>3. Open = {}
  BY NodeAssumption DEF Open
<1>4. Balance
  BY <1>2, <1>3, FS_EmptySet DEF Balance, Free
<1>5. AllOrNone /\ AvailableLast /\ NoDeadEnd /\ LetIn /\ OneBehind
  BY <1>2, NodeAssumption, IncrementsAssumption
  DEF AllOrNone, AvailableLast, NoDeadEnd, LetIn, OneBehind, Behind
<1> QED
  BY <1>1, <1>4, <1>5 DEF Inv

(* A step that leaves the nodes alone and moves no thread into the queue,  *)
(* into the critical section or to its end.                                *)
LEMMA Unmoved ==
  ASSUME Inv, TOTypeOK', AllOrNone', UNCHANGED nodeVars,
         Waiting' = Waiting, Holders' = Holders,
         \A x \in Threads : /\ pc'[x] = "lock" <=> pc[x] = "lock"
                            /\ pc'[x] = "done" <=> pc[x] = "done"
                            /\ pc[x] = "done" => done'[x] = done[x]
  PROVE  Inv'
<1> USE DEF Inv, nodeVars
<1>1. Entered' = Entered /\ Abandoned' = Abandoned
  BY DEF Entered, Abandoned
<1>2. \A x : Behind(x)' = Behind(x)
  BY <1>1 DEF Behind
<1>3. Open' = Open
  BY <1>1, <1>2 DEF Open
<1>4. Balance'
  BY <1>1, <1>3 DEF Balance, Free
<1> QED
  BY <1>1, <1>2, <1>4 DEF AvailableLast, NoDeadEnd, LetIn, OneBehind

\* Where a step leaves pc.
LEMMA PcFacts ==
  ASSUME TOTypeOK, NEW t \in Threads, NEW to, Goto(t, to)
  PROVE  /\ pc'[t] = to
         /\ \A u \in Threads : u # t => pc'[u] = pc[u]
BY DEF TOTypeOK, Goto

LEMMA WorkKeepsInv ==
  ASSUME Inv, NEW t \in Threads, Work(t), UNCHANGED <<queueVars, nodeVars>>
  PROVE  Inv'
<1> USE DEF Inv, workVars
<1>0. Increments \in Nat /\ Increments > 0 /\ t \in Holders /\ pc[t] \in {"read", "write"}
  BY IncrementsPositive DEF Work, ReadShared, WriteShared, Step, Holders, Critical
<1>1. done[t] < Increments /\ done[t] \in Nat
  <2>1. done[t] < Increments
    BY <1>0 DEF AllOrNone
  <2>2. done[t] \in 0..Increments
    BY DEF TOTypeOK
  <2> QED
    BY <1>0, <2>1, <2>2
<1>2. CASE ReadShared(t)
  <2>1. Goto(t, "write") /\ done' = done /\ prog' = prog
    BY <1>2 DEF ReadShared, Step
  <2>p. pc'[t] = "write" /\ \A u \in Threads : u # t => pc'[u] = pc[u]
    BY <2>1, PcFacts
  <2>2. Waiting' = Waiting /\ Holders' = Holders
    BY <1>0, <2>1, <2>p DEF Waiting, Holders, Critical
  <2>3. TOTypeOK'
    BY <2>1 DEF TOTypeOK, Goto, Critical, nodeVars
  <2>4. AllOrNone'
    BY <1>1, <2>1, <2>2, <2>p DEF AllOrNone
  <2> QED
    BY <1>0, <2>1, <2>2, <2>3, <2>4, <2>p, Unmoved
<1>3. CASE WriteShared(t)
  <2>1. PICK to \in {"read", "unlock"} :
             Goto(t, to) /\ (to = "read" <=> done[t] + 1 < Increments)
    BY <1>3 DEF WriteShared, TOTypeOK
  <2>p. pc'[t] = to /\ \A u \in Threads : u # t => pc'[u] = pc[u]
    BY <2>1, PcFacts
  <2>2. prog' = prog /\ done' = [done EXCEPT ![t] = @ + 1]
    BY <1>3 DEF WriteShared
  <2>3. Waiting' = Waiting /\ Holders' = Holders
    BY <1>0, <2>1, <2>p DEF Waiting, Holders, Critical
  <2>4. TOTypeOK'
    <3>1. done[t] + 1 \in 0..Increments
      BY <1>0, <1>1
    <3>2. done' \in [Threads -> 0..Increments]
      BY <2>2, <3>1 DEF TOTypeOK
    <3> QED
      BY <2>1, <2>2, <3>2 DEF TOTypeOK, Goto, Critical, nodeVars
  <2>5. AllOrNone'
    <3>1. done'[t] = done[t] + 1 /\ \A u \in Threads : u # t => done'[u] = done[u]
      BY <2>2 DEF TOTypeOK
    <3>2. t \notin Waiting
      BY <1>0 DEF Waiting
    <3>3. \A u \in Threads : u # t =>
            /\ (pc'[u] = "lock" \/ u \in Waiting') => done'[u] = 0
            /\ pc'[u] \in {"read", "write"} => done'[u] < Increments
            /\ pc'[u] \in {"unlock", "hand on"} => done'[u] = Increments
      BY <2>3, <2>p, <3>1 DEF AllOrNone
    <3>4. /\ pc'[t] = "read" => done'[t] < Increments
          /\ pc'[t] = "unlock" => done'[t] = Increments
      BY <1>0, <1>1, <2>1, <2>p, <3>1
    <3> QED
      BY <2>1, <2>3, <2>p, <3>2, <3>3, <3>4 DEF AllOrNone
  <2>6. \A x \in Threads : x # t => done'[x] = done[x]
    BY <2>2 DEF TOTypeOK
  <2> QED
    BY <1>0, <2>1, <2>3, <2>4, <2>5, <2>6, <2>p, Unmoved
<1> QED
  BY <1>2, <1>3 DEF Work

\* The three steps that only look.
LEMMA LookKeepsInv ==
  ASSUME Inv, NEW t \in Threads, UNCHANGED <<workVars, nodeVars>>,
         \/ Step(t, "poll", "give up")
         \/ Step(t, "give up", "abandon")
         \/ Step(t, "unlock", "hand on")
  PROVE  Inv'
<1> USE DEF Inv, workVars
<1>1. PICK to \in {"give up", "abandon", "hand on"} :
        /\ Goto(t, to)
        /\ IF to = "hand on" THEN pc[t] = "unlock" ELSE pc[t] \in {"poll", "give up"}
  BY DEF Step
<1>p. pc'[t] = to /\ \A u \in Threads : u # t => pc'[u] = pc[u]
  BY <1>1, PcFacts
<1>2. Waiting' = Waiting /\ Holders' = Holders
  BY <1>1, <1>p DEF Waiting, Holders, Critical
<1>3. TOTypeOK'
  BY <1>1 DEF TOTypeOK, Goto, nodeVars
<1>4. AllOrNone'
  BY <1>1, <1>2, <1>p DEF AllOrNone, workVars, Waiting
<1> QED
  BY <1>1, <1>2, <1>3, <1>4, <1>p, Unmoved

LEMMA ExchangeKeepsInv ==
  ASSUME Inv, NEW t \in Threads, Exchange(t)
  PROVE  Inv'
<1> USE DEF Inv, workVars
<1>0. /\ pc[t] = "lock" /\ pred' = pred /\ done' = done /\ prog' = prog
      /\ tail' = t /\ pred_to_wait_on' = [pred_to_wait_on EXCEPT ![t] = tail]
  BY DEF Exchange, Step
<1>1. t \notin Waiting \cup Entered /\ Behind(t) = {} /\ pred[t] # AVAILABLE
  BY <1>0 DEF Waiting, Entered, Holders, Critical, NoDeadEnd, AvailableLast
<1>2. \A u \in Threads : pred_to_wait_on'[u] = IF u = t THEN tail ELSE pred_to_wait_on[u]
  BY <1>0 DEF TOTypeOK
<1>m. Waiting \cup Entered \subseteq Threads
  BY DEF Waiting, Entered, Holders
<1>3. CASE tail = AVAILABLE
  <2>1. Goto(t, "read")
    BY <1>3 DEF Exchange, Step
  <2>p. pc'[t] = "read" /\ \A u \in Threads : u # t => pc'[u] = pc[u]
    BY <2>1, PcFacts
  <2>2. /\ Holders' = Holders \cup {t} /\ Waiting' = Waiting
        /\ Entered' = Entered \cup {t}
    BY <1>0, <2>1, <2>p DEF Holders, Waiting, Entered, Critical
  <2>3. \A x \in Threads : Behind(x)' = Behind(x)
    BY <1>1, <1>2, <1>3, <1>m, <2>2, NodeAssumption DEF Behind
  <2>4. Open' = Open /\ Abandoned' = Abandoned
    <3>1. \A x \in Threads : (Behind(x) \cap Entered)' = Behind(x) \cap Entered
      BY <1>1, <2>2, <2>3 DEF Behind
    <3> QED
      BY <1>0, <2>1, <3>1, <2>p DEF Open, Abandoned
  <2>5. TOTypeOK' /\ AllOrNone'
    <3>1. TOTypeOK'
      BY <1>0, <2>1 DEF TOTypeOK, Goto, Critical
    <3>2. AllOrNone'
      <4>1. done[t] = 0 /\ 0 < Increments
        BY <1>0, IncrementsPositive DEF AllOrNone
      <4> QED
        BY <1>0, <1>1, <2>2, <2>p, <4>1 DEF AllOrNone
    <3> QED
      BY <3>1, <3>2
  <2>6. Balance'
    <3>1. Cardinality(Holders') = Cardinality(Holders) + 1
      BY <1>1, <2>2, Counted DEF Holders, Entered
    <3>2. Free = 1 /\ Free' = 0
      BY <1>0, <1>3, NodeAssumption DEF Free
    <3> QED
      BY <2>4, <3>1, <3>2, Sizes DEF Balance
  <2> QED
    BY <1>0, <1>1, <1>2, <1>3, <2>1, <2>2, <2>3, <2>5, <2>6, <2>p
    DEF AvailableLast, NoDeadEnd, LetIn, OneBehind
<1>4. CASE tail # AVAILABLE
  <2>0. tail \in Threads /\ tail # t /\ Behind(tail) = {}
    BY <1>0, <1>4 DEF TOTypeOK, NoDeadEnd, OneBehind
  <2>1. Goto(t, "poll")
    BY <1>4 DEF Exchange, Step
  <2>p. pc'[t] = "poll" /\ \A u \in Threads : u # t => pc'[u] = pc[u]
    BY <2>1, PcFacts
  <2>2. /\ Holders' = Holders /\ Waiting' = Waiting \cup {t}
        /\ Entered' = Entered
    BY <1>0, <2>1, <2>p DEF Holders, Waiting, Entered, Critical
  <2>3. \A x \in Threads : Behind(x)' = IF x = tail THEN {t} ELSE Behind(x)
    BY <1>1, <1>2, <1>m, <2>0, <2>2 DEF Behind
  <2>4. Open' = Open /\ Abandoned' = Abandoned
    <3>1. \A x \in Threads : (Behind(x) \cap Entered)' = Behind(x) \cap Entered
      BY <1>1, <2>0, <2>2, <2>3 DEF Behind
    <3> QED
      BY <1>0, <2>1, <3>1, <2>p DEF Open, Abandoned
  <2>5. TOTypeOK' /\ AllOrNone'
    <3>1. TOTypeOK'
      BY <1>0, <2>1 DEF TOTypeOK, Goto
    <3>2. AllOrNone'
      BY <1>0, <2>1, <2>2, <2>p DEF AllOrNone
    <3> QED
      BY <3>1, <3>2
  <2>6. Balance'
    BY <1>0, <1>4, <2>2, <2>4, NodeAssumption DEF Balance, Free
  <2>7. NoDeadEnd'
    BY <1>0, <2>0, <2>1, <2>3, <1>1, <2>p DEF NoDeadEnd
  <2>8. LetIn'
    BY <1>0, <1>1, <1>2, <2>0, <2>2 DEF LetIn
  <2>9. OneBehind'
    BY <1>0, <1>1, <2>0, <2>3 DEF OneBehind
  <2> QED
    BY <1>0, <2>1, <2>5, <2>6, <2>7, <2>8, <2>9, <2>p DEF AvailableLast
<1> QED
  BY <1>3, <1>4

LEMMA PollKeepsInv ==
  ASSUME Inv, NEW t \in Threads, Poll(t)
  PROVE  Inv'
<1> USE DEF Inv, workVars
<1> DEFINE x == pred_to_wait_on[t]
<1>0. pc[t] = "poll" /\ t \in Waiting /\ t \notin Entered /\ UNCHANGED <<workVars, tail, pred>>
  BY DEF Poll, Waiting, Entered, Holders, Critical
<1>1. x \in Threads /\ pred[x] = AVAILABLE /\ Goto(t, "read") /\ UNCHANGED pred_to_wait_on
  BY <1>0 DEF Poll, LetIn, TOTypeOK
<1>p. pc'[t] = "read" /\ \A u \in Threads : u # t => pc'[u] = pc[u]
  BY <1>1, PcFacts
<1>2. Behind(x) = {t}
  BY <1>0, <1>1 DEF OneBehind, Behind
<1>3. /\ Holders' = Holders \cup {t} /\ Waiting' = Waiting \ {t}
      /\ Entered' = Entered \cup {t}
  BY <1>0, <1>1, <1>p DEF Holders, Waiting, Entered, Critical
<1>4. \A y : Behind(y)' = Behind(y)
  BY <1>0, <1>1, <1>3 DEF Behind
<1>5. x \in Open /\ Open' = Open \ {x}
  <2>1. \A y \in Threads : (Behind(y) \cap Entered)' = IF y = x THEN {t} ELSE Behind(y) \cap Entered
    BY <1>0, <1>2, <1>3, <1>4 DEF Behind
  <2> QED
    BY <1>0, <1>1, <1>2, <2>1 DEF Open
<1>6. Abandoned' = Abandoned
  BY <1>0, <1>1, <1>p DEF Abandoned
<1>7. Balance'
  <2>1. t \notin Holders
    BY <1>0 DEF Entered
  <2>2. Cardinality(Holders') = Cardinality(Holders) + 1
    BY <1>3, <2>1, Counted DEF Holders
  <2>3. Cardinality(Open') = Cardinality(Open) - 1
    BY <1>1, <1>5, Counted DEF Open
  <2>4. Free' = Free
    BY <1>0 DEF Free
  <2> QED
    BY <1>6, <2>2, <2>3, <2>4, Sizes DEF Balance, Free
<1>8. TOTypeOK'
  BY <1>0, <1>1 DEF TOTypeOK, Goto, Critical
<1>9. AllOrNone'
  <2>1. done[t] = 0 /\ 0 < Increments /\ done' = done
    BY <1>0, IncrementsPositive DEF AllOrNone
  <2> QED
    BY <1>0, <1>3, <1>p, <2>1 DEF AllOrNone
<1>10. LetIn'
  BY <1>0, <1>1, <1>3 DEF LetIn
<1> QED
  BY <1>0, <1>1, <1>4, <1>7, <1>8, <1>9, <1>10, <1>p
  DEF AvailableLast, NoDeadEnd, OneBehind

\* A thread that gives up leaves nobody behind it but those who wait on its
\* node.
LEMMA GiveUpFacts ==
  ASSUME Inv, NEW t \in Threads, pc[t] \in {"give up", "abandon"},
         Goto(t, "done"), UNCHANGED <<workVars, pred_to_wait_on>>
  PROVE  /\ done[t] = 0 /\ pred_to_wait_on[t] \in Threads
         /\ pred[t] # AVAILABLE
         /\ Holders' = Holders /\ Waiting' = Waiting \ {t} /\ Entered' = Entered
         /\ t \notin Entered
         /\ \A x : Behind(x)' = Behind(x) \ {t}
         /\ \A x : (Behind(x) \cap Entered)' = Behind(x) \cap Entered
         /\ t \in Behind(pred_to_wait_on[t])
         /\ AllOrNone'
<1> USE DEF Inv, workVars
<1>1. t \in Waiting /\ t \notin Entered /\ done[t] = 0
  BY DEF Waiting, Entered, Holders, Critical, AllOrNone
<1>p. pc'[t] = "done" /\ \A u \in Threads : u # t => pc'[u] = pc[u]
  BY PcFacts
<1>2. Holders' = Holders /\ Waiting' = Waiting \ {t} /\ Entered' = Entered
  <2>1. done' = done
    OBVIOUS
  <2>2. Holders' = Holders /\ Waiting' = Waiting \ {t}
    BY <1>p DEF Holders, Waiting, Critical
  <2>3. Entered' = Entered
    <3>1. ~(done[t] > 0)
      BY <1>1, NothingDone, Zenon
    <3> QED
      BY <1>p, <2>1, <2>2, <3>1 DEF Entered
  <2> QED
    BY <2>2, <2>3
<1>3. \A x : Behind(x)' = Behind(x) \ {t}
  BY <1>1, <1>2 DEF Behind
<1>4. AllOrNone'
  BY <1>2, <1>p DEF AllOrNone
<1> QED
  BY <1>1, <1>2, <1>3, <1>4 DEF LetIn, AvailableLast, Behind

LEMMA WithdrawKeepsInv ==
  ASSUME Inv, NEW t \in Threads, Withdraw(t)
  PROVE  Inv'
<1> USE DEF Inv, workVars
<1>0. /\ pc[t] = "give up" /\ Goto(t, "done") /\ tail = t /\ tail' = pred_to_wait_on[t]
      /\ UNCHANGED <<workVars, pred, pred_to_wait_on>>
  BY DEF Withdraw, Step
<1>1. /\ done[t] = 0 /\ pred_to_wait_on[t] \in Threads
      /\ pred[t] # AVAILABLE
      /\ Holders' = Holders /\ Waiting' = Waiting \ {t} /\ Entered' = Entered
      /\ t \notin Entered
      /\ \A y : Behind(y)' = Behind(y) \ {t}
      /\ \A y : (Behind(y) \cap Entered)' = Behind(y) \cap Entered
      /\ t \in Behind(pred_to_wait_on[t])
      /\ AllOrNone'
  BY <1>0, GiveUpFacts
<1>p. pc'[t] = "done" /\ \A u \in Threads : u # t => pc'[u] = pc[u]
  BY <1>0, PcFacts
<1> PICK x \in Threads : x = pred_to_wait_on[t]
  BY <1>1
<1>2. Behind(t) = {} /\ x # t /\ Behind(x) = {t} /\ Behind(x)' = {}
  <2>1. Behind(t) = {}
    BY <1>0 DEF OneBehind
  <2>2. \A u \in Behind(x) : u = t
    BY <1>1 DEF OneBehind
  <2>3. x # t
    BY <1>1, <2>1
  <2> QED
    BY <1>1, <2>1, <2>2, <2>3
<1>3. Open' = Open /\ Abandoned' = Abandoned
  BY <1>0, <1>1, <1>p DEF Open, Abandoned
<1>4. Balance'
  BY <1>0, <1>1, <1>3, NodeAssumption DEF Balance, Free
<1>5. TOTypeOK'
  BY <1>0, <1>1 DEF TOTypeOK, Goto
<1>6. NoDeadEnd'
  BY <1>0, <1>1, <1>2, <1>p DEF NoDeadEnd
<1>7. OneBehind'
  BY <1>0, <1>1, <1>2 DEF OneBehind
<1> QED
  BY <1>0, <1>1, <1>4, <1>5, <1>6, <1>7, <1>p DEF AvailableLast, LetIn

LEMMA AbandonKeepsInv ==
  ASSUME Inv, NEW t \in Threads, Abandon(t)
  PROVE  Inv'
<1> USE DEF Inv, workVars
<1>0. /\ pc[t] = "abandon" /\ Goto(t, "done") /\ pred' = [pred EXCEPT ![t] = AVAILABLE]
      /\ UNCHANGED <<workVars, tail, pred_to_wait_on>>
  BY DEF Abandon, Step
<1>1. /\ done[t] = 0
      /\ pred[t] # AVAILABLE
      /\ Holders' = Holders /\ Waiting' = Waiting \ {t} /\ Entered' = Entered
      /\ \A y : Behind(y)' = Behind(y) \ {t}
      /\ \A y : (Behind(y) \cap Entered)' = Behind(y) \cap Entered
      /\ AllOrNone'
  BY <1>0, GiveUpFacts
<1>p. pc'[t] = "done" /\ \A u \in Threads : u # t => pc'[u] = pc[u]
  BY <1>0, PcFacts
<1>2. \A y \in Threads : pred'[y] = IF y = t THEN AVAILABLE ELSE pred[y]
  BY <1>0 DEF TOTypeOK
<1>3. Behind(t) \cap Entered = {}
  BY <1>1, NodeAssumption DEF LetIn, Behind
<1>4. Open' = Open \cup {t} /\ t \notin Open
  BY <1>1, <1>2, <1>3 DEF Open
<1>5. Abandoned' = Abandoned \cup {t} /\ t \notin Abandoned
  BY <1>0, <1>1, <1>2, <1>p DEF Abandoned
<1>6. Balance'
  <2>1. Cardinality(Open') = Cardinality(Open) + 1
    BY <1>4, Counted DEF Open
  <2>2. Cardinality(Abandoned') = Cardinality(Abandoned) + 1
    BY <1>5, Counted DEF Abandoned
  <2>3. Free' = Free
    BY <1>0 DEF Free
  <2> QED
    BY <1>1, <2>1, <2>2, <2>3, Sizes DEF Balance, Free
<1>7. TOTypeOK'
  BY <1>0 DEF TOTypeOK, Goto
<1>8. NoDeadEnd' /\ AvailableLast' /\ LetIn'
  <2>1. NoDeadEnd'
    BY <1>0, <1>1, <1>2, <1>p DEF NoDeadEnd
  <2>2. AvailableLast'
    BY <1>0, <1>1, <1>2, <1>p DEF AvailableLast
  <2>3. LetIn'
    BY <1>0, <1>1, <1>2 DEF LetIn
  <2> QED
    BY <2>1, <2>2, <2>3
<1> QED
  BY <1>0, <1>1, <1>6, <1>7, <1>8 DEF OneBehind

\* A thread that leaves the lock has done all its increments.
LEMMA LeaveFacts ==
  ASSUME Inv, NEW t \in Threads, pc[t] \in {"unlock", "hand on"},
         Leave(t), UNCHANGED <<workVars, pred_to_wait_on>>
  PROVE  /\ Goto(t, "done") /\ done[t] > 0
         /\ pred[t] # AVAILABLE
         /\ t \in Holders
         /\ Holders' = Holders \ {t} /\ Waiting' = Waiting /\ Entered' = Entered
         /\ \A x : Behind(x)' = Behind(x)
         /\ AllOrNone'
<1> USE DEF Inv, workVars
<1>0. Increments \in Nat /\ Increments > 0 /\ done[t] = Increments
  BY IncrementsPositive DEF AllOrNone
<1>1. Goto(t, "done")
  <2>1. ~(done[t] < Increments)
    BY <1>0, EverythingDone, Zenon
  <2> QED
    BY <2>1 DEF Leave
<1>p. pc'[t] = "done" /\ \A u \in Threads : u # t => pc'[u] = pc[u]
  BY <1>1, PcFacts
<1>2. Holders' = Holders \ {t} /\ Waiting' = Waiting /\ t \in Holders
  BY <1>1, <1>p DEF Holders, Waiting, Critical
<1>3. Entered' = Entered
  <2>1. done' = done /\ done[t] > 0
    BY <1>0
  <2> QED
    BY <1>2, <1>p, <2>1 DEF Entered
<1>4. \A x : Behind(x)' = Behind(x)
  BY <1>2, <1>3 DEF Behind
<1>5. AllOrNone'
  BY <1>1, <1>2, <1>p DEF AllOrNone
<1> QED
  <2>1. done[t] > 0
    BY <1>0
  <2>2. pred[t] # AVAILABLE
    BY DEF AvailableLast
  <2> QED
    BY <1>1, <1>2, <1>3, <1>4, <1>5, <2>1, <2>2

LEMMA ReleaseKeepsInv ==
  ASSUME Inv, NEW t \in Threads, Release(t)
  PROVE  Inv'
<1> USE DEF Inv, workVars
<1>0. /\ pc[t] = "unlock" /\ tail = t /\ tail' = AVAILABLE
      /\ UNCHANGED <<workVars, pred, pred_to_wait_on>>
  BY DEF Release
<1>1. /\ Goto(t, "done") /\ done[t] > 0
      /\ pred[t] # AVAILABLE
      /\ t \in Holders
      /\ Holders' = Holders \ {t} /\ Waiting' = Waiting /\ Entered' = Entered
      /\ \A x : Behind(x)' = Behind(x)
      /\ AllOrNone'
  BY <1>0, LeaveFacts DEF Release
<1>p. pc'[t] = "done" /\ \A u \in Threads : u # t => pc'[u] = pc[u]
  BY <1>1, PcFacts
<1>2. Open' = Open /\ Abandoned' = Abandoned
  BY <1>0, <1>1, <1>p DEF Open, Abandoned
<1>3. Balance'
  <2>1. Cardinality(Holders') = Cardinality(Holders) - 1
    BY <1>1, Counted DEF Holders
  <2>2. Free = 0 /\ Free' = 1
    BY <1>0, NodeAssumption DEF Free
  <2> QED
    BY <1>2, <2>1, <2>2, Sizes DEF Balance
<1>4. TOTypeOK'
  BY <1>0, <1>1 DEF TOTypeOK, Goto
<1>5. NoDeadEnd'
  BY <1>0, <1>1, NodeAssumption, <1>p DEF NoDeadEnd, OneBehind
<1>6. OneBehind'
  BY <1>0, <1>1, NodeAssumption DEF OneBehind
<1> QED
  BY <1>0, <1>1, <1>3, <1>4, <1>5, <1>6, <1>p DEF AvailableLast, LetIn

LEMMA HandOnKeepsInv ==
  ASSUME Inv, NEW t \in Threads, HandOn(t)
  PROVE  Inv'
<1> USE DEF Inv, workVars
<1>0. /\ pc[t] = "hand on" /\ pred' = [pred EXCEPT ![t] = AVAILABLE]
      /\ UNCHANGED <<workVars, tail, pred_to_wait_on>>
  BY DEF HandOn
<1>1. /\ Goto(t, "done") /\ done[t] > 0
      /\ pred[t] # AVAILABLE
      /\ t \in Holders
      /\ Holders' = Holders \ {t} /\ Waiting' = Waiting /\ Entered' = Entered
      /\ \A x : Behind(x)' = Behind(x)
      /\ AllOrNone'
  BY <1>0, LeaveFacts DEF HandOn
<1>p. pc'[t] = "done" /\ \A u \in Threads : u # t => pc'[u] = pc[u]
  BY <1>1, PcFacts
<1>2. \A y \in Threads : pred'[y] = IF y = t THEN AVAILABLE ELSE pred[y]
  BY <1>0 DEF TOTypeOK
<1>3. Behind(t) \cap Entered = {}
  BY <1>1, NodeAssumption DEF LetIn, Behind
<1>4. Open' = Open \cup {t} /\ t \notin Open
  BY <1>1, <1>2, <1>3 DEF Open
<1>5. Abandoned' = Abandoned
  <2>1. done' = done /\ done[t] # 0
    <3>1. done[t] # 0
      BY <1>1
    <3> QED
      BY <1>0, <3>1
  <2> QED
    BY <1>0, <1>1, <1>2, <1>p, <2>1 DEF Abandoned
<1>6. Balance'
  <2>1. Cardinality(Open') = Cardinality(Open) + 1
    BY <1>4, Counted DEF Open
  <2>2. Cardinality(Holders') = Cardinality(Holders) - 1
    BY <1>1, Counted DEF Holders
  <2>3. Free' = Free
    BY <1>0 DEF Free
  <2> QED
    BY <1>5, <2>1, <2>2, <2>3, Sizes DEF Balance, Free
<1>7. TOTypeOK'
  BY <1>0, <1>1 DEF TOTypeOK, Goto
<1>8. NoDeadEnd' /\ AvailableLast' /\ LetIn'
  <2>1. NoDeadEnd'
    BY <1>0, <1>1, <1>2, <1>p DEF NoDeadEnd
  <2>2. AvailableLast'
    BY <1>0, <1>1, <1>2, <1>p DEF AvailableLast
  <2>3. LetIn'
    BY <1>0, <1>1, <1>2 DEF LetIn
  <2> QED
    BY <2>1, <2>2, <2>3
<1> QED
  BY <1>0, <1>1, <1>6, <1>7, <1>8 DEF OneBehind

(* Every step keeps Inv.                                                   *)
LEMMA InvNext == Inv /\ [Next]_vars => Inv'
<1> SUFFICES ASSUME Inv, [Next]_vars PROVE Inv'
  OBVIOUS
<1>1. ASSUME NEW t \in Threads, Act(t) PROVE Inv'
  <2>1. CASE WithdrawFails(t) \/ ReleaseFails(t)
    BY <2>1, LookKeepsInv DEF WithdrawFails, ReleaseFails
  <2> QED
    BY <1>1, <2>1, WorkKeepsInv, ExchangeKeepsInv, PollKeepsInv, WithdrawKeepsInv,
       AbandonKeepsInv, ReleaseKeepsInv, HandOnKeepsInv DEF Act
<1>2. ASSUME NEW t \in Threads, TimeOut(t) PROVE Inv'
  BY <1>2, LookKeepsInv DEF TimeOut
<1>3. CASE UNCHANGED vars
  <2>1. Waiting' = Waiting /\ Holders' = Holders /\ TOTypeOK' /\ AllOrNone'
    BY <1>3 DEF vars, workVars, nodeVars, Inv, Waiting, Holders, TOTypeOK, AllOrNone
  <2> QED
    BY <1>3, <2>1, Unmoved DEF vars, workVars, nodeVars
<1> QED
  BY <1>1, <1>2, <1>3 DEF Next, Joined

-----------------------------------------------------------------------------
(* Threads that run out of patience in the middle of the queue let in one  *)
(* other thread each, and those that leave at its end let in nobody: with  *)
(* patient threads the lock excludes.                                      *)
THEOREM FewIntruders == Spec => []OneIntruderEach
<1>1. Inv => OneIntruderEach
  <2> SUFFICES ASSUME Inv PROVE OneIntruderEach
    OBVIOUS
  <2>1. Inside \in SUBSET Holders /\ Holders \in SUBSET Threads
    BY DEF Inside, Holders
  <2>2. Cardinality(Inside) <= Cardinality(Holders)
    BY <2>1, Finite, FS_Subset
  <2>3. Cardinality(Inside) \in Nat /\ Cardinality(Holders) \in Nat
    BY <2>1, Finite
  <2> QED
    BY <2>2, <2>3, Finite DEF Inv, Balance, Free, Open, Abandoned, OneIntruderEach
<1> QED
  BY <1>1, InvInit, InvNext, PTL DEF Spec

(* When all threads have returned, by un_lock() or by giving up, the next  *)
(* one to come would get the lock.                                         *)
THEOREM LockLeftFree == Spec => []LeftFree
<1>1. Inv => LeftFree
  BY DEF Inv, TOTypeOK, NoDeadEnd, LeftFree, AllDone
<1> QED
  BY <1>1, InvInit, InvNext, PTL DEF Spec
=============================================================================
