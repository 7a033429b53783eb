---------------------------- MODULE OpenMPProofs ----------------------------
(***************************************************************************)
(* The OpenMP programs, for every number of threads and iterations, every  *)
(* size of the chunks and every argument of fib: no data race, no task     *)
(* that stores its value in a variable of a call that has returned, and    *)
(* the results of a run by one thread.                                     *)
(*                                                                         *)
(* NoDataRace follows from where the threads are: no two that access       *)
(* shared variables are in different constructs (BarriersHold), and in the *)
(* same one they have different iterations (Shares, ChunksDisjoint), or    *)
(* only one of them is in the critical region or the single.  FramesAlive  *)
(* needs the tasks to be a tree in which no call has begun before its      *)
(* parent comes to it, and which is started once.                          *)
(*                                                                         *)
(* SequentialResult compares each result with the iterations that have     *)
(* been completed so far: a sum holds, with the threads' copies, what they *)
(* add up to (Counted), a printed sum or a single has been executed once   *)
(* (ExecutedOnce), an array holds the values of those completed            *)
(* (ArraysHold), the output is the first iterations in order               *)
(* (PrintedInOrder), a block's sum is that of its elements (BlocksSummed), *)
(* and a call that has returned has stored its value (TasksHold).  At the  *)
(* end all iterations have been completed.                                 *)
(***************************************************************************)
EXTENDS OpenMP, SequenceTheorems, FiniteSetTheorems, WellFoundedInduction, TLAPS

(* What the proofs need of a script.  A construct without a barrier of its *)
(* own is the last one or comes before a barrier, reports come behind no   *)
(* barrier, blocks of the prefix sums belong to "each", and at most one    *)
(* single starts a tree of tasks.                                          *)
TaskSingles(script) ==
  {k \in 1..Len(script) : script[k].kind = "single" /\ script[k].work = "tasks"}

ConstructOK(c) == /\ c.chunk \in Nat
                  /\ c.kind = "barrier" => c.waits /\ c.work = ""
                  /\ c.work \in {"scan", "offset", "report"} => c.kind = "each"
                  /\ c.work = "report" => ~c.waits

WellFormed(script) ==
  /\ Len(script) \in Nat
  /\ \A k \in 1..Len(script) : ConstructOK(script[k])
  /\ \A k \in 1..Len(script) - 1 : script[k].waits \/ script[k + 1].kind = "barrier"
  /\ \A k, l \in TaskSingles(script) : k = l

-----------------------------------------------------------------------------
(* The invariant of the loops.                                             *)

AtWork == {"work", "store"}

\* The blocks of prefix sums start at -NumThreads or later even when no
\* block_size has been planned.
Indices == {i \in Int : i >= -NumThreads}

ControlTypes ==
  /\ prog \in Programs
  /\ at \in [Threads -> Nat \ {0}]
  /\ phase \in [Threads -> {"enter", "arrived"} \cup AtWork]
  /\ todo \in [Threads -> SUBSET Indices]
  /\ next \in [Constructs -> Nat]
  /\ claimed \in [Constructs -> Threads \cup {Nobody}]
  /\ block_size \in {Unset, N \div NumThreads}

\* What threads are in the middle of.
InPlace ==
  \A t \in Threads : at[t] \in Constructs =>
    /\ Construct(t).kind = "each" /\ phase[t] = "work" => Construct(t).work \in {"scan", "offset"}
    /\ Construct(t).kind \in {"for", "each"} /\ phase[t] = "store" =>
         /\ Construct(t).kind = "for" /\ todo[t] # {}
         /\ Construct(t).work \in {"critical", "plain"} \/ Construct(t).detail = "ordered"
    /\ Construct(t).kind = "single" /\ phase[t] \in AtWork => claimed[at[t]] = t

\* Nobody is behind a barrier that somebody has not reached.
BarriersHold ==
  \A t, u \in Threads, k \in Constructs :
    prog.script[k].waits /\ k < at[u] => k < at[t] \/ (k = at[t] /\ phase[t] = "arrived")

\* The iterations that thread t may have.
Shares ==
  \A t \in Threads : at[t] \in Constructs /\ phase[t] \in AtWork =>
    /\ Construct(t).kind = "for" /\ Construct(t).chunk = 0 => todo[t] \subseteq Block(t)
    /\ Construct(t).kind = "for" /\ Construct(t).chunk > 0 =>
         \A i \in todo[t] : 0 <= i /\ i < next[at[t]]
    /\ Construct(t).kind = "each" => todo[t] \subseteq Slice(t)

\* What a dynamic loop has handed out belongs to one thread.
ChunksDisjoint ==
  \A t, u \in Threads :
    /\ t # u /\ at[t] = at[u] /\ at[t] \in Constructs
    /\ Construct(t).kind = "for" /\ Construct(t).chunk > 0
    /\ phase[t] \in AtWork /\ phase[u] \in AtWork
    => todo[t] \cap todo[u] = {}

InCritical(t) == Runs(t, {"for"}, "store") /\ Construct(t).work = "critical"

OneInCritical == \A t, u \in Threads : InCritical(t) /\ InCritical(u) => t = u

LoopInv == ControlTypes /\ InPlace /\ BarriersHold /\ Shares /\ ChunksDisjoint /\ OneInCritical

-----------------------------------------------------------------------------
(* The invariant of the tasks.                                             *)

Paths == Seq({1, 2})

\* The tasks form a tree, and threads execute tasks of it.
Tree == /\ DOMAIN stage \subseteq Paths
        /\ stage = [p \in DOMAIN stage |-> stage[p]]
        /\ \A p \in DOMAIN stage : p # Root => Front(p) \in DOMAIN stage
        /\ stack \in [Threads -> Seq(DOMAIN stage)]

\* What the stage of task p says of its call number w.
CallsBegun ==
  \A p \in DOMAIN stage, w \in {1, 2} :
    Append(p, w) \in DOMAIN stage =>
      /\ stage[p] \notin {"created", "first"}
      /\ stage[p] = "second" => w = 1
      /\ stage[p] = "done" => stage[Append(p, w)] = "done"

\* Nobody has started the tree before the thread that has the single does.
RootOnce ==
  /\ \A t \in Threads :
       Runs(t, {"single"}, "work") /\ Construct(t).work = "tasks" => DOMAIN stage = {}
  /\ \A k \in TaskSingles(prog.script) : claimed[k] = Nobody => DOMAIN stage = {}

TaskInv == Tree /\ CallsBegun /\ RootOnce

-----------------------------------------------------------------------------
(* The sets of iterations.                                                 *)

LEMMA TeamFacts == /\ NumThreads \in Nat \ {0}
                   /\ N \in Nat \ {0}
                   /\ N \div NumThreads \in Nat
                   /\ N % NumThreads \in Nat
                   /\ Nobody \notin Threads
BY TeamAssumption DEF Nobody, Threads

\* A set of integers that is bounded below has a least element.
LEMMA LeastIndex ==
  ASSUME NEW S \in SUBSET Indices, S # {}
  PROVE  Min(S) \in S /\ \A y \in S : Min(S) <= y
<1> DEFINE R == OpToRel(<, Nat)
           T == {i + NumThreads : i \in S}
<1>0. \A i \in S : i \in Int /\ i + NumThreads \in Nat
  BY TeamFacts DEF Indices
<1>1. T \subseteq Nat /\ T # {}
  BY <1>0
<1>2. PICK m \in T : \A n \in T : <<n, m>> \notin R
  BY <1>1, NatLessThanWellFounded, WFMin
<1>3. \A n \in T : ~(n < m)
  BY <1>1, <1>2 DEF OpToRel
<1>4. PICK x \in S : m = x + NumThreads
  BY <1>2
<1>5. \A y \in S : x <= y
  <2> SUFFICES ASSUME NEW y \in S PROVE x <= y
    OBVIOUS
  <2>1. y + NumThreads \in T
    OBVIOUS
  <2>2. ~(y + NumThreads < x + NumThreads)
    BY <1>3, <1>4, <2>1
  <2> QED
    BY <1>0, <2>2, TeamFacts
<1> QED
  BY <1>5 DEF Min

LEMMA LesserOfTwo ==
  ASSUME NEW x \in Int, NEW y \in Int
  PROVE  Min({x, y}) = IF x <= y THEN x ELSE y
BY DEF Min

LEMMA Scaled ==
  ASSUME NEW x \in Nat, NEW y \in Nat, x < y, NEW s \in Nat
  PROVE  x * s + s <= y * s /\ x * s \in Nat /\ y * s \in Nat
<1>1. (x + 1) * s <= y * s
  OBVIOUS
<1>2. (x + 1) * s = x * s + s
  OBVIOUS
<1>3. x * s \in Nat /\ y * s \in Nat
  OBVIOUS
<1> QED
  BY <1>1, <1>2, <1>3

LEMMA BlockFacts ==
  ASSUME NEW t \in Threads, NEW u \in Threads, t < u
  PROVE  Block(t) \cap Block(u) = {}
<1> DEFINE size == N \div NumThreads
           more == N % NumThreads
<1>1. t \in Nat /\ u \in Nat /\ size \in Nat /\ more \in Nat
  BY TeamFacts DEF Threads
<1> HIDE DEF size, more
<1>2. t * size + size <= u * size /\ t * size \in Nat /\ u * size \in Nat
  BY <1>1, Scaled
<1>3. /\ Min({t, more}) = IF t <= more THEN t ELSE more
      /\ Min({u, more}) = IF u <= more THEN u ELSE more
  BY <1>1, LesserOfTwo
<1>4. Block(t) = t * size + Min({t, more})..
                 t * size + Min({t, more}) + size - 1 + (IF t < more THEN 1 ELSE 0)
  BY DEF Block, size, more
<1>5. Block(u) = u * size + Min({u, more})..
                 u * size + Min({u, more}) + size - 1 + (IF u < more THEN 1 ELSE 0)
  BY DEF Block, size, more
<1> DEFINE ts == t * size
           us == u * size
<1>6. ts \in Nat /\ us \in Nat /\ ts + size <= us
  BY <1>2
<1> HIDE DEF ts, us
<1>7. /\ \A i \in Block(t) : i \in Int /\ 0 <= i /\ i < us + Min({u, more})
      /\ \A i \in Block(u) : i \in Int /\ us + Min({u, more}) <= i
  <2>1. Block(t) = ts + Min({t, more})..
                 ts + Min({t, more}) + size - 1 + (IF t < more THEN 1 ELSE 0)
    BY <1>4 DEF ts
  <2>2. Block(u) = us + Min({u, more})..
                 us + Min({u, more}) + size - 1 + (IF u < more THEN 1 ELSE 0)
    BY <1>5 DEF us
  <2> QED
    BY <1>1, <1>3, <1>6, <2>1, <2>2
<1>8. us + Min({u, more}) \in Nat
  BY <1>1, <1>3, <1>6
<1> QED
  BY <1>7, <1>8

LEMMA BlocksOfIndices ==
  ASSUME NEW t \in Threads
  PROVE  Block(t) \subseteq Indices
<1> DEFINE size == N \div NumThreads
           more == N % NumThreads
<1>1. t \in Nat /\ size \in Nat /\ more \in Nat
  BY TeamFacts DEF Threads
<1>2. Min({t, more}) = IF t <= more THEN t ELSE more
  BY <1>1, LesserOfTwo
<1>3. t * size \in Nat
  BY <1>1
<1> HIDE DEF size, more
<1>4. Block(t) = t * size + Min({t, more})..
                 t * size + Min({t, more}) + size - 1 + (IF t < more THEN 1 ELSE 0)
  BY DEF Block, size, more
<1> QED
  BY <1>1, <1>2, <1>3, <1>4, TeamFacts DEF Indices

LEMMA BlocksDisjoint ==
  ASSUME NEW t \in Threads, NEW u \in Threads, t # u
  PROVE  Block(t) \cap Block(u) = {}
<1>1. t < u \/ u < t
  BY DEF Threads
<1> QED
  BY <1>1, BlockFacts

LEMMA SliceFacts ==
  ASSUME NEW t \in Threads, block_size \in {Unset, N \div NumThreads}
  PROVE  /\ Slice(t) \subseteq Indices
         /\ \A u \in Threads : t < u => Slice(t) \cap Slice(u) = {}
<1>0. t \in Nat /\ t < NumThreads /\ N \div NumThreads \in Nat /\ NumThreads \in Nat
  BY TeamFacts DEF Threads
<1>1. CASE block_size = Unset
  <2>1. /\ Slice(t) = -t..IF t = NumThreads - 1 THEN N - 1 ELSE -t - 2
    BY <1>0, <1>1 DEF Slice, Unset
  <2>2. \A i \in Slice(t) : i \in Int /\ -t <= i /\ t = NumThreads - 1
    BY <1>0, <2>1, TeamFacts
  <2> QED
    BY <1>0, <2>2 DEF Indices, Threads
<1>2. CASE block_size = N \div NumThreads
  <2>1. /\ block_size \in Nat /\ t * block_size \in Nat
        /\ (t + 1) * block_size = t * block_size + block_size
    BY <1>0, <1>2
  <2>2. \A i \in Slice(t) : /\ i \in Int /\ 0 <= i
                            /\ t # NumThreads - 1 => i < t * block_size + block_size
    BY <2>1, TeamFacts DEF Slice
  <2>3. ASSUME NEW u \in Threads, t < u, NEW i \in Slice(u)
        PROVE  t * block_size + block_size <= i /\ t # NumThreads - 1
    <3>1. u \in Nat /\ u < NumThreads
      BY TeamFacts DEF Threads
    <3>2. t * block_size + block_size <= u * block_size /\ u * block_size \in Nat
      BY <1>0, <2>1, <2>3, <3>1, Scaled
    <3>3. u * block_size <= i /\ i \in Int
      BY <2>1, <2>3, <3>1, <3>2, TeamFacts DEF Slice
    <3> QED
      BY <1>0, <2>1, <2>3, <3>1, <3>2, <3>3
  <2> QED
    BY <1>0, <2>1, <2>2, <2>3 DEF Indices
<1> QED
  BY <1>1, <1>2

LEMMA SlicesDisjoint ==
  ASSUME NEW t \in Threads, NEW u \in Threads, t # u,
         block_size \in {Unset, N \div NumThreads}
  PROVE  Slice(t) \cap Slice(u) = {}
<1>1. t < u \/ u < t
  BY DEF Threads
<1> QED
  BY <1>1, SliceFacts

-----------------------------------------------------------------------------
(* What a step of thread t does to the control state keeps the invariant.  *)

\* The other threads stay where they are and keep their iterations.
OthersStay(t) == \A u \in Threads \ {t} : /\ at'[u] = at[u]
                                          /\ phase'[u] = phase[u]
                                          /\ todo'[u] = todo[u]

\* Within a construct: the thread does not leave it, and is not at its barrier.
Within(t, label, share) ==
  /\ at[t] \in Constructs /\ phase[t] # "arrived"
  /\ UNCHANGED <<prog, at>>
  /\ phase' = [phase EXCEPT ![t] = label]
  /\ todo' = [todo EXCEPT ![t] = share]

LEMMA WithinFacts ==
  ASSUME LoopInv, NEW t \in Threads, NEW label \in {"enter", "arrived"} \cup AtWork,
         NEW share \in SUBSET Indices, Within(t, label, share),
         next' \in [Constructs -> Nat],
         claimed' \in [Constructs -> Threads \cup {Nobody}],
         block_size' \in {Unset, N \div NumThreads}
  PROVE  /\ ControlTypes'
         /\ BarriersHold'
         /\ OthersStay(t)
         /\ at'[t] = at[t] /\ phase'[t] = label /\ todo'[t] = share
         /\ Constructs' = Constructs
<1> USE DEF LoopInv, ControlTypes, Within
<1>1. /\ OthersStay(t)
      /\ at'[t] = at[t] /\ phase'[t] = label /\ todo'[t] = share
      /\ Constructs' = Constructs
  BY DEF OthersStay, Constructs
<1>2. ControlTypes'
  BY <1>1
<1>3. BarriersHold'
  BY <1>1 DEF OthersStay, BarriersHold
<1> QED
  BY <1>1, <1>2, <1>3

(* An iteration is done, the thread goes on with the rest of its share.    *)
LEMMA NarrowStep ==
  ASSUME LoopInv, NEW t \in Threads, NEW rest \in SUBSET Indices,
         at[t] \in Constructs, Construct(t).kind \in {"for", "each"}, phase[t] \in AtWork,
         rest \subseteq todo[t],
         Within(t, "work", rest),
         UNCHANGED <<next, claimed, block_size>>
  PROVE  LoopInv'
<1>1. /\ ControlTypes'
      /\ BarriersHold'
      /\ OthersStay(t)
      /\ at'[t] = at[t] /\ phase'[t] = "work" /\ todo'[t] = rest
      /\ Constructs' = Constructs /\ prog' = prog
  BY WithinFacts DEF LoopInv, ControlTypes, AtWork, Within
<1> USE <1>1 DEF OthersStay, Construct
<1>2. InPlace'
  BY DEF LoopInv, InPlace, AtWork
<1>3. Shares'
  BY DEF LoopInv, Shares, AtWork, Block, Slice
<1>4. ChunksDisjoint'
  BY DEF LoopInv, ChunksDisjoint, AtWork
<1>5. OneInCritical'
  BY DEF LoopInv, OneInCritical, InCritical, Runs
<1> QED
  BY <1>2, <1>3, <1>4, <1>5 DEF LoopInv

(* A thread begins the second part of an iteration.                        *)
LEMMA SecondPartStep ==
  ASSUME LoopInv, NEW t \in Threads,
         Runs(t, {"for", "each"}, "work"), todo[t] # {},
         Construct(t).work \in {"critical", "plain"} \/ Construct(t).detail = "ordered",
         Construct(t).work \notin {"scan", "offset"},
         Construct(t).work = "critical" => CriticalFree(t),
         Within(t, "store", todo[t]),
         UNCHANGED <<next, claimed, block_size>>
  PROVE  LoopInv'
<1>0. at[t] \in Constructs /\ phase[t] = "work" /\ Construct(t).kind = "for"
  BY DEF Runs, LoopInv, InPlace
<1>t. todo[t] \in SUBSET Indices
  BY DEF LoopInv, ControlTypes
<1>1. /\ ControlTypes'
      /\ BarriersHold'
      /\ OthersStay(t)
      /\ at'[t] = at[t] /\ phase'[t] = "store" /\ todo'[t] = todo[t]
      /\ Constructs' = Constructs /\ prog' = prog
  BY <1>t, WithinFacts DEF LoopInv, ControlTypes, AtWork, Within
<1> USE <1>0, <1>1 DEF OthersStay, Construct
<1>2. InPlace'
  BY DEF LoopInv, InPlace, AtWork
<1>3. Shares'
  BY DEF LoopInv, Shares, AtWork, Block, Slice
<1>4. ChunksDisjoint'
  BY DEF LoopInv, ChunksDisjoint, AtWork
<1>5. OneInCritical'
  BY DEF LoopInv, OneInCritical, InCritical, Runs, CriticalFree
<1> QED
  BY <1>2, <1>3, <1>4, <1>5 DEF LoopInv

(* A thread gets iterations of its own.                                    *)
LEMMA ShareStep ==
  ASSUME LoopInv, NEW t \in Threads, NEW share \in SUBSET Indices,
         at[t] \in Constructs, phase[t] \in {"enter", "work"},
         \/ /\ Construct(t).kind = "each" /\ Construct(t).work \in {"scan", "offset"}
            /\ share = Slice(t)
         \/ Construct(t).kind = "for" /\ Construct(t).chunk = 0 /\ share = Block(t)
         \/ Construct(t).kind = "for" /\ Construct(t).chunk > 0
              /\ \A i \in share : next[at[t]] <= i /\ i < next'[at[t]],
         Within(t, "work", share),
         next' \in [Constructs -> Nat], \A k \in Constructs : next[k] <= next'[k],
         UNCHANGED <<claimed, block_size>>
  PROVE  LoopInv'
<1>1. /\ ControlTypes'
      /\ BarriersHold'
      /\ OthersStay(t)
      /\ at'[t] = at[t] /\ phase'[t] = "work" /\ todo'[t] = share
      /\ Constructs' = Constructs /\ prog' = prog
  BY WithinFacts DEF LoopInv, ControlTypes, AtWork, Within
<1> USE <1>1 DEF OthersStay, Construct
<1>2. InPlace'
  BY DEF LoopInv, InPlace, AtWork
<1>3. Shares'
  <2> SUFFICES ASSUME NEW u \in Threads, at'[u] \in Constructs, phase'[u] \in AtWork
               PROVE  /\ Construct(u).kind = "for" /\ Construct(u).chunk = 0 =>
                           todo'[u] \subseteq Block(u)
                      /\ Construct(u).kind = "for" /\ Construct(u).chunk > 0 =>
                           \A i \in todo'[u] : 0 <= i /\ i < next'[at[u]]
                      /\ Construct(u).kind = "each" => todo'[u] \subseteq Slice(u)
    BY DEF Shares, AtWork, Block, Slice
  <2>1. CASE u = t
    <3>1. next[at[t]] \in Nat /\ next'[at[t]] \in Nat
      BY DEF LoopInv, ControlTypes
    <3>2. share \subseteq Int
      BY DEF Indices
    <3>3. CASE Construct(t).kind = "each" /\ share = Slice(t)
      BY <2>1, <3>3
    <3>4. CASE Construct(t).kind = "for" /\ Construct(t).chunk = 0 /\ share = Block(t)
      BY <2>1, <3>4
    <3>5. CASE /\ Construct(t).kind = "for" /\ Construct(t).chunk > 0
               /\ \A i \in share : next[at[t]] <= i /\ i < next'[at[t]]
      <4>1. \A i \in share : 0 <= i /\ i < next'[at[t]]
        BY <3>1, <3>2, <3>5
      <4>2. Construct(t).kind # "each" /\ Construct(t).chunk # 0
        BY <3>5
      <4> QED
        BY <2>1, <4>1, <4>2
    <3> QED
      BY <3>3, <3>4, <3>5
  <2>2. CASE u # t
    <3>1. next[at[u]] \in Nat /\ next'[at[u]] \in Nat /\ next[at[u]] <= next'[at[u]]
      BY <2>2 DEF LoopInv, ControlTypes
    <3>2. todo[u] \subseteq Int
      BY DEF Indices, LoopInv, ControlTypes
    <3> QED
      BY <2>2, <3>1, <3>2 DEF LoopInv, Shares
  <2> QED
    BY <2>1, <2>2
<1>4. ChunksDisjoint'
  <2>1. ASSUME NEW u \in Threads, u # t, at[u] = at[t], phase[u] \in AtWork,
               Construct(t).kind = "for", Construct(t).chunk > 0
        PROVE  share \cap todo[u] = {}
    <3>1. \A i \in todo[u] : i < next[at[t]]
      BY <2>1 DEF LoopInv, Shares
    <3>2. todo[u] \subseteq Int /\ share \subseteq Int /\ next[at[t]] \in Nat
      BY DEF Indices, LoopInv, ControlTypes
    <3>3. \A i \in share : next[at[t]] <= i
      BY <2>1
    <3> QED
      BY <3>1, <3>2, <3>3
  <2>2. ASSUME NEW u \in Threads, NEW v \in Threads, u # v, at'[u] = at'[v], at'[u] \in Constructs,
               Construct(u)'.kind = "for", Construct(u)'.chunk > 0,
               phase'[u] \in AtWork, phase'[v] \in AtWork
        PROVE  todo'[u] \cap todo'[v] = {}
    <3>1. CASE u = t
      BY <2>1, <2>2, <3>1
    <3>2. CASE v = t
      BY <2>1, <2>2, <3>2
    <3>3. CASE u # t /\ v # t
      BY <2>2, <3>3 DEF LoopInv, ChunksDisjoint
    <3> QED
      BY <3>1, <3>2, <3>3
  <2> QED
    BY <2>2 DEF ChunksDisjoint, AtWork
<1>5. OneInCritical'
  BY DEF LoopInv, OneInCritical, InCritical, Runs
<1> QED
  BY <1>2, <1>3, <1>4, <1>5 DEF LoopInv

(* A thread takes the single, or, once it has it, begins its second part.  *)
LEMMA SingleStep ==
  ASSUME LoopInv, NEW t \in Threads, NEW label \in AtWork,
         Runs(t, {"single"}, "enter") \/ Runs(t, {"single"}, "work"),
         Within(t, label, todo[t]),
         claimed' = [claimed EXCEPT ![at[t]] = t],
         claimed[at[t]] \in {t, Nobody},
         UNCHANGED <<next, block_size>>
  PROVE  LoopInv'
<1>0. at[t] \in Constructs /\ Construct(t).kind = "single"
  BY DEF Runs
<1>t. /\ todo[t] \in SUBSET Indices
      /\ claimed' \in [Constructs -> Threads \cup {Nobody}]
      /\ label \in {"enter", "arrived"} \cup AtWork
      /\ next' \in [Constructs -> Nat]
      /\ block_size' \in {Unset, N \div NumThreads}
      /\ prog' = prog
  BY DEF LoopInv, ControlTypes, Within
<1>1. /\ ControlTypes'
      /\ BarriersHold'
      /\ OthersStay(t)
      /\ at'[t] = at[t] /\ phase'[t] = label /\ todo'[t] = todo[t]
      /\ Constructs' = Constructs /\ prog' = prog
  BY <1>t, WithinFacts
<1>2. /\ claimed'[at[t]] = t
      /\ \A k \in Constructs : claimed[k] \notin {t, Nobody} => claimed'[k] = claimed[k]
  BY <1>0 DEF LoopInv, ControlTypes
<1> USE <1>0, <1>1 DEF OthersStay, Construct
<1>3. InPlace'
  BY <1>2, TeamFacts DEF LoopInv, InPlace, AtWork
<1>4. Shares'
  BY DEF LoopInv, Shares, AtWork, Block, Slice
<1>5. ChunksDisjoint'
  BY DEF LoopInv, ChunksDisjoint, AtWork
<1>6. OneInCritical'
  BY DEF LoopInv, OneInCritical, InCritical, Runs
<1> QED
  BY <1>3, <1>4, <1>5, <1>6, <1>1 DEF LoopInv

\* Thread t may be about to access shared variables.
Active(t) == at[t] \in Constructs /\ phase[t] # "arrived" /\ Construct(t).kind # "barrier"

(* Those that may access shared variables are all in the same construct:   *)
(* there is a barrier between any two.                                     *)
LEMMA SameConstruct ==
  ASSUME LoopInv, WellFormed(prog.script), NEW t \in Threads, NEW u \in Threads,
         Active(t), Active(u)
  PROVE  at[t] = at[u]
<1>1. ASSUME NEW v \in Threads, NEW w \in Threads, Active(v), Active(w), at[v] < at[w]
      PROVE  FALSE
  <2>1. /\ at[v] \in Constructs /\ at[w] \in Constructs
        /\ at[v] \in Int /\ at[w] \in Int /\ Len(prog.script) \in Nat
    BY <1>1 DEF Active, LoopInv, ControlTypes, WellFormed
  <2>2. at[v] \in 1..Len(prog.script) - 1
    BY <1>1, <2>1 DEF Constructs
  <2>3. prog.script[at[v]].waits \/ prog.script[at[v] + 1].kind = "barrier"
    BY <2>2 DEF WellFormed
  <2>4. CASE prog.script[at[v]].waits
    BY <1>1, <2>1, <2>4 DEF LoopInv, BarriersHold, Active
  <2>5. CASE prog.script[at[v] + 1].kind = "barrier"
    <3>1. at[v] + 1 \in Constructs /\ at[v] + 1 < at[w]
      BY <1>1, <2>1, <2>2, <2>5 DEF Constructs, Active, Construct
    <3>2. prog.script[at[v] + 1].waits
      BY <3>1, <2>5 DEF WellFormed, ConstructOK, Constructs
    <3>3. at[v] + 1 < at[v] \/ at[v] + 1 = at[v]
      BY <3>1, <3>2 DEF LoopInv, BarriersHold
    <3> QED
      BY <2>1, <3>3
  <2> QED
    BY <2>3, <2>4, <2>5
<1>2. at[t] \in Int /\ at[u] \in Int
  BY DEF LoopInv, ControlTypes
<1> QED
  BY <1>1, <1>2

(* A thread comes to the barrier of a construct, perhaps having planned    *)
(* the blocks.                                                             *)
LEMMA ArriveStep ==
  ASSUME LoopInv, WellFormed(prog.script), NEW t \in Threads,
         Within(t, "arrived", todo[t]),
         UNCHANGED <<next, claimed>>,
         \/ UNCHANGED block_size
         \/ Construct(t).kind = "single" /\ block_size' = N \div NumThreads
  PROVE  LoopInv'
<1>t. /\ todo[t] \in SUBSET Indices
      /\ next' \in [Constructs -> Nat]
      /\ claimed' \in [Constructs -> Threads \cup {Nobody}]
      /\ block_size' \in {Unset, N \div NumThreads}
      /\ prog' = prog
  BY DEF LoopInv, ControlTypes, Within
<1>1. /\ ControlTypes'
      /\ BarriersHold'
      /\ OthersStay(t)
      /\ at'[t] = at[t] /\ phase'[t] = "arrived" /\ todo'[t] = todo[t]
      /\ Constructs' = Constructs
  BY <1>t, WithinFacts
<1>2. ASSUME NEW u \in Threads, u # t, at[u] \in Constructs,
             Construct(u).kind = "each", phase[u] \in AtWork
      PROVE  UNCHANGED block_size
  <2> SUFFICES ASSUME Construct(t).kind = "single"
               PROVE  FALSE
    OBVIOUS
  <2>1. Active(t) /\ Active(u)
    BY <1>2 DEF Active, Within, AtWork
  <2> QED
    BY <1>2, <2>1, SameConstruct DEF Construct
<1> USE <1>t, <1>1 DEF OthersStay, Construct
<1>3. InPlace'
  BY DEF LoopInv, InPlace, AtWork
<1>4. Shares'
  <2> SUFFICES ASSUME NEW u \in Threads, at'[u] \in Constructs, phase'[u] \in AtWork
               PROVE  /\ Construct(u).kind = "for" /\ Construct(u).chunk = 0 =>
                           todo'[u] \subseteq Block(u)
                      /\ Construct(u).kind = "for" /\ Construct(u).chunk > 0 =>
                           \A i \in todo'[u] : 0 <= i /\ i < next[at[u]]
                      /\ Construct(u).kind = "each" => todo'[u] \subseteq Slice(u)'
    BY DEF Shares, AtWork, Block
  <2>1. u # t /\ at[u] \in Constructs /\ phase[u] \in AtWork
    BY DEF AtWork
  <2>2. Construct(u).kind = "each" => Slice(u)' = Slice(u)
    BY <2>1, <1>2 DEF Slice
  <2> QED
    BY <2>1, <2>2 DEF LoopInv, Shares
<1>5. ChunksDisjoint'
  BY DEF LoopInv, ChunksDisjoint, AtWork
<1>6. OneInCritical'
  BY DEF LoopInv, OneInCritical, InCritical, Runs
<1> QED
  BY <1>3, <1>4, <1>5, <1>6 DEF LoopInv

(* A thread goes on to the next construct, through the barrier if there is *)
(* one.                                                                    *)
LEMMA GoOnStep ==
  ASSUME LoopInv, NEW t \in Threads,
         at[t] \in Constructs,
         \/ ~Construct(t).waits
         \/ AllHere(t),
         GoOn(t),
         UNCHANGED <<prog, todo, next, claimed, block_size>>
  PROVE  LoopInv'
<1>1. /\ ControlTypes'
      /\ OthersStay(t)
      /\ at'[t] = at[t] + 1 /\ phase'[t] = "enter"
      /\ Constructs' = Constructs
      /\ \A u \in Threads : at[u] \in Nat
  BY DEF LoopInv, ControlTypes, GoOn, OthersStay, Constructs
<1> USE <1>1 DEF OthersStay, Construct
<1>2. BarriersHold'
  <2> SUFFICES ASSUME NEW v \in Threads, NEW u \in Threads, NEW k \in Constructs,
                      prog.script[k].waits, k < at'[u]
               PROVE  k < at'[v] \/ (k = at'[v] /\ phase'[v] = "arrived")
    BY DEF BarriersHold
  <2>0. k \in Int /\ at[v] \in Nat /\ at[u] \in Nat /\ at[t] \in Nat
    BY DEF Constructs
  <2>1. CASE u = t /\ k = at[t]
    BY <2>0, <2>1 DEF AllHere
  <2>2. CASE ~(u = t /\ k = at[t])
    <3>1. k < at[u]
      BY <2>0, <2>2
    <3>2. k < at[v] \/ (k = at[v] /\ phase[v] = "arrived")
      BY <3>1 DEF LoopInv, BarriersHold
    <3> QED
      BY <2>0, <3>2
  <2> QED
    BY <2>1, <2>2
<1>3. InPlace'
  BY DEF LoopInv, InPlace, AtWork
<1>4. Shares'
  BY DEF LoopInv, Shares, AtWork, Block, Slice
<1>5. ChunksDisjoint'
  BY DEF LoopInv, ChunksDisjoint, AtWork
<1>6. OneInCritical'
  BY DEF LoopInv, OneInCritical, InCritical, Runs
<1> QED
  BY <1>2, <1>3, <1>4, <1>5, <1>6 DEF LoopInv

LEMMA LoopStutter ==
  ASSUME LoopInv, UNCHANGED <<prog, at, phase, todo, next, claimed, block_size>>
  PROVE  LoopInv'
<1> USE DEF LoopInv, Construct, Constructs
<1>1. ControlTypes' /\ InPlace' /\ BarriersHold'
  BY DEF ControlTypes, InPlace, BarriersHold
<1>2. Shares' /\ ChunksDisjoint' /\ OneInCritical'
  BY DEF Shares, Block, Slice, ChunksDisjoint, OneInCritical, InCritical, Runs
<1> QED
  BY <1>1, <1>2

LEMMA LoopStart ==
  ASSUME LoopInit, \A p \in Programs : WellFormed(p.script)
  PROVE  LoopInv
<1>1. WellFormed(prog.script)
  BY DEF LoopInit, TeamInit
<1>2. ControlTypes
  BY DEF LoopInit, TeamInit, ControlTypes, AtWork
<1>3. \A t \in Threads : phase[t] = "enter" /\ at[t] = 1
  BY DEF LoopInit, TeamInit
<1>4. BarriersHold
  BY <1>1, <1>3 DEF BarriersHold, Constructs, WellFormed
<1>5. InPlace /\ Shares /\ ChunksDisjoint /\ OneInCritical
  BY <1>3 DEF InPlace, Shares, ChunksDisjoint, OneInCritical, InCritical, Runs, AtWork
<1> QED
  BY <1>2, <1>4, <1>5 DEF LoopInv

(* The part of an iteration that Working is about is the last one.         *)
LEMMA FinishStep ==
  ASSUME LoopInv, NEW t \in Threads, at[t] \in Constructs,
         Construct(t).kind \in {"for", "each"}, phase[t] \in AtWork,
         Finish(t),
         \/ Becomes(t, "work")
         \/ phase[t] = "work" /\ UNCHANGED <<at, phase>>,
         UNCHANGED <<prog, next, claimed, block_size>>
  PROVE  LoopInv'
<1>1. todo[t] \ {Current(t)} \in SUBSET Indices
  BY DEF LoopInv, ControlTypes
<1>2. Within(t, "work", todo[t] \ {Current(t)})
  BY DEF LoopInv, ControlTypes, Finish, Becomes, Within, AtWork
<1> QED
  BY <1>1, <1>2, NarrowStep

LEMMA LoopStep ==
  ASSUME LoopInv, WellFormed(prog.script), NEW t \in Threads, Act(t)
  PROVE  LoopInv'
<1>0. /\ todo[t] \in SUBSET Indices
      /\ todo = [todo EXCEPT ![t] = todo[t]]
      /\ phase = [phase EXCEPT ![t] = phase[t]]
      /\ next \in [Constructs -> Nat]
  BY DEF LoopInv, ControlTypes
<1>1. CASE EnterLoop(t)
  <2>1. Runs(t, {"for"}, "enter") /\ UNCHANGED <<prog, next, claimed, block_size>>
    BY <1>1 DEF EnterLoop, EnterFor
  <2>2. at[t] \in Constructs /\ phase[t] = "enter" /\ Construct(t).kind = "for"
    BY <2>1 DEF Runs
  <2>3. Construct(t).chunk \in Nat
    BY <2>2 DEF WellFormed, ConstructOK, Construct, Constructs
  <2> DEFINE share == IF Construct(t).chunk = 0 THEN Block(t) ELSE {}
  <2>4. share \in SUBSET Indices
    BY BlocksOfIndices
  <2>5. Within(t, "work", share)
    BY <1>1, <2>2 DEF EnterLoop, EnterFor, Becomes, Within
  <2>6. \A k \in Constructs : next[k] <= next'[k]
    BY <2>1 DEF LoopInv, ControlTypes
  <2>7. \/ Construct(t).chunk = 0 /\ share = Block(t)
        \/ Construct(t).chunk > 0 /\ \A i \in share : next[at[t]] <= i /\ i < next'[at[t]]
    BY <2>3
  <2> HIDE DEF share
  <2> QED
    BY <1>0, <2>1, <2>2, <2>4, <2>5, <2>6, <2>7, ShareStep
<1>2. CASE GrabChunk(t)
  <2>1. /\ Runs(t, {"for"}, "work") /\ Construct(t).chunk > 0 /\ next[at[t]] < N
        /\ UNCHANGED <<prog, at, phase, claimed, block_size>>
    BY <1>2 DEF GrabChunk, Grab, dataVars
  <2>2. at[t] \in Constructs /\ phase[t] = "work" /\ Construct(t).kind = "for"
    BY <2>1 DEF Runs
  <2> DEFINE begin == next[at[t]]
             end == Min({N, begin + Construct(t).chunk})
             share == begin..end - 1
  <2>3. Construct(t).chunk \in Nat /\ begin \in Nat /\ N \in Nat
    BY <2>2, TeamFacts DEF WellFormed, ConstructOK, Construct, Constructs, LoopInv, ControlTypes
  <2>4. end = IF N <= begin + Construct(t).chunk THEN N ELSE begin + Construct(t).chunk
    BY <2>3, LesserOfTwo
  <2>5. end \in Nat /\ begin < end
    BY <2>1, <2>3, <2>4
  <2>6. /\ todo' = [todo EXCEPT ![t] = share]
        /\ next' = [next EXCEPT ![at[t]] = end]
    BY <1>2 DEF GrabChunk, Grab
  <2> HIDE DEF end
  <2>7. /\ next' \in [Constructs -> Nat]
        /\ \A k \in Constructs : next[k] <= next'[k]
        /\ next'[at[t]] = end
    BY <2>2, <2>3, <2>5, <2>6 DEF LoopInv, ControlTypes
  <2>8. /\ share \in SUBSET Indices
        /\ \A i \in share : next[at[t]] <= i /\ i < next'[at[t]]
    BY <2>3, <2>5, <2>7, TeamFacts DEF Indices
  <2> HIDE DEF begin, share
  <2>9. Within(t, "work", share)
    BY <1>0, <2>1, <2>2, <2>6 DEF Within
  <2> QED
    BY <2>1, <2>2, <2>7, <2>8, <2>9, ShareStep
<1>3. CASE Set(t) /\ Construct(t).detail # "ordered"
  BY <1>3, FinishStep DEF Set, Working, Runs, AtWork
<1>4. CASE Set(t) /\ Construct(t).detail = "ordered"
  <2>1. /\ Runs(t, {"for", "each"}, "work") /\ todo[t] # {}
        /\ Construct(t).work \in {"set", "own"}
        /\ Becomes(t, "store") /\ UNCHANGED todo
        /\ UNCHANGED <<prog, next, claimed, block_size>>
    BY <1>4 DEF Set, Working
  <2>2. Within(t, "store", todo[t])
    BY <1>0, <2>1 DEF Within, Becomes, Runs
  <2> QED
    BY <1>4, <2>1, <2>2, SecondPartStep
<1>5. CASE Load(t)
  <2>1. /\ Runs(t, {"for", "each"}, "work") /\ todo[t] # {}
        /\ Construct(t).work \in {"critical", "plain"}
        /\ Construct(t).work = "critical" => CriticalFree(t)
        /\ Becomes(t, "store") /\ UNCHANGED todo
        /\ UNCHANGED <<prog, next, claimed, block_size>>
    BY <1>5 DEF Load, Working
  <2>2. Within(t, "store", todo[t])
    BY <1>0, <2>1 DEF Within, Becomes, Runs
  <2> QED
    BY <2>1, <2>2, SecondPartStep
<1>6. CASE Ordered(t)
  BY <1>6, FinishStep DEF Ordered, Working, Runs, AtWork
<1>7. CASE Store(t)
  BY <1>7, FinishStep DEF Store, Runs, AtWork
<1>8. CASE Derive(t) \/ Update(t) \/ UpdateCopy(t) \/ Accumulate(t)
  <2>1. /\ Runs(t, {"for", "each"}, "work") /\ Finish(t)
        /\ UNCHANGED <<prog, at, phase, next, claimed, block_size>>
    BY <1>8 DEF Derive, Update, UpdateCopy, Accumulate, Working
  <2> QED
    BY <2>1, FinishStep DEF Runs, AtWork
    \* Leaving a construct, or coming to its barrier.
<1>9. ASSUME at[t] \in Constructs, phase[t] # "arrived", Done(t),
             UNCHANGED <<prog, todo, next, claimed, block_size>>
      PROVE  LoopInv'
  <2>1. CASE Construct(t).waits
    <3>1. Within(t, "arrived", todo[t])
      BY <1>0, <1>9, <2>1 DEF Done, Becomes, Within
    <3> QED
      BY <1>9, <3>1, ArriveStep
  <2>2. CASE ~Construct(t).waits
    BY <1>9, <2>2, GoOnStep DEF Done
  <2> QED
    BY <2>1, <2>2
<1>10. CASE LeaveLoop(t) \/ LeaveSlice(t)
  BY <1>10, <1>9 DEF LeaveLoop, LeaveSlice, Exhausted, Runs
<1>11. CASE Claim(t) /\ UNCHANGED dataVars
  <2>1. /\ Runs(t, {"single"}, "enter") /\ claimed[at[t]] = Nobody
        /\ claimed' = [claimed EXCEPT ![at[t]] = t]
        /\ UNCHANGED <<next, block_size>>
    BY <1>11 DEF Claim, dataVars
  <2>2. Within(t, "work", todo[t])
    BY <1>0, <1>11, <2>1 DEF Within, Claim, Becomes, Runs
  <2> QED
    BY <2>1, <2>2, SingleStep DEF AtWork
<1>12. CASE Skip(t) /\ UNCHANGED dataVars
  <2>1. UNCHANGED <<next, claimed, block_size>>
    BY <1>12 DEF Skip, dataVars
  <2>2. Within(t, "arrived", todo[t])
    BY <1>0, <1>12 DEF Within, Skip, Becomes, Runs
  <2> QED
    BY <2>1, <2>2, ArriveStep
<1>13. CASE ExecuteSingle(t)
  <2>1. /\ UNCHANGED <<next, claimed>>
        /\ \/ UNCHANGED block_size
           \/ Construct(t).kind = "single" /\ block_size' = N \div NumThreads
    BY <1>13 DEF ExecuteSingle, Runs
  <2>2. Within(t, "arrived", todo[t])
    BY <1>0, <1>13 DEF Within, ExecuteSingle, Becomes, Runs
  <2> QED
    BY <2>1, <2>2, ArriveStep
<1>14. CASE EnterSlice(t)
  <2>1. /\ at[t] \in Constructs /\ phase[t] = "enter"
        /\ Construct(t).kind = "each" /\ Construct(t).work \in {"scan", "offset"}
        /\ UNCHANGED <<next, claimed, block_size>>
    BY <1>14 DEF EnterSlice, Runs
  <2>2. Within(t, "work", Slice(t))
    BY <1>14, <2>1 DEF Within, EnterSlice, Becomes
  <2>3. Slice(t) \in SUBSET Indices
    BY SliceFacts DEF LoopInv, ControlTypes
  <2>4. next' \in [Constructs -> Nat] /\ \A k \in Constructs : next[k] <= next'[k]
    BY <1>0, <2>1
  <2> QED
    BY <2>1, <2>2, <2>3, <2>4, ShareStep
<1>15. CASE Report(t)
  <2>1. /\ at[t] \in Constructs /\ Construct(t).work = "report" /\ GoOn(t)
        /\ UNCHANGED <<prog, todo, next, claimed, block_size>>
    BY <1>15 DEF Report, Runs
  <2>2. ~Construct(t).waits
    BY <2>1 DEF WellFormed, ConstructOK, Construct, Constructs
  <2> QED
    BY <2>1, <2>2, GoOnStep
<1>16. CASE LeaveBarrier(t)
  BY <1>16, GoOnStep DEF LeaveBarrier, Pass, Runs
<1> QED
  BY <1>1, <1>2, <1>3, <1>4, <1>5, <1>6, <1>7, <1>8, <1>10, <1>11, <1>12, <1>13, <1>14,
     <1>15, <1>16 DEF Act

-----------------------------------------------------------------------------
(* The tasks.                                                              *)

(* A path and its last call are told apart.                                *)
LEMMA ChildOf ==
  ASSUME NEW p \in Paths, NEW w \in {1, 2}
  PROVE  /\ Append(p, w) \in Paths
         /\ Append(p, w) # Root
         /\ Append(p, w) # p
         /\ Front(Append(p, w)) = p
<1>1. /\ Append(p, w) \in Seq({1, 2})
      /\ Append(p, w) # <<>>
      /\ Len(Append(p, w)) = Len(p) + 1
  BY AppendProperties DEF Paths
<1>2. Front(Append(p, w)) = p
  BY <1>1 DEF Front, Paths
<1> QED
  BY <1>1, <1>2 DEF Root, Paths

LEMMA ParentOf ==
  ASSUME NEW p \in Paths, p # Root
  PROVE  \E w \in {1, 2} : Front(p) \in Paths /\ p = Append(Front(p), w)
<1>1. PICK q \in Paths, w \in {1, 2} : p = Append(q, w)
  BY SequenceEmptyOrAppend DEF Root, Paths
<1> QED
  BY <1>1, ChildOf

LEMMA Siblings ==
  ASSUME NEW p \in Paths, NEW q \in Paths, NEW v \in {1, 2}, NEW w \in {1, 2},
         Append(p, v) = Append(q, w)
  PROVE  p = q /\ v = w
BY AppendInjective DEF Paths

LEMMA HeadAndTail ==
  ASSUME NEW S, NEW s \in Seq(S), s # <<>>
  PROVE  Head(s) \in S /\ Tail(s) \in Seq(S)
BY HeadTailProperties

(* A task goes on to its next stage.                                       *)
LEMMA StageStep ==
  ASSUME Tree, CallsBegun, NEW p \in DOMAIN stage, NEW label,
         Stage(p, label),
         \/ stage[p] = "created" /\ label = "first"
         \/ stage[p] = "first" /\ label = "done"
         \/ stage[p] = "taskwait" /\ label = "done" /\ ChildrenDone(p),
         stack' \in [Threads -> Seq(DOMAIN stage)]
  PROVE  Tree' /\ CallsBegun'
<1>1. /\ DOMAIN stage' = DOMAIN stage
      /\ stage'[p] = label
      /\ \A q \in DOMAIN stage : q # p => stage'[q] = stage[q]
      /\ stage' = [q \in DOMAIN stage' |-> stage'[q]]
  BY DEF Stage, Put
<1>2. Tree'
  BY <1>1 DEF Tree
<1>3. ASSUME NEW q \in DOMAIN stage, NEW w \in {1, 2}, Append(q, w) \in DOMAIN stage
      PROVE  /\ stage'[q] \notin {"created", "first"}
             /\ stage'[q] = "second" => w = 1
             /\ stage'[q] = "done" => stage'[Append(q, w)] = "done"
  <2>1. Append(q, w) # q
    BY ChildOf DEF Tree
  <2>2. CASE q = p
    BY <1>1, <1>3, <2>1, <2>2 DEF CallsBegun, ChildrenDone
  <2>3. CASE q # p
    BY <1>1, <1>3, <2>1, <2>3 DEF CallsBegun
  <2> QED
    BY <2>2, <2>3
<1> QED
  BY <1>1, <1>2, <1>3 DEF CallsBegun

(* A call becomes a task: its parent stays unfinished, it has no calls.    *)
LEMMA SpawnStep ==
  ASSUME Tree, CallsBegun, NEW p \in DOMAIN stage, NEW which \in {1, 2},
         NEW label \in {"created", "first"},
         stage[p] = IF which = 1 THEN "first" ELSE "second",
         stage' = Put(Put(stage, Append(p, which), label), p,
                      IF which = 1 THEN "second" ELSE "taskwait"),
         stack' \in [Threads -> Seq(DOMAIN stage \cup {Append(p, which)})]
  PROVE  Tree' /\ CallsBegun'
<1> DEFINE child == Append(p, which)
           middle == Put(stage, child, label)
<1>0. p \in Paths /\ child \in Paths /\ child # Root /\ child # p /\ Front(child) = p
  BY ChildOf DEF Tree
<1>1. /\ DOMAIN middle = DOMAIN stage \cup {child}
      /\ middle[child] = label
      /\ \A q \in DOMAIN stage : q # child => middle[q] = stage[q]
  BY DEF Put
<1> HIDE DEF middle
<1>2. /\ DOMAIN stage' = DOMAIN stage \cup {child}
      /\ stage'[child] = label
      /\ stage'[p] = IF which = 1 THEN "second" ELSE "taskwait"
      /\ \A q \in DOMAIN stage : q # p /\ q # child => stage'[q] = stage[q]
      /\ stage' = [q \in DOMAIN stage' |-> stage'[q]]
  <2>1. stage' = Put(middle, p, IF which = 1 THEN "second" ELSE "taskwait")
    BY DEF middle
  <2> QED
    BY <1>0, <1>1, <2>1 DEF Put
<1>3. child \notin DOMAIN stage
  BY DEF CallsBegun
<1>4. Tree'
  BY <1>0, <1>2 DEF Tree
<1>5. ASSUME NEW q \in DOMAIN stage', NEW w \in {1, 2}, Append(q, w) \in DOMAIN stage'
      PROVE  /\ stage'[q] \notin {"created", "first"}
             /\ stage'[q] = "second" => w = 1
             /\ stage'[q] = "done" => stage'[Append(q, w)] = "done"
  <2>0. /\ q \in Paths
        /\ Append(q, w) # Root /\ Append(q, w) # q /\ Front(Append(q, w)) = q
    BY <1>4, ChildOf DEF Tree
  <2>1. CASE Append(q, w) = child
    <3>1. q = p /\ w = which
      BY <2>1, <2>0, <1>0, Siblings
    <3> QED
      BY <3>1, <1>2
  <2>2. CASE Append(q, w) # child
    <3>1. Append(q, w) \in DOMAIN stage /\ q \in DOMAIN stage
      BY <2>0, <2>2, <1>2, <1>5 DEF Tree
    <3>2. /\ stage[q] \notin {"created", "first"}
          /\ stage[q] = "second" => w = 1
          /\ stage[q] = "done" => stage[Append(q, w)] = "done"
      BY <3>1 DEF CallsBegun
    <3>3. CASE q = p
      BY <3>2, <3>3, <1>2, <2>0, <2>2
    <3>4. CASE q # p
      <4>1. stage'[q] = stage[q]
        BY <3>1, <3>4, <1>2, <1>3
      <4>2. CASE Append(q, w) = p
        BY <4>1, <3>2, <4>2
      <4>3. CASE Append(q, w) # p
        BY <4>1, <3>2, <4>3, <3>1, <2>2, <1>2
      <4> QED
        BY <4>2, <4>3
    <3> QED
      BY <3>3, <3>4
  <2> QED
    BY <2>1, <2>2
<1> QED
  BY <1>4, <1>5 DEF CallsBegun

(* Starting, finishing and creating tasks when the tree is there already.  *)
LEMMA TreeStep ==
  ASSUME Tree, CallsBegun, NEW t \in Threads,
         ReturnLeaf(t) \/ Spawn(t, 1) \/ Spawn(t, 2) \/ PickUp(t) \/ Join(t)
  PROVE  Tree' /\ CallsBegun' /\ UNCHANGED loopVars /\ DOMAIN stage # {}
<1>0. /\ stack \in [Threads -> Seq(DOMAIN stage)]
      /\ stack[t] \in Seq(DOMAIN stage)
  BY DEF Tree
<1>1. ASSUME stack[t] # <<>>
      PROVE  Head(stack[t]) \in DOMAIN stage /\ Tail(stack[t]) \in Seq(DOMAIN stage)
  BY <1>0, <1>1, HeadAndTail
<1>2. CASE ReturnLeaf(t)
  <2>1. stack[t] # <<>> /\ stage[Head(stack[t])] = "first"
    BY <1>2 DEF ReturnLeaf, Running
  <2>2. /\ Stage(Head(stack[t]), "done")
        /\ stack' = [stack EXCEPT ![t] = Tail(@)]
        /\ UNCHANGED loopVars
    BY <1>2 DEF ReturnLeaf, Return
  <2>3. stack' \in [Threads -> Seq(DOMAIN stage)]
    BY <1>0, <1>1, <2>1, <2>2
  <2> QED
    BY <1>1, <2>1, <2>2, <2>3, StageStep
<1>3. CASE Join(t)
  <2>1. /\ stack[t] # <<>> /\ stage[Head(stack[t])] = "taskwait"
        /\ ChildrenDone(Head(stack[t]))
    BY <1>3 DEF Join, Running
  <2>2. /\ Stage(Head(stack[t]), "done")
        /\ stack' = [stack EXCEPT ![t] = Tail(@)]
        /\ UNCHANGED loopVars
    BY <1>3 DEF Join, Return
  <2>3. stack' \in [Threads -> Seq(DOMAIN stage)]
    BY <1>0, <1>1, <2>1, <2>2
  <2> QED
    BY <1>1, <2>1, <2>2, <2>3, StageStep
<1>4. ASSUME NEW which \in {1, 2}, Spawn(t, which)
      PROVE  Tree' /\ CallsBegun' /\ UNCHANGED loopVars /\ DOMAIN stage # {}
  <2> DEFINE p == Head(stack[t])
             child == Append(p, which)
             Proceed(f) == Put(f, p, IF which = 1 THEN "second" ELSE "taskwait")
  <2>1. /\ stack[t] # <<>>
        /\ stage[p] = IF which = 1 THEN "first" ELSE "second"
        /\ UNCHANGED loopVars
    BY <1>4 DEF Spawn, Running
  <2>2. p \in DOMAIN stage
    BY <1>1, <2>1
  <2>3. CASE stage' = Proceed(Put(stage, child, "created")) /\ UNCHANGED stack
    <3>1. Seq(DOMAIN stage) \subseteq Seq(DOMAIN stage \cup {child})
      OBVIOUS
    <3>2. stack' \in [Threads -> Seq(DOMAIN stage \cup {child})]
      BY <1>0, <2>3, <3>1
    <3> QED
      BY <2>1, <2>2, <2>3, <3>2, SpawnStep
  <2>4. CASE /\ stage' = Proceed(Put(stage, child, "first"))
             /\ stack' = [stack EXCEPT ![t] = <<child>> \o @]
    <3>1. Seq(DOMAIN stage) \subseteq Seq(DOMAIN stage \cup {child})
      OBVIOUS
    <3>2. <<child>> \o stack[t] \in Seq(DOMAIN stage \cup {child})
      BY <1>0
    <3> HIDE DEF child
    <3>3. stack' \in [Threads -> Seq(DOMAIN stage \cup {child})]
      BY <1>0, <2>4, <3>1, <3>2
    <3> USE DEF child
    <3> QED
      BY <2>1, <2>2, <2>4, <3>3, SpawnStep
  <2> QED
    BY <1>4, <2>3, <2>4 DEF Spawn
<1>5. CASE PickUp(t)
  <2>1. PICK p \in DOMAIN stage :
          /\ stage[p] = "created"
          /\ Stage(p, "first")
          /\ stack' = [stack EXCEPT ![t] = <<p>> \o @]
          /\ UNCHANGED loopVars
    BY <1>5 DEF PickUp
  <2>2. <<p>> \o stack[t] \in Seq(DOMAIN stage)
    BY <1>0
  <2>3. stack' \in [Threads -> Seq(DOMAIN stage)]
    BY <1>0, <2>1, <2>2
  <2> QED
    BY <2>1, <2>3, StageStep
<1> QED
  BY <1>2, <1>3, <1>4, <1>5

LEMMA Alive == Tree /\ CallsBegun => FramesAlive
<1> SUFFICES ASSUME Tree, CallsBegun, NEW p \in DOMAIN stage, p # Root, stage[Front(p)] = "done"
             PROVE  stage[p] = "done"
  BY DEF FramesAlive
<1>1. PICK q \in DOMAIN stage, w \in {1, 2} : q = Front(p) /\ p = Append(q, w)
  BY ParentOf DEF Tree
<1>2. stage[q] = "done" => stage[Append(q, w)] = "done"
  BY <1>1 DEF CallsBegun
<1> QED
  BY <1>1, <1>2

(* A thread gets to the start of a single's work only by claiming it.      *)
LEMMA SinglesClaimed ==
  ASSUME ControlTypes, NEW t \in Threads, Act(t)
  PROVE  /\ prog' = prog
         /\ \A k \in Constructs : claimed'[k] = Nobody => claimed[k] = Nobody
         /\ \A u \in Threads : Runs(u, {"single"}, "work")' =>
              /\ at'[u] = at[u]
              /\ \/ Runs(u, {"single"}, "work")
                 \/ Runs(u, {"single"}, "enter") /\ claimed[at[u]] = Nobody
<1> USE DEF Runs, Construct, Constructs, ControlTypes
<1>t. /\ at \in [Threads -> Nat \ {0}]
      /\ phase \in [Threads -> {"enter", "arrived"} \cup AtWork]
      /\ claimed \in [Constructs -> Threads \cup {Nobody}]
  OBVIOUS
<1>1. CASE EnterLoop(t) \/ EnterSlice(t)
  BY <1>t, <1>1 DEF EnterLoop, EnterFor, EnterSlice, Becomes
<1>2. CASE GrabChunk(t) \/ Derive(t) \/ Update(t) \/ UpdateCopy(t) \/ Accumulate(t)
  BY <1>t, <1>2 DEF GrabChunk, Grab, Derive, Update, UpdateCopy, Accumulate
<1>3. CASE Set(t) \/ Load(t)
  BY <1>t, <1>3 DEF Set, Load, Becomes
<1>4. CASE Ordered(t) \/ Store(t)
  BY <1>t, <1>4 DEF Ordered, Working, Store, Becomes
<1>5. CASE LeaveLoop(t) \/ LeaveSlice(t)
  BY <1>t, <1>5 DEF LeaveLoop, LeaveSlice, Done, Becomes, GoOn
<1>6. CASE Claim(t)
  BY <1>t, <1>6, TeamFacts DEF Claim, Becomes
<1>7. CASE Skip(t) \/ ExecuteSingle(t)
  BY <1>t, <1>7 DEF Skip, ExecuteSingle, Becomes
<1>8. CASE Report(t) \/ LeaveBarrier(t)
  BY <1>t, <1>8 DEF Report, LeaveBarrier, Pass, GoOn
<1> QED
  BY <1>1, <1>2, <1>3, <1>4, <1>5, <1>6, <1>7, <1>8 DEF Act

Inv == WellFormed(prog.script) /\ LoopInv /\ TaskInv

LEMMA InvInit ==
  ASSUME Init, \A p \in Programs : WellFormed(p.script)
  PROVE  Inv
<1>1. WellFormed(prog.script) /\ LoopInv
  BY LoopStart DEF Init, LoopInit, TeamInit
<1>2. DOMAIN stage = {} /\ stage = <<>> /\ stack = [t \in Threads |-> <<>>]
  BY DEF Init
<1>3. Tree
  BY <1>2 DEF Tree
<1>4. CallsBegun /\ RootOnce
  BY <1>2 DEF CallsBegun, RootOnce
<1> QED
  BY <1>1, <1>3, <1>4 DEF Inv, TaskInv

(* The thread that has the single makes the root, when there is no tree.   *)
LEMMA RootStep ==
  ASSUME Inv, NEW t \in Threads, StartRoot(t)
  PROVE  Inv'
<1> USE DEF Inv
<1>1. /\ Runs(t, {"single"}, "work") /\ Construct(t).work = "tasks"
      /\ Stage(Root, "first")
      /\ stack' = [stack EXCEPT ![t] = <<Root>>]
      /\ Becomes(t, "store")
      /\ UNCHANGED <<prog, todo, next, claimed, block_size>>
  BY DEF StartRoot, dataVars
<1>2. at[t] \in Constructs /\ Construct(t).kind = "single" /\ claimed[at[t]] = t
  BY <1>1 DEF Runs, LoopInv, InPlace, AtWork
<1>3. DOMAIN stage = {}
  BY <1>1 DEF TaskInv, RootOnce
<1>4. LoopInv'
  <2>1. Within(t, "store", todo[t])
    BY <1>1, <1>2 DEF Within, Becomes, Runs, LoopInv, ControlTypes
  <2>2. claimed' = [claimed EXCEPT ![at[t]] = t]
    BY <1>1, <1>2 DEF LoopInv, ControlTypes
  <2> QED
    BY <1>1, <1>2, <2>1, <2>2, SingleStep DEF AtWork
<1>5. DOMAIN stage' = {Root} /\ stage' = [p \in {Root} |-> "first"] /\ stage'[Root] = "first"
  BY <1>1, <1>3 DEF Stage, Put
<1>6. Root \in Paths
  BY DEF Root, Paths
<1>7. Tree'
  <2>1. <<Root>> \in Seq(DOMAIN stage')
    BY <1>5
  <2>2. Seq(DOMAIN stage) \subseteq Seq(DOMAIN stage')
    BY <1>3
  <2>3. stack' \in [Threads -> Seq(DOMAIN stage')]
    BY <1>1, <2>1, <2>2 DEF TaskInv, Tree
  <2> QED
    BY <1>5, <1>6, <2>3 DEF Tree
<1>8. CallsBegun'
  BY <1>5, <1>6, ChildOf DEF CallsBegun
<1>9. RootOnce'
  <2>1. Constructs' = Constructs /\ at' = at /\ phase'[t] = "store"
    BY <1>1 DEF Constructs, Becomes, LoopInv, ControlTypes
  <2>2. at[t] \in TaskSingles(prog.script)
    BY <1>1, <1>2 DEF TaskSingles, Construct, Constructs
  <2>3. \A k \in TaskSingles(prog.script) : k = at[t]
    BY <2>2 DEF WellFormed
  <2>4. ASSUME NEW u \in Threads, Runs(u, {"single"}, "work")', Construct(u)'.work = "tasks"
        PROVE  FALSE
    <3>1. u # t
      BY <2>1, <2>4 DEF Runs
    <3>2. Runs(u, {"single"}, "work") /\ Construct(u).work = "tasks"
      BY <1>1, <2>1, <2>4, <3>1 DEF Runs, Construct, Becomes, LoopInv, ControlTypes
    <3>3. at[u] = at[t]
      BY <3>2, <2>3 DEF Runs, TaskSingles, Construct, Constructs
    <3>4. claimed[at[u]] = u
      BY <3>2 DEF Runs, LoopInv, InPlace, AtWork
    <3> QED
      BY <1>2, <3>1, <3>3, <3>4
  <2>5. \A k \in TaskSingles(prog.script)' : claimed'[k] # Nobody
    BY <1>1, <1>2, <2>3, TeamFacts
  <2> QED
    BY <2>4, <2>5 DEF RootOnce
<1> QED
  BY <1>1, <1>4, <1>7, <1>8, <1>9 DEF TaskInv

LEMMA InvNext == Inv /\ [Next]_vars => Inv'
<1> SUFFICES ASSUME Inv, [Next]_vars
             PROVE  Inv'
  OBVIOUS
<1> USE DEF Inv
<1>1. ASSUME NEW t \in Threads, Step(t)
      PROVE  Inv'
  <2>1. CASE Act(t) /\ UNCHANGED taskVars
    <3>1. LoopInv'
      BY <2>1, LoopStep
    <3>2. /\ prog' = prog
          /\ \A k \in Constructs : claimed'[k] = Nobody => claimed[k] = Nobody
          /\ \A u \in Threads : Runs(u, {"single"}, "work")' =>
               /\ at'[u] = at[u]
               /\ \/ Runs(u, {"single"}, "work")
                  \/ Runs(u, {"single"}, "enter") /\ claimed[at[u]] = Nobody
      BY <2>1, SinglesClaimed DEF LoopInv
    <3>3. Tree' /\ CallsBegun'
      BY <2>1 DEF taskVars, TaskInv, Tree, CallsBegun
    <3>4. stage' = stage
      BY <2>1 DEF taskVars
    <3>5. RootOnce'
      <4>1. ASSUME NEW u \in Threads, Runs(u, {"single"}, "work")', Construct(u)'.work = "tasks"
            PROVE  DOMAIN stage = {}
        <5>1. at'[u] = at[u] /\ Construct(u).work = "tasks"
          BY <3>2, <4>1 DEF Construct
        <5>2. CASE Runs(u, {"single"}, "work")
          BY <5>1, <5>2 DEF TaskInv, RootOnce
        <5>3. CASE Runs(u, {"single"}, "enter") /\ claimed[at[u]] = Nobody
          BY <5>1, <5>3 DEF TaskInv, RootOnce, TaskSingles, Runs, Construct, Constructs
        <5> QED
          BY <3>2, <4>1, <5>2, <5>3
      <4>2. ASSUME NEW k \in TaskSingles(prog.script)', claimed'[k] = Nobody
            PROVE  DOMAIN stage = {}
        BY <3>2, <4>2 DEF TaskInv, RootOnce, TaskSingles, Constructs
      <4> QED
        BY <3>4, <4>1, <4>2 DEF RootOnce
    <3> QED
      BY <3>1, <3>2, <3>3, <3>5 DEF TaskInv
  <2>2. CASE StartRoot(t)
    BY <2>2, RootStep
  <2>3. CASE ReturnLeaf(t) \/ Spawn(t, 1) \/ Spawn(t, 2) \/ PickUp(t) \/ Join(t)
    <3>1. Tree' /\ CallsBegun' /\ UNCHANGED loopVars /\ DOMAIN stage # {}
      BY <2>3, TreeStep DEF TaskInv
    <3>2. LoopInv' /\ prog' = prog
      BY <3>1, LoopStutter DEF loopVars, teamVars, dataVars
    <3>3. RootOnce'
      BY <3>1 DEF TaskInv, RootOnce, loopVars, teamVars, Runs, Construct, Constructs
    <3> QED
      BY <3>1, <3>2, <3>3 DEF TaskInv
  <2>4. CASE Conclude(t)
    <3>1. /\ Runs(t, {"single"}, "store") /\ Becomes(t, "arrived")
          /\ UNCHANGED <<prog, todo, next, claimed, block_size, taskVars>>
      BY <2>4 DEF Conclude
    <3>2. Within(t, "arrived", todo[t])
      BY <3>1 DEF Within, Becomes, Runs, LoopInv, ControlTypes
    <3>3. LoopInv'
      BY <3>1, <3>2, ArriveStep
    <3>4. Tree' /\ CallsBegun'
      BY <3>1 DEF taskVars, TaskInv, Tree, CallsBegun
    <3>5. RootOnce'
      BY <3>1 DEF taskVars, TaskInv, RootOnce, Becomes, Runs, Construct, Constructs,
                  LoopInv, ControlTypes
    <3> QED
      BY <3>1, <3>3, <3>4, <3>5 DEF TaskInv
  <2> QED
    BY <1>1, <2>1, <2>2, <2>3, <2>4 DEF Step
<1>2. CASE UNCHANGED vars
  <2>1. LoopInv' /\ prog' = prog
    BY <1>2, LoopStutter DEF vars, loopVars, teamVars, dataVars
  <2>2. Tree' /\ CallsBegun'
    BY <1>2 DEF vars, taskVars, TaskInv, Tree, CallsBegun
  <2>3. RootOnce'
    BY <1>2 DEF vars, taskVars, loopVars, teamVars, TaskInv, RootOnce, Runs, Construct, Constructs
  <2> QED
    BY <2>1, <2>2, <2>3 DEF TaskInv
<1> QED
  BY <1>1, <1>2 DEF Next, Ended

-----------------------------------------------------------------------------
(* Data races.                                                             *)

LEMMA CurrentFacts ==
  ASSUME LoopInv, NEW t \in Threads, todo[t] # {}
  PROVE  /\ Current(t) \in todo[t] /\ Current(t) \in Int
         /\ \A j \in todo[t] : Current(t) <= j
<1>1. todo[t] \in SUBSET Indices
  BY DEF LoopInv, ControlTypes
<1>2. Current(t) \in todo[t] /\ \A j \in todo[t] : Current(t) <= j
  BY <1>1, LeastIndex DEF Current
<1> QED
  BY <1>1, <1>2 DEF Indices

(* What a thread accesses depends on the construct that it is in.          *)
LEMMA ReadsOf ==
  ASSUME LoopInv, WellFormed(prog.script), ~Has("plain"),
         NEW t \in Threads, NEW v \in Reads(t)
  PROVE  /\ Active(t)
         /\ \/ v = <<"block_size">> /\ Construct(t).work \in {"scan", "offset"}
            \/ Construct(t).work = "offset" /\ \E u \in Int : v = <<"block_sum", u>>
            \/ Construct(t).work \notin {"set", "own"} /\ \E i \in Int : v = <<"a", i>>
            \/ v = <<"sum", at[t] - 1>>
            \/ /\ Construct(t).work \in {"scan", "offset"} /\ phase[t] = "work"
               /\ \E i \in Slice(t) : v = <<"b", i>>
<1>1. at[t] \in Constructs
  BY DEF Reads, Out
<1>2. /\ Construct(t).kind = "barrier" => Construct(t).work = ""
      /\ Construct(t).work \in {"scan", "offset", "report"} => Construct(t).kind = "each"
  BY <1>1 DEF WellFormed, ConstructOK, Construct, Constructs
<1>3. Construct(t).work # "plain"
  BY <1>1 DEF Has, Construct
<1> DEFINE c == Construct(t)
           i == Current(t)
<1>4. \/ phase[t] = "enter" /\ c.work = "scan" /\ v = <<"block_size">>
      \/ /\ phase[t] = "enter" /\ c.work = "offset"
         /\ v \in {<<"block_size">>} \cup {<<"block_sum", u>> : u \in 0..t - 1}
      \/ phase[t] = "enter" /\ c.work = "report" /\ v \in {<<"a", j>> : j \in Iterations}
      \/ phase[t] = "work" /\ c.work = "print" /\ v = <<"sum", at[t] - 1>>
      \/ Working(t, {"plain"})
      \/ Working(t, {"successor", "atomic", "reduction"}) /\ v = <<"a", i>>
      \/ Working(t, {"scan"}) /\ i - 1 \in Slice(t) /\ v = <<"b", i - 1>>
      \/ Working(t, {"offset"}) /\ v = <<"b", i>>
      \/ Runs(t, {"for"}, "store") /\ c.detail = "element" /\ v = <<"a", i>>
  BY <1>1 DEF Reads, Out, Working
<1>5. CASE phase[t] = "enter" /\ c.work = "scan" /\ v = <<"block_size">>
  BY <1>1, <1>2, <1>5 DEF Active
<1>6. CASE /\ phase[t] = "enter" /\ c.work = "offset"
           /\ v \in {<<"block_size">>} \cup {<<"block_sum", u>> : u \in 0..t - 1}
  BY <1>1, <1>2, <1>6 DEF Active
<1>7. CASE phase[t] = "enter" /\ c.work = "report" /\ v \in {<<"a", j>> : j \in Iterations}
  BY <1>1, <1>2, <1>7 DEF Active, Iterations
<1>8. CASE phase[t] = "work" /\ c.work = "print" /\ v = <<"sum", at[t] - 1>>
  BY <1>1, <1>2, <1>8 DEF Active
<1>9. CASE Working(t, {"plain"})
  BY <1>3, <1>9 DEF Working
<1>10. CASE Working(t, {"successor", "atomic", "reduction"}) /\ v = <<"a", i>>
  BY <1>1, <1>10, CurrentFacts DEF Working, Runs, Active
<1>11. CASE Working(t, {"scan"}) /\ i - 1 \in Slice(t) /\ v = <<"b", i - 1>>
  BY <1>1, <1>11 DEF Working, Runs, Active
<1>12. CASE Working(t, {"offset"}) /\ v = <<"b", i>>
  <2>1. at[t] \in Constructs /\ c.kind = "each" /\ phase[t] = "work" /\ c.work = "offset"
    BY <1>2, <1>12 DEF Working, Runs
  <2>2. i \in Slice(t)
    BY <2>1, <1>12, CurrentFacts DEF Working, LoopInv, Shares, AtWork
  <2> QED
    BY <1>12, <2>1, <2>2 DEF Active
<1>13. CASE Runs(t, {"for"}, "store") /\ c.detail = "element" /\ v = <<"a", i>>
  <2>1. at[t] \in Constructs /\ c.kind = "for" /\ phase[t] = "store"
    BY <1>13 DEF Runs
  <2>2. todo[t] # {} /\ c.work = "critical"
    BY <1>3, <1>13, <2>1 DEF LoopInv, InPlace
  <2> QED
    BY <1>13, <2>1, <2>2, CurrentFacts DEF Active
<1> QED
  BY <1>4, <1>5, <1>6, <1>7, <1>8, <1>9, <1>10, <1>11, <1>12, <1>13

(* Elements that a thread writes are of its share.                         *)
LEMMA WritesOf ==
  ASSUME LoopInv, WellFormed(prog.script), ~Has("plain"),
         NEW t \in Threads, NEW v \in Writes(t)
  PROVE  /\ Active(t)
         /\ \/ v = <<"block_size">> /\ Construct(t).work = "plan" /\ claimed[at[t]] = t
            \/ /\ Construct(t).work \in {"set", "own"} /\ phase[t] = "work"
               /\ Construct(t).kind \in {"for", "each"}
               /\ \E i \in todo[t] : v = <<"a", i>>
            \/ /\ Construct(t).work \in {"successor", "prefix", "triangle", "scan", "offset"}
               /\ phase[t] = "work" /\ Construct(t).kind \in {"for", "each"}
               /\ \E i \in todo[t] : v = <<"b", i>>
            \/ Construct(t).work = "scan" /\ v = <<"block_sum", t>>
            \/ InCritical(t) /\ v = <<"sum", at[t]>>
<1>1. at[t] \in Constructs
  BY DEF Writes, Out
<1>3. Construct(t).work # "plain"
  BY <1>1 DEF Has, Construct
<1> DEFINE c == Construct(t)
<1>4. \/ Runs(t, {"single"}, "work") /\ c.work = "plan" /\ v = <<"block_size">>
      \/ Working(t, {"set", "own"}) /\ v = <<"a", Current(t)>>
      \/ /\ Working(t, {"successor", "prefix", "triangle", "scan", "offset"})
         /\ v = <<"b", Current(t)>>
      \/ Runs(t, {"each"}, "work") /\ c.work = "scan" /\ v = <<"block_sum", t>>
      \/ Runs(t, {"for"}, "store") /\ c.work \in {"critical", "plain"} /\ v = <<"sum", at[t]>>
  BY <1>1 DEF Writes, Out
<1>5. CASE Runs(t, {"single"}, "work") /\ c.work = "plan" /\ v = <<"block_size">>
  BY <1>1, <1>5 DEF Runs, Active, LoopInv, InPlace, AtWork
<1>6. CASE Working(t, {"set", "own"}) /\ v = <<"a", Current(t)>>
  BY <1>1, <1>6, CurrentFacts DEF Working, Runs, Active
<1>7. CASE /\ Working(t, {"successor", "prefix", "triangle", "scan", "offset"})
           /\ v = <<"b", Current(t)>>
  BY <1>1, <1>7, CurrentFacts DEF Working, Runs, Active
<1>8. CASE Runs(t, {"each"}, "work") /\ c.work = "scan" /\ v = <<"block_sum", t>>
  BY <1>1, <1>8 DEF Runs, Active
<1>9. CASE Runs(t, {"for"}, "store") /\ c.work \in {"critical", "plain"} /\ v = <<"sum", at[t]>>
  BY <1>1, <1>3, <1>9 DEF Runs, Active, InCritical
<1> QED
  BY <1>4, <1>5, <1>6, <1>7, <1>8, <1>9

LEMMA UpdatesOf ==
  ASSUME LoopInv, NEW t \in Threads, NEW v \in Updates(t)
  PROVE  /\ Active(t)
         /\ Construct(t).work \in {"atomic", "reduction", "assign", "last"}
         /\ v = <<"sum", at[t]>>
BY DEF Updates, Working, Exhausted, Runs, Active

(* Two threads have no iteration in common.                                *)
LEMMA SharesDisjoint ==
  ASSUME LoopInv, WellFormed(prog.script), NEW t \in Threads, NEW u \in Threads, t # u,
         at[t] = at[u], at[t] \in Constructs, Construct(t).kind \in {"for", "each"},
         phase[t] = "work", phase[u] = "work"
  PROVE  todo[t] \cap todo[u] = {}
<1>0. Construct(u) = Construct(t) /\ Construct(t).chunk \in Nat
  BY DEF Construct, Constructs, WellFormed, ConstructOK
<1>1. CASE Construct(t).kind = "each"
  <2>1. todo[t] \subseteq Slice(t) /\ todo[u] \subseteq Slice(u)
    BY <1>0, <1>1 DEF LoopInv, Shares, AtWork
  <2> QED
    BY <2>1, SlicesDisjoint DEF LoopInv, ControlTypes
<1>2. CASE Construct(t).kind = "for" /\ Construct(t).chunk = 0
  <2>1. todo[t] \subseteq Block(t) /\ todo[u] \subseteq Block(u)
    BY <1>0, <1>2 DEF LoopInv, Shares, AtWork
  <2> QED
    BY <2>1, BlocksDisjoint
<1>3. CASE Construct(t).kind = "for" /\ Construct(t).chunk > 0
  BY <1>3 DEF LoopInv, ChunksDisjoint, AtWork
<1> QED
  BY <1>0, <1>1, <1>2, <1>3

LEMMA Raceless ==
  ASSUME LoopInv, WellFormed(prog.script)
  PROVE  NoDataRace
<1> SUFFICES ASSUME ~Has("plain"), NEW t \in Threads, NEW u \in Threads, t # u
             PROVE  /\ (Writes(t) \cup Updates(t)) \cap Reads(u) = {}
                    /\ Writes(t) \cap (Writes(u) \cup Updates(u)) = {}
  BY DEF NoDataRace
<1>1. ASSUME Active(t), Active(u)
      PROVE  at[t] = at[u] /\ Construct(t) = Construct(u) /\ at[t] \in Constructs /\ at[t] \in Nat
  BY <1>1, SameConstruct DEF Construct, Active, LoopInv, ControlTypes
<1>2. ASSUME NEW v \in Writes(t), NEW w \in Reads(u), v = w
      PROVE  FALSE
  <2>1. Active(t) /\ Active(u)
    BY <1>2, WritesOf, ReadsOf
  <2>2. at[t] = at[u] /\ Construct(t) = Construct(u) /\ at[t] \in Constructs /\ at[t] \in Nat
    BY <1>1, <2>1
  <2>3. \/ v = <<"block_size">> /\ Construct(t).work = "plan"
        \/ Construct(t).work \in {"set", "own"} /\ \E i \in todo[t] : v = <<"a", i>>
        \/ /\ Construct(t).work \in {"successor", "prefix", "triangle", "scan", "offset"}
           /\ phase[t] = "work" /\ Construct(t).kind \in {"for", "each"}
           /\ \E i \in todo[t] : v = <<"b", i>>
        \/ Construct(t).work = "scan" /\ v = <<"block_sum", t>>
        \/ v = <<"sum", at[t]>>
    BY <1>2, WritesOf
  <2>4. \/ w = <<"block_size">> /\ Construct(t).work \in {"scan", "offset"}
        \/ Construct(t).work = "offset" /\ \E i \in Int : w = <<"block_sum", i>>
        \/ Construct(t).work \notin {"set", "own"} /\ \E i \in Int : w = <<"a", i>>
        \/ w = <<"sum", at[t] - 1>>
        \/ /\ Construct(t).work \in {"scan", "offset"} /\ phase[u] = "work"
           /\ \E i \in Slice(u) : w = <<"b", i>>
    BY <1>2, <2>2, ReadsOf
  <2>5. \A i \in todo[t] : w # <<"b", i>>
    <3> SUFFICES ASSUME NEW i \in todo[t], w = <<"b", i>>
                 PROVE  FALSE
      OBVIOUS
    <3>1. Construct(t).work \in {"scan", "offset"} /\ i \in Slice(u)
      BY <2>4
    <3>2. phase[t] = "work"
      BY <1>2, <2>3
    <3>3. Construct(t).kind = "each"
      BY <2>2, <3>1 DEF WellFormed, ConstructOK, Construct, Constructs
    <3>4. i \in Slice(t)
      BY <2>2, <3>2, <3>3 DEF LoopInv, Shares, AtWork
    <3> QED
      BY <3>1, <3>4, SlicesDisjoint DEF LoopInv, ControlTypes
  <2>6. <<"sum", at[t]>> # <<"sum", at[t] - 1>>
    BY <2>2
  <2> QED
    BY <1>2, <2>3, <2>4, <2>5, <2>6
<1>3. ASSUME NEW v \in Updates(t), NEW w \in Reads(u), v = w
      PROVE  FALSE
  <2>1. Active(t) /\ Active(u) /\ v = <<"sum", at[t]>>
    BY <1>3, UpdatesOf, ReadsOf
  <2>2. at[t] = at[u] /\ at[t] \in Nat
    BY <1>1, <2>1
  <2>3. \/ w = <<"block_size">>
        \/ \E i \in Int : w = <<"block_sum", i>> \/ w = <<"a", i>>
        \/ w = <<"sum", at[t] - 1>>
        \/ \E i \in Slice(u) : w = <<"b", i>>
    BY <1>3, <2>2, ReadsOf
  <2> QED
    BY <1>3, <2>1, <2>2, <2>3
<1>4. ASSUME NEW v \in Writes(t), NEW w \in Writes(u), v = w
      PROVE  FALSE
  <2>1. Active(t) /\ Active(u)
    BY <1>4, WritesOf
  <2>2. at[t] = at[u] /\ Construct(t) = Construct(u) /\ at[t] \in Constructs
    BY <1>1, <2>1
  <2>3. \/ v = <<"block_size">> /\ claimed[at[t]] = t
        \/ /\ phase[t] = "work" /\ Construct(t).kind \in {"for", "each"}
           /\ \E i \in todo[t] : v = <<"a", i>> \/ v = <<"b", i>>
        \/ v = <<"block_sum", t>>
        \/ InCritical(t) /\ v = <<"sum", at[t]>>
    BY <1>4, WritesOf
  <2>4. \/ w = <<"block_size">> /\ claimed[at[t]] = u
        \/ /\ phase[u] = "work"
           /\ \E i \in todo[u] : w = <<"a", i>> \/ w = <<"b", i>>
        \/ w = <<"block_sum", u>>
        \/ InCritical(u) /\ w = <<"sum", at[t]>>
    BY <1>4, <2>2, WritesOf
  <2>5. ~(InCritical(t) /\ InCritical(u))
    BY DEF LoopInv, OneInCritical
  <2>6. CASE \E i \in todo[t] : v = <<"a", i>> \/ v = <<"b", i>>
    <3>1. PICK i \in todo[t] : v = <<"a", i>> \/ v = <<"b", i>>
      BY <2>6
    <3>2. PICK j \in todo[u] : w = <<"a", j>> \/ w = <<"b", j>>
      BY <1>4, <2>4, <3>1
    <3>3. i = j /\ phase[t] = "work" /\ phase[u] = "work"
      BY <1>4, <2>3, <2>4, <3>1, <3>2
    <3>4. Construct(t).kind \in {"for", "each"}
      BY <2>3, <3>1
    <3> QED
      BY <2>2, <3>3, <3>4, SharesDisjoint
  <2>7. CASE ~\E i \in todo[t] : v = <<"a", i>> \/ v = <<"b", i>>
    BY <1>4, <2>3, <2>4, <2>5, <2>7
  <2> QED
    BY <2>6, <2>7
<1>5. ASSUME NEW v \in Writes(t), NEW w \in Updates(u), v = w
      PROVE  FALSE
  <2>1. /\ Active(t) /\ Active(u)
        /\ w = <<"sum", at[u]>>
        /\ Construct(u).work \in {"atomic", "reduction", "assign", "last"}
    BY <1>5, WritesOf, UpdatesOf
  <2>2. Construct(t) = Construct(u)
    BY <1>1, <2>1
  <2>3. \/ v = <<"block_size">>
        \/ \E i \in todo[t] : v = <<"a", i>> \/ v = <<"b", i>>
        \/ v = <<"block_sum", t>>
        \/ Construct(t).work = "critical"
    BY <1>5, WritesOf DEF InCritical
  <2> QED
    BY <1>5, <2>1, <2>2, <2>3
<1> QED
  BY <1>2, <1>3, <1>4, <1>5

-----------------------------------------------------------------------------
(* The scripts of the programs.                                            *)

LEMMA OneConstruct ==
  ASSUME NEW c, ConstructOK(c)
  PROVE  WellFormed(<<c>>)
<1> DEFINE s == <<c>>
<1>1. Len(s) = 1 /\ s[1] = c
  OBVIOUS
<1> HIDE DEF s
<1>2. WellFormed(s)
  BY <1>1 DEF WellFormed, TaskSingles
<1> QED
  BY <1>2 DEF s

LEMMA TwoConstructs ==
  ASSUME NEW c, NEW d, ConstructOK(c), ConstructOK(d),
         c.waits \/ d.kind = "barrier",
         c.work # "tasks" \/ d.work # "tasks"
  PROVE  WellFormed(<<c, d>>)
<1> DEFINE s == <<c, d>>
<1>1. Len(s) = 2 /\ s[1] = c /\ s[2] = d
  OBVIOUS
<1> HIDE DEF s
<1>2. WellFormed(s)
  BY <1>1 DEF WellFormed, TaskSingles
<1> QED
  BY <1>2 DEF s

LEMMA ThreeConstructs ==
  ASSUME NEW c, NEW d, NEW e,
         ConstructOK(c), c.work # "tasks", c.waits \/ d.kind = "barrier",
         ConstructOK(d), d.work # "tasks", d.waits \/ e.kind = "barrier",
         ConstructOK(e), e.work # "tasks"
  PROVE  WellFormed(<<c, d, e>>)
<1> DEFINE s == <<c, d, e>>
<1>1. /\ Len(s) = 3
      /\ s[1] = c /\ s[2] = d /\ s[3] = e
  OBVIOUS
<1> HIDE DEF s
<1>2. WellFormed(s)
  BY <1>1 DEF WellFormed, TaskSingles
<1> QED
  BY <1>2 DEF s

LEMMA FourConstructs ==
  ASSUME NEW c, NEW d, NEW e, NEW f,
         ConstructOK(c), c.work # "tasks", c.waits \/ d.kind = "barrier",
         ConstructOK(d), d.work # "tasks", d.waits \/ e.kind = "barrier",
         ConstructOK(e), e.work # "tasks", e.waits \/ f.kind = "barrier",
         ConstructOK(f), f.work # "tasks"
  PROVE  WellFormed(<<c, d, e, f>>)
<1> DEFINE s == <<c, d, e, f>>
<1>1. /\ Len(s) = 4
      /\ s[1] = c /\ s[2] = d /\ s[3] = e /\ s[4] = f
  OBVIOUS
<1> HIDE DEF s
<1>2. WellFormed(s)
  BY <1>1 DEF WellFormed, TaskSingles
<1> QED
  BY <1>2 DEF s

LEMMA SevenConstructs ==
  ASSUME NEW c, NEW d, NEW e, NEW f, NEW g, NEW h, NEW i,
         ConstructOK(c), c.work # "tasks", c.waits \/ d.kind = "barrier",
         ConstructOK(d), d.work # "tasks", d.waits \/ e.kind = "barrier",
         ConstructOK(e), e.work # "tasks", e.waits \/ f.kind = "barrier",
         ConstructOK(f), f.work # "tasks", f.waits \/ g.kind = "barrier",
         ConstructOK(g), g.work # "tasks", g.waits \/ h.kind = "barrier",
         ConstructOK(h), h.work # "tasks", h.waits \/ i.kind = "barrier",
         ConstructOK(i), i.work # "tasks"
  PROVE  WellFormed(<<c, d, e, f, g, h, i>>)
<1> DEFINE s == <<c, d, e, f, g, h, i>>
<1>1. /\ Len(s) = 7
      /\ s[1] = c /\ s[2] = d /\ s[3] = e /\ s[4] = f /\ s[5] = g /\ s[6] = h /\ s[7] = i
  OBVIOUS
<1> HIDE DEF s
<1>2. WellFormed(s)
  BY <1>1 DEF WellFormed, TaskSingles
<1> QED
  BY <1>2 DEF s

LEMMA LoopScripts ==
  ASSUME NEW p \in LoopPrograms
  PROVE  WellFormed(p.script)
<1> USE TeamAssumption DEF Region, For, Sum, Single, Each, Barrier, ConstructOK
<1>1. CASE p = Critical_Preparation
  BY <1>1, OneConstruct DEF Critical_Preparation
<1>2. CASE p = Atomic_Preparation
  BY <1>2, OneConstruct DEF Atomic_Preparation
<1>3. CASE p = Unprotected_Preparation
  BY <1>3, OneConstruct DEF Unprotected_Preparation
<1>4. CASE p = Reduction_Preparation
  BY <1>4, OneConstruct DEF Reduction_Preparation
<1>5. CASE p = Lastprivate_Three3
  BY <1>5, OneConstruct DEF Lastprivate_Three3
<1>6. CASE p = Critical_Three3
  BY <1>6, TwoConstructs DEF Critical_Three3
<1>7. CASE p = Atomic_Three3
  BY <1>7, TwoConstructs DEF Atomic_Three3
<1>8. CASE p = Reduction_Three3
  BY <1>8, TwoConstructs DEF Reduction_Three3
<1>9. CASE p = Squares_Exercise1
  BY <1>9, OneConstruct DEF Squares_Exercise1
<1>10. CASE p = Squares_Again2
  BY <1>10, OneConstruct DEF Squares_Again2
<1>11. CASE p = Sums_Again2
  BY <1>11, SevenConstructs DEF Sums_Again2
<1>12. CASE p = BarrierMain_Three3
  BY <1>12, ThreeConstructs DEF BarrierMain_Three3
<1>13. CASE p = Init_Again2
  BY <1>13, FourConstructs DEF Init_Again2
<1>14. CASE p = Ordered_Three3
  BY <1>14, OneConstruct DEF Ordered_Three3
<1>15. CASE p = Case1_Preparation
  BY <1>15, OneConstruct DEF Case1_Preparation
<1>16. CASE p = Matrix_Exercises
  BY <1>16, OneConstruct DEF Matrix_Exercises
<1>17. CASE p = Prefix_Exercise4
  BY <1>17, OneConstruct DEF Prefix_Exercise4
<1>18. CASE p = Triangle_Exam1
  BY <1>18, OneConstruct DEF Triangle_Exam1
<1>19. CASE p = PrefixSum_Exercise4_2
  BY <1>19, FourConstructs DEF PrefixSum_Exercise4_2
<1>20. CASE p = Sections_Three3
  BY <1>20, TwoConstructs DEF Sections_Three3
<1>21. CASE p = Sections_Reviewing
  BY <1>21, ThreeConstructs DEF Sections_Reviewing
<1>22. CASE p = ThreadPrivate_Reviewing
  BY <1>22, ThreeConstructs DEF ThreadPrivate_Reviewing
<1>23. CASE p = Copyprivate_Three3
  BY <1>23, OneConstruct DEF Copyprivate_Three3
<1> QED
  BY <1>1, <1>2, <1>3, <1>4, <1>5, <1>6, <1>7, <1>8, <1>9, <1>10, <1>11,
     <1>12, <1>13, <1>14, <1>15, <1>16, <1>17, <1>18, <1>19, <1>20, <1>21,
     <1>22, <1>23
  DEF LoopPrograms

LEMMA TaskScripts ==
  ASSUME NEW n \in Nat, NEW p \in TaskPrograms(n)
  PROVE  WellFormed(p.script)
<1> USE DEF Region, For, Single, Fib, ConstructOK
<1>1. CASE p = Fib_Preparation(n)
  BY <1>1, OneConstruct DEF Fib_Preparation
<1>2. CASE p = Fib_Three3(n)
  BY <1>2, TwoConstructs DEF Fib_Three3
<1>3. CASE p = Fib_Again2(n)
  BY <1>3, OneConstruct DEF Fib_Again2
<1>4. CASE p = Range_Three3
  BY <1>4, TwoConstructs DEF Range_Three3
<1>5. CASE p = Range_Again2
  BY <1>5, OneConstruct DEF Range_Again2
<1> QED
  BY <1>1, <1>2, <1>3, <1>4, <1>5 DEF TaskPrograms

\* The programs of the repository, with any argument of fib.
AllPrograms == LoopPrograms \cup UNION {TaskPrograms(n) : n \in Nat}

LEMMA AllScripts ==
  ASSUME Programs \subseteq AllPrograms
  PROVE  \A p \in Programs : WellFormed(p.script)
BY LoopScripts, TaskScripts DEF AllPrograms

LEMMA InvAlways ==
  ASSUME Programs \subseteq AllPrograms
  PROVE  Spec => []Inv
<1>1. Init => Inv
  BY AllScripts, InvInit
<1> QED
  BY <1>1, InvNext, PTL DEF Spec

(* No two threads are about to access the same shared variable, one of     *)
(* them writing, in any program but the one whose sum is unprotected.      *)
THEOREM NoRaces ==
  ASSUME Programs \subseteq AllPrograms
  PROVE  Spec => []NoDataRace
<1>1. Inv => NoDataRace
  BY Raceless DEF Inv
<1>2. Spec => []Inv
  BY InvAlways
<1> QED
  BY <1>1, <1>2, PTL

(* A call has not returned while a task that it has created is unfinished. *)
THEOREM FramesStayAlive ==
  ASSUME Programs \subseteq AllPrograms
  PROVE  Spec => []FramesAlive
<1>1. Inv => FramesAlive
  BY Alive DEF Inv, TaskInv
<1>2. Spec => []Inv
  BY InvAlways
<1> QED
  BY <1>1, <1>2, PTL

-----------------------------------------------------------------------------
(* Sums of a function over a finite set.                                   *)

\* How SumFunctionOnSet(f, S) is computed.
SumsUp(g, f, S) ==
  g = [s \in SUBSET S |-> IF s = {} THEN 0
                          ELSE f[CHOOSE x \in s : TRUE] + g[s \ {CHOOSE x \in s : TRUE}]]

LEMMA SumUnfolds ==
  ASSUME NEW S, NEW f, NEW g, SumsUp(g, f, S)
  PROVE  \E h : SumsUp(h, f, S) /\ SumFunctionOnSet(f, S) = h[S]
<1> DEFINE h == CHOOSE h : SumsUp(h, f, S)
<1>1. SumsUp(h, f, S)
  OBVIOUS
<1>2. SumFunctionOnSet(f, S) = h[S]
  BY DEF SumsUp, SumFunctionOnSet, FoldFunctionOnSet, MapThenFoldSet
<1> QED
  BY <1>1, <1>2

\* g is the sum of f over the subsets of T.
Sums(g, f, T) == /\ g \in [SUBSET T -> Int]
                 /\ g[{}] = 0
                 /\ \A S \in SUBSET T : \A x \in T \ S : g[S \cup {x}] = f[x] + g[S]

(* A set of natural numbers without a least element is empty.              *)
LEMMA LeastNumber ==
  ASSUME NEW B \in SUBSET Nat, B # {}
  PROVE  \E n \in B : \A m \in B : n <= m
<1>1. PICK n \in B : \A m \in B : <<m, n>> \notin OpToRel(<, Nat)
  BY NatLessThanWellFounded, WFMin
<1>2. \A m \in B : ~(m < n)
  BY <1>1 DEF OpToRel
<1> QED
  BY <1>2

LEMMA SumsExist ==
  ASSUME NEW T, IsFiniteSet(T), NEW f, \A x \in T : f[x] \in Int
  PROVE  \E g : Sums(g, f, T)
<1> DEFINE B == {n \in Nat : \E U \in SUBSET T : Cardinality(U) = n /\ ~\E g : Sums(g, f, U)}
<1> SUFFICES ASSUME ~\E g : Sums(g, f, T)
             PROVE  FALSE
  OBVIOUS
<1>1. B # {}
  BY FS_CardinalityType
<1>2. PICK n \in B : \A m \in B : n <= m
  BY <1>1, LeastNumber
<1>3. PICK U \in SUBSET T : Cardinality(U) = n /\ ~\E g : Sums(g, f, U)
  OBVIOUS
<1>4. IsFiniteSet(U)
  BY FS_Subset
<1>5. U # {}
  <2> SUFFICES ASSUME U = {} PROVE FALSE
    OBVIOUS
  <2> DEFINE g == [S \in SUBSET U |-> 0]
  <2>1. Sums(g, f, U)
    BY DEF Sums
  <2> QED
    BY <1>3, <2>1
<1>6. PICK x \in U : TRUE
  BY <1>5
<1> DEFINE V == U \ {x}
<1>7. V \in SUBSET T /\ Cardinality(V) = n - 1 /\ n - 1 \in Nat /\ n \in Nat
  <2>1. Cardinality(V) = Cardinality(U) - 1 /\ IsFiniteSet(V)
    BY <1>4, <1>6, FS_RemoveElement
  <2>2. Cardinality(V) \in Nat
    BY <2>1, FS_CardinalityType
  <2> QED
    BY <1>3, <2>1, <2>2
<1>8. n - 1 \notin B
  BY <1>2, <1>7
<1>9. PICK h : Sums(h, f, V)
  BY <1>7, <1>8
<1> DEFINE g == [S \in SUBSET U |-> h[S \ {x}] + IF x \in S THEN f[x] ELSE 0]
<1>10. f[x] \in Int /\ \A S \in SUBSET U : S \ {x} \in SUBSET V
  BY <1>6
<1>11. g \in [SUBSET U -> Int] /\ g[{}] = 0
  <2>1. {} \ {x} = {} /\ x \notin {}
    OBVIOUS
  <2> HIDE DEF V
  <2> QED
    BY <1>9, <1>10, <2>1 DEF Sums
<1>12. ASSUME NEW S \in SUBSET U, NEW y \in U \ S
       PROVE  g[S \cup {y}] = f[y] + g[S]
  <2>1. /\ g[S \cup {y}] = h[(S \cup {y}) \ {x}] + IF x \in S \cup {y} THEN f[x] ELSE 0
        /\ g[S] = h[S \ {x}] + IF x \in S THEN f[x] ELSE 0
        /\ h[S \ {x}] \in Int /\ f[y] \in Int
    <3>1. S \cup {y} \in SUBSET U
      OBVIOUS
    <3>2. h[S \ {x}] \in Int
      BY <1>9, <1>10 DEF Sums
    <3> QED
      BY <3>1, <3>2
  <2>2. CASE y = x
    <3>1. (S \cup {y}) \ {x} = S \ {x} /\ x \notin S /\ x \in S \cup {y}
      BY <2>2
    <3>2. g[S] = h[S \ {x}] /\ g[S \cup {y}] = h[S \ {x}] + f[x]
      <4>1. /\ g[S \cup {y}] = h[S \ {x}] + IF x \in S \cup {y} THEN f[x] ELSE 0
            /\ g[S] = h[S \ {x}] + IF x \in S THEN f[x] ELSE 0
            /\ h[S \ {x}] \in Int
        BY <2>1, <3>1
      <4> HIDE DEF g, V
      <4> QED
        BY <1>10, <3>1, <4>1
    <3> HIDE DEF g, V
    <3> QED
      BY <1>10, <2>1, <2>2, <3>2
  <2>3. CASE y # x
    <3>1. (S \cup {y}) \ {x} = (S \ {x}) \cup {y} /\ (x \in S \cup {y} <=> x \in S)
      BY <2>3
    <3>2. h[(S \ {x}) \cup {y}] = f[y] + h[S \ {x}]
      <4>1. S \ {x} \in SUBSET V /\ y \in V \ (S \ {x})
        BY <2>3
      <4> HIDE DEF V
      <4> QED
        BY <1>9, <4>1 DEF Sums
    <3> HIDE DEF g, V
    <3> QED
      BY <1>10, <2>1, <3>1, <3>2
  <2> QED
    BY <2>2, <2>3
<1>13. Sums(g, f, U)
  BY <1>11, <1>12 DEF Sums
<1> QED
  BY <1>3, <1>13

LEMMA SumIs ==
  ASSUME NEW T, IsFiniteSet(T), NEW f, \A x \in T : f[x] \in Int,
         NEW g, Sums(g, f, T), NEW S \in SUBSET T
  PROVE  SumFunctionOnSet(f, S) = g[S]
<1> DEFINE first(s) == CHOOSE x \in s : TRUE
<1>0. \A s \in SUBSET S : s # {} => /\ first(s) \in s
                                    /\ s \ {first(s)} \in SUBSET S
                                    /\ g[s] = f[first(s)] + g[s \ {first(s)}]
  <2> SUFFICES ASSUME NEW s \in SUBSET S, s # {}
               PROVE  /\ first(s) \in s
                      /\ s \ {first(s)} \in SUBSET S
                      /\ g[s] = f[first(s)] + g[s \ {first(s)}]
    OBVIOUS
  <2>1. first(s) \in s
    OBVIOUS
  <2> HIDE DEF first
  <2>2. (s \ {first(s)}) \cup {first(s)} = s
    BY <2>1
  <2>3. g[(s \ {first(s)}) \cup {first(s)}] = f[first(s)] + g[s \ {first(s)}]
    BY <2>1 DEF Sums
  <2> QED
    BY <2>1, <2>2, <2>3
<1> DEFINE it == [s \in SUBSET S |-> g[s]]
<1>1. SumsUp(it, f, S)
  <2>1. \A s \in SUBSET S : it[s] = IF s = {} THEN 0 ELSE f[first(s)] + it[s \ {first(s)}]
    <3>1. \A s \in SUBSET S : s # {} => it[s \ {first(s)}] = g[s \ {first(s)}]
      BY <1>0
    <3> HIDE DEF first
    <3> QED
      BY <1>0, <3>1 DEF Sums
  <2> QED
    BY <2>1 DEF SumsUp
<1> HIDE DEF it
<1>2. PICK iter : SumsUp(iter, f, S) /\ SumFunctionOnSet(f, S) = iter[S]
  BY <1>1, SumUnfolds
<1>3. \A s \in SUBSET S : iter[s] = IF s = {} THEN 0 ELSE f[first(s)] + iter[s \ {first(s)}]
  BY <1>2 DEF SumsUp
<1> HIDE DEF first
<1>4. ASSUME iter[S] # g[S]
      PROVE  FALSE
  <2> DEFINE B == {n \in Nat : \E s \in SUBSET S : Cardinality(s) = n /\ iter[s] # g[s]}
  <2>1. IsFiniteSet(S) /\ \A s \in SUBSET S : IsFiniteSet(s) /\ Cardinality(s) \in Nat
    BY FS_Subset, FS_CardinalityType
  <2>2. B # {}
    BY <1>4, <2>1
  <2>3. PICK n \in B : \A m \in B : n <= m
    BY <2>2, LeastNumber
  <2>4. PICK s \in SUBSET S : Cardinality(s) = n /\ iter[s] # g[s]
    OBVIOUS
  <2>5. s # {}
    BY <1>3, <2>4 DEF Sums
  <2> DEFINE r == s \ {first(s)}
  <2>6. first(s) \in s /\ r \in SUBSET S /\ g[s] = f[first(s)] + g[r]
    BY <1>0, <2>5
  <2>7. Cardinality(r) = n - 1 /\ Cardinality(r) \in Nat
    BY <2>1, <2>4, <2>6, FS_RemoveElement
  <2>8. n - 1 \notin B
    BY <2>3, <2>7
  <2>9. iter[r] = g[r]
    BY <2>6, <2>7, <2>8
  <2>10. iter[s] = f[first(s)] + iter[r]
    BY <1>3, <2>5
  <2> QED
    BY <2>4, <2>6, <2>9, <2>10
<1> QED
  BY <1>2, <1>4

LEMMA SumFacts ==
  ASSUME NEW T, IsFiniteSet(T), NEW f, \A x \in T : f[x] \in Int
  PROVE  /\ SumFunctionOnSet(f, {}) = 0
         /\ \A S \in SUBSET T : SumFunctionOnSet(f, S) \in Int
         /\ \A S \in SUBSET T : \A x \in T \ S :
              SumFunctionOnSet(f, S \cup {x}) = f[x] + SumFunctionOnSet(f, S)
<1>1. PICK g : Sums(g, f, T)
  BY SumsExist
<1>2. \A S \in SUBSET T : SumFunctionOnSet(f, S) = g[S]
  BY <1>1, SumIs
<1>3. {} \in SUBSET T /\ \A S \in SUBSET T : \A x \in T \ S : S \cup {x} \in SUBSET T
  OBVIOUS
<1> QED
  BY <1>1, <1>2, <1>3 DEF Sums

LEMMA SumSame ==
  ASSUME NEW T, IsFiniteSet(T), NEW f, NEW h, \A x \in T : f[x] \in Int /\ h[x] = f[x]
  PROVE  SumFunctionOnSet(h, T) = SumFunctionOnSet(f, T)
<1>1. PICK g : Sums(g, f, T)
  BY SumsExist
<1>2. Sums(g, h, T)
  BY <1>1 DEF Sums
<1>3. T \in SUBSET T
  OBVIOUS
<1>4. SumFunctionOnSet(f, T) = g[T]
  BY <1>1, <1>3, SumIs
<1>5. SumFunctionOnSet(h, T) = g[T]
  BY <1>2, <1>3, SumIs
<1> QED
  BY <1>4, <1>5

LEMMA SumUnion ==
  ASSUME NEW T, IsFiniteSet(T), NEW f, \A x \in T : f[x] \in Int,
         NEW A \in SUBSET T, NEW B \in SUBSET T, A \cap B = {}
  PROVE  SumFunctionOnSet(f, A \cup B) = SumFunctionOnSet(f, A) + SumFunctionOnSet(f, B)
<1> DEFINE with(S) == SumFunctionOnSet(f, A \cup S)
           base == SumFunctionOnSet(f, A)
           g == [S \in SUBSET B |-> with(S) - base]
<1>0. base \in Int /\ with({}) = base
  <2>1. A \cup {} = A
    OBVIOUS
  <2> QED
    BY <2>1, SumFacts
<1>1. ASSUME NEW S \in SUBSET B
      PROVE  /\ with(S) \in Int
             /\ \A x \in B \ S : with(S \cup {x}) = f[x] + with(S)
  <2>1. A \cup S \in SUBSET T
    OBVIOUS
  <2>2. ASSUME NEW x \in B \ S
        PROVE  with(S \cup {x}) = f[x] + with(S)
    <3>1. A \cup (S \cup {x}) = (A \cup S) \cup {x} /\ x \in T \ (A \cup S)
      OBVIOUS
    <3>2. SumFunctionOnSet(f, (A \cup S) \cup {x}) = f[x] + SumFunctionOnSet(f, A \cup S)
      <4>1. \A U \in SUBSET T : \A y \in T \ U :
              SumFunctionOnSet(f, U \cup {y}) = f[y] + SumFunctionOnSet(f, U)
        BY SumFacts
      <4> QED
        BY <2>1, <3>1, <4>1
    <3> QED
      BY <3>1, <3>2
  <2>3. SumFunctionOnSet(f, A \cup S) \in Int
    BY <2>1, SumFacts
  <2> QED
    BY <2>2, <2>3
<1>2. \A x \in B : f[x] \in Int
  OBVIOUS
<1>3. IsFiniteSet(B) /\ B \in SUBSET B /\ {} \in SUBSET B
  BY FS_Subset
<1> HIDE DEF with, base
<1>4. Sums(g, f, B)
  <2>1. \A S \in SUBSET B : \A x \in B \ S : S \cup {x} \in SUBSET B
    OBVIOUS
  <2> QED
    BY <1>0, <1>1, <1>2, <1>3, <2>1 DEF Sums
<1>5. SumFunctionOnSet(f, B) = g[B]
  <2> HIDE DEF g
  <2> QED
    BY <1>2, <1>3, <1>4, SumIs
<1>6. SumFunctionOnSet(f, B) = with(B) - base /\ with(B) \in Int
  BY <1>1, <1>3, <1>5
<1> QED
  BY <1>0, <1>6 DEF with, base

LEMMA SumOfOnes ==
  ASSUME NEW T, IsFiniteSet(T), NEW f, \A x \in T : f[x] = 1
  PROVE  SumFunctionOnSet(f, T) = Cardinality(T)
<1> DEFINE g == [S \in SUBSET T |-> Cardinality(S)]
<1>1. \A S \in SUBSET T : IsFiniteSet(S) /\ Cardinality(S) \in Nat
  BY FS_Subset, FS_CardinalityType
<1>2. g \in [SUBSET T -> Int]
  BY <1>1
<1>3. g[{}] = 0
  BY FS_EmptySet
<1>4. ASSUME NEW S \in SUBSET T, NEW x \in T \ S
      PROVE  g[S \cup {x}] = f[x] + g[S]
  <2>1. S \cup {x} \in SUBSET T /\ x \notin S
    OBVIOUS
  <2>2. Cardinality(S \cup {x}) = Cardinality(S) + 1
    BY <1>1, <2>1, FS_AddElement
  <2> QED
    BY <1>1, <2>1, <2>2
<1>5. Sums(g, f, T)
  BY <1>2, <1>3, <1>4 DEF Sums
<1>6. T \in SUBSET T /\ \A x \in T : f[x] \in Int
  OBVIOUS
<1>7. SumFunctionOnSet(f, T) = g[T]
  <2> HIDE DEF g
  <2> QED
    BY <1>5, <1>6, SumIs
<1> QED
  BY <1>6, <1>7

LEMMA SumOfZeros ==
  ASSUME NEW T, IsFiniteSet(T), NEW f, \A x \in T : f[x] = 0
  PROVE  SumFunctionOnSet(f, T) = 0
<1> DEFINE g == [S \in SUBSET T |-> 0]
<1>1. Sums(g, f, T)
  BY DEF Sums
<1>2. T \in SUBSET T /\ \A x \in T : f[x] \in Int
  OBVIOUS
<1>3. SumFunctionOnSet(f, T) = g[T]
  <2> HIDE DEF g
  <2> QED
    BY <1>1, <1>2, SumIs
<1> QED
  BY <1>2, <1>3

LEMMA SumChanges ==
  ASSUME NEW T, IsFiniteSet(T), NEW f, NEW h, NEW x \in T,
         \A y \in T : f[y] \in Int /\ h[y] \in Int,
         \A y \in T \ {x} : h[y] = f[y]
  PROVE  /\ SumFunctionOnSet(h, T) = SumFunctionOnSet(f, T) - f[x] + h[x]
         /\ SumFunctionOnSet(h, T) \in Int /\ SumFunctionOnSet(f, T) \in Int
<1> DEFINE R == T \ {x}
<1>1. R \in SUBSET T /\ x \in T \ R /\ R \cup {x} = T /\ T \in SUBSET T
  OBVIOUS
<1>2. IsFiniteSet(R)
  BY FS_Subset
<1> HIDE DEF R
<1>3. SumFunctionOnSet(f, R \cup {x}) = f[x] + SumFunctionOnSet(f, R)
  BY <1>1, SumFacts
<1>4. SumFunctionOnSet(h, R \cup {x}) = h[x] + SumFunctionOnSet(h, R)
  BY <1>1, SumFacts
<1>5. SumFunctionOnSet(h, R) = SumFunctionOnSet(f, R)
  BY <1>2, SumSame DEF R
<1>6. /\ SumFunctionOnSet(f, R) \in Int
      /\ SumFunctionOnSet(f, T) \in Int /\ SumFunctionOnSet(h, T) \in Int
  BY <1>1, SumFacts
<1> QED
  BY <1>1, <1>3, <1>4, <1>5, <1>6

-----------------------------------------------------------------------------
(* Every iteration is in the block of one thread.                          *)

LEMMA Division ==
  ASSUME NEW x \in Nat, NEW s \in Nat \ {0}
  PROVE  /\ x \div s \in Nat
         /\ (x \div s) * s <= x
         /\ x < (x \div s) * s + s
         /\ x = (x \div s) * s + (x % s)
         /\ x % s \in Nat /\ x % s < s
<1>1. x \div s \in Nat /\ x % s \in 0..s - 1
  OBVIOUS
<1>2. (x \div s) * s <= x /\ x < (x \div s) * s + s
  OBVIOUS
<1>3. x = (x \div s) * s + (x % s)
  OBVIOUS
<1> QED
  BY <1>1, <1>2, <1>3

\* The size of the blocks, and how many of them have one more.
size == N \div NumThreads
more == N % NumThreads

LEMMA SizeFacts ==
  /\ size \in Nat \ {0} /\ more \in Nat /\ more < NumThreads
  /\ N = NumThreads * size + more
<1>1. /\ size \in Nat
      /\ N = size * NumThreads + more
      /\ more \in Nat /\ more < NumThreads
      /\ N < size * NumThreads + NumThreads
  BY Division, TeamFacts DEF size, more
<1>2. N >= NumThreads /\ NumThreads \in Nat \ {0} /\ N \in Nat
  BY TeamAssumption
<1>3. size # 0
  <2> SUFFICES ASSUME size = 0 PROVE FALSE
    OBVIOUS
  <2>1. size * NumThreads = 0
    BY <1>2
  <2> QED
    BY <1>1, <1>2, <2>1
<1>4. size * NumThreads = NumThreads * size
  BY <1>1, <1>2
<1> QED
  BY <1>1, <1>2, <1>3, <1>4

LEMMA BlockIs ==
  ASSUME NEW t \in Threads
  PROVE  /\ t * size \in Nat
         /\ t < more => Block(t) = t * size + t..t * size + t + size
         /\ t >= more => Block(t) = t * size + more..t * size + more + size - 1
<1>1. t \in Nat /\ size \in Nat /\ more \in Nat
  BY SizeFacts, TeamFacts DEF Threads
<1>2. Min({t, more}) = IF t <= more THEN t ELSE more
  BY <1>1, LesserOfTwo
<1>3. Block(t) = t * size + Min({t, more})..
                 t * size + Min({t, more}) + size - 1 + (IF t < more THEN 1 ELSE 0)
  BY DEF Block, size, more
<1>4. t * size \in Nat
  BY <1>1
<1> QED
  BY <1>1, <1>2, <1>3, <1>4

LEMMA BlocksWithin ==
  ASSUME NEW t \in Threads
  PROVE  Block(t) \subseteq Iterations
<1>1. t \in Nat /\ t < NumThreads /\ NumThreads \in Nat
  BY TeamFacts DEF Threads
<1> DEFINE ts == t * size
           ns == NumThreads * size
<1>2. ts + size <= ns /\ ts \in Nat /\ ns \in Nat /\ N = ns + more
  BY <1>1, SizeFacts, Scaled
<1>3. /\ t < more => Block(t) = ts + t..ts + t + size
      /\ t >= more => Block(t) = ts + more..ts + more + size - 1
  BY BlockIs
<1> HIDE DEF ts, ns
<1>4. size \in Nat /\ more \in Nat
  BY SizeFacts
<1>5. CASE t < more
  BY <1>1, <1>2, <1>3, <1>4, <1>5 DEF Iterations
<1>6. CASE t >= more
  BY <1>1, <1>2, <1>3, <1>4, <1>6 DEF Iterations
<1> QED
  BY <1>1, <1>4, <1>5, <1>6

LEMMA BlocksCover ==
  ASSUME NEW i \in Iterations
  PROVE  \E t \in Threads : i \in Block(t)
<1>0. i \in Nat /\ i < N /\ NumThreads \in Nat
  BY TeamFacts DEF Iterations
<1>1. CASE i < more * (size + 1)
  <2> DEFINE t == i \div (size + 1)
  <2>0. size + 1 \in Nat \ {0}
    BY SizeFacts
  <2>1. t \in Nat /\ t * (size + 1) <= i /\ i < t * (size + 1) + (size + 1)
    BY <1>0, <2>0, Division
  <2> HIDE DEF t
  <2>2. t * (size + 1) = t * size + t
    BY <2>1, SizeFacts
  <2>3. t < more
    BY <1>0, <1>1, <2>1, SizeFacts
  <2>4. t \in Threads
    BY <2>1, <2>3, SizeFacts, TeamFacts DEF Threads
  <2>5. i \in t * size + t..t * size + t + size
    BY <1>0, <2>1, <2>2, SizeFacts
  <2> QED
    BY <2>3, <2>4, <2>5, BlockIs
<1>2. CASE ~(i < more * (size + 1))
  <2> DEFINE t == (i - more) \div size
  <2>0. more * (size + 1) = more * size + more /\ more * size \in Nat
    BY SizeFacts
  <2>1. i - more \in Nat
    BY <1>0, <1>2, <2>0, SizeFacts
  <2>2. t \in Nat /\ t * size <= i - more /\ i - more < t * size + size
    BY <2>1, SizeFacts, Division
  <2> HIDE DEF t
  <2>3. t * size \in Nat /\ NumThreads * size \in Nat
    BY <1>0, <2>2, SizeFacts
  <2>4. t >= more
    <3> SUFFICES ASSUME t < more PROVE FALSE
      BY <2>2, SizeFacts
    <3>1. t * size + size <= more * size
      BY <2>2, SizeFacts, Scaled
    <3> QED
      BY <1>0, <1>2, <2>0, <2>2, <2>3, <3>1, SizeFacts
  <2>5. t < NumThreads
    <3> SUFFICES ASSUME NumThreads <= t PROVE FALSE
      BY <1>0, <2>2
    <3>1. NumThreads * size <= t * size
      BY <1>0, <2>2, SizeFacts
    <3> QED
      BY <1>0, <2>1, <2>2, <2>3, <3>1, SizeFacts
  <2>6. t \in Threads
    BY <1>0, <2>2, <2>5 DEF Threads
  <2>7. i \in t * size + more..t * size + more + size - 1
    BY <1>0, <2>1, <2>2, <2>3, SizeFacts
  <2> QED
    BY <2>4, <2>6, <2>7, BlockIs
<1> QED
  BY <1>1, <1>2

LEMMA LastBlock ==
  ASSUME NEW t \in Threads
  PROVE  N - 1 \in Block(t) <=> t = NumThreads - 1
<1> DEFINE last == NumThreads - 1
           ls == last * size
<1>1. last \in Threads /\ NumThreads \in Nat \ {0} /\ N \in Nat
  BY TeamFacts DEF Threads
<1>2. ls \in Nat /\ NumThreads * size = ls + size
  BY <1>1, SizeFacts DEF Threads
<1>3. Block(last) = ls + more..ls + more + size - 1
  BY <1>1, SizeFacts, BlockIs
<1> HIDE DEF ls
<1>4. N - 1 \in Block(last)
  BY <1>1, <1>2, <1>3, SizeFacts
<1>5. t # last => N - 1 \notin Block(t)
  BY <1>1, <1>4, BlocksDisjoint
<1> QED
  BY <1>4, <1>5

-----------------------------------------------------------------------------
(* The invariant of the results.                                           *)

(* What the results need of a program, besides being WellFormed: loop      *)
(* bodies are in loops, what reads an array comes behind the barrier of    *)
(* the loop that sets it, and what prints or reports behind that of what   *)
(* it prints; a second array is derived by one loop, or in blocks; a       *)
(* copyprivate comes last unless the copies are assigned to again.         *)
LoopWorks == {"critical", "atomic", "reduction", "plain", "last", "assign", "private",
              "set", "own", "ordered", "successor", "prefix", "triangle"}
Adding == {"critical", "atomic", "reduction"}
Details == {"one", "square", "element"}
Deriving == {"successor", "prefix", "triangle"}
Planning == {"plan", "scan", "offset"}

Fits(c) == /\ c.work \in LoopWorks => c.kind = "for"
           /\ c.kind = "single" => c.waits
           /\ c.work \in {"print", "tasks", "plan"} \/ c.detail = "copyprivate" => c.kind = "single"
           /\ c.work \in Adding => c.detail \in Details
           /\ c.work \in {"plain", "last", "assign"} => c.detail = "one" /\ c.chunk = 0
           /\ c.detail = "ordered" => c.work = "own"

\* A prefix sum in blocks.
Planned(script) ==
  /\ Len(script) = 4
  /\ script[1].work = "plan" /\ script[2].work = "scan" /\ ~script[2].waits
  /\ script[3].kind = "barrier" /\ script[4].work = "offset" /\ script[4].waits

Shaped(script) ==
  \A k \in 1..Len(script) :
    /\ Fits(script[k])
    /\ script[k].work \in {"print", "report"} => k > 1 /\ script[k - 1].waits
    /\ script[k].work = "report" => script[k - 1].work = "set"
    /\ script[k].work = "print" => script[k - 1].work \in Adding \cup {"tasks"}
    /\ script[k].work = "own" => \A l \in 1..Len(script) : script[l].work # "set"
    /\ script[k].detail = "element" =>
         \E l \in 1..Len(script) : l < k /\ script[l].work = "set" /\ script[l].waits
    /\ script[k].work = "successor" =>
         \E l \in 1..Len(script) : /\ l + 1 < k /\ script[l].work = "set"
                                   /\ script[l + 1].kind = "barrier"
    /\ script[k].work \in Deriving =>
         \A l \in 1..Len(script) : script[l].work \in Deriving \cup Planning => l = k
    /\ script[k].work \in Planning => Planned(script)
    /\ script[k].detail = "copyprivate" =>
         k = Len(script) \/ \E l \in 1..Len(script) : script[l].work = "assign"

\* The root of a tree of tasks is fib(n), or the sum over all numbers; if it
\* is over an array, that one has been set behind a barrier.  An unprotected
\* sum starts at 0.
CallFits(script, call, array, start) ==
  \A k \in 1..Len(script) :
    /\ script[k].work = "tasks" =>
         /\ (\E n \in Nat : call = <<n>>) \/ call = <<0, N - 1>>
         /\ array \in BOOLEAN
         /\ array => k > 1 /\ script[k - 1].work = "set" /\ script[k - 1].waits
    /\ script[k].work = "plain" => start = 0

Called(p) == CallFits(p.script, p.call, p.array, p.start)

\* Thread t has done its part of construct k.
Finished(t, k) == k < at[t] \/ (k = at[t] /\ phase[t] = "arrived")

InLoop(t, k) == at[t] = k /\ phase[t] \in AtWork
InStore(t, k) == at[t] = k /\ phase[t] = "store"

\* The iterations of loop k that are left to thread t.
Left(t, k) == IF InLoop(t, k) THEN todo[t]
              ELSE IF Finished(t, k) \/ prog.script[k].chunk # 0 THEN {} ELSE Block(t)

\* The iterations of loop k that have been executed.
Completed(k) == {i \in Iterations : /\ prog.script[k].chunk > 0 => i < next[k]
                                    /\ \A t \in Threads : i \notin Left(t, k)}

Functions == /\ sum = [k \in Constructs |-> sum[k]]
             /\ printed = [k \in Constructs |-> printed[k]]
             /\ a = [i \in Iterations |-> a[i]]
             /\ b = [i \in Iterations |-> b[i]]
             /\ local = [t \in Threads |-> local[t]]
             /\ temp = [t \in Threads |-> temp[t]]

\* Nobody leaves a dynamic loop that still has iterations to hand out, and
\* nobody stops where there is no barrier.
HandedOut == /\ \A k \in Constructs : next[k] <= N
             /\ \A k \in Constructs, t \in Threads :
                  /\ prog.script[k].kind = "for" /\ prog.script[k].chunk > 0 /\ Finished(t, k) =>
                       next[k] = N
                  /\ at[t] = k /\ phase[t] = "arrived" => prog.script[k].waits

Adds(k, works) == prog.script[k].work \in works
CounterWorks == Adding \cup {"plain", "last", "assign"}

\* What the iterations in S add up to.
Weight(detail, S) == SumFunctionOnSet([i \in Iterations |-> Value(detail, i)], S)

\* The private copies of the threads that are in reduction k.
Copies(k) == [t \in Threads |-> IF InLoop(t, k) THEN local[t] ELSE 0]

\* What the threads have handed in of the last values that they assigned.
Brought(k) == [t \in Threads |-> IF Finished(t, k) THEN t ELSE 0]

\* A sum holds the iterations that have been executed, a reduction without
\* those that are still in private copies.
CountedAt(k) ==
  /\ Adds(k, {"critical", "atomic"}) =>
       sum[k] = prog.start + Weight(prog.script[k].detail, Completed(k))
  /\ Adds(k, {"reduction"}) =>
       sum[k] = prog.start + Weight(prog.script[k].detail, Completed(k))
                - SumFunctionOnSet(Copies(k), Threads)
  /\ Adds(k, {"assign"}) => sum[k] = prog.start + SumFunctionOnSet(Brought(k), Threads)
  /\ Adds(k, {"last"}) =>
       sum[k] = prog.start + IF Finished(NumThreads - 1, k)
                             THEN Cardinality(Block(NumThreads - 1)) ELSE 0
  /\ Adds(k, {"plain"}) => /\ sum[k] \in prog.start..prog.start + Cardinality(Completed(k))
                           /\ Completed(k) # {} => sum[k] > prog.start
  /\ ~Adds(k, CounterWorks \cup {"tasks"}) => sum[k] = prog.start

Counted == \A k \in Constructs : CountedAt(k)

\* What a thread holds of a sum.
HeldBy(t) ==
  /\ Adds(at[t], {"critical"}) /\ phase[t] = "store" => temp[t] = sum[at[t]]
  /\ Adds(at[t], {"plain"}) /\ phase[t] = "store" =>
       temp[t] \in prog.start..prog.start + Cardinality(Completed(at[t]))
  /\ Adds(at[t], {"reduction"}) /\ phase[t] \in AtWork => local[t] \in Int
  /\ Adds(at[t], {"last"}) /\ phase[t] \in AtWork =>
       local[t] = prog.start + Cardinality(Block(t) \ todo[t])
  /\ Adds(at[t], {"assign"}) /\ phase[t] \in AtWork => todo[t] = Block(t) \/ local[t] = t

Held == \A t \in Threads : at[t] \in Constructs => HeldBy(t)

\* What a sequential run gives for the tree of tasks, and for a sum.
TaskResult == IF IsFib THEN Fibonacci[prog.call[1]] ELSE Total("element")
Final(k) == IF Adds(k, {"tasks"}) THEN TaskResult ELSE prog.start + Total(prog.script[k].detail)

\* A single is executed by the thread that has claimed it, before anybody
\* passes; what it prints is final.
ExecutedOnce(k) ==
  /\ \A t \in Threads : Finished(t, k) => claimed[k] # Nobody
  /\ \A t \in Threads : claimed[k] = t => Finished(t, k) \/ InLoop(t, k)
  /\ \A t \in Threads : InStore(t, k) => prog.script[k].work = "tasks"
  /\ LET executed == \E t \in Threads : claimed[k] = t /\ Finished(t, k)
     IN  /\ prog.script[k].work = "print" =>
              printed[k] = IF executed THEN <<Final(k - 1)>> ELSE <<>>
         /\ prog.script[k].work = "tasks" => sum[k] = IF executed THEN TaskResult ELSE prog.start

SinglesExecuted == \A k \in Constructs : prog.script[k].kind = "single" => ExecutedOnce(k)

\* What a loop stores in b[i].
Derived(work, i) == IF work = "successor" THEN i + 1 ELSE PrefixSum[i]

\* The arrays hold what the loops have stored.
ArraysHold ==
  /\ \A k \in Constructs : \A i \in Completed(k) :
       /\ prog.script[k].work = "set" => a[i] = i
       /\ prog.script[k].work \in Deriving => b[i] = Derived(prog.script[k].work, i)
  /\ Has("own") => \A i \in Iterations : a[i] \in Threads

Orders(k) == "ordered" \in {prog.script[k].work, prog.script[k].detail}

\* An ordered loop has printed the first iterations, those executed among them.
PrintedInOrder ==
  \A k \in Constructs : Orders(k) =>
    \E n \in 0..N : /\ printed[k] = [i \in 1..n |-> i - 1]
                    /\ \A i \in Completed(k) : i < n

\* Who has passed the single has the copy of the thread that executed it.
CopiesHeld ==
  \A k \in Constructs : prog.script[k].detail = "copyprivate" /\ ~Has("assign") =>
    \A t \in Threads : k < at[t] => local[t] = local[claimed[k]]

Beyond(k) == {t \in Threads : k < at[t]}

\* Everybody who reports says that all sections have ended.
ReportsTrue ==
  \A k \in Constructs : prog.script[k].work = "report" =>
    printed[k] = [r \in 1..Cardinality(Beyond(k)) |-> TRUE]

\* What prints nothing.
Silent == \A k \in Constructs :
            prog.script[k].work \notin {"print", "report"} /\ ~Orders(k) => printed[k] = <<>>

\* The blocks of the prefix sums, once their size is planned.
Begin(t) == t * size
End(t) == IF t = NumThreads - 1 THEN N - 1 ELSE (t + 1) * size - 1

\* The sum of all that comes before the block of thread t.
Before(t) == IF t = 0 THEN 0 ELSE PrefixSum[Begin(t) - 1]

\* What thread t has passed in its scan, and what is missing there until it
\* has added its offset.
Scanned(t) == IF at[t] > 2 THEN Begin(t)..End(t)
              ELSE IF InLoop(t, 2) THEN (Begin(t)..End(t)) \ todo[t] ELSE {}
Missing(t, i) == IF Finished(t, 4) \/ (InLoop(t, 4) /\ i \notin todo[t]) THEN 0 ELSE Before(t)

\* Thread t's part of the prefix sums.
SummedBy(t) ==
  /\ \A i \in Scanned(t) : b[i] = PrefixSum[i] - Missing(t, i)
  /\ at[t] > 2 => block_sum[t] = PrefixSum[End(t)] - Before(t)
  /\ InLoop(t, 4) => local[t] = Before(t)

\* The prefix sums are computed in blocks.
BlocksSummed ==
  Planned(prog.script) =>
    /\ \A t \in Threads : claimed[1] = t /\ Finished(t, 1) => block_size = size
    /\ \A t \in Threads : SummedBy(t)
    /\ block_sum = [t \in Threads |-> block_sum[t]]

\* What a call returns.
ValueOf(call) ==
  IF IsFib THEN Fibonacci[call[1]]
  ELSE SumFunctionOnSet([i \in call[1]..call[2] |-> i], call[1]..call[2])

\* The arguments that a call can have.
ProperCall(call) == IF IsFib THEN \E n \in Nat : call = <<n>>
                    ELSE \E i, j \in Iterations : call = <<i, j>> /\ i <= j

\* A finished task has stored the value of its call; one that waits has made
\* two calls.
CallHolds(p) ==
  /\ ProperCall(Argument(p))
  /\ stage[p] \in {"second", "taskwait"} =>
       ~IsLeaf(Argument(p)) /\ Append(p, 1) \in DOMAIN stage
  /\ stage[p] = "taskwait" => Append(p, 2) \in DOMAIN stage
  /\ stage[p] = "done" => p \in DOMAIN cell /\ cell[p] = ValueOf(Argument(p))

CallsHold == \A p \in DOMAIN stage : CallHolds(p)

\* The array that the tasks sum up is complete.
Summable == DOMAIN stage # {} => Has("tasks") /\ (prog.array => \A i \in Iterations : a[i] = i)

\* Whoever has started the tree has not come past the root before it is done.
OnStack(p, t) == \E i \in 1..Len(stack[t]) : stack[t][i] = p
RootAwaited == \A t \in Threads : Runs(t, {"single"}, "store") =>
                 Root \in DOMAIN stage /\ (stage[Root] = "done" \/ OnStack(Root, t))

TasksHold == CallsHold /\ Summable /\ RootAwaited

DataInv == /\ Functions /\ HandedOut /\ Counted /\ Held /\ SinglesExecuted /\ ArraysHold
           /\ PrintedInOrder /\ CopiesHeld /\ ReportsTrue /\ Silent /\ BlocksSummed

-----------------------------------------------------------------------------
(* Which iterations a step executes.                                       *)

Ready == /\ WellFormed(prog.script) /\ Shaped(prog.script) /\ Called(prog)
         /\ prog.start \in Nat /\ LoopInv

LEMMA ReadyFacts ==
  ASSUME Ready
  PROVE  /\ at \in [Threads -> Nat \ {0}]
         /\ phase \in [Threads -> {"enter", "arrived", "work", "store"}]
         /\ todo \in [Threads -> SUBSET Indices]
         /\ next \in [Constructs -> Nat]
         /\ claimed \in [Constructs -> Threads \cup {Nobody}]
         /\ Len(prog.script) \in Nat
         /\ \A k \in Constructs : /\ Fits(prog.script[k]) /\ ConstructOK(prog.script[k])
                                  /\ k \in Nat
BY DEF Ready, LoopInv, ControlTypes, AtWork, Constructs, WellFormed, Shaped

LEMMA SameLeft ==
  ASSUME NEW k, prog' = prog, next'[k] = next[k],
         \A u \in Threads : Left(u, k)' = Left(u, k)
  PROVE  Completed(k)' = Completed(k)
BY DEF Completed, Iterations

LEMMA LeftOfOthers ==
  ASSUME NEW t \in Threads, OthersStay(t), prog' = prog, NEW u \in Threads \ {t}, NEW k
  PROVE  Left(u, k)' = Left(u, k) /\ (Finished(u, k)' <=> Finished(u, k))
BY DEF OthersStay, Left, InLoop, Finished, Block

(* Where a thread is in a construct says what is left to it.               *)
LEMMA LeftIs ==
  ASSUME Ready, NEW t \in Threads, NEW k \in Constructs
  PROVE  /\ k < at[t] => Left(t, k) = {} /\ Finished(t, k) /\ ~InLoop(t, k)
         /\ k > at[t] => /\ Left(t, k) = IF prog.script[k].chunk = 0 THEN Block(t) ELSE {}
                         /\ ~Finished(t, k) /\ ~InLoop(t, k)
         /\ k = at[t] =>
              /\ phase[t] = "arrived" => Left(t, k) = {} /\ Finished(t, k) /\ ~InLoop(t, k)
              /\ phase[t] = "enter" =>
                   /\ Left(t, k) = IF prog.script[k].chunk = 0 THEN Block(t) ELSE {}
                   /\ ~Finished(t, k) /\ ~InLoop(t, k)
              /\ phase[t] \in AtWork => Left(t, k) = todo[t] /\ ~Finished(t, k) /\ InLoop(t, k)
<1>1. at[t] \in Nat /\ k \in Nat /\ phase[t] \in {"enter", "arrived", "work", "store"}
  BY ReadyFacts
<1> QED
  BY <1>1 DEF Left, InLoop, Finished, AtWork

\* What thread t does is about the construct that it is in.
Moves(t) == /\ at[t] \in Constructs
            /\ OthersStay(t)
            /\ prog' = prog
            /\ at'[t] = at[t] \/ (at'[t] = at[t] + 1 /\ phase'[t] = "enter")
            /\ \A k \in Constructs \ {at[t]} : /\ next'[k] = next[k]
                                               /\ claimed'[k] = claimed[k]

LEMMA EachMoves ==
  ASSUME Ready, NEW t \in Threads, Act(t) \/ StartRoot(t) \/ Conclude(t)
  PROVE  Moves(t)
<1>0. /\ at \in [Threads -> Nat \ {0}]
      /\ phase \in [Threads -> {"enter", "arrived", "work", "store"}]
      /\ todo \in [Threads -> SUBSET Indices]
      /\ next \in [Constructs -> Nat]
      /\ claimed \in [Constructs -> Threads \cup {Nobody}]
  BY ReadyFacts
<1> USE <1>0 DEF Moves, OthersStay, Runs
<1>1. CASE EnterLoop(t) \/ EnterSlice(t)
  BY <1>1 DEF EnterLoop, EnterFor, EnterSlice, Becomes
<1>2. CASE GrabChunk(t)
  BY <1>2 DEF GrabChunk, Grab
<1>3. CASE Derive(t) \/ Update(t) \/ UpdateCopy(t) \/ Accumulate(t)
  BY <1>3 DEF Derive, Update, UpdateCopy, Accumulate, Working, Finish
<1>4. CASE Set(t) \/ Load(t)
  BY <1>4 DEF Set, Load, Working, Finish, Becomes
<1>5. CASE Ordered(t) \/ Store(t)
  BY <1>5 DEF Ordered, Store, Working, Finish, Becomes
<1>6. CASE LeaveLoop(t) \/ LeaveSlice(t)
  BY <1>6 DEF LeaveLoop, Exhausted, LeaveSlice, Done, Becomes, GoOn
<1>7. CASE Claim(t) \/ Skip(t) \/ ExecuteSingle(t)
  BY <1>7 DEF Claim, Skip, ExecuteSingle, Becomes
<1>8. CASE Report(t) \/ LeaveBarrier(t)
  BY <1>8 DEF Report, LeaveBarrier, Pass, GoOn
<1>9. CASE StartRoot(t) \/ Conclude(t)
  BY <1>9 DEF StartRoot, Conclude, Becomes
<1> QED
  BY <1>1, <1>2, <1>3, <1>4, <1>5, <1>6, <1>7, <1>8, <1>9 DEF Act

(* It changes nothing about the other constructs.                          *)
LEMMA Elsewhere ==
  ASSUME Ready, NEW t \in Threads, Moves(t), NEW k \in Constructs, k # at[t]
  PROVE  /\ Completed(k)' = Completed(k)
         /\ \A u \in Threads : (Finished(u, k)' <=> Finished(u, k))
         /\ \A u \in Threads : (InLoop(u, k)' <=> InLoop(u, k))
         /\ next'[k] = next[k] /\ claimed'[k] = claimed[k]
<1>1. /\ at[t] \in Nat /\ k \in Nat
      /\ phase[t] \in {"enter", "arrived", "work", "store"}
  BY ReadyFacts
<1>2. /\ Left(t, k)' = Left(t, k) /\ (Finished(t, k)' <=> Finished(t, k))
      /\ (InLoop(t, k)' <=> InLoop(t, k))
  BY <1>1 DEF Moves, Left, Finished, InLoop, Block, AtWork
<1>3. \A u \in Threads \ {t} : /\ Left(u, k)' = Left(u, k)
                               /\ (Finished(u, k)' <=> Finished(u, k))
                               /\ (InLoop(u, k)' <=> InLoop(u, k))
  BY LeftOfOthers DEF Moves, OthersStay, InLoop
<1>4. next'[k] = next[k] /\ claimed'[k] = claimed[k] /\ prog' = prog
  BY DEF Moves
<1>5. Completed(k)' = Completed(k)
  BY <1>2, <1>3, <1>4, SameLeft
<1> QED
  BY <1>2, <1>3, <1>4, <1>5

LEMMA CompletedWithin == \A k : Completed(k) \subseteq Iterations
BY DEF Completed

(* Steps within a loop that execute no iteration.                          *)
LEMMA NotExecuted ==
  ASSUME Ready, HandedOut, NEW t \in Threads, NEW k \in Constructs, k = at[t],
         Construct(t).kind = "for",
         \/ EnterLoop(t)
         \/ Set(t) /\ Construct(t).detail = "ordered"
         \/ Load(t)
         \/ GrabChunk(t)
  PROVE  /\ Completed(k)' = Completed(k)
         /\ \A u \in Threads : (Finished(u, k)' <=> Finished(u, k))
         /\ at' = at
<1>0. /\ at \in [Threads -> Nat \ {0}]
      /\ phase \in [Threads -> {"enter", "arrived", "work", "store"}]
      /\ todo \in [Threads -> SUBSET Indices]
      /\ next \in [Constructs -> Nat]
      /\ at[t] \in Constructs
      /\ Moves(t) /\ OthersStay(t) /\ prog' = prog
  BY ReadyFacts, EachMoves DEF Moves, Act
<1>1. at' = at
  BY DEF EnterLoop, EnterFor, Set, Load, GrabChunk, Grab, Becomes
<1>2. \A u \in Threads \ {t} : /\ Left(u, k)' = Left(u, k)
                               /\ (Finished(u, k)' <=> Finished(u, k))
  BY <1>0, <1>1, LeftOfOthers
<1>3. CASE EnterLoop(t) \/ (Set(t) /\ Construct(t).detail = "ordered") \/ Load(t)
  <2>1. next'[k] = next[k]
    BY <1>3 DEF EnterLoop, EnterFor, Set, Load
  <2>2. /\ Left(t, k)' = Left(t, k)
        /\ (Finished(t, k)' <=> Finished(t, k))
    <3>1. CASE EnterLoop(t)
      BY <1>0, <1>1, <3>1 DEF EnterLoop, EnterFor, Becomes, Runs, Left, InLoop, Finished,
         AtWork, Construct, Block
    <3>2. CASE (Set(t) /\ Construct(t).detail = "ordered") \/ Load(t)
      BY <1>0, <1>1, <3>2 DEF Set, Load, Working, Becomes, Runs, Left, InLoop, Finished, AtWork
    <3> QED
      BY <1>3, <3>1, <3>2
  <2> QED
    BY <1>0, <1>1, <1>2, <2>1, <2>2, SameLeft
<1>4. CASE GrabChunk(t)
  <2> DEFINE begin == next[k]
             end == Min({N, begin + Construct(t).chunk})
  <2>1. /\ InLoop(t, k) /\ todo[t] = {} /\ Construct(t).chunk > 0
        /\ todo' = [todo EXCEPT ![t] = begin..end - 1]
        /\ next' = [next EXCEPT ![k] = end]
        /\ begin < N
        /\ UNCHANGED <<at, phase>>
    BY <1>0, <1>4 DEF GrabChunk, Grab, Runs, InLoop, AtWork
  <2>2. Construct(t).chunk \in Nat /\ begin \in Nat /\ N \in Nat
    BY <1>0, ReadyFacts, TeamFacts DEF ConstructOK, Construct
  <2>3. end = IF N <= begin + Construct(t).chunk THEN N ELSE begin + Construct(t).chunk
    BY <2>2, LesserOfTwo
  <2>4. end \in Nat /\ begin < end
    BY <2>1, <2>2, <2>3
  <2> HIDE DEF end
  <2>5. next'[k] = end /\ Left(t, k) = {} /\ Left(t, k)' = begin..end - 1
    <3>1. next'[k] = end /\ todo'[t] = begin..end - 1
      BY <1>0, <2>1
    <3>2. InLoop(t, k)' <=> InLoop(t, k)
      BY <2>1 DEF InLoop
    <3>3. Left(t, k)' = todo'[t]
      BY <2>1, <3>2 DEF Left
    <3>4. Left(t, k) = {}
      BY <2>1 DEF Left
    <3> QED
      BY <3>1, <3>3, <3>4
  <2>6. (Finished(t, k)' <=> Finished(t, k))
    BY <2>1 DEF Finished
  <2>7. prog.script[k].chunk > 0
    BY <2>1 DEF Construct
  <2> HIDE DEF begin
  <2>8. Completed(k)' = {i \in Iterations : i < end /\ \A u \in Threads : i \notin Left(u, k)'}
    BY <1>0, <2>5, <2>7 DEF Completed, Iterations
  <2>9. Completed(k) = {i \in Iterations : i < begin /\ \A u \in Threads : i \notin Left(u, k)}
    BY <2>7 DEF Completed, begin
  <2>10. \A u \in Threads \ {t} : Left(u, k)' = Left(u, k)
    BY <1>2
  <2>11. \A i \in Iterations : i \in Int
    BY TeamFacts DEF Iterations
  <2>12. Completed(k)' = Completed(k)
    BY <2>2, <2>4, <2>5, <2>8, <2>9, <2>10, <2>11
  <2> QED
    BY <1>0, <1>1, <1>2, <2>6, <2>12
<1> QED
  BY <1>3, <1>4

(* An iteration that a thread has is its own, and not executed yet.        *)
LEMMA OwnIteration ==
  ASSUME Ready, HandedOut, NEW t \in Threads, NEW k \in Constructs, k = at[t],
         Construct(t).kind = "for", phase[t] \in AtWork, NEW i \in todo[t]
  PROVE  /\ i \in Iterations
         /\ i \in Left(t, k)
         /\ prog.script[k].chunk = 0 => i \in Block(t)
         /\ prog.script[k].chunk > 0 => i < next[k]
         /\ \A u \in Threads \ {t} : i \notin Left(u, k)
<1>1. Left(t, k) = todo[t] /\ InLoop(t, k)
  BY DEF Left, InLoop
<1>2. prog.script[k].chunk \in Nat /\ next[k] \in Nat /\ next[k] <= N /\ N \in Nat
  BY ReadyFacts, TeamFacts DEF ConstructOK, HandedOut
<1>3. todo[t] \subseteq Int
  BY ReadyFacts DEF Indices
<1>4. CASE prog.script[k].chunk = 0
  <2>1. i \in Block(t)
    BY <1>4 DEF Ready, LoopInv, Shares, Construct
  <2>2. ASSUME NEW u \in Threads \ {t}, i \in Left(u, k)
        PROVE  i \in Block(u)
    <3>1. CASE InLoop(u, k)
      BY <1>4, <2>2, <3>1 DEF Left, InLoop, Ready, LoopInv, Shares, Construct
    <3>2. CASE ~InLoop(u, k)
      BY <2>2, <3>2 DEF Left
    <3> QED
      BY <3>1, <3>2
  <2>3. \A u \in Threads \ {t} : i \notin Left(u, k)
    BY <2>1, <2>2, BlocksDisjoint
  <2> QED
    BY <1>1, <1>4, <2>1, <2>3, BlocksWithin
<1>5. CASE prog.script[k].chunk > 0
  <2>1. 0 <= i /\ i < next[k]
    BY <1>5 DEF Ready, LoopInv, Shares, Construct
  <2>2. i \in Iterations
    BY <1>2, <1>3, <2>1 DEF Iterations
  <2>3. ASSUME NEW u \in Threads \ {t}, i \in Left(u, k)
        PROVE  FALSE
    <3>1. InLoop(u, k) /\ i \in todo[u]
      BY <1>5, <2>3 DEF Left
    <3> QED
      BY <1>5, <3>1 DEF InLoop, Ready, LoopInv, ChunksDisjoint, Construct
  <2> QED
    BY <1>1, <1>2, <1>5, <2>1, <2>2, <2>3
<1> QED
  BY <1>2, <1>4, <1>5

\* Thread t ends an iteration of its loop.
Executes(t) == /\ Finish(t)
               /\ phase' = [phase EXCEPT ![t] = "work"]
               /\ UNCHANGED <<prog, at, next, claimed>>

(* The end of an iteration executes that one.                              *)
LEMMA Executed ==
  ASSUME Ready, HandedOut, NEW t \in Threads, NEW k \in Constructs, k = at[t],
         Construct(t).kind = "for", phase[t] \in AtWork, todo[t] # {}, Executes(t)
  PROVE  /\ Current(t) \in Iterations /\ Current(t) \in todo[t]
         /\ Current(t) \notin Completed(k)
         /\ Completed(k)' = Completed(k) \cup {Current(t)}
         /\ \A u \in Threads : (Finished(u, k)' <=> Finished(u, k))
         /\ todo'[t] = todo[t] \ {Current(t)} /\ phase'[t] = "work" /\ OthersStay(t)
<1>0. /\ at \in [Threads -> Nat \ {0}]
      /\ phase \in [Threads -> {"enter", "arrived", "work", "store"}]
      /\ todo \in [Threads -> SUBSET Indices]
  BY ReadyFacts
<1> DEFINE i == Current(t)
<1>1. i \in todo[t]
  BY CurrentFacts DEF Ready
<1>2. /\ i \in Iterations /\ i \in Left(t, k)
      /\ prog.script[k].chunk > 0 => i < next[k]
      /\ \A u \in Threads \ {t} : i \notin Left(u, k)
  BY <1>1, OwnIteration
<1>3. /\ OthersStay(t) /\ at' = at /\ prog' = prog /\ next' = next
      /\ todo'[t] = todo[t] \ {i}
      /\ phase'[t] = "work"
  BY <1>0 DEF Executes, Finish, OthersStay
<1> HIDE DEF i
<1>4. Left(t, k) = todo[t] /\ Left(t, k)' = todo[t] \ {i}
  BY <1>3 DEF Left, InLoop, AtWork
<1>5. \A u \in Threads \ {t} : Left(u, k)' = Left(u, k)
  BY <1>3, LeftOfOthers
<1>6. Completed(k)' = Completed(k) \cup {i}
  BY <1>1, <1>2, <1>3, <1>4, <1>5 DEF Completed, Iterations
<1>7. i \notin Completed(k)
  BY <1>2 DEF Completed
<1>8. \A u \in Threads : (Finished(u, k)' <=> Finished(u, k))
  BY <1>3 DEF Finished, OthersStay, AtWork
<1> QED
  BY <1>1, <1>2, <1>3, <1>6, <1>7, <1>8 DEF i

(* A thread leaves a loop, and then its barrier, with nothing left to it.  *)
LEMMA LeftLoop ==
  ASSUME Ready, NEW t \in Threads, NEW k \in Constructs, k = at[t],
         Construct(t).kind = "for", LeaveLoop(t) \/ LeaveBarrier(t)
  PROVE  /\ Completed(k)' = Completed(k)
         /\ Finished(t, k)'
         /\ LeaveLoop(t) => /\ ~Finished(t, k)
                            /\ todo[t] = {} /\ phase[t] = "work"
                            /\ prog.script[k].chunk > 0 => next[k] = N
         /\ LeaveBarrier(t) => Finished(t, k)
         /\ \A u \in Threads \ {t} : (Finished(u, k)' <=> Finished(u, k))
<1>0. /\ at \in [Threads -> Nat \ {0}]
      /\ phase \in [Threads -> {"enter", "arrived", "work", "store"}]
      /\ Moves(t) /\ OthersStay(t) /\ prog' = prog /\ k \in Nat
  BY ReadyFacts, EachMoves DEF Moves, Act
<1>1. next' = next
  BY DEF LeaveLoop, LeaveBarrier, Pass
<1>2. CASE LeaveLoop(t)
  <2>1. /\ phase[t] = "work" /\ todo[t] = {} /\ InLoop(t, k)
        /\ prog.script[k].chunk > 0 => next[k] = N
    BY <1>2 DEF LeaveLoop, Exhausted, Runs, InLoop, AtWork, Construct
  <2>2. ~Finished(t, k) /\ Left(t, k) = {}
    BY <1>0, <2>1 DEF Finished, Left
  <2>3. \/ at'[t] = at[t] /\ phase'[t] = "arrived"
        \/ at'[t] = at[t] + 1 /\ phase'[t] = "enter"
    BY <1>0, <1>2 DEF LeaveLoop, Done, Becomes, GoOn
  <2>4. Finished(t, k)' /\ ~InLoop(t, k)'
    BY <1>0, <2>3 DEF Finished, InLoop, AtWork
  <2> QED
    BY <1>0, <1>1, <1>2, <2>1, <2>2, <2>4, LeftOfOthers, SameLeft DEF Left, LeaveBarrier, Pass, Runs
<1>3. CASE LeaveBarrier(t)
  <2>1. phase[t] = "arrived" /\ at'[t] = at[t] + 1
    BY <1>0, <1>3 DEF LeaveBarrier, Pass, Runs, GoOn
  <2>2. /\ Finished(t, k) /\ ~InLoop(t, k)
        /\ Finished(t, k)' /\ ~InLoop(t, k)'
    BY <1>0, <2>1 DEF Finished, InLoop, AtWork
  <2> QED
    BY <1>0, <1>1, <1>3, <2>1, <2>2, LeftOfOthers, SameLeft DEF Left, LeaveLoop, Exhausted, Runs
<1> QED
  BY <1>2, <1>3

(* When all have left a loop, all its iterations have been executed.       *)
LEMMA AllCompleted ==
  ASSUME Ready, HandedOut, NEW k \in Constructs, prog.script[k].kind = "for",
         \A t \in Threads : Finished(t, k)
  PROVE  Completed(k) = Iterations
<1>1. \A t \in Threads : Left(t, k) = {}
  BY LeftIs, ReadyFacts DEF Finished, Left, InLoop, AtWork
<1>2. prog.script[k].chunk > 0 => next[k] = N
  BY TeamFacts DEF HandedOut, Threads
<1>3. \A i \in Iterations : i < N
  BY TeamFacts DEF Iterations
<1> QED
  BY <1>1, <1>2, <1>3 DEF Completed

(* Whoever is in a construct that comes behind a barrier finds everybody   *)
(* finished with what is before it.                                        *)
LEMMA AllFinished ==
  ASSUME Ready, NEW t \in Threads, NEW k \in Constructs, at[t] \in Nat,
         \/ k < at[t] /\ prog.script[k].waits
         \/ k + 1 < at[t] /\ k + 1 \in Constructs /\ prog.script[k + 1].kind = "barrier"
  PROVE  \A u \in Threads : Finished(u, k)
<1>1. CASE k < at[t] /\ prog.script[k].waits
  BY <1>1 DEF Ready, LoopInv, BarriersHold, Finished
<1>2. CASE k + 1 < at[t] /\ k + 1 \in Constructs /\ prog.script[k + 1].kind = "barrier"
  <2>1. prog.script[k + 1].waits /\ k \in Nat /\ \A u \in Threads : at[u] \in Nat
    BY <1>2, ReadyFacts DEF ConstructOK
  <2>2. \A u \in Threads : k + 1 < at[u] \/ k + 1 = at[u]
    BY <1>2, <2>1 DEF Ready, LoopInv, BarriersHold
  <2> QED
    BY <2>1, <2>2 DEF Finished
<1> QED
  BY <1>1, <1>2

-----------------------------------------------------------------------------
(* What a step leaves alone.                                               *)

LEMMA Override ==
  ASSUME NEW D, NEW f, f = [y \in D |-> f[y]], NEW x \in D, NEW v,
         NEW g, g = [f EXCEPT ![x] = v]
  PROVE  /\ g = [y \in D |-> g[y]]
         /\ g[x] = v
         /\ \A y \in D \ {x} : g[y] = f[y]
OBVIOUS

LEMMA DataMoves ==
  ASSUME Ready, HandedOut, Functions, NEW t \in Threads, Act(t) \/ StartRoot(t) \/ Conclude(t)
  PROVE  /\ Functions'
         /\ \A k \in Constructs \ {at[t]} : sum'[k] = sum[k] /\ printed'[k] = printed[k]
         /\ \A u \in Threads \ {t} : local'[u] = local[u] /\ temp'[u] = temp[u]
<1>1. at[t] \in Constructs /\ prog' = prog /\ Constructs' = Constructs
  BY EachMoves DEF Moves, Constructs
<1>2. \/ sum' = sum
      \/ \E v : sum' = [sum EXCEPT ![at[t]] = v]
  BY DEF Act, EnterLoop, GrabChunk, Set, Ordered, Derive, Update, Load, Store, UpdateCopy,
         LeaveLoop, ExecuteSingle, EnterSlice, Accumulate, LeaveSlice, Report, LeaveBarrier,
         StartRoot, Conclude, dataVars
<1>3. \/ printed' = printed
      \/ \E v : printed' = [printed EXCEPT ![at[t]] = v]
  BY DEF Act, EnterLoop, GrabChunk, Set, Ordered, Derive, Update, Load, Store, UpdateCopy,
         LeaveLoop, ExecuteSingle, EnterSlice, Accumulate, LeaveSlice, Report, LeaveBarrier,
         StartRoot, Conclude, dataVars, PrintOut
<1>4. \/ local' = local
      \/ \E v : local' = [local EXCEPT ![t] = v]
  BY DEF Act, EnterLoop, GrabChunk, Set, Ordered, Derive, Update, Load, Store, UpdateCopy,
         LeaveLoop, ExecuteSingle, EnterSlice, Accumulate, LeaveSlice, Report, LeaveBarrier,
         StartRoot, Conclude, dataVars, Private
<1>5. \/ temp' = temp
      \/ \E v : temp' = [temp EXCEPT ![t] = v]
  BY DEF Act, EnterLoop, GrabChunk, Set, Ordered, Derive, Update, Load, Store, UpdateCopy,
         LeaveLoop, ExecuteSingle, EnterSlice, Accumulate, LeaveSlice, Report, LeaveBarrier,
         StartRoot, Conclude, dataVars
<1>6. \/ a' = a
      \/ \E x : a' = [a EXCEPT ![Current(t)] = x]
  BY DEF Act, EnterLoop, GrabChunk, Set, Ordered, Derive, Update, Load, Store, UpdateCopy,
         LeaveLoop, ExecuteSingle, EnterSlice, Accumulate, LeaveSlice, Report, LeaveBarrier,
         StartRoot, Conclude, dataVars
<1>7. \/ b' = b
      \/ \E x : b' = [b EXCEPT ![Current(t)] = x]
  BY DEF Act, EnterLoop, GrabChunk, Set, Ordered, Derive, Update, Load, Store, UpdateCopy,
         LeaveLoop, ExecuteSingle, EnterSlice, Accumulate, LeaveSlice, Report, LeaveBarrier,
         StartRoot, Conclude, dataVars
<1>8. Functions'
  <2>1. sum' = [k \in Constructs |-> sum'[k]] /\ printed' = [k \in Constructs |-> printed'[k]]
    BY <1>1, <1>2, <1>3 DEF Functions
  <2>2. /\ local' = [u \in Threads |-> local'[u]] /\ temp' = [u \in Threads |-> temp'[u]]
    BY <1>4, <1>5 DEF Functions
  <2>3. a' = [i \in Iterations |-> a'[i]] /\ b' = [i \in Iterations |-> b'[i]]
    BY <1>6, <1>7 DEF Functions
  <2> QED
    BY <1>1, <2>1, <2>2, <2>3 DEF Functions, Iterations, Threads
<1>9. \A k \in Constructs \ {at[t]} : sum'[k] = sum[k] /\ printed'[k] = printed[k]
  BY <1>1, <1>2, <1>3 DEF Functions
<1>10. \A u \in Threads \ {t} : local'[u] = local[u] /\ temp'[u] = temp[u]
  BY <1>4, <1>5 DEF Functions
<1> QED
  BY <1>8, <1>9, <1>10

LEMMA HandedOutStep ==
  ASSUME Ready, HandedOut, NEW t \in Threads, Act(t) \/ StartRoot(t) \/ Conclude(t)
  PROVE  HandedOut'
<1>0. /\ at \in [Threads -> Nat \ {0}]
      /\ phase \in [Threads -> {"enter", "arrived", "work", "store"}]
      /\ next \in [Constructs -> Nat]
      /\ at[t] \in Constructs
      /\ Moves(t) /\ OthersStay(t) /\ prog' = prog /\ Constructs' = Constructs
  BY ReadyFacts, EachMoves DEF Moves, Constructs
<1>1. ASSUME phase'[t] = "arrived", phase[t] # "arrived"
      PROVE  Construct(t).waits
  <2>1. Construct(t).kind \in {"single", "barrier"} => Construct(t).waits
    BY <1>0, ReadyFacts DEF Fits, ConstructOK, Construct
  <2>2. CASE LeaveLoop(t) \/ LeaveSlice(t)
    BY <1>0, <1>1, <2>2 DEF LeaveLoop, LeaveSlice, Done, GoOn
  <2>3. CASE Skip(t) \/ ExecuteSingle(t) \/ Conclude(t)
    BY <2>1, <2>3 DEF Skip, ExecuteSingle, Conclude, Runs
  <2>4. CASE EnterLoop(t) \/ EnterSlice(t) \/ Claim(t) \/ StartRoot(t)
    BY <1>0, <1>1, <2>4 DEF EnterLoop, EnterFor, EnterSlice, Claim, StartRoot, Becomes
  <2>5. CASE GrabChunk(t) \/ Derive(t) \/ Update(t) \/ UpdateCopy(t) \/ Accumulate(t)
    BY <1>1, <2>5 DEF GrabChunk, Grab, Derive, Update, UpdateCopy, Accumulate
  <2>6. CASE Set(t) \/ Load(t) \/ Ordered(t) \/ Store(t)
    BY <1>0, <1>1, <2>6 DEF Set, Load, Ordered, Store, Becomes
  <2>7. CASE Report(t) \/ LeaveBarrier(t)
    BY <1>0, <1>1, <2>7 DEF Report, LeaveBarrier, Pass, GoOn
  <2> QED
    BY <2>2, <2>3, <2>4, <2>5, <2>6, <2>7 DEF Act
<1>2. ASSUME NEW k \in Constructs, NEW u \in Threads, at'[u] = k, phase'[u] = "arrived"
      PROVE  prog.script[k].waits
  <2>1. CASE u # t
    BY <1>0, <1>2, <2>1 DEF OthersStay, HandedOut
  <2>2. CASE u = t
    <3>1. at'[t] = at[t]
      BY <1>0, <1>2, <2>2 DEF Moves
    <3> QED
      BY <1>1, <1>2, <2>2, <3>1 DEF HandedOut, Construct
  <2> QED
    BY <2>1, <2>2
<1>3. ASSUME NEW k \in Constructs
      PROVE  /\ next'[k] <= N
             /\ prog.script[k].kind = "for" /\ prog.script[k].chunk > 0 =>
                  \A u \in Threads : Finished(u, k)' => next'[k] = N
  <2>1. CASE k # at[t]
    BY <1>0, <2>1, Elsewhere DEF HandedOut
  <2>2. CASE k = at[t] /\ prog.script[k].kind # "for"
    <3>1. ~GrabChunk(t)
      BY <2>2 DEF GrabChunk, Grab, Runs, Construct
    <3>2. next' = next
      BY <3>1 DEF Act, EnterLoop, EnterFor, Set, Ordered, Derive, Update, Load, Store,
         UpdateCopy, LeaveLoop, Claim, Skip, ExecuteSingle, EnterSlice, Accumulate, LeaveSlice,
         Report, LeaveBarrier, Pass, StartRoot, Conclude
    <3> QED
      BY <2>2, <3>2 DEF HandedOut
  <2>3. CASE k = at[t] /\ prog.script[k].kind = "for"
    <3>0. Construct(t).kind = "for"
      BY <2>3 DEF Construct
    <3>1. CASE GrabChunk(t)
      <4> DEFINE begin == next[k]
                 end == Min({N, begin + Construct(t).chunk})
      <4>1. /\ next' = [next EXCEPT ![k] = end] /\ phase[t] = "work" /\ begin < N
            /\ Construct(t).chunk > 0
        BY <2>3, <3>1 DEF GrabChunk, Grab, Runs
      <4>2. Construct(t).chunk \in Nat /\ begin \in Nat /\ N \in Nat
        BY <1>0, ReadyFacts, TeamFacts DEF ConstructOK, Construct
      <4>3. end = IF N <= begin + Construct(t).chunk THEN N ELSE begin + Construct(t).chunk
        BY <4>2, LesserOfTwo
      <4> HIDE DEF end
      <4>4. next'[k] = end /\ end <= N
        BY <1>0, <4>1, <4>2, <4>3
      <4>5. \A u \in Threads : ~Finished(u, k)
        BY <2>3, <4>1, <4>2 DEF HandedOut, Construct
      <4>6. \A u \in Threads : ~Finished(u, k)'
        BY <2>3, <3>0, <3>1, <4>5, NotExecuted
      <4> QED
        BY <4>4, <4>6
    <3>2. CASE LeaveLoop(t) \/ LeaveBarrier(t)
      <4>1. next' = next
        BY <3>2 DEF LeaveLoop, LeaveBarrier, Pass
      <4> QED
        BY <1>0, <2>3, <3>0, <3>2, <4>1, LeftLoop DEF HandedOut
    <3>3. CASE ~GrabChunk(t) /\ ~LeaveLoop(t) /\ ~LeaveBarrier(t)
      <4>1. next' = next
        BY <2>3, <3>3 DEF Act, EnterLoop, EnterFor, Set, Ordered, Derive, Update, Load, Store,
           UpdateCopy, Claim, Skip, ExecuteSingle, EnterSlice, Accumulate, LeaveSlice,
           Report, StartRoot, Conclude
      <4>2. phase'[t] # "arrived" /\ at'[t] = at[t]
        <5>1. CASE EnterLoop(t)
          BY <1>0, <5>1 DEF EnterLoop, EnterFor, Becomes
        <5>2. CASE Derive(t) \/ Update(t) \/ UpdateCopy(t) \/ Accumulate(t)
          BY <1>0, <5>2 DEF Derive, Update, UpdateCopy, Accumulate, Working, Runs
        <5>3. CASE Set(t) \/ Load(t) \/ Ordered(t) \/ Store(t)
          BY <1>0, <5>3 DEF Set, Load, Ordered, Store, Working, Runs, Becomes
        <5> QED
          BY <3>0, <3>3, <5>1, <5>2, <5>3 DEF Act, Claim, Skip, ExecuteSingle, EnterSlice,
             LeaveSlice, Report, StartRoot, Conclude, Runs
      <4>3. ~Finished(t, k)'
        BY <1>0, <2>3, <4>2 DEF Finished
      <4>4. \A u \in Threads \ {t} : (Finished(u, k)' <=> Finished(u, k))
        BY <1>0, LeftOfOthers
      <4> QED
        BY <4>1, <4>3, <4>4, <2>3 DEF HandedOut
    <3> QED
      BY <3>1, <3>2, <3>3
  <2> QED
    BY <2>1, <2>2, <2>3
<1> QED
  BY <1>0, <1>2, <1>3 DEF HandedOut

-----------------------------------------------------------------------------
(* The sums.                                                               *)

LEMMA SizeOfIterations ==
  /\ IsFiniteSet(Iterations) /\ Cardinality(Iterations) = N
  /\ \A S \in SUBSET Iterations : IsFiniteSet(S) /\ Cardinality(S) \in 0..N
<1>1. 0 \in Int /\ N - 1 \in Int /\ N \in Nat \ {0}
  BY TeamFacts
<1>2. IsFiniteSet(Iterations) /\ Cardinality(Iterations) = N
  BY <1>1, FS_Interval DEF Iterations
<1>3. ASSUME NEW S \in SUBSET Iterations
      PROVE  IsFiniteSet(S) /\ Cardinality(S) \in 0..N
  <2>1. IsFiniteSet(S) /\ Cardinality(S) <= N
    BY <1>2, FS_Subset
  <2> QED
    BY <1>1, <2>1, FS_CardinalityType
<1> QED
  BY <1>2, <1>3

LEMMA OneMore ==
  ASSUME NEW S \in SUBSET Iterations, NEW i \in Iterations, i \notin S
  PROVE  Cardinality(S \cup {i}) = Cardinality(S) + 1
BY SizeOfIterations, FS_AddElement

LEMMA ManyMore ==
  ASSUME NEW S \in SUBSET Iterations, NEW T \in SUBSET Iterations, S \cap T = {}
  PROVE  Cardinality(S \cup T) = Cardinality(S) + Cardinality(T)
<1>1. IsFiniteSet(S) /\ IsFiniteSet(T) /\ Cardinality(S) \in Int /\ Cardinality(T) \in Int
  BY SizeOfIterations
<1>2. Cardinality(S \cap T) = 0
  BY FS_EmptySet
<1>3. Cardinality(S \cup T) = Cardinality(S) + Cardinality(T) - Cardinality(S \cap T)
  BY <1>1, FS_Union
<1> QED
  BY <1>1, <1>2, <1>3

(* What the iterations add up to.                                          *)
LEMMA WeightFacts ==
  ASSUME NEW d \in Details
  PROVE  /\ \A i \in Iterations : Value(d, i) \in Int
         /\ Weight(d, {}) = 0 /\ Weight(d, Iterations) = Total(d)
         /\ \A S \in SUBSET Iterations : Weight(d, S) \in Int
         /\ \A S \in SUBSET Iterations : \A i \in Iterations \ S :
              Weight(d, S \cup {i}) = Weight(d, S) + Value(d, i)
<1> DEFINE f == [i \in Iterations |-> Value(d, i)]
<1>0. \A i \in Iterations : i \in Int
  BY TeamFacts DEF Iterations
<1>1. \A i \in Iterations : Value(d, i) \in Int
  BY <1>0 DEF Value, Details
<1>2. \A i \in Iterations : f[i] = Value(d, i) /\ f[i] \in Int
  BY <1>1
<1>3. \A S : Weight(d, S) = SumFunctionOnSet(f, S)
  BY DEF Weight
<1>4. Weight(d, Iterations) = Total(d)
  BY DEF Weight, Total
<1> HIDE DEF f
<1>5. /\ SumFunctionOnSet(f, {}) = 0
      /\ \A S \in SUBSET Iterations : SumFunctionOnSet(f, S) \in Int
      /\ \A S \in SUBSET Iterations : \A i \in Iterations \ S :
           SumFunctionOnSet(f, S \cup {i}) = f[i] + SumFunctionOnSet(f, S)
  BY <1>2, SizeOfIterations, SumFacts
<1>6. \A S \in SUBSET Iterations : \A i \in Iterations \ S :
        Weight(d, S \cup {i}) = Weight(d, S) + Value(d, i)
  <2> SUFFICES ASSUME NEW S \in SUBSET Iterations, NEW i \in Iterations \ S
               PROVE  Weight(d, S \cup {i}) = Weight(d, S) + Value(d, i)
    OBVIOUS
  <2>1. SumFunctionOnSet(f, S \cup {i}) = f[i] + SumFunctionOnSet(f, S)
    BY <1>5
  <2>2. SumFunctionOnSet(f, S) \in Int /\ f[i] = Value(d, i) /\ f[i] \in Int
    BY <1>2, <1>5
  <2>3. /\ Weight(d, S \cup {i}) = SumFunctionOnSet(f, S \cup {i})
        /\ Weight(d, S) = SumFunctionOnSet(f, S)
    BY <1>3
  <2> QED
    BY <2>1, <2>2, <2>3
<1> QED
  BY <1>1, <1>3, <1>4, <1>5, <1>6

(* Every iteration of a counter counts one.                                *)
LEMMA TotalOfOnes == Total("one") = N
<1> DEFINE f == [i \in Iterations |-> Value("one", i)]
<1>1. \A i \in Iterations : f[i] = 1
  BY DEF Value
<1>2. Total("one") = SumFunctionOnSet(f, Iterations)
  BY DEF Total
<1> HIDE DEF f
<1> QED
  BY <1>1, <1>2, SizeOfIterations, SumOfOnes

(* A sum over the elements of an array begins when the array is set.       *)
LEMMA TermIs ==
  ASSUME Ready, HandedOut, ArraysHold, NEW t \in Threads, at[t] \in Constructs,
         Construct(t).detail \in Details, NEW i \in Iterations
  PROVE  Term(Construct(t).detail, i) = Value(Construct(t).detail, i)
<1>1. CASE Construct(t).detail = "element"
  <2>0. at[t] \in Nat /\ Len(prog.script) \in Nat
    BY ReadyFacts
  <2>1. PICK l \in 1..Len(prog.script) :
          l < at[t] /\ prog.script[l].work = "set" /\ prog.script[l].waits
    BY <1>1 DEF Ready, Shaped, Constructs, Construct
  <2>2. l \in Constructs /\ prog.script[l].kind = "for"
    BY <2>0, <2>1, ReadyFacts DEF Fits, LoopWorks, Constructs
  <2>3. \A u \in Threads : Finished(u, l)
    BY <2>0, <2>1, <2>2, AllFinished
  <2>4. Completed(l) = Iterations
    BY <2>2, <2>3, AllCompleted
  <2>5. a[i] = i
    BY <2>1, <2>2, <2>4 DEF ArraysHold
  <2> QED
    BY <1>1, <2>5 DEF Term, Value
<1>2. CASE Construct(t).detail \in {"one", "square"}
  BY <1>2 DEF Term, Value
<1> QED
  BY <1>1, <1>2 DEF Details

(* What a thread can do in the loop of a sum.                              *)
LEMMA CounterActs ==
  ASSUME Ready, NEW t \in Threads, at[t] \in Constructs, Adds(at[t], CounterWorks),
         Act(t) \/ StartRoot(t) \/ Conclude(t)
  PROVE  /\ Construct(t).kind = "for" /\ Construct(t).detail \in Details
         /\ Construct(t).work \in {"plain", "last", "assign"} =>
              Construct(t).detail = "one" /\ Construct(t).chunk = 0
         /\ \/ EnterLoop(t) \/ Load(t) \/ GrabChunk(t)
            \/ /\ Update(t) \/ Store(t) \/ UpdateCopy(t)
               /\ phase[t] \in AtWork /\ todo[t] # {} /\ Executes(t)
            \/ LeaveLoop(t) \/ LeaveBarrier(t)
<1>1. /\ Construct(t).kind = "for" /\ Construct(t).work \in CounterWorks
      /\ Construct(t).detail \in Details
      /\ Construct(t).work \in {"plain", "last", "assign"} =>
           Construct(t).detail = "one" /\ Construct(t).chunk = 0
  BY ReadyFacts DEF Adds, Fits, Construct, CounterWorks, Adding, Details, LoopWorks
<1>2. phase \in [Threads -> {"enter", "arrived", "work", "store"}]
  BY ReadyFacts
<1>3. CASE Update(t) \/ UpdateCopy(t)
  BY <1>1, <1>2, <1>3 DEF Update, UpdateCopy, Working, Runs, AtWork, Executes
<1>4. CASE Store(t)
  <2>1. todo[t] # {}
    BY <1>1, <1>4 DEF Store, Runs, Ready, LoopInv, InPlace
  <2> QED
    BY <1>1, <1>2, <1>4, <2>1 DEF Store, Runs, AtWork, Executes, Becomes
<1> QED
  BY <1>1, <1>3, <1>4 DEF Act, Set, Ordered, Derive, Claim, Skip, ExecuteSingle, Adding,
     EnterSlice, Accumulate, LeaveSlice, Report, StartRoot, Conclude, Working, Runs, CounterWorks,
     Details

LEMMA TeamSize == IsFiniteSet(Threads) /\ Cardinality(Threads) = NumThreads
<1>1. 0 \in Int /\ NumThreads - 1 \in Int /\ NumThreads \in Nat \ {0}
  BY TeamFacts
<1> QED
  BY <1>1, FS_Interval DEF Threads

(* A sum over the team when one thread changes its part.                   *)
LEMMA TeamSum ==
  ASSUME NEW f, NEW h, NEW t \in Threads,
         \A u \in Threads : f[u] \in Int /\ h[u] \in Int,
         \A u \in Threads \ {t} : h[u] = f[u]
  PROVE  /\ SumFunctionOnSet(h, Threads) = SumFunctionOnSet(f, Threads) - f[t] + h[t]
         /\ SumFunctionOnSet(f, Threads) \in Int
<1>1. f[t] \in Int /\ h[t] \in Int
  OBVIOUS
<1>2. SumFunctionOnSet(f, Threads) \in Int
  BY TeamSize, SumChanges
<1>3. SumFunctionOnSet(h, Threads) \in Int
  BY TeamSize, SumChanges
<1> QED
  BY <1>1, <1>2, <1>3, TeamSize, SumChanges

(* Who steps changes its own private copy.                                 *)
LEMMA CopiesChange ==
  ASSUME Ready, HandedOut, Functions, Held, NEW t \in Threads,
         Act(t) \/ StartRoot(t) \/ Conclude(t),
         NEW k \in Constructs, Adds(k, {"reduction"}), InLoop(t, k)' => local'[t] \in Int
  PROVE  /\ SumFunctionOnSet(Copies(k), Threads)' =
              SumFunctionOnSet(Copies(k), Threads)
              - (IF InLoop(t, k) THEN local[t] ELSE 0) + (IF InLoop(t, k)' THEN local'[t] ELSE 0)
         /\ SumFunctionOnSet(Copies(k), Threads) \in Int
<1> DEFINE old == Copies(k)
           new == Copies(k)'
<1>0. /\ \A u \in Threads : old[u] = IF InLoop(u, k) THEN local[u] ELSE 0
      /\ \A u \in Threads : new[u] = IF InLoop(u, k)' THEN local'[u] ELSE 0
  BY DEF Copies, Threads
<1>1. \A u \in Threads \ {t} : (InLoop(u, k)' <=> InLoop(u, k)) /\ local'[u] = local[u]
  BY EachMoves, DataMoves DEF Moves, OthersStay, InLoop
<1>2. \A u \in Threads : InLoop(u, k) => local[u] \in Int
  BY DEF Held, HeldBy, InLoop, Adds
<1>3. SumFunctionOnSet(Copies(k), Threads)' = SumFunctionOnSet(new, Threads)
  BY DEF Threads
<1> HIDE DEF old, new
<1>4. \A u \in Threads : old[u] \in Int /\ new[u] \in Int
  BY <1>0, <1>1, <1>2
<1>5. \A u \in Threads \ {t} : new[u] = old[u]
  BY <1>0, <1>1
<1>6. /\ SumFunctionOnSet(new, Threads) = SumFunctionOnSet(old, Threads) - old[t] + new[t]
      /\ SumFunctionOnSet(old, Threads) \in Int
  BY <1>4, <1>5, TeamSum
<1>7. SumFunctionOnSet(Copies(k), Threads) = SumFunctionOnSet(old, Threads)
  BY DEF old
<1> QED
  BY <1>0, <1>3, <1>6, <1>7

(* A thread hands in what it has assigned when it leaves the loop.         *)
LEMMA BroughtChange ==
  ASSUME NEW t \in Threads, NEW k \in Constructs,
         OthersStay(t), prog' = prog
  PROVE  /\ SumFunctionOnSet(Brought(k), Threads)' =
              SumFunctionOnSet(Brought(k), Threads)
              - (IF Finished(t, k) THEN t ELSE 0) + (IF Finished(t, k)' THEN t ELSE 0)
         /\ SumFunctionOnSet(Brought(k), Threads) \in Int
<1> DEFINE old == Brought(k)
           new == Brought(k)'
<1>0. /\ \A u \in Threads : old[u] = IF Finished(u, k) THEN u ELSE 0
      /\ \A u \in Threads : new[u] = IF Finished(u, k)' THEN u ELSE 0
  BY DEF Brought, Threads
<1>1. SumFunctionOnSet(Brought(k), Threads)' = SumFunctionOnSet(new, Threads)
  BY DEF Threads
<1> HIDE DEF old, new
<1>2. \A u \in Threads : old[u] \in Int /\ new[u] \in Int
  BY <1>0, TeamFacts DEF Threads
<1>3. \A u \in Threads \ {t} : new[u] = old[u]
  BY <1>0, LeftOfOthers
<1>4. /\ SumFunctionOnSet(new, Threads) = SumFunctionOnSet(old, Threads) - old[t] + new[t]
      /\ SumFunctionOnSet(old, Threads) \in Int
  BY <1>2, <1>3, TeamSum
<1>5. SumFunctionOnSet(Brought(k), Threads) = SumFunctionOnSet(old, Threads)
  BY DEF old
<1> QED
  BY <1>0, <1>1, <1>4, <1>5

(* Every thread has iterations of a static loop.                           *)
LEMMA BlockNotEmpty ==
  ASSUME NEW t \in Threads
  PROVE  Block(t) # {}
<1> DEFINE ts == t * size
<1>1. ts \in Nat /\ t \in Nat
  BY BlockIs, TeamFacts DEF Threads
<1>2. /\ t < more => Block(t) = ts + t..ts + t + size
      /\ t >= more => Block(t) = ts + more..ts + more + size - 1
  BY BlockIs
<1> HIDE DEF ts
<1>3. t < more => ts + t \in Block(t)
  BY <1>1, <1>2, SizeFacts
<1>4. t >= more => ts + more \in Block(t)
  BY <1>1, <1>2, SizeFacts
<1> QED
  BY <1>1, <1>3, <1>4, SizeFacts

(* Steps about other constructs, and about what counts nothing.            *)
LEMMA CountedElsewhere ==
  ASSUME Ready, HandedOut, Functions, Counted, SinglesExecuted, NEW t \in Threads,
         Act(t) \/ StartRoot(t) \/ Conclude(t),
         NEW k \in Constructs, k # at[t] \/ ~Adds(k, CounterWorks)
  PROVE  CountedAt(k)'
<1>0. /\ at[t] \in Constructs /\ Moves(t) /\ OthersStay(t) /\ prog' = prog
      /\ CountedAt(k)
  BY EachMoves DEF Moves, Counted
<1>1. CASE k # at[t]
  <2>1. /\ Completed(k)' = Completed(k) /\ sum'[k] = sum[k]
        /\ \A u \in Threads : /\ Finished(u, k)' <=> Finished(u, k)
                              /\ InLoop(u, k)' <=> InLoop(u, k)
    BY <1>0, <1>1, Elsewhere, DataMoves
  <2>2. \A u \in Threads : InLoop(u, k) => local'[u] = local[u]
    BY <1>1, DataMoves DEF InLoop
  <2>3. Copies(k)' = Copies(k)
    BY <2>1, <2>2 DEF Copies, Threads
  <2>4. Brought(k)' = Brought(k)
    BY <2>1 DEF Brought, Threads
  <2>5. NumThreads - 1 \in Threads
    BY TeamFacts DEF Threads
  <2>6. Finished(NumThreads - 1, k)' <=> Finished(NumThreads - 1, k)
    BY <2>1, <2>5
  <2>7. /\ Weight(prog.script[k].detail, Completed(k))' =
             Weight(prog.script[k].detail, Completed(k))
        /\ SumFunctionOnSet(Copies(k), Threads)' = SumFunctionOnSet(Copies(k), Threads)
        /\ SumFunctionOnSet(Brought(k), Threads)' = SumFunctionOnSet(Brought(k), Threads)
    BY <1>0, <2>1, <2>3, <2>4 DEF Weight, Iterations, Threads
  <2> QED
    BY <1>0, <2>1, <2>6, <2>7 DEF CountedAt, Adds, Block
<1>2. CASE k = at[t] /\ ~Adds(k, CounterWorks)
  <2>1. sum'[k] = sum[k] \/ Adds(k, {"tasks"})
    <3>1. CASE Conclude(t)
      <4>1. InStore(t, k) /\ prog.script[k].kind = "single"
        BY <1>2, <3>1 DEF Conclude, Runs, InStore, Construct
      <4> QED
        BY <4>1 DEF SinglesExecuted, ExecutedOnce, Adds
    <3>2. CASE ~Conclude(t)
      <4>1. sum' = sum
        BY <1>2, <3>2 DEF Act, EnterLoop, GrabChunk, Set, Ordered, Derive, Update, Load, Store,
           UpdateCopy, LeaveLoop, ExecuteSingle, EnterSlice, Accumulate, LeaveSlice, Report,
           LeaveBarrier, StartRoot, dataVars, Adds, CounterWorks, Adding, Construct, Working
      <4> QED
        BY <4>1
    <3> QED
      BY <3>1, <3>2
  <2> QED
    BY <1>0, <1>2, <2>1 DEF CountedAt, Adds, CounterWorks, Adding
<1> QED
  BY <1>1, <1>2

(* Steps that execute no iteration of the loop that counts.                *)
LEMMA CountedWithout ==
  ASSUME Ready, HandedOut, Functions, Counted, Held, NEW t \in Threads,
         NEW k \in Constructs, k = at[t], Adds(k, CounterWorks),
         EnterLoop(t) \/ Load(t) \/ GrabChunk(t)
  PROVE  CountedAt(k)'
<1>0. /\ Moves(t) /\ OthersStay(t) /\ prog' = prog /\ CountedAt(k)
      /\ Construct(t).kind = "for"
  BY EachMoves, CounterActs DEF Moves, Counted, Act
<1>1. /\ Completed(k)' = Completed(k) /\ sum' = sum /\ at' = at
      /\ \A u \in Threads : (Finished(u, k)' <=> Finished(u, k))
  BY <1>0, NotExecuted DEF EnterLoop, Load, GrabChunk, dataVars
<1>2. NumThreads - 1 \in Threads
  BY TeamFacts DEF Threads
<1>3. Weight(prog.script[k].detail, Completed(k))' = Weight(prog.script[k].detail, Completed(k))
  BY <1>0, <1>1 DEF Weight, Iterations
<1>4. SumFunctionOnSet(Brought(k), Threads)' = SumFunctionOnSet(Brought(k), Threads)
  <2>1. Brought(k)' = Brought(k)
    BY <1>1 DEF Brought, Threads
  <2> QED
    BY <2>1 DEF Threads
<1>5. Adds(k, {"reduction"}) =>
        SumFunctionOnSet(Copies(k), Threads)' = SumFunctionOnSet(Copies(k), Threads)
  <2> SUFFICES ASSUME Adds(k, {"reduction"})
               PROVE  SumFunctionOnSet(Copies(k), Threads)' = SumFunctionOnSet(Copies(k), Threads)
    OBVIOUS
  <2>1. CASE EnterLoop(t)
    <3>1. ~InLoop(t, k) /\ local' = [local EXCEPT ![t] = 0]
      BY <2>1 DEF EnterLoop, EnterFor, Runs, InLoop, AtWork, Adds, Construct, Private
    <3>2. local'[t] = 0
      BY <3>1 DEF Functions
    <3> QED
      BY <3>1, <3>2, CopiesChange DEF Act
  <2>2. CASE GrabChunk(t)
    <3>1. InLoop(t, k) /\ local' = local /\ (InLoop(t, k)' <=> InLoop(t, k))
      BY <2>2 DEF GrabChunk, Grab, Runs, InLoop, AtWork, dataVars
    <3>2. local[t] \in Int
      BY <3>1 DEF Held, HeldBy, Adds, InLoop
    <3> QED
      BY <3>1, <3>2, CopiesChange DEF Act
  <2>3. ~Load(t)
    BY DEF Load, Working, Adds, Construct
  <2> QED
    BY <2>1, <2>2, <2>3
<1> QED
  BY <1>0, <1>1, <1>2, <1>3, <1>4, <1>5 DEF CountedAt, Adds, Block

(* The end of an iteration counts it.                                      *)
LEMMA CountedWith ==
  ASSUME Ready, HandedOut, Functions, Counted, Held, ArraysHold, NEW t \in Threads,
         NEW k \in Constructs, k = at[t], Adds(k, CounterWorks),
         Update(t) \/ Store(t) \/ UpdateCopy(t),
         phase[t] \in AtWork, todo[t] # {}, Executes(t)
  PROVE  CountedAt(k)'
<1> DEFINE d == prog.script[k].detail
           i == Current(t)
<1>0. /\ OthersStay(t) /\ prog' = prog /\ CountedAt(k) /\ prog.start \in Nat
      /\ Construct(t).kind = "for" /\ Construct(t).detail = d /\ d \in Details
      /\ Construct(t).work \in {"plain", "last", "assign"} => d = "one"
      /\ Construct(t) = prog.script[k]
  BY EachMoves, CounterActs DEF Moves, Counted, Act, Construct, Ready
<1>1. /\ i \in Iterations /\ i \notin Completed(k)
      /\ Completed(k)' = Completed(k) \cup {i}
      /\ \A u \in Threads : (Finished(u, k)' <=> Finished(u, k))
      /\ InLoop(t, k) /\ InLoop(t, k)'
  BY <1>0, Executed DEF InLoop, Executes, AtWork
<1>2. Term(d, i) = Value(d, i) /\ Value(d, i) \in Int
  BY <1>0, <1>1, TermIs, WeightFacts
<1> HIDE DEF d, i
<1>3. /\ Weight(prog.script[k].detail, Completed(k))' = Weight(d, Completed(k)) + Value(d, i)
      /\ Weight(d, Completed(k)) \in Int
  <2>1. Weight(prog.script[k].detail, Completed(k))' = Weight(d, Completed(k) \cup {i})
    BY <1>0, <1>1 DEF Weight, Iterations, d
  <2>2. Completed(k) \in SUBSET Iterations /\ i \in Iterations \ Completed(k)
    BY <1>1, CompletedWithin
  <2> QED
    BY <1>0, <2>1, <2>2, WeightFacts
<1>4. /\ Cardinality(Completed(k))' = Cardinality(Completed(k)) + 1
      /\ Cardinality(Completed(k)) \in Nat
  BY <1>1, CompletedWithin, OneMore, SizeOfIterations
<1>5. d = "one" => Value(d, i) = 1
  BY DEF Value
<1>6. CASE Update(t)
  <2>1. Construct(t).work = "atomic" /\ sum' = [sum EXCEPT ![k] = sum[k] + Term(d, i)]
    BY <1>0, <1>6 DEF Update, Working, i
  <2>2. sum'[k] = sum[k] + Value(d, i)
    BY <1>2, <2>1 DEF Functions
  <2>3. sum[k] = prog.start + Weight(d, Completed(k))
    BY <1>0, <2>1 DEF Adds, CountedAt, d
  <2> QED
    BY <1>0, <1>2, <1>3, <2>1, <2>2, <2>3 DEF CountedAt, Adds, CounterWorks, Adding
<1>7. CASE Store(t)
  <2>1. /\ Construct(t).work \in {"critical", "plain"} /\ phase[t] = "store"
        /\ sum' = [sum EXCEPT ![k] = temp[t] + Term(d, i)]
    BY <1>0, <1>7 DEF Store, Runs, i
  <2>2. sum'[k] = temp[t] + Value(d, i)
    BY <1>2, <2>1 DEF Functions
  <2>3. CASE Construct(t).work = "critical"
    <3>1. temp[t] = sum[k]
      BY <1>0, <2>1, <2>3 DEF Held, HeldBy, Adds
    <3>2. sum[k] = prog.start + Weight(d, Completed(k))
      BY <1>0, <2>3 DEF CountedAt, Adds, d
    <3> QED
      BY <1>0, <1>2, <1>3, <2>2, <2>3, <3>1, <3>2 DEF CountedAt, Adds, CounterWorks, Adding
  <2>4. CASE Construct(t).work = "plain"
    <3>1. temp[t] \in prog.start..prog.start + Cardinality(Completed(k))
      BY <1>0, <2>1, <2>4 DEF Held, HeldBy, Adds
    <3>2. sum'[k] = temp[t] + 1
      BY <1>0, <1>5, <2>2, <2>4
    <3>3. /\ sum'[k] \in prog.start..prog.start + Cardinality(Completed(k))'
          /\ sum'[k] > prog.start
      BY <1>0, <1>4, <3>1, <3>2
    <3> QED
      BY <1>0, <2>4, <3>3 DEF CountedAt, Adds, CounterWorks, Adding
  <2> QED
    BY <2>1, <2>3, <2>4
<1>8. CASE UpdateCopy(t)
  <2>0. Construct(t).work \in {"reduction", "last", "assign"} /\ sum' = sum
    BY <1>0, <1>8 DEF UpdateCopy, Working, Adds, CounterWorks, Adding
  <2>1. CASE Construct(t).work = "reduction"
    <3>1. local' = [local EXCEPT ![t] = local[t] + Term(d, i)]
      BY <1>0, <1>8, <2>1 DEF UpdateCopy, Private, i
    <3>2. local'[t] = local[t] + Value(d, i)
      BY <1>2, <3>1 DEF Functions
    <3>3. local[t] \in Int
      BY <1>0, <2>1 DEF Held, HeldBy, Adds
    <3>4. Adds(k, {"reduction"})
      BY <1>0, <2>1 DEF Adds
    <3>5. local'[t] \in Int
      BY <1>2, <3>2, <3>3
    <3>6. /\ SumFunctionOnSet(Copies(k), Threads)' =
                 SumFunctionOnSet(Copies(k), Threads) - local[t] + local'[t]
          /\ SumFunctionOnSet(Copies(k), Threads) \in Int
      BY <1>1, <1>8, <3>4, <3>5, CopiesChange DEF Act
    <3>7. sum[k] = prog.start + Weight(d, Completed(k)) - SumFunctionOnSet(Copies(k), Threads)
      BY <1>0, <3>4 DEF CountedAt, d
    <3>8. sum'[k] = prog.start + Weight(prog.script[k].detail, Completed(k))'
                    - SumFunctionOnSet(Copies(k), Threads)'
      BY <1>0, <1>2, <1>3, <2>0, <3>2, <3>3, <3>6, <3>7
    <3> QED
      BY <1>0, <2>1, <3>8 DEF CountedAt, Adds, CounterWorks, Adding
  <2>2. CASE Construct(t).work = "assign"
    <3>1. Brought(k)' = Brought(k)
      BY <1>1 DEF Brought, Threads
    <3>2. SumFunctionOnSet(Brought(k), Threads)' = SumFunctionOnSet(Brought(k), Threads)
      BY <3>1 DEF Threads
    <3> QED
      BY <1>0, <2>0, <2>2, <3>2 DEF CountedAt, Adds, CounterWorks, Adding
  <2>3. CASE Construct(t).work = "last"
    <3>1. NumThreads - 1 \in Threads
      BY TeamFacts DEF Threads
    <3> QED
      BY <1>0, <1>1, <2>0, <2>3, <3>1 DEF CountedAt, Adds, CounterWorks, Adding, Block
  <2> QED
    BY <2>0, <2>1, <2>2, <2>3
<1> QED
  BY <1>6, <1>7, <1>8

(* At the end of its loop a thread hands in what it has.                   *)
LEMMA CountedLeaving ==
  ASSUME Ready, HandedOut, Functions, Counted, Held, NEW t \in Threads,
         NEW k \in Constructs, k = at[t], Adds(k, CounterWorks), LeaveLoop(t)
  PROVE  CountedAt(k)'
<1>0. /\ Moves(t) /\ OthersStay(t) /\ prog' = prog /\ CountedAt(k) /\ prog.start \in Nat
      /\ Construct(t).kind = "for" /\ Construct(t) = prog.script[k]
      /\ k \in Nat /\ prog.script[k].detail \in Details
  BY EachMoves, CounterActs, ReadyFacts DEF Moves, Counted, Act, Construct, Ready
<1>1. /\ Completed(k)' = Completed(k)
      /\ Finished(t, k)' /\ ~Finished(t, k) /\ todo[t] = {} /\ phase[t] = "work"
      /\ \A u \in Threads \ {t} : (Finished(u, k)' <=> Finished(u, k))
  BY <1>0, LeftLoop
<1>2. InLoop(t, k) /\ ~InLoop(t, k)'
  BY <1>0, <1>1 DEF InLoop, AtWork, Finished
<1>3. /\ Weight(prog.script[k].detail, Completed(k))' = Weight(prog.script[k].detail, Completed(k))
      /\ Weight(prog.script[k].detail, Completed(k)) \in Int
  <2>1. Weight(prog.script[k].detail, Completed(k)) \in Int
    BY <1>0, CompletedWithin, WeightFacts
  <2> QED
    BY <1>0, <1>1, <2>1 DEF Weight, Iterations
<1>4. CASE Construct(t).work = "reduction"
  <2>1. sum' = [sum EXCEPT ![k] = sum[k] + local[t]]
    BY <1>0, <1>4 DEF LeaveLoop
  <2>2. sum'[k] = sum[k] + local[t]
    BY <2>1 DEF Functions
  <2>3. Adds(k, {"reduction"}) /\ local[t] \in Int
    BY <1>0, <1>1, <1>4 DEF Held, HeldBy, Adds, AtWork
  <2>4. /\ SumFunctionOnSet(Copies(k), Threads)' = SumFunctionOnSet(Copies(k), Threads) - local[t]
        /\ SumFunctionOnSet(Copies(k), Threads) \in Int
    BY <1>2, <2>3, CopiesChange DEF Act
  <2>5. sum[k] = prog.start + Weight(prog.script[k].detail, Completed(k))
                 - SumFunctionOnSet(Copies(k), Threads)
    BY <1>0, <2>3 DEF CountedAt
  <2>6. sum'[k] = prog.start + Weight(prog.script[k].detail, Completed(k))'
                  - SumFunctionOnSet(Copies(k), Threads)'
    BY <1>0, <1>3, <2>2, <2>3, <2>4, <2>5
  <2> QED
    BY <1>0, <1>4, <2>6 DEF CountedAt, Adds, CounterWorks, Adding
<1>5. CASE Construct(t).work = "assign"
  <2>1. sum' = [sum EXCEPT ![k] = sum[k] + local[t]]
    BY <1>0, <1>5 DEF LeaveLoop
  <2>2. sum'[k] = sum[k] + local[t]
    BY <2>1 DEF Functions
  <2>3. local[t] = t /\ t \in Int
    <3>1. Adds(k, {"assign"}) /\ phase[t] \in AtWork
      BY <1>0, <1>1, <1>5 DEF Adds, AtWork
    <3>2. todo[t] = Block(t) \/ local[t] = t
      BY <3>1 DEF Held, HeldBy
    <3> QED
      BY <1>1, <3>2, BlockNotEmpty, TeamFacts DEF Threads
  <2>4. /\ SumFunctionOnSet(Brought(k), Threads)' = SumFunctionOnSet(Brought(k), Threads) + t
        /\ SumFunctionOnSet(Brought(k), Threads) \in Int
    BY <1>0, <1>1, <2>3, BroughtChange
  <2>5. sum[k] = prog.start + SumFunctionOnSet(Brought(k), Threads)
    BY <1>0, <1>5 DEF CountedAt, Adds
  <2>6. sum'[k] = prog.start + SumFunctionOnSet(Brought(k), Threads)'
    BY <1>0, <2>2, <2>3, <2>4, <2>5
  <2> QED
    BY <1>0, <1>5, <2>6 DEF CountedAt, Adds, CounterWorks, Adding
<1>6. CASE Construct(t).work = "last"
  <2>1. CASE t = NumThreads - 1
    <3>1. sum' = [sum EXCEPT ![k] = local[t]]
      BY <1>6, <2>1, LastBlock DEF LeaveLoop
    <3>2. sum'[k] = local[t]
      BY <3>1 DEF Functions
    <3>3. local[t] = prog.start + Cardinality(Block(t))
      <4>1. Block(t) \ todo[t] = Block(t)
        BY <1>1
      <4> QED
        BY <1>0, <1>1, <1>6, <4>1 DEF Held, HeldBy, Adds, AtWork
    <3> QED
      BY <1>0, <1>1, <1>6, <2>1, <3>2, <3>3 DEF CountedAt, Adds, CounterWorks, Adding, Block
  <2>2. CASE t # NumThreads - 1
    <3>1. N - 1 \notin Block(t)
      BY <2>2, LastBlock
    <3>2. sum' = sum
      BY <1>6, <3>1 DEF LeaveLoop
    <3>3. NumThreads - 1 \in Threads
      BY TeamFacts DEF Threads
    <3> QED
      BY <1>0, <1>1, <1>6, <2>2, <3>2, <3>3 DEF CountedAt, Adds, CounterWorks, Adding, Block
  <2> QED
    BY <2>1, <2>2
<1>7. CASE Construct(t).work \in {"critical", "atomic", "plain"}
  <2>1. sum' = sum
    BY <1>7 DEF LeaveLoop
  <2> QED
    BY <1>0, <1>1, <1>3, <1>7, <2>1 DEF CountedAt, Adds, CounterWorks, Adding
<1> QED
  BY <1>0, <1>4, <1>5, <1>6, <1>7 DEF Adds, CounterWorks, Adding

LEMMA CountedPassing ==
  ASSUME Ready, HandedOut, Functions, Counted, Held, NEW t \in Threads,
         NEW k \in Constructs, k = at[t], Adds(k, CounterWorks), LeaveBarrier(t)
  PROVE  CountedAt(k)'
<1>0. /\ Moves(t) /\ OthersStay(t) /\ prog' = prog /\ CountedAt(k) /\ Construct(t).kind = "for"
  BY EachMoves, CounterActs DEF Moves, Counted, Act
<1>1. /\ Completed(k)' = Completed(k) /\ sum' = sum
      /\ \A u \in Threads : (Finished(u, k)' <=> Finished(u, k))
      /\ Finished(t, k) /\ Finished(t, k)'
  BY <1>0, LeftLoop DEF LeaveBarrier
<1>2. ~InLoop(t, k) /\ ~InLoop(t, k)'
  <2>1. at[t] \in Nat /\ at'[t] # at[t]
    BY <1>0, ReadyFacts DEF LeaveBarrier, Pass, GoOn
  <2> QED
    BY <2>1 DEF LeaveBarrier, Pass, Runs, InLoop, AtWork
<1>3. Copies(k)' = Copies(k)
  <2>1. \A u \in Threads \ {t} : (InLoop(u, k)' <=> InLoop(u, k)) /\ local'[u] = local[u]
    BY <1>0, DataMoves DEF OthersStay, InLoop, Act
  <2> QED
    BY <1>2, <2>1 DEF Copies, Threads
<1>4. Brought(k)' = Brought(k)
  BY <1>1 DEF Brought, Threads
<1>5. /\ Weight(prog.script[k].detail, Completed(k))' = Weight(prog.script[k].detail, Completed(k))
      /\ SumFunctionOnSet(Copies(k), Threads)' = SumFunctionOnSet(Copies(k), Threads)
      /\ SumFunctionOnSet(Brought(k), Threads)' = SumFunctionOnSet(Brought(k), Threads)
  BY <1>0, <1>1, <1>3, <1>4 DEF Weight, Iterations, Threads
<1>6. Finished(NumThreads - 1, k)' <=> Finished(NumThreads - 1, k)
  BY <1>1, TeamFacts DEF Threads
<1> QED
  BY <1>0, <1>1, <1>5, <1>6 DEF CountedAt, Adds, Block

LEMMA CountedStep ==
  ASSUME Ready, HandedOut, Functions, Counted, Held, SinglesExecuted, ArraysHold,
         NEW t \in Threads, Act(t) \/ StartRoot(t) \/ Conclude(t)
  PROVE  Counted'
<1>0. at[t] \in Constructs /\ Constructs' = Constructs
  BY EachMoves DEF Moves, Constructs
<1>1. ASSUME NEW k \in Constructs
      PROVE  CountedAt(k)'
  BY <1>0, CounterActs, CountedElsewhere, CountedWithout, CountedWith, CountedLeaving,
     CountedPassing
<1> QED
  BY <1>0, <1>1 DEF Counted

LEMMA HeldStep ==
  ASSUME Ready, HandedOut, Functions, Counted, Held, ArraysHold, NEW t \in Threads,
         Act(t) \/ StartRoot(t) \/ Conclude(t)
  PROVE  Held'
<1>0. /\ at \in [Threads -> Nat \ {0}]
      /\ phase \in [Threads -> {"enter", "arrived", "work", "store"}]
      /\ at[t] \in Constructs
      /\ Moves(t) /\ OthersStay(t) /\ prog' = prog /\ Constructs' = Constructs
      /\ prog.start \in Nat
  BY ReadyFacts, EachMoves DEF Moves, Constructs, Ready
    \* The iterations that have been executed do not become fewer.
<1>1. ASSUME NEW k \in Constructs, Adds(k, CounterWorks)
      PROVE  Cardinality(Completed(k)) <= Cardinality(Completed(k))'
  <2>1. Cardinality(Completed(k)) \in Nat
    BY SizeOfIterations DEF Completed
  <2>2. CASE k # at[t]
    BY <1>0, <2>1, <2>2, Elsewhere
  <2>3. CASE k = at[t]
    <3>0. Construct(t).kind = "for"
      BY <1>0, <1>1, <2>3, CounterActs
    <3>1. CASE EnterLoop(t) \/ Load(t) \/ GrabChunk(t)
      BY <2>1, <2>3, <3>0, <3>1, NotExecuted
    <3>2. CASE phase[t] \in AtWork /\ todo[t] # {} /\ Executes(t)
      <4>1. /\ Current(t) \in Iterations /\ Current(t) \notin Completed(k)
            /\ Completed(k)' = Completed(k) \cup {Current(t)}
        BY <2>3, <3>0, <3>2, Executed
      <4>2. Cardinality(Completed(k))' = Cardinality(Completed(k)) + 1
        BY <4>1, CompletedWithin, OneMore
      <4> QED
        BY <2>1, <4>2
    <3>3. CASE LeaveLoop(t) \/ LeaveBarrier(t)
      BY <2>1, <2>3, <3>0, <3>3, LeftLoop
    <3> QED
      BY <1>0, <1>1, <2>3, <3>1, <3>2, <3>3, CounterActs
  <2> QED
    BY <2>2, <2>3
<1>2. ASSUME NEW u \in Threads, u # t, at[u] \in Constructs
      PROVE  HeldBy(u)'
  <2> DEFINE k == at[u]
  <2>0. /\ at'[u] = k /\ phase'[u] = phase[u] /\ todo'[u] = todo[u]
        /\ temp'[u] = temp[u] /\ local'[u] = local[u]
    BY <1>0, <1>2, DataMoves DEF OthersStay
  <2>1. HeldBy(u)
    BY <1>2 DEF Held
  <2>2. ASSUME Adds(k, {"critical"}), phase[u] = "store"
        PROVE  sum'[k] = sum[k]
    <3>1. CASE k # at[t]
      BY <1>2, <3>1, DataMoves
    <3>2. CASE k = at[t]
      <4>1. Construct(t).work = "critical" /\ Construct(u).work = "critical" /\ InCritical(u)
        BY <1>2, <2>2, <3>2, ReadyFacts DEF Adds, Construct, InCritical, Runs, Fits, LoopWorks
      <4>2. ~Store(t)
        BY <1>2, <4>1 DEF Ready, LoopInv, OneInCritical, InCritical, Store, Runs
      <4>3. Adds(at[t], CounterWorks)
        BY <2>2, <3>2 DEF Adds, CounterWorks, Adding
      <4>4. EnterLoop(t) \/ Load(t) \/ GrabChunk(t) \/ LeaveLoop(t) \/ LeaveBarrier(t)
        BY <1>0, <4>1, <4>2, <4>3, CounterActs DEF Update, UpdateCopy, Working
      <4>5. sum' = sum
        BY <4>1, <4>4 DEF EnterLoop, Load, GrabChunk, dataVars, LeaveLoop, LeaveBarrier
      <4> QED
        BY <4>5
    <3> QED
      BY <3>1, <3>2
  <2>3. ASSUME Adds(k, {"plain"})
        PROVE  /\ Cardinality(Completed(k)) <= Cardinality(Completed(k))'
               /\ Cardinality(Completed(k)) \in Nat /\ Cardinality(Completed(k))' \in Nat
    <3>1. ASSUME NEW l \in Constructs, Adds(l, {"plain"})
          PROVE  /\ Cardinality(Completed(l)) <= Cardinality(Completed(l))'
                 /\ Cardinality(Completed(l)) \in Nat /\ Cardinality(Completed(l))' \in Nat
      <4>1. Completed(l) \subseteq Iterations /\ Completed(l)' \subseteq Iterations
        BY DEF Completed, Iterations
      <4>2. Cardinality(Completed(l)) \in Nat /\ Cardinality(Completed(l))' \in Nat
        BY <4>1, SizeOfIterations
      <4> QED
        BY <1>1, <3>1, <4>2 DEF Adds, CounterWorks, Adding
    <3> QED
      BY <1>2, <2>0, <2>3, <3>1
  <2> QED
    BY <1>0, <2>0, <2>1, <2>2, <2>3 DEF HeldBy, Adds, Block
<1>3. at'[t] \in Constructs => HeldBy(t)'
  <2> SUFFICES ASSUME at'[t] \in Constructs, Adds(at'[t], CounterWorks), phase'[t] \in AtWork
               PROVE  HeldBy(t)'
    BY <1>0 DEF HeldBy, Adds, CounterWorks, Adding, AtWork
  <2>1. at'[t] = at[t]
    BY <1>0 DEF Moves, AtWork
  <2>2. ASSUME NEW k \in Constructs, k = at[t], at'[t] = k
        PROVE  HeldBy(t)'
    <3>0. /\ Adds(k, CounterWorks) /\ Construct(t) = prog.script[k]
          /\ Construct(t).kind = "for" /\ Construct(t).detail \in Details
          /\ Construct(t).work \in {"plain", "last", "assign"} => Construct(t).chunk = 0
      BY <1>0, <2>2, CounterActs DEF Adds, Construct
    <3>1. CASE EnterLoop(t)
      <4>1. /\ phase'[t] = "work" /\ (Construct(t).chunk = 0 => todo'[t] = Block(t))
            /\ Construct(t).work = "reduction" => local' = [local EXCEPT ![t] = 0]
            /\ Construct(t).work = "last" => local' = [local EXCEPT ![t] = prog.start]
        BY <1>0, <3>0, <3>1, ReadyFacts DEF EnterLoop, EnterFor, Becomes, Private
      <4>2. /\ Construct(t).work = "reduction" => local'[t] = 0
            /\ Construct(t).work = "last" => local'[t] = prog.start
        BY <4>1 DEF Functions
      <4>3. Construct(t).work = "last" => Cardinality(Block(t)' \ todo'[t]) = 0
        <5>1. Construct(t).work = "last" => Block(t)' \ todo'[t] = {}
          BY <3>0, <4>1 DEF Block
        <5> QED
          BY <5>1, FS_EmptySet
      <4> QED
        BY <1>0, <2>2, <3>0, <4>1, <4>2, <4>3 DEF HeldBy, Adds, Block
    <3>2. CASE Load(t)
      <4>1. /\ phase'[t] = "store" /\ sum' = sum
            /\ temp' = [temp EXCEPT ![t] = sum[k]]
            /\ Construct(t).work \in {"critical", "plain"}
        BY <1>0, <2>2, <3>2 DEF Load, Working, Becomes
      <4>2. temp'[t] = sum[k]
        BY <4>1 DEF Functions
      <4>3. Completed(k)' = Completed(k)
        BY <2>2, <3>0, <3>2, NotExecuted
      <4>4. Adds(k, {"plain"}) => sum[k] \in prog.start..prog.start + Cardinality(Completed(k))
        BY DEF Counted, CountedAt
      <4> QED
        BY <1>0, <2>2, <3>0, <4>1, <4>2, <4>3, <4>4 DEF HeldBy, Adds
    <3>3. CASE GrabChunk(t)
      <4>1. /\ phase' = phase /\ phase[t] = "work" /\ local' = local
            /\ Construct(t).chunk > 0 /\ Construct(t).chunk \in Nat
        BY <1>0, <3>0, <3>3, ReadyFacts DEF GrabChunk, Grab, Runs, dataVars, ConstructOK
      <4>2. Construct(t).work \notin {"plain", "last", "assign"}
        BY <3>0, <4>1
      <4> QED
        BY <1>0, <2>2, <3>0, <4>1, <4>2 DEF HeldBy, Held, Adds, AtWork
    <3>4. CASE /\ Update(t) \/ Store(t) \/ UpdateCopy(t)
               /\ phase[t] \in AtWork /\ todo[t] # {} /\ Executes(t)
      <4>1. /\ Current(t) \in Iterations /\ Current(t) \in todo[t]
            /\ todo'[t] = todo[t] \ {Current(t)} /\ phase'[t] = "work"
        BY <2>2, <3>0, <3>4, Executed
      <4>2. CASE Construct(t).work = "last"
        <5>1. UpdateCopy(t)
          BY <3>4, <4>2 DEF Update, Store, Working
        <5>2. local' = [local EXCEPT ![t] = local[t] + 1]
          BY <4>2, <5>1 DEF UpdateCopy, Private
        <5>3. local'[t] = local[t] + 1
          BY <5>2 DEF Functions
        <5>4. todo[t] \subseteq Block(t)
          BY <2>2, <3>0, <3>4, <4>2 DEF Ready, LoopInv, Shares
        <5>5. Block(t) \ todo'[t] = (Block(t) \ todo[t]) \cup {Current(t)}
          BY <4>1, <5>4
        <5>6. Cardinality(Block(t) \ todo'[t]) = Cardinality(Block(t) \ todo[t]) + 1
          BY <4>1, <5>5, BlocksWithin, OneMore
        <5>7. Cardinality(Block(t) \ todo[t]) \in Nat
          BY BlocksWithin, SizeOfIterations
        <5>8. local[t] = prog.start + Cardinality(Block(t) \ todo[t])
          BY <1>0, <2>2, <3>0, <3>4, <4>2 DEF Held, HeldBy, Adds
        <5>9. Block(t)' = Block(t)
          BY DEF Block
        <5> QED
          BY <1>0, <2>2, <3>0, <4>1, <4>2, <5>3, <5>6, <5>7, <5>8, <5>9 DEF HeldBy, Adds
      <4>3. CASE Construct(t).work = "reduction"
        <5>1. UpdateCopy(t)
          BY <3>4, <4>3 DEF Update, Store, Working
        <5>2. local' = [local EXCEPT ![t] = local[t] + Term(Construct(t).detail, Current(t))]
          BY <4>3, <5>1 DEF UpdateCopy, Private
        <5>3. local'[t] = local[t] + Term(Construct(t).detail, Current(t))
          BY <5>2 DEF Functions
        <5>4. Term(Construct(t).detail, Current(t)) \in Int
          BY <1>0, <3>0, <4>1, TermIs, WeightFacts
        <5>5. local[t] \in Int
          BY <1>0, <2>2, <3>0, <3>4, <4>3 DEF Held, HeldBy, Adds
        <5>6. local'[t] \in Int
          BY <5>3, <5>4, <5>5
        <5> QED
          BY <1>0, <2>2, <3>0, <4>1, <4>3, <5>6 DEF HeldBy, Adds
      <4>4. CASE Construct(t).work = "assign"
        <5>1. UpdateCopy(t)
          BY <3>4, <4>4 DEF Update, Store, Working
        <5>2. local' = [local EXCEPT ![t] = t]
          BY <4>4, <5>1 DEF UpdateCopy, Private
        <5>3. local'[t] = t
          BY <5>2 DEF Functions
        <5> QED
          BY <1>0, <2>2, <3>0, <4>1, <4>4, <5>3 DEF HeldBy, Adds
      <4>5. CASE Construct(t).work \notin {"reduction", "last", "assign"}
        BY <1>0, <2>2, <3>0, <4>1, <4>5 DEF HeldBy, Adds
      <4> QED
        BY <4>2, <4>3, <4>4, <4>5
    <3>5. ~LeaveLoop(t) /\ ~LeaveBarrier(t)
      BY <1>0, <2>2 DEF LeaveLoop, Done, Becomes, GoOn, LeaveBarrier, Pass, AtWork
    <3> QED
      BY <1>0, <2>2, <3>0, <3>1, <3>2, <3>3, <3>4, <3>5, CounterActs
  <2> QED
    BY <1>0, <2>1, <2>2
<1> QED
  BY <1>0, <1>2, <1>3 DEF Held, OthersStay

-----------------------------------------------------------------------------
(* The prefix sums.                                                        *)

LEMMA TriangleStep ==
  ASSUME NEW i \in Nat, i # 0
  PROVE  ((i + 1) * i) \div 2 = (((i - 1) + 1) * (i - 1)) \div 2 + i
<1> DEFINE x == ((i - 1) + 1) * (i - 1)
<1>1. x \in Int /\ (i + 1) * i = x + 2 * i
  OBVIOUS
<1> HIDE DEF x
<1>2. (x + 2 * i) \div 2 = x \div 2 + i
  BY <1>1
<1> QED
  BY <1>1, <1>2 DEF x

LEMMA PrefixUnfolds ==
  PrefixSum = [i \in Nat |-> IF i = 0 THEN 0 ELSE PrefixSum[i - 1] + i]
<1> DEFINE g == [i \in Nat |-> ((i + 1) * i) \div 2]
<1>1. \A i \in Nat : g[i] = IF i = 0 THEN 0 ELSE g[i - 1] + i
  <2>1. ASSUME NEW i \in Nat, i = 0
        PROVE  g[i] = 0
    BY <2>1
  <2>2. ASSUME NEW i \in Nat, i # 0
        PROVE  g[i] = g[i - 1] + i
    <3>1. i - 1 \in Nat
      BY <2>2
    <3>2. g[i] = ((i + 1) * i) \div 2 /\ g[i - 1] = (((i - 1) + 1) * (i - 1)) \div 2
      BY <3>1
    <3> HIDE DEF g
    <3> QED
      BY <2>2, <3>2, TriangleStep
  <2> HIDE DEF g
  <2> QED
    BY <2>1, <2>2
<1>2. g = [i \in Nat |-> IF i = 0 THEN 0 ELSE g[i - 1] + i]
  <2>1. g = [i \in Nat |-> g[i]]
    OBVIOUS
  <2> HIDE DEF g
  <2> QED
    BY <1>1, <2>1
<1> HIDE DEF g
<1> QED
  BY <1>2 DEF PrefixSum

(* The formula gives the prefix sums.                                      *)
LEMMA PrefixSums ==
  /\ PrefixSum[0] = 0
  /\ \A i \in Nat : PrefixSum[i] = ((i + 1) * i) \div 2 /\ PrefixSum[i] \in Int
  /\ \A i \in Nat \ {0} : PrefixSum[i] = PrefixSum[i - 1] + i
<1>1. /\ PrefixSum[0] = 0
      /\ \A i \in Nat \ {0} : PrefixSum[i] = PrefixSum[i - 1] + i
  BY PrefixUnfolds
<1> DEFINE triangle(i) == ((i + 1) * i) \div 2
<1>2. triangle(0) = 0 /\ \A i \in Nat : triangle(i) \in Int
  OBVIOUS
<1>3. \A i \in Nat \ {0} : triangle(i) = triangle(i - 1) + i
  BY TriangleStep
<1> HIDE DEF triangle
<1>4. \A i \in Nat : PrefixSum[i] = triangle(i)
  <2> DEFINE B == {n \in Nat : PrefixSum[n] # triangle(n)}
  <2> SUFFICES ASSUME B # {} PROVE FALSE
    OBVIOUS
  <2>1. PICK n \in B : \A m \in B : n <= m
    BY LeastNumber
  <2>2. n # 0 /\ n \in Nat /\ PrefixSum[n] # triangle(n)
    BY <1>1, <1>2, <2>1
  <2>3. n - 1 \in Nat /\ n - 1 \notin B
    BY <2>1, <2>2
  <2>4. PrefixSum[n - 1] = triangle(n - 1)
    BY <2>3
  <2> QED
    BY <1>1, <1>3, <2>2, <2>4
<1> QED
  BY <1>1, <1>2, <1>4 DEF triangle

(* What a sum is when everybody has left its loop, or its single.          *)
LEMMA FinalCount ==
  ASSUME Ready, HandedOut, Counted, SinglesExecuted, NEW k \in Constructs,
         \A t \in Threads : Finished(t, k)
  PROVE  /\ Adds(k, Adding) => sum[k] = prog.start + Total(prog.script[k].detail)
         /\ Adds(k, {"assign"}) =>
              sum[k] = prog.start + SumFunctionOnSet([t \in Threads |-> t], Threads)
         /\ Adds(k, {"last"}) => sum[k] = prog.start + Cardinality(Block(NumThreads - 1))
         /\ Adds(k, {"plain"}) => sum[k] \in prog.start + 1..prog.start + N
         /\ Adds(k, {"tasks"}) => sum[k] = TaskResult
         /\ ~Adds(k, CounterWorks \cup {"tasks"}) => sum[k] = prog.start
<1>0. CountedAt(k) /\ prog.start \in Nat /\ Fits(prog.script[k]) /\ NumThreads - 1 \in Threads
  BY ReadyFacts, TeamFacts DEF Counted, Ready, Threads
<1>1. Adds(k, CounterWorks) => Completed(k) = Iterations
  BY <1>0, AllCompleted DEF Adds, Fits, CounterWorks, Adding, LoopWorks
<1>2. Cardinality(Iterations) = N /\ Iterations # {}
  BY SizeOfIterations, FS_EmptySet, TeamFacts
<1>3. Adds(k, Adding) => /\ Weight(prog.script[k].detail, Iterations) = Total(prog.script[k].detail)
                         /\ Total(prog.script[k].detail) \in Int
  BY <1>0, WeightFacts DEF Adds, Fits
<1>4. SumFunctionOnSet(Copies(k), Threads) = 0
  <2>1. \A t \in Threads : ~InLoop(t, k)
    <3> SUFFICES ASSUME NEW t \in Threads PROVE ~InLoop(t, k)
      OBVIOUS
    <3>1. Finished(t, k) /\ at[t] \in Nat /\ k \in Nat
      BY ReadyFacts
    <3> QED
      BY <3>1, LeftIs DEF Finished
  <2>2. \A t \in Threads : Copies(k)[t] = 0
    BY <2>1 DEF Copies
  <2> QED
    BY <2>2, TeamSize, SumOfZeros
<1>5. SumFunctionOnSet(Brought(k), Threads) = SumFunctionOnSet([t \in Threads |-> t], Threads)
  BY DEF Brought
<1>6. CASE Adds(k, Adding)
  BY <1>0, <1>1, <1>3, <1>4, <1>6 DEF CountedAt, Adds, Adding, CounterWorks
<1>7. CASE Adds(k, {"assign", "last"})
  BY <1>0, <1>5, <1>7 DEF CountedAt, Adds, Adding, CounterWorks
<1>8. CASE Adds(k, {"plain"})
  BY <1>0, <1>1, <1>2, <1>8, TeamFacts DEF CountedAt, Adds, Adding, CounterWorks
<1>9. CASE Adds(k, {"tasks"})
  <2>1. ExecutedOnce(k)
    BY <1>0, <1>9 DEF Fits, Adds, SinglesExecuted
  <2>2. claimed[k] \in Threads
    BY <2>1, ReadyFacts, TeamFacts DEF ExecutedOnce, Threads
  <2>3. sum[k] = TaskResult
    BY <1>9, <2>1, <2>2 DEF ExecutedOnce, Adds
  <2> QED
    BY <1>9, <2>3 DEF Adds, Adding, CounterWorks
<1> QED
  BY <1>0, <1>6, <1>7, <1>8, <1>9 DEF CountedAt, Adds, Adding, CounterWorks

(* What a single prints is final: everybody has left what it prints.       *)
LEMMA Printable ==
  ASSUME Ready, HandedOut, Counted, SinglesExecuted, NEW t \in Threads,
         NEW k \in Constructs, k = at[t], Construct(t).work = "print"
  PROVE  sum[k - 1] = Final(k - 1)
<1>1. /\ k > 1 /\ prog.script[k - 1].waits
      /\ prog.script[k - 1].work \in Adding \cup {"tasks"}
  BY DEF Ready, Shaped, Constructs, Construct
<1>2. k - 1 \in Constructs /\ k \in Nat
  BY <1>1, ReadyFacts DEF Constructs
<1>3. \A u \in Threads : Finished(u, k - 1)
  BY <1>1, <1>2, AllFinished
<1>4. PICK l \in Constructs : l = k - 1
  BY <1>2
<1> QED
  BY <1>1, <1>3, <1>4, FinalCount DEF Final, Adds, Adding

-----------------------------------------------------------------------------
(* The singles.                                                            *)

(* What a thread can do in a single.                                       *)
LEMMA SingleActs ==
  ASSUME NEW t \in Threads, Construct(t).kind = "single",
         Act(t) \/ StartRoot(t) \/ Conclude(t)
  PROVE  \/ Claim(t) /\ UNCHANGED dataVars
         \/ Skip(t) /\ UNCHANGED dataVars
         \/ ExecuteSingle(t) \/ StartRoot(t) \/ Conclude(t) \/ LeaveBarrier(t)
BY DEF Act, EnterLoop, EnterFor, GrabChunk, Grab, Set, Ordered, Derive, Update, Load, Store,
       UpdateCopy, LeaveLoop, Exhausted, EnterSlice, Accumulate, LeaveSlice, Report, Working, Runs

LEMMA SinglesStep ==
  ASSUME Ready, HandedOut, Functions, Counted, SinglesExecuted, NEW t \in Threads,
         Act(t) \/ StartRoot(t) \/ Conclude(t),
         Conclude(t) => cell[Root] = TaskResult
  PROVE  SinglesExecuted'
<1>0. /\ at \in [Threads -> Nat \ {0}]
      /\ phase \in [Threads -> {"enter", "arrived", "work", "store"}]
      /\ claimed \in [Constructs -> Threads \cup {Nobody}]
      /\ at[t] \in Constructs /\ at[t] \in Nat
      /\ Moves(t) /\ OthersStay(t) /\ prog' = prog /\ Constructs' = Constructs
  BY ReadyFacts, EachMoves DEF Moves, Constructs
<1>9. TaskResult' = TaskResult /\ \A k : Final(k - 1)' = Final(k - 1)
  BY <1>0 DEF TaskResult, Final, IsFib, Adds, Total, Iterations
<1>1. ASSUME NEW k \in Constructs, prog.script[k].kind = "single"
      PROVE  ExecutedOnce(k)'
  <2>0. ExecutedOnce(k)
    BY <1>1 DEF SinglesExecuted
  <2>1. CASE k # at[t]
    <3>1. claimed'[k] = claimed[k] /\ printed'[k] = printed[k] /\ sum'[k] = sum[k]
      BY <2>1, <1>0, Elsewhere, DataMoves
    <3>2. \A u \in Threads : /\ (Finished(u, k)' <=> Finished(u, k))
                             /\ (InLoop(u, k)' <=> InLoop(u, k))
      BY <2>1, <1>0, Elsewhere
    <3>3. \A u \in Threads : (InStore(u, k)' => InStore(u, k))
      BY <2>1, <1>0 DEF Moves, OthersStay, InStore
    <3> QED
      BY <1>0, <1>9, <2>0, <3>1, <3>2, <3>3 DEF ExecutedOnce
  <2>2. CASE k = at[t]
    <3>0. Construct(t).kind = "single" /\ Construct(t) = prog.script[k]
      BY <1>1, <2>2 DEF Construct
    <3>1. \A u \in Threads \ {t} : /\ (Finished(u, k)' <=> Finished(u, k))
                                   /\ (InLoop(u, k)' <=> InLoop(u, k))
                                   /\ (InStore(u, k)' <=> InStore(u, k))
      BY <1>0, LeftOfOthers DEF OthersStay, InLoop, InStore
    <3>2. CASE Claim(t) /\ UNCHANGED dataVars
      <4>1. /\ phase[t] = "enter" /\ phase'[t] = "work" /\ at'[t] = k
            /\ claimed[k] = Nobody /\ claimed'[k] = t /\ printed' = printed /\ sum' = sum
        BY <1>0, <2>2, <3>2 DEF Claim, Runs, Becomes, dataVars
      <4>2. InLoop(t, k)' /\ ~Finished(t, k)' /\ ~InStore(t, k)'
        BY <1>0, <2>2, <4>1 DEF InLoop, Finished, AtWork, InStore
      <4> QED
        BY <1>0, <1>9, <2>0, <3>1, <4>1, <4>2, TeamFacts DEF ExecutedOnce
    <3>3. CASE Skip(t) /\ UNCHANGED dataVars
      <4>1. /\ phase[t] = "enter" /\ phase'[t] = "arrived" /\ at'[t] = k
            /\ claimed[k] # Nobody /\ claimed' = claimed /\ printed' = printed /\ sum' = sum
        BY <1>0, <2>2, <3>0, <3>3 DEF Skip, Runs, Becomes, dataVars
      <4>2. ~InLoop(t, k) /\ ~Finished(t, k) /\ Finished(t, k)' /\ ~InStore(t, k)'
        BY <1>0, <2>2, <4>1 DEF InLoop, Finished, AtWork, InStore
      <4> QED
        BY <1>0, <1>9, <2>0, <3>1, <4>1, <4>2 DEF ExecutedOnce
    <3>4. ASSUME phase[t] \in AtWork, phase'[t] = "arrived", at'[t] = k, claimed' = claimed,
                 IF Construct(t).work = "print"
                 THEN printed' = [printed EXCEPT ![k] = Append(printed[k], sum[k - 1])]
                 ELSE printed' = printed,
                 Construct(t).work = "tasks" => sum'[k] = TaskResult
          PROVE  ExecutedOnce(k)'
      <4>1. claimed[k] = t
        BY <2>2, <3>0, <3>4 DEF Ready, LoopInv, InPlace
      <4>2. InLoop(t, k) /\ ~Finished(t, k) /\ Finished(t, k)' /\ ~InStore(t, k)'
        BY <1>0, <2>2, <3>4 DEF InLoop, Finished, AtWork, InStore
      <4>3. ASSUME Construct(t).work = "print"
            PROVE  printed'[k] = <<Final(k - 1)>>
        <5>1. sum[k - 1] = Final(k - 1)
          BY <2>2, <4>3, Printable
        <5>2. printed[k] = <<>>
          BY <2>0, <3>0, <4>1, <4>2, <4>3 DEF ExecutedOnce
        <5>3. printed'[k] = Append(printed[k], sum[k - 1])
          BY <3>4, <4>3 DEF Functions
        <5> QED
          BY <5>1, <5>2, <5>3
      <4> QED
        BY <1>0, <1>9, <2>0, <3>0, <3>1, <3>4, <4>1, <4>2, <4>3, TeamFacts DEF ExecutedOnce
    <3>5. CASE ExecuteSingle(t)
      BY <1>0, <2>2, <3>4, <3>5 DEF ExecuteSingle, Runs, Becomes, PrintOut, AtWork
    <3>6. CASE Conclude(t)
      <4>1. Construct(t).work = "tasks"
        BY <2>0, <2>2, <3>0, <3>6 DEF Conclude, Runs, ExecutedOnce, InStore
      <4>2. sum'[k] = TaskResult
        BY <2>2, <3>6 DEF Conclude, Functions
      <4> QED
        BY <1>0, <2>2, <3>4, <3>6, <4>1, <4>2 DEF Conclude, Runs, Becomes, AtWork
    <3>7. CASE StartRoot(t)
      <4>1. /\ phase[t] = "work" /\ phase'[t] = "store" /\ at'[t] = k
            /\ prog.script[k].work = "tasks"
            /\ claimed' = claimed /\ printed' = printed /\ sum' = sum
        BY <1>0, <2>2, <3>0, <3>7 DEF StartRoot, Runs, Becomes, dataVars
      <4>2. InLoop(t, k)' /\ ~Finished(t, k)' /\ ~Finished(t, k)
        BY <1>0, <2>2, <4>1 DEF InLoop, Finished, AtWork
      <4> QED
        BY <1>0, <1>9, <2>0, <3>1, <4>1, <4>2 DEF ExecutedOnce
    <3>8. CASE LeaveBarrier(t)
      <4>1. /\ phase[t] = "arrived" /\ at'[t] = at[t] + 1
            /\ claimed' = claimed /\ printed' = printed /\ sum' = sum
        BY <1>0, <3>8 DEF LeaveBarrier, Pass, GoOn, Runs
      <4>2. Finished(t, k) /\ Finished(t, k)' /\ ~InStore(t, k)'
        BY <1>0, <2>2, <4>1 DEF Finished, InStore
      <4> QED
        BY <1>0, <1>9, <2>0, <3>1, <4>1, <4>2 DEF ExecutedOnce
    <3> QED
      BY <3>0, <3>2, <3>3, <3>5, <3>6, <3>7, <3>8, SingleActs
  <2> QED
    BY <2>1, <2>2
<1> QED
  BY <1>0, <1>1 DEF SinglesExecuted

-----------------------------------------------------------------------------
(* The arrays.                                                             *)

(* What a thread can do in a loop that sets an array, or reads one.        *)
LEMMA ArrayActs ==
  ASSUME Ready, NEW t \in Threads, at[t] \in Constructs,
         Construct(t).work \in {"set"} \cup Deriving,
         Act(t) \/ StartRoot(t) \/ Conclude(t)
  PROVE  /\ Construct(t).kind = "for"
         /\ \/ EnterLoop(t) \/ GrabChunk(t) \/ LeaveLoop(t) \/ LeaveBarrier(t)
            \/ Set(t) \/ Derive(t)
         /\ Set(t) \/ Derive(t) => phase[t] \in AtWork /\ todo[t] # {} /\ Executes(t)
<1>1. /\ Construct(t).kind = "for" /\ Construct(t).detail # "ordered"
  BY ReadyFacts DEF Fits, Construct, LoopWorks, Deriving
<1>2. phase \in [Threads -> {"enter", "arrived", "work", "store"}]
  BY ReadyFacts
<1>3. CASE Derive(t)
  BY <1>1, <1>2, <1>3 DEF Derive, Working, Runs, AtWork, Executes
<1>4. CASE Set(t)
  BY <1>1, <1>2, <1>4 DEF Set, Working, Runs, AtWork, Executes
<1> QED
  BY <1>1, <1>3, <1>4 DEF Act, Ordered, Update, Load, Store, UpdateCopy, Claim, Skip,
     ExecuteSingle, EnterSlice, Accumulate, LeaveSlice, Report, StartRoot, Conclude, Working, Runs,
     Deriving

(* Except for the end of an iteration, a step executes none of a loop.     *)
LEMMA ArraysSame ==
  ASSUME Ready, HandedOut, NEW t \in Threads, NEW k \in Constructs,
         prog.script[k].work \in {"set"} \cup Deriving,
         Act(t) \/ StartRoot(t) \/ Conclude(t),
         k # at[t] \/ ~(Set(t) \/ Derive(t))
  PROVE  Completed(k)' = Completed(k)
<1>1. CASE k # at[t]
  BY <1>1, EachMoves, Elsewhere
<1>2. CASE k = at[t]
  <2>1. /\ Construct(t).kind = "for"
        /\ EnterLoop(t) \/ GrabChunk(t) \/ LeaveLoop(t) \/ LeaveBarrier(t)
    BY <1>2, ArrayActs DEF Construct
  <2> QED
    BY <1>2, <2>1, NotExecuted, LeftLoop
<1> QED
  BY <1>1, <1>2

(* Whoever reads the array of an earlier loop finds it complete.           *)
LEMMA ArrayComplete ==
  ASSUME Ready, HandedOut, ArraysHold, NEW t \in Threads, at[t] \in Constructs,
         Construct(t).work = "successor", NEW i \in Iterations
  PROVE  a[i] = i
<1>0. at[t] \in Nat /\ Len(prog.script) \in Nat
  BY ReadyFacts
<1>1. PICK l \in 1..Len(prog.script) : /\ l + 1 < at[t] /\ prog.script[l].work = "set"
                                       /\ prog.script[l + 1].kind = "barrier"
  BY DEF Ready, Shaped, Constructs, Construct
<1>2. l \in Constructs /\ l + 1 \in Constructs
  BY <1>0, <1>1 DEF Constructs
<1>3. prog.script[l].kind = "for"
  BY <1>1, <1>2, ReadyFacts DEF Fits, LoopWorks
<1>4. \A u \in Threads : Finished(u, l)
  BY <1>0, <1>1, <1>2, AllFinished
<1>5. Completed(l) = Iterations
  BY <1>2, <1>3, <1>4, AllCompleted
<1> QED
  BY <1>1, <1>2, <1>5 DEF ArraysHold

(* What a derived array gets.                                              *)
LEMMA DerivedIs ==
  ASSUME Ready, HandedOut, Functions, ArraysHold, NEW t \in Threads, at[t] \in Constructs,
         Derive(t), Current(t) \in Iterations
  PROVE  /\ Construct(t).work \in Deriving
         /\ b'[Current(t)] = Derived(Construct(t).work, Current(t))
         /\ \A i \in Iterations \ {Current(t)} : b'[i] = b[i]
<1> DEFINE i == Current(t)
           value == CASE Construct(t).work = "successor" -> a[i] + 1
                      [] Construct(t).work = "prefix" -> PrefixSum[i]
                      [] Construct(t).work = "triangle" -> ((i + 1) * i) \div 2
<1>1. Construct(t).work \in Deriving /\ b' = [b EXCEPT ![i] = value]
  BY DEF Derive, Working, Deriving
<1>2. i \in Iterations /\ i \in Nat
  BY TeamFacts DEF Iterations
<1>3. value = Derived(Construct(t).work, i)
  <2>1. Construct(t).work = "successor" => a[i] = i
    BY <1>2, ArrayComplete
  <2>2. PrefixSum[i] = ((i + 1) * i) \div 2
    BY <1>2, PrefixSums
  <2> HIDE DEF i
  <2> QED
    BY <1>1, <2>1, <2>2 DEF Derived, Deriving
<1> HIDE DEF value
<1> QED
  BY <1>1, <1>2, <1>3 DEF Functions

LEMMA ArraysStep ==
  ASSUME Ready, HandedOut, Functions, ArraysHold, NEW t \in Threads,
         Act(t) \/ StartRoot(t) \/ Conclude(t)
  PROVE  ArraysHold'
<1> DEFINE Written(k, i) == /\ prog.script[k].work = "set" => a[i] = i
                            /\ prog.script[k].work \in Deriving =>
                                 b[i] = Derived(prog.script[k].work, i)
<1>0. /\ at[t] \in Constructs
      /\ prog' = prog /\ Constructs' = Constructs /\ Iterations' = Iterations
      /\ (Has("own")' <=> Has("own"))
      /\ \A l : Completed(l) \subseteq Iterations
  BY EachMoves, CompletedWithin DEF Moves, Constructs, Iterations, Has
<1>1. PICK here \in Constructs : here = at[t]
  BY <1>0
<1>2. ASSUME NEW k \in Constructs, prog.script[k].work \in {"set"} \cup Deriving, k # at[t]
      PROVE  Completed(k)' = Completed(k)
  BY <1>2, ArraysSame
<1>3. CASE Set(t)
  <2>1. /\ Construct(t).work \in {"set", "own"} /\ b' = b
        /\ todo[t] # {} /\ phase[t] = "work" /\ Construct(t).kind \in {"for", "each"}
        /\ a' = [a EXCEPT ![Current(t)] = IF Construct(t).work = "own" THEN t ELSE Current(t)]
    BY <1>3 DEF Set, Working, Runs
  <2>2. Construct(t).kind = "for"
    BY <1>0, <2>1, ReadyFacts DEF Fits, LoopWorks, Construct
  <2>3. CASE Construct(t).work = "own"
    <3>1. \A k \in Constructs : prog.script[k].work # "set"
      BY <1>0, <2>3 DEF Ready, Shaped, Constructs, Construct
    <3>2. \A i \in Iterations : a'[i] = a[i] \/ a'[i] = t
      BY <2>1, <2>3 DEF Functions
    <3>3. ASSUME NEW k \in Constructs, NEW i \in Completed(k)'
          PROVE  Written(k, i)'
      <4> SUFFICES ASSUME prog.script[k].work \in Deriving PROVE Written(k, i)'
        BY <1>0, <3>1
      <4>1. k # at[t]
        BY <2>3 DEF Construct, Deriving
      <4>2. i \in Completed(k)
        BY <1>2, <3>3, <4>1
      <4> QED
        BY <1>0, <2>1, <3>1, <4>2 DEF ArraysHold, Derived
    <3> QED
      BY <1>0, <3>2, <3>3 DEF ArraysHold, Threads
  <2>4. CASE Construct(t).work = "set"
    <3>1. ~Has("own")
      BY <1>0, <2>4 DEF Ready, Shaped, Constructs, Construct, Has
    <3>2. Executes(t)
      BY <1>0, <1>3, <2>4, ArrayActs
    <3> DEFINE j == Current(t)
    <3>3. j \in Iterations /\ Completed(here)' = Completed(here) \cup {j}
      BY <1>1, <2>1, <2>2, <3>2, Executed DEF AtWork
    <3> HIDE DEF j
    <3>4. a'[j] = j /\ \A i \in Iterations \ {j} : a'[i] = a[i]
      BY <2>1, <2>4, <3>3 DEF Functions, j
    <3>5. ASSUME NEW k \in Constructs, NEW i \in Completed(k)'
          PROVE  Written(k, i)'
      <4>1. CASE k = at[t]
        <5>1. prog.script[k].work = "set" /\ (i = j \/ i \in Completed(k))
          BY <1>1, <2>4, <3>3, <3>5, <4>1 DEF Construct
        <5>2. a'[i] = i
          BY <1>0, <3>3, <3>4, <5>1 DEF ArraysHold
        <5> QED
          BY <1>0, <5>1, <5>2 DEF Deriving
      <4>2. CASE k # at[t] /\ prog.script[k].work \in {"set"} \cup Deriving
        <5>1. i \in Completed(k) /\ i \in Iterations
          BY <1>0, <1>2, <3>5, <4>2
        <5>2. prog.script[k].work = "set" => a'[i] = i
          BY <3>4, <5>1 DEF ArraysHold
        <5>3. prog.script[k].work \in Deriving => b'[i] = Derived(prog.script[k].work, i)
          BY <2>1, <5>1 DEF ArraysHold
        <5> QED
          BY <1>0, <5>2, <5>3 DEF Derived
      <4> QED
        BY <1>0, <4>1, <4>2
    <3> QED
      BY <1>0, <3>1, <3>5 DEF ArraysHold
  <2> QED
    BY <2>1, <2>3, <2>4
<1>4. CASE Derive(t)
  <2>1. /\ a' = a /\ todo[t] # {} /\ phase[t] = "work" /\ Construct(t).work \in Deriving
    BY <1>4 DEF Derive, Working, Runs, Deriving
  <2>2. Construct(t).kind = "for" /\ Executes(t)
    BY <1>0, <1>4, <2>1, ArrayActs
  <2> DEFINE j == Current(t)
  <2>3. j \in Iterations /\ Completed(here)' = Completed(here) \cup {j}
    BY <1>1, <2>1, <2>2, Executed DEF AtWork
  <2>4. b'[j] = Derived(Construct(t).work, j) /\ \A i \in Iterations \ {j} : b'[i] = b[i]
    BY <1>0, <1>4, <2>3, DerivedIs
  <2> HIDE DEF j
  <2>5. ASSUME NEW k \in Constructs, NEW i \in Completed(k)'
        PROVE  Written(k, i)'
    <3>1. CASE k = at[t]
      <4>1. prog.script[k] = Construct(t) /\ (i = j \/ i \in Completed(k))
        BY <1>1, <2>3, <2>5, <3>1 DEF Construct
      <4>2. b'[i] = Derived(prog.script[k].work, i)
        BY <1>0, <2>1, <2>3, <2>4, <4>1 DEF ArraysHold
      <4> QED
        BY <1>0, <2>1, <4>1, <4>2 DEF Deriving, Derived
    <3>2. CASE k # at[t] /\ prog.script[k].work \in {"set"} \cup Deriving
      <4>1. i \in Completed(k) /\ i \in Iterations
        BY <1>0, <1>2, <2>5, <3>2
      <4>2. prog.script[k].work = "set" => a'[i] = i
        BY <2>1, <4>1 DEF ArraysHold
      <4>3. prog.script[k].work \in Deriving => b'[i] = Derived(prog.script[k].work, i)
        BY <2>4, <4>1, <2>1, <1>1, <3>2 DEF ArraysHold, Ready, Shaped, Constructs, Construct
      <4> QED
        BY <1>0, <4>2, <4>3 DEF Derived
    <3> QED
      BY <1>0, <3>1, <3>2
  <2> QED
    BY <1>0, <2>1, <2>5 DEF ArraysHold, Threads
<1>5. CASE ~Set(t) /\ ~Derive(t)
  <2>1. a' = a
    BY <1>5 DEF Act, EnterLoop, GrabChunk, Ordered, Update, Load, Store, UpdateCopy,
         LeaveLoop, ExecuteSingle, EnterSlice, Accumulate, LeaveSlice, Report, LeaveBarrier,
         StartRoot, Conclude, dataVars
  <2>2. ASSUME NEW k \in Constructs, prog.script[k].work \in {"set"} \cup Deriving
        PROVE  Completed(k)' = Completed(k)
    BY <1>5, <2>2, ArraysSame
  <2>3. ASSUME NEW k \in Constructs, prog.script[k].work \in Deriving
        PROVE  b' = b
    <3>1. \A l \in Constructs : prog.script[l].work \in Planning => l = k
      BY <2>3 DEF Ready, Shaped, Constructs
    <3>2. Construct(t).work \notin Planning
      BY <1>0, <2>3, <3>1 DEF Construct, Deriving, Planning
    <3> QED
      BY <1>5, <3>2 DEF Act, EnterLoop, GrabChunk, Ordered, Update, Load, Store, UpdateCopy,
         LeaveLoop, ExecuteSingle, EnterSlice, Accumulate, LeaveSlice, Report, LeaveBarrier,
         StartRoot, Conclude, dataVars, Working, Planning
  <2>4. ASSUME NEW k \in Constructs, NEW i \in Completed(k)'
        PROVE  Written(k, i)'
    BY <1>0, <2>1, <2>2, <2>3, <2>4 DEF ArraysHold, Derived
  <2> QED
    BY <1>0, <2>1, <2>4 DEF ArraysHold, Threads
<1> QED
  BY <1>3, <1>4, <1>5

-----------------------------------------------------------------------------
(* The prefix sums in blocks.                                              *)

LEMMA SliceBounds ==
  ASSUME NEW t \in Threads
  PROVE  /\ t \in Nat /\ Begin(t) \in Nat /\ End(t) \in Nat
         /\ Begin(t) <= End(t) /\ End(t) < N
         /\ t = 0 => Begin(t) = 0
         /\ t # 0 => Begin(t) # 0 /\ t - 1 \in Threads /\ End(t - 1) = Begin(t) - 1
<1> DEFINE ts == t * size
           ns == NumThreads * size
<1>1. t \in Nat /\ t < NumThreads /\ NumThreads \in Nat /\ size \in Nat \ {0} /\ more \in Nat
  BY SizeFacts, TeamFacts DEF Threads
<1>2. ts \in Nat /\ ns \in Nat /\ ts + size <= ns /\ N = ns + more /\ (t + 1) * size = ts + size
  BY <1>1, SizeFacts, Scaled
<1>3. Begin(t) = ts /\ End(t) = IF t = NumThreads - 1 THEN N - 1 ELSE ts + size - 1
  <2> DEFINE te == (t + 1) * size
  <2>1. Begin(t) = ts /\ End(t) = IF t = NumThreads - 1 THEN N - 1 ELSE te - 1
    BY DEF Begin, End
  <2>2. te = ts + size
    BY <1>2
  <2>3. ts \in Int /\ size \in Int
    BY <1>1, <1>2
  <2> HIDE DEF te, ts
  <2> QED
    BY <2>1, <2>2, <2>3
<1>4. t # 0 => /\ ts # 0 /\ t - 1 \in Threads /\ t - 1 # NumThreads - 1
               /\ End(t - 1) = ts - 1
  <2> SUFFICES ASSUME t # 0
               PROVE  /\ ts # 0 /\ t - 1 \in Threads /\ t - 1 # NumThreads - 1
                      /\ End(t - 1) = ts - 1
    OBVIOUS
  <2>1. t - 1 \in Nat /\ t - 1 < t
    BY <1>1
  <2>2. (t - 1) * size + size <= t * size /\ (t - 1) * size \in Nat
    BY <1>1, <2>1, Scaled
  <2>3. ts # 0
    BY <1>1, <2>2
  <2>4. (t - 1) + 1 = t
    BY <1>1
  <2>5. End(t - 1) = ((t - 1) + 1) * size - 1
    BY <1>1 DEF End
  <2> QED
    BY <1>1, <2>3, <2>4, <2>5 DEF Threads
<1>5. t = 0 => ts = 0
  BY <1>1
<1> HIDE DEF ts, ns
<1> QED
  BY <1>1, <1>2, <1>3, <1>4, <1>5

(* Every iteration is in the slice of a thread.                            *)
LEMMA SlicesCover ==
  ASSUME NEW i \in Iterations
  PROVE  \E t \in Threads : i \in Begin(t)..End(t)
<1>0. i \in Nat /\ i < N /\ NumThreads \in Nat \ {0} /\ size \in Nat \ {0}
  BY SizeFacts, TeamFacts DEF Iterations
<1> DEFINE t == i \div size
<1>1. t \in Nat /\ t * size <= i /\ i < t * size + size
  BY <1>0, Division
<1> HIDE DEF t
<1>2. CASE t < NumThreads - 1
  <2>1. t \in Threads /\ (t + 1) * size = t * size + size /\ t # NumThreads - 1
    BY <1>0, <1>1, <1>2 DEF Threads
  <2> DEFINE te == (t + 1) * size
  <2>2. Begin(t) = t * size /\ End(t) = t * size + size - 1
    <3>1. Begin(t) = t * size /\ End(t) = te - 1
      BY <2>1 DEF Begin, End
    <3>2. te = t * size + size
      BY <2>1
    <3>3. t * size \in Int /\ size \in Int
      BY <1>0, <1>1
    <3> DEFINE ts == t * size
    <3> HIDE DEF te, ts
    <3> QED
      BY <3>1, <3>2, <3>3 DEF ts
  <2>3. t * size \in Nat
    BY <1>0, <1>1
  <2>4. i \in Begin(t)..End(t)
    BY <1>0, <1>1, <2>2, <2>3
  <2> QED
    BY <2>1, <2>4
<1>3. CASE ~(t < NumThreads - 1)
  <2> DEFINE last == NumThreads - 1
  <2>1. last \in Threads /\ last \in Nat /\ last <= t
    BY <1>0, <1>1, <1>3 DEF Threads
  <2>2. last * size <= t * size /\ last * size \in Nat /\ t * size \in Nat
    BY <1>0, <1>1, <2>1
  <2>3. Begin(last) = last * size /\ End(last) = N - 1
    BY DEF Begin, End
  <2>4. i \in Begin(last)..End(last)
    BY <1>0, <1>1, <2>2, <2>3, TeamFacts
  <2> QED
    BY <2>1, <2>4
<1> QED
  BY <1>2, <1>3

LEMMA BeforeFacts ==
  ASSUME NEW t \in Threads
  PROVE  /\ Before(t) \in Int
         /\ PrefixSum[Begin(t)] = Before(t) + Begin(t)
         /\ t = 0 => Before(t) = 0
         /\ t # 0 => Before(t) = PrefixSum[End(t - 1)]
<1>1. CASE t = 0
  BY <1>1, SliceBounds, PrefixSums DEF Before
<1>2. CASE t # 0
  <2>1. Begin(t) \in Nat \ {0} /\ Begin(t) - 1 \in Nat /\ End(t - 1) = Begin(t) - 1
    BY <1>2, SliceBounds
  <2>2. Before(t) = PrefixSum[Begin(t) - 1]
    BY <1>2 DEF Before
  <2> QED
    BY <1>2, <2>1, <2>2, PrefixSums
<1> QED
  BY <1>1, <1>2

(* The sums of the blocks before that of a thread add up.                  *)
LEMMA OffsetIs ==
  ASSUME NEW f, \A u \in Threads : f[u] = PrefixSum[End(u)] - Before(u), NEW t \in Threads
  PROVE  SumFunctionOnSet(f, 0..t - 1) = Before(t)
<1>0. \A u \in Threads : /\ u \in Nat /\ u < NumThreads /\ f[u] \in Int
                         /\ PrefixSum[End(u)] \in Int /\ Before(u) \in Int
  <2> SUFFICES ASSUME NEW u \in Threads
               PROVE  /\ u \in Nat /\ u < NumThreads /\ f[u] \in Int
                      /\ PrefixSum[End(u)] \in Int /\ Before(u) \in Int
    OBVIOUS
  <2>1. End(u) \in Nat /\ u \in Nat /\ u < NumThreads
    BY SliceBounds, TeamFacts DEF Threads
  <2>2. PrefixSum[End(u)] \in Int /\ Before(u) \in Int
    BY <2>1, PrefixSums, BeforeFacts
  <2> QED
    BY <2>1, <2>2
<1>1. /\ SumFunctionOnSet(f, {}) = 0
      /\ \A S \in SUBSET Threads : \A x \in Threads \ S :
           SumFunctionOnSet(f, S \cup {x}) = f[x] + SumFunctionOnSet(f, S)
  BY <1>0, TeamSize, SumFacts
<1> DEFINE B == {u \in Threads : SumFunctionOnSet(f, 0..u - 1) # Before(u)}
<1> SUFFICES ASSUME B # {} PROVE FALSE
  OBVIOUS
<1>2. PICK n \in B : \A m \in B : n <= m
  BY <1>0, LeastNumber
<1>3. n \in Threads /\ n \in Nat /\ SumFunctionOnSet(f, 0..n - 1) # Before(n)
  BY <1>0
<1>4. n # 0
  <2> SUFFICES ASSUME n = 0 PROVE FALSE
    OBVIOUS
  <2>1. 0..n - 1 = {}
    OBVIOUS
  <2> QED
    BY <1>1, <1>3, <2>1, BeforeFacts
<1> DEFINE p == n - 1
<1>5. p \in Threads /\ p \in Nat /\ p \notin B /\ p < n
  BY <1>2, <1>3, <1>4, SliceBounds
<1>6. SumFunctionOnSet(f, 0..p - 1) = Before(p)
  BY <1>5
<1>7. /\ 0..n - 1 = (0..p - 1) \cup {p} /\ 0..p - 1 \in SUBSET Threads /\ p \notin 0..p - 1
  <2>1. \A m \in 0..p - 1 : m \in Int /\ 0 <= m /\ m < p
    BY <1>5
  <2>2. p < NumThreads /\ NumThreads \in Nat
    BY <1>0, <1>5, TeamFacts
  <2> QED
    BY <1>3, <1>4, <1>5, <2>1, <2>2 DEF Threads
<1> HIDE DEF p, B
<1>8. SumFunctionOnSet(f, 0..n - 1) = f[p] + Before(p)
  BY <1>1, <1>5, <1>6, <1>7
<1>9. Before(n) = PrefixSum[End(p)]
  BY <1>3, <1>4, BeforeFacts DEF p
<1> QED
  BY <1>0, <1>3, <1>5, <1>8, <1>9

LEMMA PlannedFacts ==
  ASSUME Ready, Planned(prog.script)
  PROVE  /\ 1 \in Constructs /\ 2 \in Constructs /\ 3 \in Constructs /\ 4 \in Constructs
         /\ \A k \in Constructs : k \in {1, 2, 3, 4}
         /\ prog.script[1].kind = "single" /\ prog.script[1].work = "plan" /\ prog.script[1].waits
         /\ prog.script[2].kind = "each" /\ prog.script[2].work = "scan" /\ ~prog.script[2].waits
         /\ prog.script[3].kind = "barrier" /\ prog.script[3].waits
         /\ prog.script[4].kind = "each" /\ prog.script[4].work = "offset" /\ prog.script[4].waits
<1>1. Constructs = 1..4
  BY DEF Planned, Constructs
<1>2. /\ 1 \in Constructs /\ 2 \in Constructs /\ 3 \in Constructs /\ 4 \in Constructs
      /\ \A k \in Constructs : k \in {1, 2, 3, 4}
  BY <1>1
<1> QED
  BY <1>2, ReadyFacts DEF Planned, Fits, ConstructOK

(* Behind its single, the size of the blocks is planned.                   *)
LEMMA SizePlanned ==
  ASSUME Ready, SinglesExecuted, BlocksSummed, Planned(prog.script),
         NEW t \in Threads, at[t] > 1
  PROVE  /\ block_size = size
         /\ \A u \in Threads : Slice(u) = Begin(u)..End(u)
<1>1. /\ 1 \in Constructs /\ prog.script[1].kind = "single" /\ prog.script[1].waits
      /\ at[t] \in Nat
  BY PlannedFacts, ReadyFacts
<1>2. \A u \in Threads : Finished(u, 1)
  BY <1>1, AllFinished
<1>3. claimed[1] \in Threads
  BY <1>1, <1>2, ReadyFacts, TeamFacts DEF SinglesExecuted, ExecutedOnce, Threads
<1>4. block_size = size
  BY <1>2, <1>3 DEF BlocksSummed
<1> QED
  BY <1>4 DEF Slice, Begin, End

(* What a thread does in the prefix sums.                                  *)
LEMMA PlannedActs ==
  ASSUME Ready, HandedOut, SinglesExecuted, Planned(prog.script), NEW t \in Threads,
         Act(t) \/ StartRoot(t) \/ Conclude(t)
  PROVE  /\ at[t] = 1 => \/ Claim(t) /\ UNCHANGED dataVars
                         \/ Skip(t) /\ UNCHANGED dataVars
                         \/ ExecuteSingle(t) \/ LeaveBarrier(t)
         /\ at[t] = 2 => EnterSlice(t) \/ Accumulate(t) \/ LeaveSlice(t)
         /\ at[t] = 3 => (Skip(t) /\ UNCHANGED dataVars) \/ LeaveBarrier(t)
         /\ at[t] = 4 => EnterSlice(t) \/ Accumulate(t) \/ LeaveSlice(t) \/ LeaveBarrier(t)
<1> USE DEF Construct, Runs
<1>1. CASE at[t] = 1
  <2>1. Construct(t).kind = "single" /\ Construct(t).work = "plan"
    BY <1>1, PlannedFacts
  <2>2. ~StartRoot(t)
    BY <2>1 DEF StartRoot
  <2>3. ~Conclude(t)
    <3>1. ~InStore(t, 1)
      BY <2>1, PlannedFacts DEF SinglesExecuted, ExecutedOnce
    <3> QED
      BY <1>1, <3>1 DEF Conclude, InStore
  <2> QED
    BY <1>1, <2>1, <2>2, <2>3, SingleActs
<1>2. CASE at[t] = 2
  <2>1. /\ Construct(t).kind = "each" /\ Construct(t).work = "scan"
        /\ phase[t] # "arrived"
    BY <1>2, PlannedFacts DEF HandedOut
  <2> QED
    BY <1>2, <2>1 DEF Act, EnterLoop, EnterFor, GrabChunk, Grab, Set, Ordered, Derive, Update,
       Load, Store, UpdateCopy, LeaveLoop, Exhausted, Claim, Skip, ExecuteSingle, Report,
       LeaveBarrier, Pass, StartRoot, Conclude, Working
<1>3. CASE at[t] = 3
  <2>1. Construct(t).kind = "barrier"
    BY <1>3, PlannedFacts
  <2> QED
    BY <1>3, <2>1 DEF Act, EnterLoop, EnterFor, GrabChunk, Grab, Set, Ordered, Derive, Update,
       Load, Store, UpdateCopy, LeaveLoop, Exhausted, Claim, ExecuteSingle, Report,
       EnterSlice, Accumulate, LeaveSlice, StartRoot, Conclude, Working
<1>4. CASE at[t] = 4
  <2>1. Construct(t).kind = "each" /\ Construct(t).work = "offset"
    BY <1>4, PlannedFacts
  <2> QED
    BY <1>4, <2>1 DEF Act, EnterLoop, EnterFor, GrabChunk, Grab, Set, Ordered, Derive, Update,
       Load, Store, UpdateCopy, LeaveLoop, Exhausted, Claim, Skip, ExecuteSingle, Report,
       StartRoot, Conclude, Working
<1> QED
  BY <1>1, <1>2, <1>3, <1>4

(* The other threads have other slices.                                    *)
LEMMA OthersSummed ==
  ASSUME Ready, HandedOut, Functions, SinglesExecuted, BlocksSummed, Planned(prog.script),
         NEW t \in Threads, Act(t) \/ StartRoot(t) \/ Conclude(t), NEW u \in Threads \ {t}
  PROVE  SummedBy(u)'
<1>0. /\ Moves(t) /\ OthersStay(t) /\ SummedBy(u) /\ at[u] \in Nat
      /\ at'[u] = at[u] /\ phase'[u] = phase[u] /\ todo'[u] = todo[u] /\ local'[u] = local[u]
      /\ at[t] \in {1, 2, 3, 4} /\ at[t] \in Constructs
  BY EachMoves, DataMoves, ReadyFacts, PlannedFacts DEF Moves, OthersStay, BlocksSummed
<1>1. block_sum'[u] = block_sum[u]
  BY <1>0, PlannedActs DEF Claim, Skip, ExecuteSingle, EnterSlice, Accumulate, LeaveSlice,
     LeaveBarrier, dataVars, BlocksSummed
<1>2. \A i \in Scanned(u) : b'[i] = b[i]
  <2> SUFFICES ASSUME NEW i \in Scanned(u) PROVE b'[i] = b[i]
    OBVIOUS
  <2>1. i \in Begin(u)..End(u) /\ at[u] > 1
    BY <1>0 DEF Scanned, InLoop
  <2>2. i \in Slice(u)
    BY <2>1, SizePlanned
  <2>3. CASE Accumulate(t)
    <3>1. Current(t) \in todo[t]
      BY <2>3, CurrentFacts DEF Accumulate, Working, Ready
    <3>2. todo[t] \subseteq Slice(t)
      BY <1>0, <2>3, PlannedFacts DEF Accumulate, Working, Runs, Ready, LoopInv, Shares, AtWork,
         Construct
    <3>3. Slice(t) \cap Slice(u) = {}
      BY SlicesDisjoint DEF Ready, LoopInv, ControlTypes
    <3>4. Current(t) # i
      BY <2>2, <3>1, <3>2, <3>3
    <3>5. \E v : b' = [b EXCEPT ![Current(t)] = v]
      BY <2>3 DEF Accumulate
    <3> QED
      BY <3>4, <3>5
  <2>4. CASE ~Accumulate(t)
    BY <1>0, <2>4, PlannedActs DEF Claim, Skip, ExecuteSingle, EnterSlice, LeaveSlice,
       LeaveBarrier, dataVars
  <2> QED
    BY <2>3, <2>4
<1>3. Scanned(u)' = Scanned(u) /\ (InLoop(u, 4)' <=> InLoop(u, 4))
  BY <1>0 DEF Scanned, Begin, End, InLoop
<1>4. \A i : Missing(u, i)' = Missing(u, i)
  BY <1>0 DEF Missing, Finished, InLoop, Before, Begin
<1> QED
  BY <1>0, <1>1, <1>2, <1>3, <1>4 DEF SummedBy, Before, Begin, End

(* What a thread has passed in its scan, and in the end its offset.        *)
LEMMA OwnSummed ==
  ASSUME Ready, HandedOut, Functions, SinglesExecuted, BlocksSummed, Planned(prog.script),
         NEW t \in Threads, Act(t) \/ StartRoot(t) \/ Conclude(t)
  PROVE  SummedBy(t)'
<1> USE DEF Construct, Runs
<1>0. /\ Moves(t) /\ SummedBy(t) /\ at[t] \in Nat /\ at[t] \in {1, 2, 3, 4}
      /\ at[t] \in Constructs
      /\ at \in [Threads -> Nat \ {0}]
      /\ phase \in [Threads -> {"enter", "arrived", "work", "store"}]
      /\ todo \in [Threads -> SUBSET Indices]
      /\ at'[t] = at[t] \/ (at'[t] = at[t] + 1 /\ phase'[t] = "enter")
  BY EachMoves, ReadyFacts, PlannedFacts DEF Moves, BlocksSummed
<1> DEFINE lo == Begin(t)
           hi == End(t)
           off == Before(t)
<1>b. /\ lo \in Nat /\ hi \in Nat /\ lo <= hi /\ hi < N /\ off \in Int
      /\ PrefixSum[lo] = off + lo
      /\ \A i \in lo..hi : i \in Nat /\ PrefixSum[i] \in Int /\ i \in Iterations
  <2>1. lo \in Nat /\ hi \in Nat /\ lo <= hi /\ hi < N
    BY SliceBounds
  <2>2. off \in Int /\ PrefixSum[lo] = off + lo
    BY BeforeFacts
  <2> HIDE DEF lo, hi, off
  <2>3. \A i \in lo..hi : i \in Nat /\ i \in Iterations
    BY <2>1, TeamFacts DEF Iterations
  <2> QED
    BY <2>1, <2>2, <2>3, PrefixSums
<1>c. /\ \A i : Missing(t, i) = IF Finished(t, 4) \/ (InLoop(t, 4) /\ i \notin todo[t])
                                THEN 0 ELSE off
      /\ \A i : Missing(t, i)' = IF Finished(t, 4)' \/ (InLoop(t, 4)' /\ i \notin todo'[t])
                                 THEN 0 ELSE off
      /\ Scanned(t) = IF at[t] > 2 THEN lo..hi
                      ELSE IF InLoop(t, 2) THEN (lo..hi) \ todo[t] ELSE {}
      /\ Scanned(t)' = IF at'[t] > 2 THEN lo..hi
                       ELSE IF InLoop(t, 2)' THEN (lo..hi) \ todo'[t] ELSE {}
  BY DEF Missing, Scanned, Before, Begin, End
<1>d. /\ \A i \in Scanned(t) : b[i] = PrefixSum[i] - Missing(t, i)
      /\ at[t] > 2 => block_sum[t] = PrefixSum[hi] - off
      /\ InLoop(t, 4) => local[t] = off
  BY <1>0 DEF SummedBy
<1>e. SUFFICES /\ \A i \in Scanned(t)' : b'[i] = PrefixSum[i] - Missing(t, i)'
               /\ at'[t] > 2 => block_sum'[t] = PrefixSum[hi] - off
               /\ InLoop(t, 4)' => local'[t] = off
  BY DEF SummedBy, Before, Begin, End
<1>f. at[t] > 1 => Slice(t) = lo..hi
  BY SizePlanned
<1> HIDE DEF lo, hi, off
<1>1. CASE at[t] = 1
  <2>1. Scanned(t)' = {} /\ ~InLoop(t, 4)' /\ ~(at'[t] > 2)
    BY <1>0, <1>1, <1>c DEF InLoop, AtWork
  <2> QED
    BY <2>1
<1>2. CASE at[t] = 2
  <2>0. Construct(t).kind = "each" /\ Construct(t).work = "scan" /\ ~Construct(t).waits
    BY <1>2, PlannedFacts
  <2>1. CASE EnterSlice(t)
    <3>1. /\ at'[t] = 2 /\ phase'[t] = "work" /\ todo'[t] = lo..hi
      BY <1>0, <1>2, <1>f, <2>1 DEF EnterSlice, Becomes
    <3>2. Scanned(t)' = {} /\ ~InLoop(t, 4)'
      BY <1>c, <3>1 DEF InLoop, AtWork
    <3> QED
      BY <3>1, <3>2
  <2>2. CASE Accumulate(t)
    <3> DEFINE i == Current(t)
    <3>1. /\ at'[t] = 2 /\ phase'[t] = "work" /\ phase[t] = "work" /\ todo'[t] = todo[t] \ {i}
          /\ b' = [b EXCEPT ![i] = i + IF i = Min(lo..hi) THEN 0 ELSE b[i - 1]]
          /\ todo[t] # {}
      BY <1>0, <1>2, <1>f, <2>0, <2>2 DEF Accumulate, Working, Finish
    <3>2. i \in todo[t] /\ todo[t] \subseteq lo..hi /\ \A j \in todo[t] : i <= j
      <4>1. i \in todo[t]
        BY <3>1, CurrentFacts DEF Ready
      <4>2. todo[t] \subseteq lo..hi
        <5>1. todo[t] \subseteq Slice(t)
          BY <1>0, <2>0, <3>1 DEF Ready, LoopInv, Shares, AtWork
        <5>2. Slice(t) = lo..hi
          BY <1>2, <1>f
        <5> QED
          BY <5>1, <5>2
      <4>3. \A j \in todo[t] : i <= j
        BY <3>1, CurrentFacts DEF Ready
      <4> QED
        BY <4>1, <4>2, <4>3
    <3> HIDE DEF i
    <3>3. Min(lo..hi) = lo
      <4>1. lo \in lo..hi /\ \A j \in lo..hi : lo <= j
        BY <1>b
      <4>2. \A j \in lo..hi : (\A k \in lo..hi : j <= k) => j = lo
        BY <1>b
      <4> QED
        BY <4>1, <4>2 DEF Min
    <3>4. \A j \in Iterations \ {i} : b'[j] = b[j]
      BY <3>1
    <3>5. /\ Scanned(t) = (lo..hi) \ todo[t] /\ Scanned(t)' = (lo..hi) \ (todo[t] \ {i})
          /\ \A j : Missing(t, j) = off /\ Missing(t, j)' = off
          /\ ~InLoop(t, 4)' /\ i \in lo..hi /\ i \in Iterations
      BY <1>2, <1>b, <1>c, <3>1, <3>2 DEF InLoop, Finished, AtWork
    <3>6. b'[i] = PrefixSum[i] - off
      <4>1. b'[i] = IF i = lo THEN i ELSE i + b[i - 1]
        BY <3>1, <3>3, <3>5 DEF Functions
      <4>2. CASE i = lo
        BY <1>b, <4>1, <4>2
      <4>3. CASE i # lo
        <5>1. i - 1 \in lo..hi /\ i - 1 \notin todo[t] /\ i \in Nat \ {0}
          <6>1. i \in Nat /\ lo <= i /\ i <= hi
            BY <1>b, <3>5
          <6>2. i - 1 \in lo..hi /\ i # 0 /\ ~(i <= i - 1)
            BY <1>b, <4>3, <6>1
          <6> QED
            BY <3>2, <6>1, <6>2
        <5>2. b[i - 1] = PrefixSum[i - 1] - off
          BY <1>d, <3>5, <5>1
        <5>3. PrefixSum[i] = PrefixSum[i - 1] + i /\ PrefixSum[i - 1] \in Int
          BY <1>b, <5>1, PrefixSums
        <5>4. b'[i] = i + b[i - 1]
          BY <4>1, <4>3
        <5> QED
          BY <1>b, <5>1, <5>2, <5>3, <5>4
      <4> QED
        BY <4>2, <4>3
    <3>7. ASSUME NEW j \in Scanned(t)'
          PROVE  b'[j] = PrefixSum[j] - off
      <4>1. CASE j = i
        BY <3>6, <4>1
      <4>2. CASE j # i
        <5>1. j \in Scanned(t) /\ j \in Iterations \ {i}
          BY <1>b, <3>5, <3>7, <4>2
        <5> QED
          BY <1>d, <3>4, <3>5, <5>1
      <4> QED
        BY <4>1, <4>2
    <3> QED
      BY <3>1, <3>5, <3>7
  <2>3. CASE LeaveSlice(t)
    <3>1. /\ at'[t] = 3 /\ phase'[t] = "enter" /\ phase[t] = "work" /\ todo[t] = {}
          /\ b' = b /\ block_sum' = [block_sum EXCEPT ![t] = b[Max(lo..hi)]]
      BY <1>0, <1>2, <1>f, <2>0, <2>3 DEF LeaveSlice, Done, GoOn
    <3>2. Max(lo..hi) = hi
      <4>1. hi \in lo..hi /\ \A j \in lo..hi : j <= hi
        BY <1>b
      <4>2. \A j \in lo..hi : (\A k \in lo..hi : j >= k) => j = hi
        BY <1>b
      <4> QED
        BY <4>1, <4>2 DEF Max
    <3>3. /\ Scanned(t) = lo..hi /\ Scanned(t)' = lo..hi
          /\ \A j : Missing(t, j) = off /\ Missing(t, j)' = off
          /\ ~InLoop(t, 4)' /\ hi \in lo..hi
      BY <1>2, <1>b, <1>c, <3>1 DEF InLoop, Finished, AtWork
    <3>4. block_sum'[t] = b[hi]
      BY <3>1, <3>2 DEF BlocksSummed
    <3> QED
      BY <1>d, <3>1, <3>3, <3>4
  <2> QED
    BY <1>2, <2>1, <2>2, <2>3, PlannedActs
<1>3. CASE at[t] = 3
  <2>1. /\ b' = b /\ block_sum' = block_sum
    BY <1>3, PlannedActs DEF Skip, LeaveBarrier, dataVars
  <2>2. Skip(t) \/ LeaveBarrier(t)
    BY <1>3, PlannedActs
  <2>3. (at'[t] = 3 /\ phase'[t] = "arrived") \/ (at'[t] = 4 /\ phase'[t] = "enter")
    BY <1>0, <1>3, <2>2 DEF Skip, Becomes, LeaveBarrier, Pass, GoOn
  <2>4. /\ Scanned(t) = lo..hi /\ Scanned(t)' = lo..hi
        /\ \A j : Missing(t, j) = off /\ Missing(t, j)' = off
        /\ ~InLoop(t, 4)'
    BY <1>3, <1>c, <2>3 DEF InLoop, Finished, AtWork
  <2> QED
    BY <1>3, <1>d, <2>1, <2>4
<1>4. CASE at[t] = 4
  <2>0. Construct(t).kind = "each" /\ Construct(t).work = "offset" /\ Construct(t).waits
    BY <1>4, PlannedFacts
  <2>s. /\ Scanned(t) = lo..hi /\ Scanned(t)' = lo..hi /\ block_sum[t] = PrefixSum[hi] - off
        /\ \A i \in lo..hi : b[i] = PrefixSum[i] - Missing(t, i)
    BY <1>0, <1>4, <1>c, <1>d
  <2>1. CASE EnterSlice(t)
    <3>1. /\ at'[t] = 4 /\ phase'[t] = "work" /\ phase[t] = "enter" /\ todo'[t] = lo..hi
          /\ local' = [local EXCEPT ![t] = SumBefore(t)]
          /\ b' = b /\ block_sum' = block_sum
      BY <1>0, <1>4, <1>f, <2>0, <2>1 DEF EnterSlice, Becomes, Private
    <3>2. \A u \in Threads : block_sum[u] = PrefixSum[End(u)] - Before(u)
      <4>1. \A u \in Threads : Finished(u, 2)
        BY <1>4, PlannedFacts, AllFinished
      <4>2. \A u \in Threads : at[u] > 2
        BY <4>1, PlannedFacts DEF Finished, HandedOut
      <4> QED
        BY <4>2 DEF BlocksSummed, SummedBy
    <3>3. SumBefore(t) = off
      BY <3>2, OffsetIs DEF SumBefore, off
    <3>4. local'[t] = off
      BY <3>1, <3>3 DEF Functions
    <3>5. \A i \in lo..hi : Missing(t, i) = off /\ Missing(t, i)' = off
      BY <1>4, <1>c, <3>1 DEF InLoop, Finished, AtWork
    <3> QED
      BY <2>s, <3>1, <3>4, <3>5
  <2>2. CASE Accumulate(t)
    <3> DEFINE i == Current(t)
    <3>1. /\ at'[t] = 4 /\ phase'[t] = "work" /\ phase[t] = "work" /\ todo'[t] = todo[t] \ {i}
          /\ b' = [b EXCEPT ![i] = b[i] + local[t]] /\ local' = local /\ block_sum' = block_sum
          /\ todo[t] # {}
      <4>1. b' = [b EXCEPT ![i] = b[i] + local[t]]
        BY <2>0, <2>2 DEF Accumulate
      <4> QED
        BY <1>0, <1>4, <2>0, <2>2, <4>1 DEF Accumulate, Working, Finish
    <3>2. i \in todo[t] /\ todo[t] \subseteq lo..hi
      <4>1. i \in todo[t]
        BY <3>1, CurrentFacts DEF Ready
      <4>2. todo[t] \subseteq lo..hi
        <5>1. todo[t] \subseteq Slice(t)
          BY <1>0, <2>0, <3>1 DEF Ready, LoopInv, Shares, AtWork
        <5>2. Slice(t) = lo..hi
          BY <1>4, <1>f
        <5> QED
          BY <5>1, <5>2
      <4> QED
        BY <4>1, <4>2
    <3> HIDE DEF i
    <3>3. local[t] = off /\ i \in Iterations /\ i \in lo..hi
      BY <1>4, <1>b, <1>d, <3>1, <3>2 DEF InLoop, AtWork
    <3>4. b'[i] = b[i] + off /\ \A j \in Iterations \ {i} : b'[j] = b[j]
      BY <3>1, <3>3 DEF Functions
    <3>5. /\ Missing(t, i) = off
          /\ \A j : Missing(t, j)' = IF j = i THEN 0 ELSE Missing(t, j)
      <4>1. InLoop(t, 4) /\ InLoop(t, 4)' /\ ~Finished(t, 4) /\ ~Finished(t, 4)'
        BY <1>4, <3>1 DEF InLoop, Finished, AtWork
      <4> QED
        BY <1>c, <3>1, <3>2, <4>1
    <3>6. ASSUME NEW j \in lo..hi
          PROVE  b'[j] = PrefixSum[j] - Missing(t, j)'
      <4>1. CASE j = i
        <5>1. b[i] = PrefixSum[i] - off /\ PrefixSum[i] \in Int
          BY <1>b, <2>s, <3>3, <3>5
        <5>2. b'[j] = PrefixSum[j] /\ PrefixSum[j] \in Int
          BY <1>b, <3>4, <4>1, <5>1
        <5>3. Missing(t, j)' = 0
          <6>1. \A x : x = i => Missing(t, x)' = 0
            BY <3>5
          <6> QED
            BY <4>1, <6>1
        <5> QED
          BY <5>2, <5>3
      <4>2. CASE j # i
        BY <1>b, <2>s, <3>4, <3>5, <4>2
      <4> QED
        BY <4>1, <4>2
    <3> QED
      BY <2>s, <3>1, <3>3, <3>6
  <2>3. CASE LeaveSlice(t)
    <3>1. /\ at'[t] = 4 /\ phase'[t] = "arrived" /\ phase[t] = "work" /\ todo[t] = {}
          /\ b' = b /\ block_sum' = block_sum
      BY <1>0, <1>4, <2>0, <2>3 DEF LeaveSlice, Done, Becomes
    <3>2. \A j : Missing(t, j) = 0 /\ Missing(t, j)' = 0
      BY <1>4, <1>c, <3>1 DEF InLoop, Finished, AtWork
    <3> QED
      BY <2>s, <3>1, <3>2 DEF InLoop, AtWork
  <2>4. CASE LeaveBarrier(t)
    <3>1. /\ at'[t] = 5 /\ phase[t] = "arrived" /\ b' = b /\ block_sum' = block_sum
      BY <1>0, <1>4, <2>4 DEF LeaveBarrier, Pass, GoOn
    <3>2. \A j : Missing(t, j) = 0 /\ Missing(t, j)' = 0
      BY <1>4, <1>c, <3>1 DEF Finished
    <3> QED
      BY <2>s, <3>1, <3>2 DEF InLoop
  <2> QED
    BY <1>4, <2>1, <2>2, <2>3, <2>4, PlannedActs
<1> QED
  BY <1>0, <1>1, <1>2, <1>3, <1>4

LEMMA BlocksStep ==
  ASSUME Ready, HandedOut, Functions, SinglesExecuted, BlocksSummed,
         NEW t \in Threads, Act(t) \/ StartRoot(t) \/ Conclude(t)
  PROVE  BlocksSummed'
<1>0. /\ Moves(t) /\ OthersStay(t) /\ prog' = prog /\ at[t] \in Constructs
  BY EachMoves DEF Moves
<1> SUFFICES ASSUME Planned(prog.script)
             PROVE  /\ \A u \in Threads : claimed'[1] = u /\ Finished(u, 1)' => block_size' = size
                    /\ \A u \in Threads : SummedBy(u)'
                    /\ block_sum' = [u \in Threads |-> block_sum'[u]]
  BY <1>0 DEF BlocksSummed, Threads
<1>1. \A u \in Threads : SummedBy(u)'
  BY OwnSummed, OthersSummed
<1>2. /\ at[t] \in {1, 2, 3, 4} /\ 1 \in Constructs /\ prog.script[1].kind = "single"
      /\ prog.script[1].work = "plan"
  BY <1>0, PlannedFacts
<1>3. block_sum' = [u \in Threads |-> block_sum'[u]]
  BY <1>2, PlannedActs DEF Claim, Skip, ExecuteSingle, EnterSlice, Accumulate, LeaveSlice,
     LeaveBarrier, dataVars, BlocksSummed
<1>4. ASSUME NEW u \in Threads, claimed'[1] = u, Finished(u, 1)'
      PROVE  block_size' = size
  <2>0. /\ at[t] \in Nat /\ at \in [Threads -> Nat \ {0}]
        /\ phase \in [Threads -> {"enter", "arrived", "work", "store"}]
        /\ claimed \in [Constructs -> Threads \cup {Nobody}]
        /\ ExecutedOnce(1)
    BY <1>2, ReadyFacts DEF SinglesExecuted
  <2>1. CASE at[t] # 1
    <3>1. claimed'[1] = claimed[1] /\ Finished(u, 1)
      BY <1>0, <1>2, <1>4, <2>1, Elsewhere
    <3>2. block_size' = block_size
      BY <1>2, <2>1, PlannedActs
      DEF Skip, EnterSlice, Accumulate, LeaveSlice, LeaveBarrier, dataVars
    <3> QED
      BY <1>4, <3>1, <3>2 DEF BlocksSummed
  <2>2. CASE at[t] = 1
    <3>0. Construct(t).work = "plan"
      BY <1>2, <2>2 DEF Construct
    <3>1. CASE ExecuteSingle(t)
      BY <3>0, <3>1 DEF ExecuteSingle, size
    <3>2. CASE Claim(t) /\ UNCHANGED dataVars
      <4>1. claimed'[1] = t /\ at'[t] = 1 /\ phase'[t] = "work"
        BY <1>2, <2>0, <2>2, <3>2 DEF Claim, Runs, Becomes
      <4> QED
        BY <1>4, <4>1 DEF Finished
    <3>3. CASE Skip(t) /\ UNCHANGED dataVars
      <4>1. claimed' = claimed /\ block_size' = block_size /\ phase[t] = "enter"
        BY <3>3 DEF Skip, Runs, dataVars
      <4>2. u # t
        BY <1>4, <2>0, <2>2, <4>1 DEF ExecutedOnce, Finished, InLoop, AtWork
      <4>3. Finished(u, 1)
        BY <1>0, <1>4, <4>2, LeftOfOthers
      <4> QED
        BY <1>4, <4>1, <4>3 DEF BlocksSummed
    <3>4. CASE LeaveBarrier(t)
      <4>1. claimed' = claimed /\ block_size' = block_size /\ phase[t] = "arrived"
        BY <3>4 DEF LeaveBarrier, Pass, Runs
      <4>2. Finished(t, 1)
        BY <2>2, <4>1 DEF Finished
      <4>3. u # t => Finished(u, 1)
        BY <1>0, <1>4, LeftOfOthers
      <4> QED
        BY <1>4, <4>1, <4>2, <4>3 DEF BlocksSummed
    <3> QED
      BY <2>2, <3>1, <3>2, <3>3, <3>4, PlannedActs
  <2> QED
    BY <2>1, <2>2
<1> QED
  BY <1>1, <1>3, <1>4

(* When everybody is through, the blocks make up the prefix sums.          *)
LEMMA BlocksComplete ==
  ASSUME Ready, BlocksSummed, Planned(prog.script), \A t \in Threads : Out(t),
         NEW i \in Iterations
  PROVE  b[i] = PrefixSum[i]
<1>1. PICK t \in Threads : i \in Begin(t)..End(t)
  BY SlicesCover
<1>2. at[t] > 4
  <2>1. at[t] \in Nat \ {0} /\ at[t] \notin 1..4
    BY ReadyFacts DEF Out, Constructs, Planned
  <2> QED
    BY <2>1
<1>3. i \in Scanned(t) /\ Missing(t, i) = 0
  BY <1>1, <1>2, ReadyFacts DEF Scanned, Missing, Finished
<1>4. b[i] = PrefixSum[i] - Missing(t, i)
  BY <1>3 DEF BlocksSummed, SummedBy
<1>5. PrefixSum[i] \in Int
  BY PrefixSums, TeamFacts DEF Iterations
<1> QED
  BY <1>3, <1>4, <1>5

-----------------------------------------------------------------------------
(* What is printed in order.                                               *)

LEMMA OneLonger ==
  ASSUME NEW S, NEW n \in Nat, NEW s \in Seq(S), NEW v \in S, Len(s) = n
  PROVE  /\ DOMAIN Append(s, v) = 1..n + 1
         /\ Append(s, v)[n + 1] = v
         /\ \A i \in 1..n : Append(s, v)[i] = s[i]
         /\ Append(s, v) = [i \in 1..n + 1 |-> Append(s, v)[i]]
<1> DEFINE longer == Append(s, v)
<1>1. /\ longer \in Seq(S) /\ Len(longer) = n + 1
      /\ \A i \in 1..n : longer[i] = s[i]
      /\ longer[n + 1] = v
  BY AppendProperties
<1> HIDE DEF longer
<1>2. longer \in [1..n + 1 -> S] /\ DOMAIN longer = 1..n + 1
  BY <1>1, LenProperties
<1>3. longer = [i \in 1..n + 1 |-> longer[i]]
  BY <1>2
<1> QED
  BY <1>1, <1>2, <1>3 DEF longer

FirstNumbers(n) == [i \in 1..n |-> i - 1]

LEMMA NextNumber ==
  ASSUME NEW n \in Nat
  PROVE  Len(FirstNumbers(n)) = n /\ Append(FirstNumbers(n), n) = FirstNumbers(n + 1)
<1>1. FirstNumbers(n) \in Seq(Int) /\ Len(FirstNumbers(n)) = n
  BY DEF FirstNumbers
<1> DEFINE longer == Append(FirstNumbers(n), n)
<1>2. /\ longer = [i \in 1..n + 1 |-> longer[i]]
      /\ longer[n + 1] = n
      /\ \A i \in 1..n : longer[i] = FirstNumbers(n)[i]
  BY <1>1, OneLonger
<1> HIDE DEF longer
<1>3. \A i \in 1..n + 1 : longer[i] = i - 1
  <2>1. \A i \in 1..n : FirstNumbers(n)[i] = i - 1
    BY DEF FirstNumbers
  <2>2. \A i \in 1..n + 1 : i \in 1..n \/ i = n + 1
    OBVIOUS
  <2>3. \A i \in 1..n : longer[i] = i - 1
    BY <1>2, <2>1
  <2>4. longer[n + 1] = (n + 1) - 1
    BY <1>2
  <2> QED
    BY <2>2, <2>3, <2>4
<1>4. longer = FirstNumbers(n + 1)
  BY <1>2, <1>3 DEF FirstNumbers
<1> QED
  BY <1>1, <1>4 DEF longer

(* What a thread can do in an ordered loop.                                *)
LEMMA OrderedActs ==
  ASSUME Ready, NEW t \in Threads, at[t] \in Constructs, Orders(at[t]),
         Act(t) \/ StartRoot(t) \/ Conclude(t)
  PROVE  /\ Construct(t).kind = "for"
         /\ \/ EnterLoop(t) \/ GrabChunk(t) \/ LeaveLoop(t) \/ LeaveBarrier(t)
            \/ Set(t) /\ Construct(t).detail = "ordered"
            \/ Ordered(t)
         /\ Ordered(t) => phase[t] \in AtWork /\ todo[t] # {} /\ Executes(t)
<1>1. /\ Construct(t).kind = "for"
      /\ \/ Construct(t).work = "ordered" /\ Construct(t).detail # "ordered"
         \/ Construct(t).work = "own" /\ Construct(t).detail = "ordered"
  BY ReadyFacts DEF Fits, Construct, LoopWorks, Orders
<1>2. phase \in [Threads -> {"enter", "arrived", "work", "store"}]
  BY ReadyFacts
<1>3. ASSUME Ordered(t)
      PROVE  phase[t] \in AtWork /\ todo[t] # {} /\ Executes(t)
  <2>1. phase[t] \in AtWork /\ todo[t] # {}
    BY <1>1, <1>3 DEF Ordered, Working, Runs, AtWork, Ready, LoopInv, InPlace
  <2> QED
    BY <1>3, <2>1 DEF Ordered, Executes, Becomes
<1> QED
  BY <1>1, <1>3 DEF Act, Set, Derive, Update, Load, Store, UpdateCopy, Claim, Skip,
     ExecuteSingle, EnterSlice, Accumulate, LeaveSlice, Report, StartRoot, Conclude, Working, Runs

LEMMA OrderStep ==
  ASSUME Ready, HandedOut, Functions, PrintedInOrder, NEW t \in Threads,
         Act(t) \/ StartRoot(t) \/ Conclude(t)
  PROVE  PrintedInOrder'
<1>0. /\ at[t] \in Constructs
      /\ Moves(t) /\ prog' = prog /\ Constructs' = Constructs
  BY EachMoves DEF Moves, Constructs
<1>1. ASSUME NEW k \in Constructs, Orders(k)
      PROVE  \E n \in 0..N : printed'[k] = FirstNumbers(n) /\ \A i \in Completed(k)' : i < n
  <2>0. PICK n \in 0..N : printed[k] = FirstNumbers(n) /\ \A i \in Completed(k) : i < n
    BY <1>1 DEF PrintedInOrder, FirstNumbers
  <2>1. CASE k # at[t]
    <3>1. printed'[k] = printed[k] /\ Completed(k)' = Completed(k)
      BY <1>0, <2>1, DataMoves, Elsewhere
    <3> QED
      BY <2>0, <3>1
  <2>2. CASE k = at[t] /\ ~Ordered(t)
    <3>1. /\ Construct(t).kind = "for"
          /\ \/ EnterLoop(t) \/ GrabChunk(t) \/ LeaveLoop(t) \/ LeaveBarrier(t)
             \/ Set(t) /\ Construct(t).detail = "ordered"
      BY <1>0, <1>1, <2>2, OrderedActs
    <3>2. Completed(k)' = Completed(k)
      BY <2>2, <3>1, NotExecuted, LeftLoop
    <3>3. printed' = printed
      BY <3>1 DEF EnterLoop, GrabChunk, LeaveLoop, LeaveBarrier, Set, dataVars
    <3> QED
      BY <2>0, <3>2, <3>3
  <2>3. CASE k = at[t] /\ Ordered(t)
    <3>1. /\ Construct(t).kind = "for"
          /\ phase[t] \in AtWork /\ todo[t] # {} /\ Executes(t)
      BY <1>0, <1>1, <2>3, OrderedActs
    <3> DEFINE j == Current(t)
    <3>2. j \in Iterations /\ Completed(k)' = Completed(k) \cup {j}
      BY <2>3, <3>1, Executed
    <3>3. /\ Len(printed[k]) = j
          /\ printed' = [printed EXCEPT ![k] = Append(@, j)]
      BY <2>3 DEF Ordered, PrintOut
    <3> HIDE DEF j
    <3>4. n \in Nat /\ j = n
      BY <2>0, <3>3, NextNumber
    <3>5. printed'[k] = FirstNumbers(n + 1)
      BY <2>0, <3>3, <3>4, NextNumber DEF Functions
    <3>6. n + 1 \in 0..N
      BY <3>2, <3>4, TeamFacts DEF Iterations
    <3>7. \A i \in Completed(k) : i \in Int
      BY CompletedWithin, TeamFacts DEF Iterations
    <3>8. \A i \in Completed(k)' : i < n + 1
      BY <2>0, <3>2, <3>4, <3>7
    <3> QED
      BY <3>5, <3>6, <3>8
  <2> QED
    BY <2>1, <2>2, <2>3
<1>2. \A k \in Constructs : Orders(k)' <=> Orders(k)
  BY <1>0 DEF Orders
<1> QED
  BY <1>0, <1>1, <1>2 DEF PrintedInOrder, FirstNumbers

-----------------------------------------------------------------------------
(* The copies of a copyprivate, and the reports.                           *)

LEMMA CopiesStep ==
  ASSUME Ready, HandedOut, Functions, SinglesExecuted, CopiesHeld, NEW t \in Threads,
         Act(t) \/ StartRoot(t) \/ Conclude(t)
  PROVE  CopiesHeld'
<1>0. /\ at \in [Threads -> Nat \ {0}]
      /\ at[t] \in Constructs
      /\ Moves(t) /\ OthersStay(t) /\ prog' = prog /\ Constructs' = Constructs
      /\ (Has("assign")' <=> Has("assign"))
      /\ Len(prog.script) \in Nat
  BY ReadyFacts, EachMoves DEF Moves, Constructs, Has
<1>1. ASSUME NEW k \in Constructs, prog.script[k].detail = "copyprivate", ~Has("assign"),
             NEW u \in Threads, k < at'[u]
      PROVE  local'[u] = local'[claimed'[k]]
  <2>1. k = Len(prog.script) /\ k \in Nat /\ at[t] <= k
    BY <1>0, <1>1 DEF Ready, Shaped, Constructs, Has
  <2>2. prog.script[k].kind = "single" /\ prog.script[k].waits
    BY <1>1, ReadyFacts DEF Fits
  <2>3. ASSUME NEW v \in Threads, k < at[v]
        PROVE  at[t] = k /\ phase[t] = "arrived"
    BY <1>0, <2>1, <2>2, <2>3 DEF Ready, LoopInv, BarriersHold
  <2>4. at[t] = k
    <3> SUFFICES ASSUME at[t] # k PROVE FALSE
      OBVIOUS
    <3>1. CASE u # t
      BY <1>0, <1>1, <2>3, <3>1 DEF OthersStay
    <3>2. CASE u = t
      BY <1>0, <1>1, <2>1, <3>2 DEF Moves
    <3> QED
      BY <3>1, <3>2
  <2>5. LeaveBarrier(t)
    <3> SUFFICES ASSUME ~LeaveBarrier(t) PROVE FALSE
      OBVIOUS
    <3>1. Claim(t) \/ Skip(t) \/ ExecuteSingle(t) \/ StartRoot(t) \/ Conclude(t)
      BY <2>2, <2>4, SingleActs DEF Construct
    <3>2. phase[t] # "arrived" /\ at' = at
      BY <3>1 DEF Claim, Skip, ExecuteSingle, StartRoot, Conclude, Runs, Becomes
    <3> QED
      BY <1>1, <2>3, <3>2
  <2>6. /\ local' = [local EXCEPT ![t] = local[claimed[k]]]
        /\ claimed' = claimed /\ phase[t] = "arrived"
    BY <1>1, <2>4, <2>5 DEF LeaveBarrier, Pass, Runs, Private, Construct
  <2>7. claimed[k] \in Threads
    <3>1. Finished(t, k)
      BY <2>4, <2>6 DEF Finished
    <3> QED
      BY <2>2, <3>1, ReadyFacts DEF SinglesExecuted, ExecutedOnce
  <2>8. /\ local'[t] = local[claimed[k]]
        /\ \A v \in Threads \ {t} : local'[v] = local[v]
    BY <2>6 DEF Functions
  <2>9. local'[claimed[k]] = local[claimed[k]]
    BY <2>7, <2>8
  <2>10. u # t => local[u] = local[claimed[k]]
    BY <1>0, <1>1 DEF OthersStay, CopiesHeld
  <2> QED
    BY <2>6, <2>8, <2>9, <2>10
<1> QED
  BY <1>0, <1>1 DEF CopiesHeld

TrueReports(n) == [r \in 1..n |-> TRUE]

LEMMA OneRepeated ==
  ASSUME NEW n \in Nat, NEW v
  PROVE  Append([r \in 1..n |-> v], v) = [r \in 1..n + 1 |-> v]
<1> DEFINE s == [r \in 1..n |-> v]
           longer == Append(s, v)
<1>1. s \in Seq({v}) /\ Len(s) = n /\ \A i \in 1..n : s[i] = v
  OBVIOUS
<1> HIDE DEF s
<1>2. /\ longer = [i \in 1..n + 1 |-> longer[i]]
      /\ longer[n + 1] = v
      /\ \A i \in 1..n : longer[i] = s[i]
  BY <1>1, OneLonger
<1> HIDE DEF longer
<1>3. \A i \in 1..n + 1 : longer[i] = v
  <2>1. \A i \in 1..n + 1 : i \in 1..n \/ i = n + 1
    OBVIOUS
  <2> QED
    BY <1>1, <1>2, <2>1
<1> QED
  BY <1>2, <1>3 DEF longer, s

LEMMA OneReport ==
  ASSUME NEW n \in Nat
  PROVE  Append(TrueReports(n), TRUE) = TrueReports(n + 1)
BY OneRepeated DEF TrueReports

LEMMA SizeOfBeyond ==
  \A k : IsFiniteSet(Beyond(k)) /\ Cardinality(Beyond(k)) \in Nat
<1>1. IsFiniteSet(Threads)
  BY TeamFacts, FS_Interval DEF Threads
<1> QED
  BY <1>1, FS_Subset, FS_CardinalityType DEF Beyond

LEMMA ReportsStep ==
  ASSUME Ready, HandedOut, Functions, ArraysHold, ReportsTrue, NEW t \in Threads,
         Act(t) \/ StartRoot(t) \/ Conclude(t)
  PROVE  ReportsTrue'
<1>0. /\ at \in [Threads -> Nat \ {0}]
      /\ phase \in [Threads -> {"enter", "arrived", "work", "store"}]
      /\ at[t] \in Constructs
      /\ Moves(t) /\ OthersStay(t) /\ prog' = prog /\ Constructs' = Constructs
  BY ReadyFacts, EachMoves DEF Moves, Constructs
<1>1. ASSUME NEW k \in Constructs, prog.script[k].work = "report"
      PROVE  printed'[k] = TrueReports(Cardinality(Beyond(k)'))
  <2>0. printed[k] = TrueReports(Cardinality(Beyond(k)))
    BY <1>1 DEF ReportsTrue, TrueReports
  <2>1. k \in Nat
    BY ReadyFacts
  <2>2. CASE k # at[t]
    <3>1. printed'[k] = printed[k]
      BY <2>2, DataMoves
    <3>2. \A u \in Threads : k < at'[u] <=> k < at[u]
      BY <1>0, <2>1, <2>2 DEF Moves, OthersStay
    <3>3. Beyond(k)' = Beyond(k)
      BY <3>2 DEF Beyond, Threads
    <3> QED
      BY <2>0, <3>1, <3>3
  <2>3. CASE k = at[t]
    <3>1. Construct(t).kind = "each" /\ Construct(t).work = "report" /\ ~Construct(t).waits
      BY <1>1, <2>3, ReadyFacts DEF ConstructOK, Construct
    <3>2. phase[t] # "work" /\ phase[t] # "arrived"
      BY <1>0, <2>3, <3>1 DEF Ready, LoopInv, InPlace, HandedOut, Construct
    <3>3. Report(t)
      BY <3>1, <3>2 DEF Act, EnterLoop, EnterFor, GrabChunk, Grab, Set, Ordered, Derive, Update,
         Load, Store, UpdateCopy, LeaveLoop, Exhausted, Claim, Skip, ExecuteSingle, EnterSlice,
         Accumulate, LeaveSlice, LeaveBarrier, Pass, StartRoot, Conclude, Working, Runs
    <3>4. k > 1 /\ prog.script[k - 1].waits /\ prog.script[k - 1].work = "set"
      BY <1>1 DEF Ready, Shaped, Constructs
    <3>5. k - 1 \in Constructs
      BY <2>1, <3>4 DEF Constructs
    <3>6. prog.script[k - 1].kind = "for"
      BY <3>4, <3>5, ReadyFacts DEF Fits, LoopWorks
    <3>7. \A u \in Threads : Finished(u, k - 1)
      BY <2>1, <2>3, <3>4, <3>5, AllFinished
    <3>8. Completed(k - 1) = Iterations
      BY <3>5, <3>6, <3>7, AllCompleted
    <3>9. \A i \in Iterations : a[i] = i
      BY <3>4, <3>5, <3>8 DEF ArraysHold
    <3>10. printed'[k] = Append(printed[k], TRUE)
      BY <2>3, <3>3, <3>9 DEF Report, PrintOut, Functions
    <3>11. Beyond(k)' = Beyond(k) \cup {t} /\ t \notin Beyond(k)
      <4>1. at'[t] = k + 1
        BY <1>0, <2>3, <3>3 DEF Report, GoOn
      <4> QED
        BY <1>0, <2>1, <2>3, <4>1 DEF Beyond, OthersStay, Threads
    <3>12. Cardinality(Beyond(k)') = Cardinality(Beyond(k)) + 1
      BY <3>11, SizeOfBeyond, FS_AddElement
    <3> QED
      BY <2>0, <3>10, <3>12, SizeOfBeyond, OneReport
  <2> QED
    BY <2>2, <2>3
<1> QED
  BY <1>0, <1>1 DEF ReportsTrue, TrueReports

-----------------------------------------------------------------------------
(* The arguments of the tasks.                                             *)

\* How Argument(p) is computed.
Folds(g, p) ==
  g = [s \in SUBSET DOMAIN p |-> IF s = {} THEN prog.call ELSE CallOf(g[s \ {Max(s)}], p[Max(s)])]

LEMMA ArgumentUnfolds ==
  ASSUME NEW p, NEW g, Folds(g, p)
  PROVE  \E h : Folds(h, p) /\ Argument(p) = h[DOMAIN p]
<1> DEFINE h == CHOOSE h : Folds(h, p)
<1>1. Folds(h, p)
  OBVIOUS
<1>2. Argument(p) = h[DOMAIN p]
  BY DEF Folds, Argument, FoldLeft, MapThenFoldSet
<1> QED
  BY <1>1, <1>2

LEMMA MaxOf ==
  ASSUME NEW s, NEW n \in s, s \subseteq Int, \A m \in s : m <= n
  PROVE  Max(s) = n
<1>1. \A m \in s : n >= m
  OBVIOUS
<1>2. Max(s) \in s /\ \A m \in s : Max(s) >= m
  BY <1>1 DEF Max
<1>3. n \in Int /\ Max(s) \in Int /\ n >= Max(s) /\ Max(s) >= n
  BY <1>1, <1>2
<1> QED
  BY <1>3

\* The first numbers, and what p does with them.
LEMMA Firsts ==
  ASSUME NEW n \in Nat \ {0}
  PROVE  1..n # {} /\ Max(1..n) = n /\ (1..n) \ {n} = 1..n - 1
<1> DEFINE s == 1..n
<1>1. n \in s /\ s \subseteq Int /\ (\A m \in s : m <= n) /\ s # {}
  OBVIOUS
<1>3. s \ {n} = 1..n - 1
  <2>1. ASSUME NEW i PROVE i \in s \ {n} <=> i \in 1..n - 1
    OBVIOUS
  <2> HIDE DEF s
  <2> QED
    BY <2>1
<1> HIDE DEF s
<1>2. Max(s) = n
  BY <1>1, MaxOf
<1> QED
  BY <1>1, <1>2, <1>3 DEF s

LEMMA FoldsExist ==
  ASSUME NEW p \in Paths
  PROVE  \E g : Folds(g, p)
<1> DEFINE FoldsTo(g, n) ==
             g = [s \in SUBSET (1..n) |-> IF s = {} THEN prog.call
                                          ELSE CallOf(g[s \ {Max(s)}], p[Max(s)])]
           B == {n \in Nat : ~\E g : FoldsTo(g, n)}
<1>1. B = {}
  <2> SUFFICES ASSUME B # {} PROVE FALSE
    OBVIOUS
  <2>1. PICK n \in B : \A m \in B : n <= m
    BY LeastNumber
  <2>2. n # 0
    <3> SUFFICES ASSUME n = 0 PROVE FALSE
      OBVIOUS
    <3> DEFINE g == [s \in SUBSET (1..0) |-> prog.call]
    <3>1. \A s \in SUBSET (1..0) : s = {}
      OBVIOUS
    <3>2. FoldsTo(g, 0)
      BY <3>1
    <3> QED
      BY <2>1, <3>2
  <2>3. n - 1 \in Nat /\ n - 1 \notin B /\ n \in Nat \ {0}
    <3>1. n \in Nat /\ B \subseteq Nat
      OBVIOUS
    <3> HIDE DEF B
    <3> QED
      BY <2>1, <2>2, <3>1
  <2>4. PICK h : FoldsTo(h, n - 1)
    BY <2>3
  <2> DEFINE g == [s \in SUBSET (1..n) |-> IF n \in s THEN CallOf(h[s \ {n}], p[n]) ELSE h[s]]
  <2>5. ASSUME NEW s \in SUBSET (1..n)
        PROVE  g[s] = IF s = {} THEN prog.call ELSE CallOf(g[s \ {Max(s)}], p[Max(s)])
    <3>1. CASE n \in s
      <4>0. s \subseteq Int /\ \A m \in s : m <= n
        BY <2>3
      <4>1. Max(s) = n /\ s # {}
        BY <3>1, <4>0, MaxOf
      <4>2. s \ {n} \in SUBSET (1..n) /\ n \notin s \ {n}
        OBVIOUS
      <4>3. g[s \ {n}] = h[s \ {n}] /\ g[s] = CallOf(h[s \ {n}], p[n])
        BY <3>1, <4>2
      <4> QED
        BY <4>1, <4>3
    <3>2. CASE n \notin s
      <4>1. s \in SUBSET (1..n - 1)
        BY <3>2, <2>3
      <4>2. g[s] = h[s]
        BY <3>2
      <4>3. h[s] = IF s = {} THEN prog.call ELSE CallOf(h[s \ {Max(s)}], p[Max(s)])
        BY <2>4, <4>1
      <4>4. g[s \ {Max(s)}] = h[s \ {Max(s)}]
        BY <3>2
      <4> QED
        BY <4>2, <4>3, <4>4
    <3> QED
      BY <3>1, <3>2
  <2>6. FoldsTo(g, n)
    BY <2>5
  <2> QED
    BY <2>1, <2>6
<1>2. Len(p) \in Nat /\ DOMAIN p = 1..Len(p)
  BY DEF Paths
<1>3. PICK g : FoldsTo(g, Len(p))
  BY <1>1, <1>2
<1> QED
  BY <1>2, <1>3 DEF Folds

LEMMA FoldsFirst ==
  ASSUME NEW p, NEW g, Folds(g, p), NEW n \in Nat, 1..n \subseteq DOMAIN p
  PROVE  g[1..n] = IF n = 0 THEN prog.call ELSE CallOf(g[1..n - 1], p[n])
<1>1. g[1..n] = IF 1..n = {} THEN prog.call ELSE CallOf(g[(1..n) \ {Max(1..n)}], p[Max(1..n)])
  BY DEF Folds
<1>2. CASE n = 0
  BY <1>1, <1>2
<1>3. CASE n # 0
  BY <1>1, <1>3, Firsts
<1> QED
  BY <1>2, <1>3

(* The root has the argument of the program, and each task that of its     *)
(* call.                                                                   *)
LEMMA Arguments ==
  /\ Argument(Root) = prog.call
  /\ \A p \in Paths, w \in {1, 2} : Argument(Append(p, w)) = CallOf(Argument(p), w)
<1>1. Argument(Root) = prog.call
  <2>1. Root \in Paths /\ DOMAIN Root = {} /\ DOMAIN Root = 1..0
    BY DEF Root, Paths
  <2>2. PICK g : Folds(g, Root) /\ Argument(Root) = g[DOMAIN Root]
    BY <2>1, FoldsExist, ArgumentUnfolds
  <2> QED
    BY <2>1, <2>2, FoldsFirst
<1>2. ASSUME NEW p \in Paths, NEW w \in {1, 2}
      PROVE  Argument(Append(p, w)) = CallOf(Argument(p), w)
  <2> DEFINE q == Append(p, w)
             n == Len(p)
  <2>1. q \in Paths /\ n \in Nat /\ DOMAIN p = 1..n /\ DOMAIN q = 1..n + 1
        /\ q[n + 1] = w /\ \A k \in 1..n : q[k] = p[k]
    BY ChildOf DEF Paths
  <2> HIDE DEF q, n
  <2>2. PICK g : Folds(g, p) /\ Argument(p) = g[1..n]
    BY <2>1, FoldsExist, ArgumentUnfolds
  <2>3. PICK h : Folds(h, q) /\ Argument(q) = h[1..n + 1]
    BY <2>1, FoldsExist, ArgumentUnfolds
  <2> DEFINE B == {k \in Nat : k <= n /\ h[1..k] # g[1..k]}
  <2>4. B = {}
    <3> SUFFICES ASSUME B # {} PROVE FALSE
      OBVIOUS
    <3>1. PICK k \in B : \A m \in B : k <= m
      BY LeastNumber
    <3>2. k \in Nat /\ 1..k \subseteq DOMAIN p /\ 1..k \subseteq DOMAIN q
      BY <2>1
    <3>3. /\ h[1..k] = IF k = 0 THEN prog.call ELSE CallOf(h[1..k - 1], q[k])
          /\ g[1..k] = IF k = 0 THEN prog.call ELSE CallOf(g[1..k - 1], p[k])
      BY <3>2, <2>2, <2>3, FoldsFirst
    <3>4. k # 0 /\ k - 1 \in Nat /\ k - 1 \notin B
      BY <3>1, <3>2, <3>3
    <3>5. h[1..k - 1] = g[1..k - 1] /\ q[k] = p[k]
      BY <2>1, <3>2, <3>4
    <3> QED
      BY <3>3, <3>4, <3>5
  <2>5. h[1..n] = g[1..n]
    BY <2>1, <2>4
  <2>6. h[1..n + 1] = CallOf(h[1..n], q[n + 1])
    <3>1. n + 1 \in Nat /\ n + 1 # 0 /\ (n + 1) - 1 = n
      BY <2>1
    <3> QED
      BY <2>1, <2>3, <3>1, FoldsFirst
  <2>7. Argument(q) = CallOf(Argument(p), w)
    BY <2>1, <2>2, <2>3, <2>5, <2>6
  <2> QED
    BY <2>7 DEF q
<1> QED
  BY <1>1, <1>2

(* The arguments and values stay while the program does.                   *)
LEMMA SameCalls ==
  ASSUME prog' = prog
  PROVE  /\ \A p : Argument(p)' = Argument(p)
         /\ \A c : /\ ValueOf(c)' = ValueOf(c)
                   /\ (IsLeaf(c)' <=> IsLeaf(c))
                   /\ (ProperCall(c)' <=> ProperCall(c))
<1>1. \A p : Argument(p)' = Argument(p)
  BY DEF Argument, FoldLeft, MapThenFoldSet, CallOf, IsFib
<1>2. IsFib' <=> IsFib
  BY DEF IsFib
<1> QED
  BY <1>1, <1>2 DEF ValueOf, IsLeaf, ProperCall, Iterations

-----------------------------------------------------------------------------
(* The values of the calls.                                                *)

\* The Fibonacci numbers up to n.
FibUpTo(g, n) == g = [m \in 0..n |-> IF m < 2 THEN m ELSE g[m - 1] + g[m - 2]]

LEMMA FibExists ==
  ASSUME NEW n \in Nat
  PROVE  \E g : FibUpTo(g, n)
<1> DEFINE B == {m \in Nat : ~\E g : FibUpTo(g, m)}
<1> SUFFICES ASSUME B # {} PROVE FALSE
  OBVIOUS
<1>1. PICK m \in B : \A k \in B : m <= k
  BY LeastNumber
<1>2. m \in Nat /\ B \subseteq Nat /\ ~\E g : FibUpTo(g, m)
  OBVIOUS
<1>3. m # 0
  <2> SUFFICES ASSUME m = 0 PROVE FALSE
    OBVIOUS
  <2> DEFINE g == [k \in 0..0 |-> k]
  <2>1. FibUpTo(g, 0)
    BY DEF FibUpTo
  <2> QED
    BY <1>2, <2>1
<1>4. m - 1 \in Nat /\ m - 1 \notin B
  <2> HIDE DEF B
  <2> QED
    BY <1>1, <1>2, <1>3
<1>5. PICK h : FibUpTo(h, m - 1)
  BY <1>4
<1> DEFINE g == [k \in 0..m |-> IF k < m THEN h[k] ELSE IF k < 2 THEN k ELSE h[k - 1] + h[k - 2]]
<1>6. ASSUME NEW k \in 0..m
      PROVE  g[k] = IF k < 2 THEN k ELSE g[k - 1] + g[k - 2]
  <2>1. \A l \in 0..m - 1 : l \in 0..m /\ l < m /\ g[l] = h[l]
    BY <1>2
  <2>2. k >= 2 => k - 1 \in 0..m - 1 /\ k - 2 \in 0..m - 1
    BY <1>2
  <2>3. CASE k < m
    <3>1. g[k] = h[k] /\ k \in 0..m - 1
      BY <1>2, <2>3
    <3>2. h[k] = IF k < 2 THEN k ELSE h[k - 1] + h[k - 2]
      BY <1>5, <3>1 DEF FibUpTo
    <3> HIDE DEF g
    <3> QED
      BY <2>1, <2>2, <3>1, <3>2
  <2>4. CASE ~(k < m)
    <3>1. g[k] = IF k < 2 THEN k ELSE h[k - 1] + h[k - 2]
      BY <2>4
    <3> HIDE DEF g
    <3> QED
      BY <2>1, <2>2, <3>1
  <2> QED
    BY <2>3, <2>4
<1>7. FibUpTo(g, m)
  <2>1. g = [k \in 0..m |-> g[k]]
    OBVIOUS
  <2> HIDE DEF g
  <2> QED
    BY <1>6, <2>1 DEF FibUpTo
<1> QED
  BY <1>2, <1>7

LEMMA FibAgree ==
  ASSUME NEW n \in Nat, NEW g, FibUpTo(g, n), NEW m \in 0..n, NEW h, FibUpTo(h, m)
  PROVE  g[m] = h[m]
<1> DEFINE B == {k \in Nat : k <= m /\ g[k] # h[k]}
<1>1. B = {}
  <2> SUFFICES ASSUME B # {} PROVE FALSE
    OBVIOUS
  <2>1. PICK k \in B : \A l \in B : k <= l
    BY LeastNumber
  <2>2. k \in 0..n /\ k \in 0..m /\ g[k] # h[k] /\ k \in Nat
    OBVIOUS
  <2>3. /\ g[k] = IF k < 2 THEN k ELSE g[k - 1] + g[k - 2]
        /\ h[k] = IF k < 2 THEN k ELSE h[k - 1] + h[k - 2]
    BY <2>2 DEF FibUpTo
  <2>4. k >= 2 => /\ k - 1 \in Nat /\ k - 1 <= m /\ k - 1 < k
                  /\ k - 2 \in Nat /\ k - 2 <= m /\ k - 2 < k
    BY <2>2
  <2>5. k >= 2 => g[k - 1] = h[k - 1] /\ g[k - 2] = h[k - 2]
    <3>1. \A l \in Nat : l < k => l \notin B
      BY <2>1, <2>2
    <3> QED
      BY <2>4, <3>1
  <2> QED
    BY <2>2, <2>3, <2>5
<1> QED
  BY <1>1

LEMMA Fibonaccis ==
  \A n \in Nat : /\ Fibonacci[n] = IF n < 2 THEN n ELSE Fibonacci[n - 1] + Fibonacci[n - 2]
                 /\ Fibonacci[n] \in Nat
<1> DEFINE upto(n) == CHOOSE g : FibUpTo(g, n)
           F == [n \in Nat |-> upto(n)[n]]
<1>1. \A n \in Nat : FibUpTo(upto(n), n)
  BY FibExists
<1>2. ASSUME NEW n \in Nat
      PROVE  F[n] = IF n < 2 THEN n ELSE F[n - 1] + F[n - 2]
  <2>1. /\ F[n] = upto(n)[n]
        /\ n >= 2 => F[n - 1] = upto(n - 1)[n - 1] /\ F[n - 2] = upto(n - 2)[n - 2]
    <3> HIDE DEF upto
    <3> QED
      OBVIOUS
  <2> HIDE DEF upto, F
  <2>2. upto(n)[n] = IF n < 2 THEN n ELSE upto(n)[n - 1] + upto(n)[n - 2]
    BY <1>1 DEF FibUpTo
  <2>3. ASSUME n >= 2
        PROVE  upto(n)[n - 1] = upto(n - 1)[n - 1] /\ upto(n)[n - 2] = upto(n - 2)[n - 2]
    <3>1. n - 1 \in Nat /\ n - 1 \in 0..n /\ n - 2 \in Nat /\ n - 2 \in 0..n
      BY <2>3
    <3> QED
      BY <1>1, <3>1, FibAgree
  <2> QED
    BY <2>1, <2>2, <2>3
<1>3. F = [n \in Nat |-> F[n]]
  OBVIOUS
<1> HIDE DEF F
<1>4. F = [n \in Nat |-> IF n < 2 THEN n ELSE F[n - 1] + F[n - 2]]
  BY <1>2, <1>3
<1>5. Fibonacci = [n \in Nat |-> IF n < 2 THEN n ELSE Fibonacci[n - 1] + Fibonacci[n - 2]]
  BY <1>4 DEF Fibonacci
<1>6. \A n \in Nat : Fibonacci[n] = IF n < 2 THEN n ELSE Fibonacci[n - 1] + Fibonacci[n - 2]
  BY <1>5
<1>7. \A n \in Nat : Fibonacci[n] \in Nat
  <2> DEFINE B == {n \in Nat : Fibonacci[n] \notin Nat}
  <2> SUFFICES ASSUME B # {} PROVE FALSE
    OBVIOUS
  <2>1. PICK n \in B : \A m \in B : n <= m
    BY LeastNumber
  <2>2. n \in Nat /\ n >= 2
    BY <1>6
  <2>3. n - 1 \in Nat /\ n - 2 \in Nat /\ n - 1 \notin B /\ n - 2 \notin B
    BY <2>1, <2>2
  <2>4. Fibonacci[n] = Fibonacci[n - 1] + Fibonacci[n - 2]
    BY <1>6, <2>2
  <2> QED
    BY <2>3, <2>4
<1> QED
  BY <1>6, <1>7

(* A sum over a range is that over its two halves.                         *)
LEMMA RangeSplits ==
  ASSUME NEW i \in Int, NEW j \in Int, NEW m \in Int, i <= m, m <= j
  PROVE  /\ SumFunctionOnSet([x \in i..j |-> x], i..j) =
              SumFunctionOnSet([x \in i..m |-> x], i..m) +
              SumFunctionOnSet([x \in m + 1..j |-> x], m + 1..j)
<1> DEFINE T == i..j
           A == i..m
           C == m + 1..j
           f == [x \in T |-> x]
           fa == [x \in A |-> x]
           fc == [x \in C |-> x]
<1>1. IsFiniteSet(T) /\ IsFiniteSet(A) /\ IsFiniteSet(C)
  BY FS_Interval
<1>2. A \in SUBSET T /\ C \in SUBSET T /\ A \cap C = {} /\ A \cup C = T
  OBVIOUS
<1>3. /\ \A x \in T : f[x] \in Int
      /\ \A x \in A : fa[x] \in Int /\ f[x] = fa[x]
      /\ \A x \in C : fc[x] \in Int /\ f[x] = fc[x]
  OBVIOUS
<1> HIDE DEF T, A, C, f, fa, fc
<1>4. SumFunctionOnSet(f, A \cup C) = SumFunctionOnSet(f, A) + SumFunctionOnSet(f, C)
  BY <1>1, <1>2, <1>3, SumUnion
<1>5. SumFunctionOnSet(f, A) = SumFunctionOnSet(fa, A)
  BY <1>1, <1>3, SumSame
<1>6. SumFunctionOnSet(f, C) = SumFunctionOnSet(fc, C)
  BY <1>1, <1>3, SumSame
<1>7. SumFunctionOnSet(f, T) = SumFunctionOnSet(fa, A) + SumFunctionOnSet(fc, C)
  BY <1>2, <1>4, <1>5, <1>6
<1> QED
  BY <1>7 DEF T, A, C, f, fa, fc

(* The calls of a call that is not a leaf are proper, and their values     *)
(* give its own.                                                           *)
LEMMA CallsOf ==
  ASSUME NEW call, ProperCall(call), ~IsLeaf(call), prog.array \in BOOLEAN
  PROVE  /\ ProperCall(CallOf(call, 1)) /\ ProperCall(CallOf(call, 2))
         /\ ValueOf(call) = ValueOf(CallOf(call, 1)) + ValueOf(CallOf(call, 2))
<1>1. CASE IsFib
  <2>1. PICK n \in Nat : call = <<n>>
    BY <1>1 DEF ProperCall
  <2>2. n >= 2 /\ n - 1 \in Nat /\ n - 2 \in Nat
    BY <1>1, <2>1 DEF IsLeaf
  <2>3. CallOf(call, 1) = <<n - 1>> /\ CallOf(call, 2) = <<n - 2>>
    BY <1>1, <2>1 DEF CallOf
  <2>4. Fibonacci[n] = Fibonacci[n - 1] + Fibonacci[n - 2]
    BY <2>2, Fibonaccis
  <2> QED
    BY <1>1, <2>1, <2>2, <2>3, <2>4 DEF ProperCall, ValueOf
<1>2. CASE ~IsFib
  <2>1. PICK i \in Iterations, j \in Iterations : call = <<i, j>> /\ i <= j
    BY <1>2 DEF ProperCall
  <2>2. i \in Nat /\ j \in Nat /\ i >= 0 /\ j <= N - 1
    BY <2>1, TeamFacts DEF Iterations
  <2>3. j - i >= 1
    BY <1>2, <2>1, <2>2, TaskAssumption DEF IsLeaf
  <2> DEFINE m == (i + j) \div 2
  <2>4. m \in Int /\ i <= m /\ m < j
    BY <2>2, <2>3
  <2>5. CallOf(call, 1) = <<i, m>> /\ CallOf(call, 2) = <<m + 1, j>>
    BY <1>2, <2>1 DEF CallOf
  <2> HIDE DEF m
  <2>6. m \in Iterations /\ m + 1 \in Iterations /\ m + 1 <= j
    BY <2>2, <2>4, TeamFacts DEF Iterations
  <2>7. ProperCall(<<i, m>>) /\ ProperCall(<<m + 1, j>>)
    BY <1>2, <2>1, <2>4, <2>6 DEF ProperCall
  <2>8. ValueOf(<<i, j>>) = ValueOf(<<i, m>>) + ValueOf(<<m + 1, j>>)
    BY <1>2, <2>2, <2>4, RangeSplits DEF ValueOf
  <2> QED
    BY <2>1, <2>5, <2>7, <2>8
<1> QED
  BY <1>1, <1>2

(* A leaf returns the value of its call, if the array is complete.         *)
LEMMA LeafIs ==
  ASSUME NEW call, ProperCall(call), IsLeaf(call), prog.array \in BOOLEAN,
         prog.array => \A i \in Iterations : a[i] = i
  PROVE  LeafValue(call) = ValueOf(call)
<1>1. CASE IsFib
  <2>1. PICK n \in Nat : call = <<n>>
    BY <1>1 DEF ProperCall
  <2>2. n < 2 /\ Fibonacci[n] = n
    BY <1>1, <2>1, Fibonaccis DEF IsLeaf
  <2> QED
    BY <1>1, <2>1, <2>2 DEF LeafValue, ValueOf
<1>2. CASE ~IsFib
  <2>1. PICK i \in Iterations, j \in Iterations : call = <<i, j>> /\ i <= j
    BY <1>2 DEF ProperCall
  <2> DEFINE T == i..j
             f == [x \in T |-> IF prog.array THEN a[x] ELSE x]
             g == [x \in T |-> x]
  <2>2. IsFiniteSet(T) /\ i \in Int /\ j \in Int
    BY TeamFacts, FS_Interval DEF Iterations
  <2>3. ASSUME NEW x \in T
        PROVE  g[x] \in Int /\ f[x] = g[x]
    <3>1. x \in Int /\ x \in Iterations
      BY <2>1, <2>2, TeamFacts DEF Iterations
    <3> QED
      BY <3>1
  <2>4. LeafValue(call) = SumFunctionOnSet(f, T) /\ ValueOf(call) = SumFunctionOnSet(g, T)
    BY <1>2, <2>1 DEF LeafValue, ValueOf
  <2> HIDE DEF T, f, g
  <2>5. SumFunctionOnSet(f, T) = SumFunctionOnSet(g, T)
    BY <2>2, <2>3, SumSame
  <2> QED
    BY <2>4, <2>5
<1> QED
  BY <1>1, <1>2

(* The root is what the program promises.                                  *)
LEMMA RootValue ==
  ASSUME Called(prog), Has("tasks")
  PROVE  ProperCall(prog.call) /\ ValueOf(prog.call) = TaskResult /\ prog.array \in BOOLEAN
<1>1. /\ (\E n \in Nat : prog.call = <<n>>) \/ prog.call = <<0, N - 1>>
      /\ prog.array \in BOOLEAN
  BY DEF Called, CallFits, Has, Constructs
<1>2. CASE \E n \in Nat : prog.call = <<n>>
  BY <1>1, <1>2 DEF IsFib, ProperCall, ValueOf, TaskResult
<1>3. CASE prog.call = <<0, N - 1>>
  <2>1. ~IsFib
    BY <1>3 DEF IsFib
  <2>2. 0 \in Iterations /\ N - 1 \in Iterations /\ 0 <= N - 1 /\ Iterations = 0..N - 1
    BY TeamFacts DEF Iterations
  <2> DEFINE f == [i \in 0..N - 1 |-> i]
             g == [i \in Iterations |-> Value("element", i)]
  <2>3. f = g
    BY <2>2 DEF Value
  <2>4. ValueOf(prog.call) = SumFunctionOnSet(f, Iterations)
    BY <1>3, <2>1, <2>2 DEF ValueOf
  <2>5. TaskResult = SumFunctionOnSet(g, Iterations)
    BY <2>1 DEF TaskResult, Total
  <2> QED
    BY <1>1, <1>3, <2>1, <2>2, <2>3, <2>4, <2>5 DEF ProperCall
<1> QED
  BY <1>1, <1>2, <1>3

-----------------------------------------------------------------------------
(* Steps within the tree of tasks.                                         *)

(* A finished task stays so, and the root stays on the stack until then.   *)
LEMMA AwaitedStep ==
  ASSUME Tree, RootAwaited, UNCHANGED loopVars, NEW t \in Threads,
         \A q \in DOMAIN stage : q \in DOMAIN stage' /\ (stage[q] = "done" => stage'[q] = "done"),
         \/ stack' = stack
         \/ \E q \in DOMAIN stage' : stack' = [stack EXCEPT ![t] = <<q>> \o @]
         \/ /\ stack[t] # <<>> /\ stage'[Head(stack[t])] = "done"
            /\ stack' = [stack EXCEPT ![t] = Tail(@)]
  PROVE  RootAwaited'
<1> SUFFICES ASSUME NEW u \in Threads, Runs(u, {"single"}, "store")'
             PROVE  Root \in DOMAIN stage' /\ (stage'[Root] = "done" \/ OnStack(Root, u)')
  BY DEF RootAwaited
<1>1. Runs(u, {"single"}, "store")
  BY DEF Runs, Construct, Constructs, loopVars, teamVars
<1>2. Root \in DOMAIN stage /\ (stage[Root] = "done" \/ OnStack(Root, u))
  BY <1>1 DEF RootAwaited
<1>3. stack \in [Threads -> Seq(DOMAIN stage)]
  BY DEF Tree
<1>4. Root \in DOMAIN stage' /\ (stage[Root] = "done" => stage'[Root] = "done")
  BY <1>2
<1>5. ASSUME stage[Root] # "done"
      PROVE  stage'[Root] = "done" \/ OnStack(Root, u)'
  <2>1. PICK i \in 1..Len(stack[u]) : stack[u][i] = Root
    BY <1>2, <1>5 DEF OnStack
  <2>2. stack[u] \in Seq(DOMAIN stage)
    BY <1>3
  <2>3. CASE stack'[u] = stack[u]
    BY <2>1, <2>3 DEF OnStack
  <2>4. ASSUME NEW q \in DOMAIN stage', stack'[u] = <<q>> \o stack[u]
        PROVE  OnStack(Root, u)'
    <3> DEFINE s == stack[u]
               S == DOMAIN stage \cup DOMAIN stage'
    <3>1. s \in Seq(S) /\ <<q>> \in Seq(S) /\ Len(<<q>>) = 1
      BY <2>2
    <3> HIDE DEF s, S
    <3>2. Len(<<q>> \o s) = Len(s) + 1 /\ i \in 1..Len(s) /\ Len(s) \in Nat
      BY <2>1, <3>1 DEF s
    <3>3. i + 1 \in 1..Len(<<q>> \o s) /\ (<<q>> \o s)[i + 1] = s[i]
      BY <3>1, <3>2
    <3> QED
      BY <2>1, <2>4, <3>3 DEF OnStack, s
  <2>5. CASE stack[u] # <<>> /\ stage'[Head(stack[u])] = "done" /\ stack'[u] = Tail(stack[u])
    <3>1. CASE i = 1
      BY <2>1, <2>5, <3>1
    <3>2. CASE i # 1
      <4>1. i - 1 \in 1..Len(Tail(stack[u])) /\ Tail(stack[u])[i - 1] = stack[u][i]
        BY <2>1, <2>2, <2>5, <3>2
      <4> QED
        BY <2>1, <2>5, <4>1 DEF OnStack
    <3> QED
      BY <3>1, <3>2
  <2>6. CASE stack' = stack
    BY <2>3, <2>6
  <2>7. ASSUME NEW q \in DOMAIN stage', stack' = [stack EXCEPT ![t] = <<q>> \o @]
        PROVE  stage'[Root] = "done" \/ OnStack(Root, u)'
    <3>1. stack'[u] = stack[u] \/ stack'[u] = <<q>> \o stack[u]
      BY <1>3, <2>7
    <3> QED
      BY <2>3, <2>4, <3>1
  <2>8. CASE /\ stack[t] # <<>> /\ stage'[Head(stack[t])] = "done"
             /\ stack' = [stack EXCEPT ![t] = Tail(@)]
    <3>1. stack'[u] = stack[u] \/ (u = t /\ stack'[u] = Tail(stack[u]))
      BY <1>3, <2>8
    <3> QED
      BY <2>3, <2>5, <2>8, <3>1
  <2> QED
    BY <2>6, <2>7, <2>8
<1> QED
  BY <1>2, <1>4, <1>5

LEMMA DoneStep ==
  ASSUME CallsHold, prog' = prog, NEW p \in DOMAIN stage,
         Stage(p, "done"), cell' = Put(cell, p, ValueOf(Argument(p)))
  PROVE  CallsHold' /\ \A q \in DOMAIN stage : stage[q] = "done" => stage'[q] = "done"
<1>1. /\ DOMAIN stage' = DOMAIN stage
      /\ \A q \in DOMAIN stage : stage'[q] = IF q = p THEN "done" ELSE stage[q]
  BY DEF Stage, Put
<1>2. /\ DOMAIN cell' = DOMAIN cell \cup {p}
      /\ cell'[p] = ValueOf(Argument(p))
      /\ \A q \in DOMAIN cell : q # p => cell'[q] = cell[q]
  BY DEF Put
<1>3. \A q \in DOMAIN stage : CallHolds(q)'
  BY <1>1, <1>2, SameCalls DEF CallsHold, CallHolds
<1> QED
  BY <1>1, <1>3 DEF CallsHold

LEMMA PickStep ==
  ASSUME CallsHold, prog' = prog, NEW p \in DOMAIN stage,
         stage[p] = "created", Stage(p, "first"), cell' = cell
  PROVE  CallsHold' /\ \A q \in DOMAIN stage : stage[q] = "done" => stage'[q] = "done"
<1>1. /\ DOMAIN stage' = DOMAIN stage
      /\ \A q \in DOMAIN stage : stage'[q] = IF q = p THEN "first" ELSE stage[q]
  BY DEF Stage, Put
<1>3. \A q \in DOMAIN stage : CallHolds(q)'
  BY <1>1, SameCalls DEF CallsHold, CallHolds
<1> QED
  BY <1>1, <1>3 DEF CallsHold

LEMMA CallStep ==
  ASSUME Tree, CallsBegun, CallsHold, prog' = prog, prog.array \in BOOLEAN,
         NEW p \in DOMAIN stage, NEW which \in {1, 2},
         NEW label \in {"created", "first"},
         stage[p] = IF which = 1 THEN "first" ELSE "second",
         ~IsLeaf(Argument(p)),
         stage' = Put(Put(stage, Append(p, which), label), p,
                      IF which = 1 THEN "second" ELSE "taskwait"),
         cell' = cell
  PROVE  /\ CallsHold'
         /\ \A q \in DOMAIN stage : q \in DOMAIN stage' /\ (stage[q] = "done" => stage'[q] = "done")
         /\ Append(p, which) \in DOMAIN stage'
<1> DEFINE child == Append(p, which)
           middle == Put(stage, child, label)
<1>0. p \in Paths /\ child # p /\ child \notin DOMAIN stage
  BY ChildOf DEF Tree, CallsBegun
<1>1. /\ DOMAIN middle = DOMAIN stage \cup {child}
      /\ middle[child] = label
      /\ \A q \in DOMAIN stage : q # child => middle[q] = stage[q]
  BY DEF Put
<1>2. stage' = Put(middle, p, IF which = 1 THEN "second" ELSE "taskwait")
  OBVIOUS
<1> HIDE DEF middle
<1>3. /\ DOMAIN stage' = DOMAIN stage \cup {child}
      /\ stage'[child] = label
      /\ stage'[p] = IF which = 1 THEN "second" ELSE "taskwait"
      /\ \A q \in DOMAIN stage : q # p => stage'[q] = stage[q]
  BY <1>0, <1>1, <1>2 DEF Put
<1>4. CallHolds(p)
  BY DEF CallsHold
<1>5. CallHolds(child)'
  <2>1. Argument(child) = CallOf(Argument(p), which)
    BY <1>0, Arguments
  <2>2. ProperCall(CallOf(Argument(p), which))
    BY <1>4, CallsOf DEF CallHolds
  <2>3. ProperCall(Argument(child))
    BY <2>1, <2>2
  <2>4. (ProperCall(Argument(child)))'
    <3>1. Argument(child)' = Argument(child)
      BY SameCalls
    <3> QED
      BY <2>3, <3>1, SameCalls
  <2> QED
    BY <1>3, <2>4 DEF CallHolds
<1>6. CallHolds(p)'
  <2>1. Argument(p)' = Argument(p) /\ ProperCall(Argument(p))
    BY <1>4, SameCalls DEF CallHolds
  <2>2. (ProperCall(Argument(p)))' /\ (~IsLeaf(Argument(p)))'
    BY <2>1, SameCalls
  <2>3. Append(p, 1) \in DOMAIN stage' /\ (which = 2 => Append(p, 2) \in DOMAIN stage')
    BY <1>3, <1>4 DEF CallHolds
  <2> QED
    BY <1>3, <2>2, <2>3 DEF CallHolds
<1>7. ASSUME NEW q \in DOMAIN stage, q # p
      PROVE  CallHolds(q)'
  <2>1. CallHolds(q) /\ stage'[q] = stage[q] /\ DOMAIN stage \subseteq DOMAIN stage'
    BY <1>3, <1>7 DEF CallsHold
  <2> HIDE DEF child
  <2> QED
    BY <2>1, SameCalls DEF CallHolds
<1> QED
  BY <1>3, <1>5, <1>6, <1>7 DEF CallsHold

LEMMA WithinTree ==
  ASSUME Tree, CallsBegun, Called(prog), TasksHold, NEW t \in Threads,
         ReturnLeaf(t) \/ Spawn(t, 1) \/ Spawn(t, 2) \/ PickUp(t) \/ Join(t)
  PROVE  TasksHold'
<1> USE DEF TasksHold
<1>0. /\ Tree' /\ UNCHANGED loopVars /\ DOMAIN stage # {} /\ prog' = prog
  BY TreeStep DEF loopVars, teamVars
<1>1. Summable'
  BY <1>0 DEF Summable, Has, Constructs, loopVars, teamVars, dataVars, Iterations
<1>2. prog.array \in BOOLEAN
  BY <1>0, RootValue DEF Summable
<1>3. stack[t] # <<>> => Head(stack[t]) \in DOMAIN stage
  BY HeadAndTail DEF Tree
<1>4. CASE ReturnLeaf(t)
  <2> DEFINE p == Head(stack[t])
  <2>1. /\ stack[t] # <<>> /\ IsLeaf(Argument(p))
        /\ Stage(p, "done") /\ cell' = Put(cell, p, LeafValue(Argument(p)))
        /\ stack' = [stack EXCEPT ![t] = Tail(@)]
    BY <1>4 DEF ReturnLeaf, Running, Return
  <2>2. p \in DOMAIN stage
    BY <1>3, <2>1
  <2> HIDE DEF p
  <2>3. LeafValue(Argument(p)) = ValueOf(Argument(p))
    BY <1>0, <1>2, <2>1, <2>2, LeafIs DEF CallsHold, CallHolds, Summable
  <2>4. CallsHold' /\ \A q \in DOMAIN stage : stage[q] = "done" => stage'[q] = "done"
    BY <1>0, <2>1, <2>2, <2>3, DoneStep
  <2>5. DOMAIN stage' = DOMAIN stage /\ stage'[p] = "done"
    BY <2>1, <2>2 DEF Stage, Put
  <2>6. RootAwaited'
    BY <1>0, <2>1, <2>4, <2>5, AwaitedStep DEF p
  <2> QED
    BY <1>1, <2>4, <2>6
<1>5. CASE Join(t)
  <2> DEFINE p == Head(stack[t])
             Stored(q) == IF q \in DOMAIN cell THEN cell[q] ELSE Unset
  <2>1. /\ stack[t] # <<>> /\ stage[p] = "taskwait" /\ ChildrenDone(p)
        /\ Stage(p, "done")
        /\ cell' = Put(cell, p, Stored(Append(p, 1)) + Stored(Append(p, 2)))
        /\ stack' = [stack EXCEPT ![t] = Tail(@)]
    BY <1>5 DEF Join, Running, Return
  <2>2. p \in DOMAIN stage /\ p \in Paths
    BY <1>3, <2>1 DEF Tree
  <2> HIDE DEF p
  <2>3. CallHolds(p)
    BY <2>2 DEF CallsHold
  <2>4. ASSUME NEW w \in {1, 2}
        PROVE  Stored(Append(p, w)) = ValueOf(CallOf(Argument(p), w))
    <3>1. Append(p, w) \in DOMAIN stage /\ stage[Append(p, w)] = "done"
      BY <2>1, <2>3 DEF CallHolds, ChildrenDone
    <3>2. CallHolds(Append(p, w))
      BY <3>1 DEF CallsHold
    <3>3. Argument(Append(p, w)) = CallOf(Argument(p), w)
      BY <2>2, Arguments
    <3> QED
      BY <3>1, <3>2, <3>3 DEF CallHolds
  <2>5. ValueOf(Argument(p)) =
          ValueOf(CallOf(Argument(p), 1)) + ValueOf(CallOf(Argument(p), 2))
    BY <1>2, <2>1, <2>3, CallsOf DEF CallHolds
  <2>6. cell' = Put(cell, p, ValueOf(Argument(p)))
    <3>1. Stored(Append(p, 1)) + Stored(Append(p, 2)) = ValueOf(Argument(p))
      BY <2>4, <2>5
    <3> HIDE DEF Stored
    <3> QED
      BY <2>1, <3>1
  <2>7. CallsHold' /\ \A q \in DOMAIN stage : stage[q] = "done" => stage'[q] = "done"
    BY <1>0, <2>1, <2>2, <2>6, DoneStep
  <2>8. DOMAIN stage' = DOMAIN stage /\ stage'[p] = "done"
    BY <2>1, <2>2 DEF Stage, Put
  <2>9. RootAwaited'
    BY <1>0, <2>1, <2>7, <2>8, AwaitedStep DEF p
  <2> QED
    BY <1>1, <2>7, <2>9
<1>6. ASSUME NEW which \in {1, 2}, Spawn(t, which)
      PROVE  TasksHold'
  <2> DEFINE p == Head(stack[t])
             child == Append(p, which)
             Proceed(f) == Put(f, p, IF which = 1 THEN "second" ELSE "taskwait")
  <2>1. /\ stack[t] # <<>> /\ ~IsLeaf(Argument(p)) /\ cell' = cell
        /\ stage[p] = IF which = 1 THEN "first" ELSE "second"
    BY <1>6 DEF Spawn, Running
  <2>2. \/ stage' = Proceed(Put(stage, child, "created")) /\ stack' = stack
        \/ /\ stage' = Proceed(Put(stage, child, "first"))
           /\ stack' = [stack EXCEPT ![t] = <<child>> \o @]
    BY <1>6 DEF Spawn
  <2>3. p \in DOMAIN stage
    BY <1>3, <2>1
  <2> HIDE DEF p
  <2>4. /\ CallsHold'
        /\ \A q \in DOMAIN stage : q \in DOMAIN stage' /\ (stage[q] = "done" => stage'[q] = "done")
        /\ child \in DOMAIN stage'
    BY <1>0, <1>2, <2>1, <2>2, <2>3, CallStep
  <2>5. RootAwaited'
    BY <1>0, <2>2, <2>4, AwaitedStep
  <2> QED
    BY <1>1, <2>4, <2>5
<1>7. CASE PickUp(t)
  <2>1. PICK p \in DOMAIN stage :
          /\ stage[p] = "created" /\ Stage(p, "first") /\ cell' = cell
          /\ stack' = [stack EXCEPT ![t] = <<p>> \o @]
    BY <1>7 DEF PickUp
  <2>2. CallsHold' /\ \A q \in DOMAIN stage : stage[q] = "done" => stage'[q] = "done"
    BY <1>0, <2>1, PickStep
  <2>3. DOMAIN stage' = DOMAIN stage
    BY <2>1 DEF Stage, Put
  <2>4. RootAwaited'
    BY <1>0, <2>1, <2>2, <2>3, AwaitedStep
  <2> QED
    BY <1>1, <2>2, <2>4
<1> QED
  BY <1>4, <1>5, <1>6, <1>7

-----------------------------------------------------------------------------
(* Steps outside of the tree of tasks.                                     *)

(* No step of a thread gets to the wait for the root but its start.        *)
LEMMA StoreKept ==
  ASSUME Ready, NEW t \in Threads, Act(t) \/ Conclude(t), NEW u \in Threads,
         Runs(u, {"single"}, "store")'
  PROVE  Runs(u, {"single"}, "store")
<1> USE DEF Runs, Construct, Constructs
<1>t. /\ at \in [Threads -> Nat \ {0}]
      /\ phase \in [Threads -> {"enter", "arrived", "work", "store"}]
      /\ prog' = prog
  BY ReadyFacts, EachMoves DEF Moves
<1>1. CASE EnterLoop(t) \/ EnterSlice(t)
  BY <1>t, <1>1 DEF EnterLoop, EnterFor, EnterSlice, Becomes
<1>2. CASE GrabChunk(t) \/ Derive(t) \/ Update(t) \/ UpdateCopy(t) \/ Accumulate(t)
  BY <1>t, <1>2 DEF GrabChunk, Grab, Derive, Update, UpdateCopy, Accumulate
<1>3. CASE Set(t)
  <2>1. Construct(t).kind \in {"for", "each"} /\ at' = at
        /\ (phase' = phase \/ phase' = [phase EXCEPT ![t] = "store"])
    BY <1>3 DEF Set, Working, Becomes
  <2> QED
    BY <1>t, <2>1
<1>4. CASE Load(t)
  <2>1. Construct(t).kind \in {"for", "each"} /\ at' = at /\ phase' = [phase EXCEPT ![t] = "store"]
    BY <1>4 DEF Load, Working, Becomes
  <2> QED
    BY <1>t, <2>1
<1>5. CASE Ordered(t) \/ Store(t)
  BY <1>t, <1>5 DEF Ordered, Store, Becomes
<1>6. CASE LeaveLoop(t) \/ LeaveSlice(t)
  BY <1>t, <1>6 DEF LeaveLoop, LeaveSlice, Done, Becomes, GoOn
<1>7. CASE Claim(t) \/ Skip(t) \/ ExecuteSingle(t)
  BY <1>t, <1>7 DEF Claim, Skip, ExecuteSingle, Becomes
<1>8. CASE Report(t) \/ LeaveBarrier(t)
  BY <1>t, <1>8 DEF Report, LeaveBarrier, Pass, GoOn
<1>9. CASE Conclude(t)
  BY <1>t, <1>9 DEF Conclude, Becomes
<1> QED
  BY <1>1, <1>2, <1>3, <1>4, <1>5, <1>6, <1>7, <1>8, <1>9 DEF Act

(* While there are tasks, nobody changes the array that they sum up.       *)
LEMMA ArrayKept ==
  ASSUME Ready, Functions, Summable, DOMAIN stage # {}, prog.array,
         NEW t \in Threads, Act(t) \/ Conclude(t), NEW i \in Iterations
  PROVE  a'[i] = i
<1>1. a[i] = i /\ Has("tasks")
  BY DEF Summable
<1>2. Has("set")
  <2>1. Len(prog.script) \in Nat
    BY ReadyFacts
  <2> QED
    BY <1>1, <2>1 DEF Has, Ready, Called, CallFits, Constructs
<1>3. ~Has("own")
  BY <1>2 DEF Has, Ready, Shaped, Constructs
<1>4. CASE Set(t)
  <2>1. at[t] \in Constructs /\ Construct(t).work \in {"set", "own"}
    BY <1>4 DEF Set, Working, Runs
  <2>2. Construct(t).work = "set"
    BY <1>3, <2>1 DEF Has, Construct
  <2>3. a' = [a EXCEPT ![Current(t)] = Current(t)]
    BY <1>4, <2>2 DEF Set
  <2> HIDE DEF Current
  <2> QED
    BY <1>1, <2>3 DEF Functions
<1>5. CASE ~Set(t)
  <2>1. a' = a
    BY <1>5 DEF Act, EnterLoop, GrabChunk, Ordered, Derive, Update, Load, Store, UpdateCopy,
       LeaveLoop, ExecuteSingle, EnterSlice, Accumulate, LeaveSlice, Report, LeaveBarrier,
       Conclude, dataVars
  <2> QED
    BY <1>1, <2>1
<1> QED
  BY <1>4, <1>5

LEMMA BesideTree ==
  ASSUME Ready, Functions, TasksHold, NEW t \in Threads,
         Act(t) \/ Conclude(t), UNCHANGED taskVars
  PROVE  TasksHold'
<1>0. prog' = prog /\ Constructs' = Constructs
  BY EachMoves DEF Moves, Constructs
<1>1. CallsHold'
  BY <1>0, SameCalls DEF TasksHold, CallsHold, CallHolds, taskVars
<1>2. Summable'
  <2>1. DOMAIN stage # {} => Has("tasks")'
    BY <1>0 DEF TasksHold, Summable, Has
  <2>2. DOMAIN stage # {} /\ prog.array => \A i \in Iterations : a'[i] = i
    BY ArrayKept DEF TasksHold
  <2> QED
    BY <1>0, <2>1, <2>2 DEF Summable, taskVars, Iterations
<1>3. RootAwaited'
  BY StoreKept DEF TasksHold, RootAwaited, OnStack, taskVars
<1> QED
  BY <1>1, <1>2, <1>3 DEF TasksHold

(* When a thread starts the tree, the array is complete.                   *)
LEMMA RootStarts ==
  ASSUME Ready, HandedOut, ArraysHold, RootOnce, Tree, TasksHold, NEW t \in Threads, StartRoot(t)
  PROVE  TasksHold'
<1>0. /\ Runs(t, {"single"}, "work") /\ Construct(t).work = "tasks"
      /\ Stage(Root, "first")
      /\ stack' = [stack EXCEPT ![t] = <<Root>>]
      /\ prog' = prog /\ a' = a
  BY DEF StartRoot, dataVars
<1>1. at[t] \in Constructs /\ DOMAIN stage = {} /\ Constructs' = Constructs
  BY <1>0 DEF RootOnce, Runs, Constructs
<1>2. DOMAIN stage' = {Root} /\ stage'[Root] = "first"
  BY <1>0, <1>1 DEF Stage, Put
<1>3. Has("tasks")
  BY <1>0, <1>1 DEF Has, Construct
<1>4. ProperCall(prog.call)
  BY <1>3, RootValue DEF Ready
<1>5. CallsHold'
  <2>1. Argument(Root)' = prog.call
    BY <1>0, Arguments, SameCalls
  <2>2. (ProperCall(Argument(Root)))'
    BY <1>0, <1>4, <2>1, SameCalls
  <2> QED
    BY <1>2, <2>2 DEF CallsHold, CallHolds
<1>6. ASSUME prog.array, NEW i \in Iterations
      PROVE  a[i] = i
  <2>0. at[t] \in Nat /\ Len(prog.script) \in Nat
    BY ReadyFacts
  <2>1. /\ at[t] > 1 /\ prog.script[at[t] - 1].work = "set" /\ prog.script[at[t] - 1].waits
    BY <1>0, <1>1, <1>6 DEF Ready, Called, CallFits, Constructs, Construct
  <2>2. PICK k \in Constructs : k = at[t] - 1
    BY <1>1, <2>0, <2>1 DEF Constructs
  <2>3. prog.script[k].kind = "for" /\ k < at[t]
    BY <2>0, <2>1, <2>2, ReadyFacts DEF Fits, LoopWorks
  <2>4. \A u \in Threads : Finished(u, k)
    BY <2>0, <2>1, <2>2, <2>3, AllFinished
  <2>5. Completed(k) = Iterations
    BY <2>3, <2>4, AllCompleted
  <2> QED
    BY <2>1, <2>2, <2>5 DEF ArraysHold
<1>7. Summable'
  <2>1. Has("tasks")'
    BY <1>1, <1>3, <1>0 DEF Has
  <2> QED
    BY <1>0, <1>6, <2>1 DEF Summable, Iterations
<1>8. RootAwaited'
  <2> SUFFICES ASSUME NEW u \in Threads, Runs(u, {"single"}, "store")'
               PROVE  Root \in DOMAIN stage' /\ OnStack(Root, u)'
    BY DEF RootAwaited
  <2>1. CASE u = t
    <3>1. stack'[t] = <<Root>>
      BY <1>0 DEF Tree
    <3>2. Len(<<Root>>) = 1 /\ <<Root>>[1] = Root /\ 1 \in 1..1
      OBVIOUS
    <3>3. OnStack(Root, t)'
      BY <3>1, <3>2 DEF OnStack
    <3> QED
      BY <1>2, <2>1, <3>3
  <2>2. CASE u # t
    <3>1. at'[u] = at[u] /\ phase'[u] = phase[u]
      BY <2>2, EachMoves DEF Moves, OthersStay
    <3>2. Runs(u, {"single"}, "store")
      BY <1>0, <1>1, <3>1 DEF Runs, Construct
    <3> QED
      BY <1>1, <3>2 DEF TasksHold, RootAwaited
  <2> QED
    BY <2>1, <2>2
<1> QED
  BY <1>5, <1>7, <1>8 DEF TasksHold

(* The single ends with the result of the tasks.                           *)
LEMMA Concluded ==
  ASSUME Ready, TasksHold, NEW t \in Threads, Conclude(t)
  PROVE  cell[Root] = TaskResult
<1>1. Runs(t, {"single"}, "store") /\ stack[t] = <<>>
  BY DEF Conclude
<1>2. ~OnStack(Root, t)
  <2>1. Len(<<>>) = 0 /\ 1..0 = {}
    OBVIOUS
  <2> QED
    BY <1>1, <2>1 DEF OnStack
<1>3. Root \in DOMAIN stage /\ stage[Root] = "done"
  BY <1>1, <1>2 DEF TasksHold, RootAwaited
<1>4. cell[Root] = ValueOf(Argument(Root))
  BY <1>3 DEF TasksHold, CallsHold, CallHolds
<1>5. ValueOf(prog.call) = TaskResult
  BY <1>3, RootValue DEF TasksHold, Summable, Ready
<1> QED
  BY <1>4, <1>5, Arguments

LEMMA TasksStart ==
  ASSUME Init
  PROVE  TasksHold
<1>1. DOMAIN stage = {} /\ phase = [t \in Threads |-> "enter"]
  BY DEF Init, LoopInit, TeamInit
<1> QED
  BY <1>1 DEF TasksHold, CallsHold, Summable, RootAwaited, Runs

LEMMA SilentStep ==
  ASSUME Ready, HandedOut, Functions, Silent, NEW t \in Threads,
         Act(t) \/ StartRoot(t) \/ Conclude(t)
  PROVE  Silent'
<1>0. /\ at[t] \in Constructs
      /\ prog' = prog /\ Constructs' = Constructs
  BY EachMoves DEF Moves, Constructs
<1>1. ASSUME NEW k \in Constructs, prog.script[k].work \notin {"print", "report"}, ~Orders(k)
      PROVE  printed'[k] = printed[k]
  <2>1. CASE k # at[t]
    BY <2>1, DataMoves
  <2>2. CASE k = at[t]
    <3>1. ~Ordered(t) /\ ~Report(t) /\ Construct(t).work # "print"
      BY <1>1, <2>2 DEF Ordered, Report, Working, Runs, Construct, Orders
    <3>2. printed' = printed
      BY <3>1 DEF Act, EnterLoop, GrabChunk, Set, Derive, Update, Load, Store, UpdateCopy,
         LeaveLoop, ExecuteSingle, EnterSlice, Accumulate, LeaveSlice, LeaveBarrier,
         StartRoot, Conclude, dataVars
    <3> QED
      BY <3>2
  <2> QED
    BY <2>1, <2>2
<1>2. \A k \in Constructs : Orders(k)' <=> Orders(k)
  BY <1>0 DEF Orders
<1> QED
  BY <1>0, <1>1, <1>2 DEF Silent

-----------------------------------------------------------------------------
(* The results stay right.                                                 *)

LEMMA DataStep ==
  ASSUME Ready, DataInv, NEW t \in Threads, Act(t) \/ StartRoot(t) \/ Conclude(t),
         Conclude(t) => cell[Root] = TaskResult
  PROVE  DataInv'
<1> USE DEF DataInv
<1>1. Functions' /\ HandedOut'
  BY DataMoves, HandedOutStep
<1>2. Counted' /\ Held'
  BY CountedStep, HeldStep
<1>3. SinglesExecuted' /\ ArraysHold'
  BY SinglesStep, ArraysStep
<1>4. PrintedInOrder' /\ CopiesHeld'
  BY OrderStep, CopiesStep
<1>5. ReportsTrue' /\ Silent'
  BY ReportsStep, SilentStep
<1>6. BlocksSummed'
  BY BlocksStep
<1> QED
  BY <1>1, <1>2, <1>3, <1>4, <1>5, <1>6

LEMMA DataStutter ==
  ASSUME DataInv, UNCHANGED loopVars
  PROVE  DataInv'
<1> USE DEF DataInv, loopVars, teamVars, dataVars
<1>0. /\ Constructs' = Constructs
      /\ \A t, k : (Finished(t, k)' <=> Finished(t, k)) /\ (InLoop(t, k)' <=> InLoop(t, k))
      /\ \A t, k : (InStore(t, k)' <=> InStore(t, k))
      /\ \A t : Block(t)' = Block(t)
  BY DEF Constructs, Finished, InLoop, InStore, Block
<1>1. \A t, k : Left(t, k)' = Left(t, k)
  BY <1>0 DEF Left
<1>2. \A k : Completed(k)' = Completed(k) /\ Beyond(k)' = Beyond(k)
  BY <1>0, <1>1 DEF Completed, Iterations, Beyond
<1>3. \A k : Copies(k)' = Copies(k) /\ Brought(k)' = Brought(k)
  BY <1>0 DEF Copies, Brought
<1>4. Functions' /\ HandedOut' /\ CopiesHeld' /\ Silent'
  BY <1>0 DEF Functions, HandedOut, CopiesHeld, Silent, Orders, Has
<1>5. Counted'
  <2>1. \A k : CountedAt(k) => CountedAt(k)'
    BY <1>0, <1>2, <1>3 DEF CountedAt, Adds
  <2> QED
    BY <1>0, <2>1 DEF Counted
<1>6. Held'
  <2>1. \A t : HeldBy(t) => HeldBy(t)'
    BY <1>0, <1>2 DEF HeldBy, Adds
  <2> QED
    BY <1>0, <2>1 DEF Held
<1>7. SinglesExecuted' /\ ReportsTrue'
  <2>1. TaskResult' = TaskResult /\ \A k : Final(k - 1)' = Final(k - 1)
    BY DEF TaskResult, Final, IsFib, Adds, Total, Iterations
  <2>2. \A k : ExecutedOnce(k) => ExecutedOnce(k)'
    BY <1>0, <2>1 DEF ExecutedOnce
  <2> QED
    BY <1>0, <1>2, <2>2 DEF SinglesExecuted, ReportsTrue
<1>8. ArraysHold' /\ PrintedInOrder'
  BY <1>0, <1>2 DEF ArraysHold, PrintedInOrder, Orders, Has, Threads, Iterations, Derived
<1>9. BlocksSummed'
  <2>1. \A t : SummedBy(t) => SummedBy(t)'
    BY <1>0 DEF SummedBy, Scanned, Missing, Begin, End, Before
  <2> QED
    BY <1>0, <2>1 DEF BlocksSummed
<1> QED
  BY <1>4, <1>5, <1>6, <1>7, <1>8, <1>9

LEMMA DataStart ==
  ASSUME LoopInit, WellFormed(prog.script), Shaped(prog.script), prog.start \in Nat
  PROVE  DataInv
<1>1. /\ at = [t \in Threads |-> 1] /\ phase = [t \in Threads |-> "enter"]
      /\ next = [k \in Constructs |-> 0] /\ claimed = [k \in Constructs |-> Nobody]
      /\ sum = [k \in Constructs |-> prog.start]
      /\ a = [i \in Iterations |-> 0]
      /\ b = [i \in Iterations |-> Unset]
      /\ local = [t \in Threads |-> t]
      /\ temp = [t \in Threads |-> Unset]
      /\ block_sum = [t \in Threads |-> Unset]
      /\ printed = [k \in Constructs |-> <<>>]
  BY DEF LoopInit, TeamInit
<1>2. \A k \in Constructs : /\ k \in Nat \ {0} /\ prog.script[k].chunk \in Nat
                            /\ Fits(prog.script[k])
  <2>1. Len(prog.script) \in Nat /\ \A k \in Constructs : ConstructOK(prog.script[k])
    BY DEF WellFormed, Constructs
  <2>2. \A k \in Constructs : k \in Nat \ {0}
    BY <2>1 DEF Constructs
  <2>3. \A k \in Constructs : Fits(prog.script[k])
    BY DEF Shaped, Constructs
  <2> QED
    BY <2>1, <2>2, <2>3 DEF ConstructOK
<1>3. \A t \in Threads, k \in Constructs : ~Finished(t, k) /\ ~InLoop(t, k) /\ ~InStore(t, k)
  BY <1>1, <1>2 DEF Finished, InLoop, InStore, AtWork
<1>4. \A k \in Constructs : /\ SumFunctionOnSet(Copies(k), Threads) = 0
                            /\ SumFunctionOnSet(Brought(k), Threads) = 0
  <2> SUFFICES ASSUME NEW k \in Constructs
               PROVE  /\ SumFunctionOnSet(Copies(k), Threads) = 0
                      /\ SumFunctionOnSet(Brought(k), Threads) = 0
    OBVIOUS
  <2>1. \A t \in Threads : Copies(k)[t] = 0 /\ Brought(k)[t] = 0
    BY <1>3 DEF Copies, Brought
  <2> QED
    BY <2>1, TeamSize, SumOfZeros
<1>5. \A k \in Constructs : Completed(k) = {}
  <2> SUFFICES ASSUME NEW k \in Constructs, NEW i \in Completed(k)
               PROVE  FALSE
    OBVIOUS
  <2>1. i \in Iterations /\ (prog.script[k].chunk > 0 => i < next[k])
        /\ \A t \in Threads : i \notin Left(t, k)
    BY DEF Completed
  <2>2. prog.script[k].chunk = 0
    <3>1. i \in Nat
      BY <2>1, TeamFacts DEF Iterations
    <3> QED
      BY <1>1, <1>2, <2>1, <3>1
  <2>3. \A t \in Threads : i \notin Block(t)
    BY <1>3, <2>1, <2>2 DEF Left
  <2> QED
    BY <2>1, <2>3, BlocksCover
<1>6. Cardinality({}) = 0 /\ NumThreads - 1 \in Threads /\ 0 \in Threads
  BY FS_EmptySet, TeamFacts DEF Threads
<1>7. Functions /\ HandedOut
  BY <1>1, <1>2, <1>3, TeamFacts DEF Functions, HandedOut
<1>8. Counted
  <2> SUFFICES ASSUME NEW k \in Constructs
               PROVE  CountedAt(k)
    BY DEF Counted
  <2>1. Completed(k) = {} /\ sum[k] = prog.start /\ ~Finished(NumThreads - 1, k)
    BY <1>1, <1>3, <1>5, <1>6
  <2>2. Adds(k, Adding) => Weight(prog.script[k].detail, {}) = 0
    BY <1>2, WeightFacts DEF Adds, Fits
  <2> QED
    BY <1>4, <1>6, <2>1, <2>2 DEF CountedAt, Adds, Adding
<1>9. Held
  BY <1>1 DEF Held, HeldBy, AtWork
<1>10. SinglesExecuted
  BY <1>1, <1>3, TeamFacts DEF SinglesExecuted, ExecutedOnce
<1>11. ArraysHold /\ CopiesHeld /\ Silent
  BY <1>1, <1>2, <1>5, <1>6 DEF ArraysHold, CopiesHeld, Silent
<1>12. PrintedInOrder
  <2>1. ASSUME NEW k \in Constructs
        PROVE  printed[k] = [i \in 1..0 |-> i - 1] /\ 0 \in 0..N /\ Completed(k) = {}
    BY <1>1, <1>5, TeamFacts
  <2> QED
    BY <2>1 DEF PrintedInOrder
<1>13. ReportsTrue
  <2>1. ASSUME NEW k \in Constructs
        PROVE  Beyond(k) = {} /\ printed[k] = [r \in 1..0 |-> TRUE]
    BY <1>1, <1>2 DEF Beyond
  <2> QED
    BY <1>6, <2>1 DEF ReportsTrue
<1>14. BlocksSummed
  <2> SUFFICES ASSUME Planned(prog.script)
               PROVE  /\ \A t \in Threads : claimed[1] = t /\ Finished(t, 1) => block_size = size
                      /\ \A t \in Threads : SummedBy(t)
    BY <1>1 DEF BlocksSummed
  <2>1. 1 \in Constructs /\ 2 \in Constructs /\ 4 \in Constructs
    BY DEF Planned, Constructs
  <2>2. \A t \in Threads : at[t] = 1 /\ Scanned(t) = {}
    BY <1>1, <1>3, <2>1 DEF Scanned
  <2> QED
    BY <1>3, <2>1, <2>2 DEF SummedBy
<1> QED
  BY <1>7, <1>8, <1>9, <1>10, <1>11, <1>12, <1>13, <1>14 DEF DataInv

-----------------------------------------------------------------------------
(* The programs are as the invariant needs them.                           *)

\* What a program says of the construct c.
Suits(c, call, array, start) ==
  /\ Fits(c)
  /\ c.work = "tasks" =>
       /\ (\E n \in Nat : call = <<n>>) \/ call = <<0, N - 1>>
       /\ array \in BOOLEAN /\ ~array
  /\ c.work = "plain" => start = 0

\* What needs nothing of the other constructs of the script.
Alone(c) == /\ Fits(c) /\ c.detail \notin {"copyprivate", "element"}
            /\ c.work \notin {"print", "report", "own"} \cup Deriving \cup Planning

LEMMA OneFits ==
  ASSUME NEW call, NEW array, NEW start, NEW c,
         Suits(c, call, array, start),
         c.detail # "element",
         c.work \notin {"print", "report", "successor"} \cup Planning
  PROVE  Shaped(<<c>>) /\ CallFits(<<c>>, call, array, start)
<1> DEFINE s == <<c>>
<1>1. Len(s) = 1 /\ s[1] = c
  OBVIOUS
<1> HIDE DEF s
<1>2. Shaped(s)
  BY <1>1 DEF Shaped, Suits, Deriving
<1>3. CallFits(s, call, array, start)
  BY <1>1 DEF CallFits, Suits
<1> QED
  BY <1>2, <1>3 DEF s

LEMMA TwoFit ==
  ASSUME NEW call, NEW array, NEW start, NEW c, NEW d,
         Suits(c, call, array, start), Suits(d, call, array, start),
         Alone(c), c.waits, d.detail \notin {"copyprivate", "element"},
         d.work \notin {"own"} \cup Deriving \cup Planning,
         d.work = "report" => c.work = "set",
         d.work = "print" => c.work \in Adding \cup {"tasks"}
  PROVE  Shaped(<<c, d>>) /\ CallFits(<<c, d>>, call, array, start)
<1> DEFINE s == <<c, d>>
<1>1. Len(s) = 2 /\ s[1] = c /\ s[2] = d
  OBVIOUS
<1> HIDE DEF s
<1>2. Shaped(s)
  BY <1>1 DEF Shaped, Suits, Alone, Deriving
<1>3. CallFits(s, call, array, start)
  BY <1>1 DEF CallFits, Suits
<1> QED
  BY <1>2, <1>3 DEF s

\* The tasks sum up the array that a loop has set.
LEMMA ArrayFits ==
  ASSUME NEW call, NEW array, NEW start, NEW c, NEW d,
         call = <<0, N - 1>>, array \in BOOLEAN,
         Alone(c), c.waits, c.work = "set", Alone(d), d.work = "tasks"
  PROVE  Shaped(<<c, d>>) /\ CallFits(<<c, d>>, call, array, start)
<1> DEFINE s == <<c, d>>
<1>1. Len(s) = 2 /\ s[1] = c /\ s[2] = d
  OBVIOUS
<1> HIDE DEF s
<1>2. Shaped(s)
  BY <1>1 DEF Shaped, Alone, Deriving
<1>3. CallFits(s, call, array, start)
  BY <1>1 DEF CallFits
<1> QED
  BY <1>2, <1>3 DEF s

\* A copyprivate in the middle comes before an assignment.
LEMMA ThreeFit ==
  ASSUME NEW call, NEW array, NEW start, NEW c, NEW d, NEW e,
         Suits(c, call, array, start), Suits(d, call, array, start),
         Suits(e, call, array, start), Alone(c), Alone(e),
         Alone(d) \/ (d.detail = "copyprivate" /\ d.work = "copy" /\ e.work = "assign")
  PROVE  Shaped(<<c, d, e>>) /\ CallFits(<<c, d, e>>, call, array, start)
<1> DEFINE s == <<c, d, e>>
<1>1. Len(s) = 3 /\ s[1] = c /\ s[2] = d /\ s[3] = e
  OBVIOUS
<1> HIDE DEF s
<1>2. Shaped(s)
  BY <1>1 DEF Shaped, Suits, Alone, Deriving, Planning
<1>3. CallFits(s, call, array, start)
  BY <1>1 DEF CallFits, Suits
<1> QED
  BY <1>2, <1>3 DEF s

LEMMA SuccessorFits ==
  ASSUME NEW call, NEW array, NEW start, NEW c, NEW d, NEW e,
         Suits(c, call, array, start), Suits(d, call, array, start),
         Suits(e, call, array, start), Alone(c), c.work = "set",
         Alone(d), d.kind = "barrier", e.work = "successor",
         e.detail \notin {"copyprivate", "element"}
  PROVE  Shaped(<<c, d, e>>) /\ CallFits(<<c, d, e>>, call, array, start)
<1> DEFINE s == <<c, d, e>>
<1>1. Len(s) = 3 /\ s[1] = c /\ s[2] = d /\ s[3] = e
  OBVIOUS
<1> HIDE DEF s
<1>2. 1 \in 1..3 /\ 1 + 1 < 3 /\ s[1].work = "set" /\ s[1 + 1].kind = "barrier"
  BY <1>1
<1>3. \A k \in 1..3 : s[k].work \in Deriving => k = 3
  BY <1>1 DEF Alone
<1>4. \A k \in 1..3 : /\ Fits(s[k])
                      /\ s[k].work \notin {"print", "report", "own"}
                      /\ s[k].work \notin {"prefix", "triangle"} \cup Planning
                      /\ s[k].detail \notin {"copyprivate", "element"}
  BY <1>1 DEF Alone, Suits, Deriving, Planning
<1>5. Shaped(s)
  <2>1. \A k \in 1..3 : s[k].work \in Deriving =>
          \A l \in 1..3 : s[l].work \in Deriving \cup Planning => l = k
    BY <1>3, <1>4
  <2>2. \A k \in 1..3 : s[k].work = "successor" =>
          \E l \in 1..3 : l + 1 < k /\ s[l].work = "set" /\ s[l + 1].kind = "barrier"
    BY <1>2, <1>3 DEF Deriving
  <2> QED
    BY <1>1, <1>4, <2>1, <2>2 DEF Shaped
<1>6. CallFits(s, call, array, start)
  BY <1>1 DEF CallFits, Suits
<1> QED
  BY <1>5, <1>6 DEF s

LEMMA FourFit ==
  ASSUME NEW call, NEW array, NEW start, NEW c, NEW d, NEW e, NEW f,
         Suits(c, call, array, start), Suits(d, call, array, start),
         Suits(e, call, array, start), Suits(f, call, array, start),
         c.work = "own", c.detail \notin {"copyprivate", "element"},
         Alone(d), Alone(e), Alone(f), d.work # "set", e.work # "set", f.work # "set"
  PROVE  Shaped(<<c, d, e, f>>) /\ CallFits(<<c, d, e, f>>, call, array, start)
<1> DEFINE s == <<c, d, e, f>>
<1>1. Len(s) = 4 /\ s[1] = c /\ s[2] = d /\ s[3] = e /\ s[4] = f
  OBVIOUS
<1> HIDE DEF s
<1>2. Shaped(s)
  BY <1>1 DEF Shaped, Suits, Alone, Deriving, Planning
<1>3. CallFits(s, call, array, start)
  BY <1>1 DEF CallFits, Suits
<1> QED
  BY <1>2, <1>3 DEF s

LEMMA BlocksFit ==
  ASSUME NEW call, NEW array, NEW start, NEW c, NEW d, NEW e, NEW f,
         Suits(c, call, array, start), Suits(d, call, array, start),
         Suits(e, call, array, start), Suits(f, call, array, start),
         c.work = "plan", d.work = "scan", ~d.waits, e.kind = "barrier", f.work = "offset", f.waits,
         e.work \notin {"print", "report", "own"} \cup Deriving \cup Planning,
         c.detail \notin {"copyprivate", "element"}, d.detail \notin {"copyprivate", "element"},
         e.detail \notin {"copyprivate", "element"}, f.detail \notin {"copyprivate", "element"}
  PROVE  Shaped(<<c, d, e, f>>) /\ CallFits(<<c, d, e, f>>, call, array, start)
<1> DEFINE s == <<c, d, e, f>>
<1>1. Len(s) = 4 /\ s[1] = c /\ s[2] = d /\ s[3] = e /\ s[4] = f
  OBVIOUS
<1> HIDE DEF s
<1>2. Planned(s)
  BY <1>1 DEF Planned
<1>3. \A k \in 1..4 : /\ Fits(s[k]) /\ s[k].detail \notin {"copyprivate", "element"}
                      /\ s[k].work \notin {"print", "report", "own"} \cup Deriving
  BY <1>1 DEF Suits, Deriving
<1>4. Shaped(s)
  BY <1>1, <1>2, <1>3 DEF Shaped, Deriving
<1>5. CallFits(s, call, array, start)
  BY <1>1 DEF CallFits, Suits
<1> QED
  BY <1>4, <1>5 DEF s

\* A sum that is printed; it may be over an array.
Printed(c, q) == /\ Fits(c) /\ c.work \in Adding /\ c.detail # "copyprivate" /\ c.waits
                 /\ Fits(q) /\ q.work = "print" /\ q.detail \notin {"copyprivate", "element"}

LEMMA SevenFit ==
  ASSUME NEW call, NEW array, NEW start, NEW c, NEW d, NEW e, NEW f, NEW g, NEW h, NEW i,
         Alone(c), c.work = "set", c.waits, Printed(d, e), Printed(f, g), Printed(h, i)
  PROVE  Shaped(<<c, d, e, f, g, h, i>>) /\ CallFits(<<c, d, e, f, g, h, i>>, call, array, start)
<1> DEFINE s == <<c, d, e, f, g, h, i>>
<1>1. /\ Len(s) = 7 /\ s[1] = c /\ s[2] = d /\ s[3] = e /\ s[4] = f
      /\ s[5] = g /\ s[6] = h /\ s[7] = i
  OBVIOUS
<1> HIDE DEF s
<1>2. \A k \in 1..7 : /\ Fits(s[k]) /\ s[k].detail # "copyprivate"
                      /\ s[k].work \in {"set", "print"} \cup Adding
  BY <1>1 DEF Alone, Printed
<1>3. \A k \in 1..7 : s[k].detail = "element" => 1 < k /\ 1 \in 1..7
  BY <1>1 DEF Alone, Printed
<1>4. \A k \in 1..7 : s[k].work = "print" =>
         k > 1 /\ s[k - 1].waits /\ s[k - 1].work \in Adding
  BY <1>1 DEF Alone, Printed, Adding
<1>5. Shaped(s)
  BY <1>1, <1>2, <1>3, <1>4 DEF Shaped, Deriving, Planning, Adding
<1>6. CallFits(s, call, array, start)
  BY <1>1, <1>2 DEF CallFits, Adding
<1> QED
  BY <1>5, <1>6 DEF s

LEMMA LoopsFit ==
  ASSUME NEW p \in LoopPrograms
  PROVE  Shaped(p.script) /\ Called(p) /\ p.start \in Nat
<1> USE DEF Region, For, Sum, Single, Each, Barrier, Fits, LoopWorks, Suits, Called,
            Adding, Details, Deriving, Planning
<1>1. CASE p = Critical_Preparation
  BY <1>1, OneFits DEF Critical_Preparation
<1>2. CASE p = Atomic_Preparation
  BY <1>2, OneFits DEF Atomic_Preparation
<1>3. CASE p = Unprotected_Preparation
  BY <1>3, OneFits DEF Unprotected_Preparation
<1>4. CASE p = Reduction_Preparation
  BY <1>4, OneFits DEF Reduction_Preparation
<1>5. CASE p = Lastprivate_Three3
  BY <1>5, OneFits DEF Lastprivate_Three3
<1>6. CASE p = Critical_Three3
  BY <1>6, TwoFit DEF Alone, Critical_Three3
<1>7. CASE p = Atomic_Three3
  BY <1>7, TwoFit DEF Alone, Atomic_Three3
<1>8. CASE p = Reduction_Three3
  BY <1>8, TwoFit DEF Alone, Reduction_Three3
<1>9. CASE p = Squares_Exercise1
  BY <1>9, OneFits DEF Squares_Exercise1
<1>10. CASE p = Squares_Again2
  BY <1>10, OneFits DEF Squares_Again2
<1>11. CASE p = Sums_Again2
  BY <1>11, SevenFit DEF Alone, Printed, Sums_Again2
<1>12. CASE p = BarrierMain_Three3
  BY <1>12, SuccessorFits DEF Alone, BarrierMain_Three3
<1>13. CASE p = Init_Again2
  BY <1>13, FourFit DEF Alone, Init_Again2
<1>14. CASE p = Ordered_Three3
  BY <1>14, OneFits DEF Ordered_Three3
<1>15. CASE p = Case1_Preparation
  BY <1>15, OneFits DEF Case1_Preparation
<1>16. CASE p = Matrix_Exercises
  BY <1>16, OneFits DEF Matrix_Exercises
<1>17. CASE p = Prefix_Exercise4
  BY <1>17, OneFits DEF Prefix_Exercise4
<1>18. CASE p = Triangle_Exam1
  BY <1>18, OneFits DEF Triangle_Exam1
<1>19. CASE p = PrefixSum_Exercise4_2
  BY <1>19, BlocksFit DEF PrefixSum_Exercise4_2
<1>20. CASE p = Sections_Three3
  BY <1>20, TwoFit DEF Alone, Sections_Three3
<1>21. CASE p = Sections_Reviewing
  BY <1>21, ThreeFit DEF Alone, Sections_Reviewing
<1>22. CASE p = ThreadPrivate_Reviewing
  BY <1>22, ThreeFit DEF Alone, ThreadPrivate_Reviewing
<1>23. CASE p = Copyprivate_Three3
  BY <1>23, OneFits DEF Copyprivate_Three3
<1> QED
  BY <1>1, <1>2, <1>3, <1>4, <1>5, <1>6, <1>7, <1>8, <1>9, <1>10, <1>11,
     <1>12, <1>13, <1>14, <1>15, <1>16, <1>17, <1>18, <1>19, <1>20, <1>21,
     <1>22, <1>23
  DEF LoopPrograms

LEMMA TasksFit ==
  ASSUME NEW n \in Nat, NEW p \in TaskPrograms(n)
  PROVE  Shaped(p.script) /\ Called(p) /\ p.start \in Nat
<1> USE DEF Region, For, Single, Fib, Fits, LoopWorks, Suits, Called, Adding, Details,
            Deriving, Planning
<1>1. CASE p = Fib_Preparation(n)
  BY <1>1, OneFits DEF Fib_Preparation
<1>2. CASE p = Fib_Three3(n)
  BY <1>2, TwoFit DEF Alone, Fib_Three3
<1>3. CASE p = Fib_Again2(n)
  BY <1>3, OneFits DEF Fib_Again2
<1>4. CASE p = Range_Three3
  BY <1>4, ArrayFits DEF Alone, Range_Three3
<1>5. CASE p = Range_Again2
  BY <1>5, OneFits DEF Range_Again2
<1> QED
  BY <1>1, <1>2, <1>3, <1>4, <1>5 DEF TaskPrograms

LEMMA AllFit ==
  ASSUME Programs \subseteq AllPrograms
  PROVE  \A p \in Programs : Shaped(p.script) /\ Called(p) /\ p.start \in Nat
BY LoopsFit, TasksFit DEF AllPrograms

-----------------------------------------------------------------------------
(* What the programs leave.                                                *)

ResultInv == /\ Inv /\ Shaped(prog.script) /\ Called(prog) /\ prog.start \in Nat
             /\ DataInv /\ TasksHold

LEMMA ResultStart ==
  ASSUME Programs \subseteq AllPrograms, Init
  PROVE  ResultInv
<1>1. prog \in Programs /\ LoopInit
  BY DEF Init, LoopInit, TeamInit
<1>2. Inv /\ WellFormed(prog.script)
  BY AllScripts, InvInit DEF Inv
<1>3. Shaped(prog.script) /\ Called(prog) /\ prog.start \in Nat
  BY <1>1, AllFit
<1>4. DataInv
  BY <1>1, <1>2, <1>3, DataStart
<1> QED
  BY <1>2, <1>3, <1>4, TasksStart DEF ResultInv

LEMMA ResultNext == ResultInv /\ [Next]_vars => ResultInv'
<1> SUFFICES ASSUME ResultInv, [Next]_vars
             PROVE  ResultInv'
  OBVIOUS
<1>1. /\ Ready /\ DataInv /\ TasksHold
      /\ Tree /\ CallsBegun /\ RootOnce
      /\ Functions /\ HandedOut /\ ArraysHold
  BY DEF ResultInv, Inv, Ready, TaskInv, DataInv
<1>2. Inv'
  BY InvNext DEF ResultInv
<1>3. ASSUME NEW t \in Threads, Step(t)
      PROVE  DataInv' /\ TasksHold' /\ prog' = prog
  <2>1. CASE Act(t) /\ UNCHANGED taskVars
    <3>1. ~Conclude(t) \/ cell[Root] = TaskResult
      BY <1>1, Concluded
    <3> QED
      BY <1>1, <2>1, <3>1, EachMoves, DataStep, BesideTree DEF Moves
  <2>2. CASE StartRoot(t)
    <3>1. ~Conclude(t) \/ cell[Root] = TaskResult
      BY <1>1, Concluded
    <3> QED
      BY <1>1, <2>2, <3>1, EachMoves, DataStep, RootStarts DEF Moves
  <2>3. CASE Conclude(t)
    <3>1. cell[Root] = TaskResult /\ UNCHANGED taskVars
      BY <1>1, <2>3, Concluded DEF Conclude
    <3> QED
      BY <1>1, <2>3, <3>1, EachMoves, DataStep, BesideTree DEF Moves
  <2>4. CASE ReturnLeaf(t) \/ Spawn(t, 1) \/ Spawn(t, 2) \/ PickUp(t) \/ Join(t)
    <3>1. UNCHANGED loopVars
      BY <1>1, <2>4, TreeStep
    <3>2. TasksHold'
      BY <1>1, <2>4, WithinTree DEF Ready
    <3> QED
      BY <1>1, <3>1, <3>2, DataStutter DEF loopVars, teamVars
  <2> QED
    BY <1>3, <2>1, <2>2, <2>3, <2>4 DEF Step
<1>4. ASSUME UNCHANGED vars
      PROVE  DataInv' /\ TasksHold' /\ prog' = prog
  <2>1. UNCHANGED loopVars /\ UNCHANGED taskVars /\ prog' = prog
    BY <1>4 DEF vars, loopVars, teamVars
  <2>2. TasksHold'
    <3>1. CallsHold'
      BY <1>1, <2>1, SameCalls DEF TasksHold, CallsHold, CallHolds, taskVars
    <3>2. Summable' /\ RootAwaited'
      BY <1>1, <2>1 DEF TasksHold, Summable, RootAwaited, OnStack, Has, Runs, Construct, Constructs,
         Iterations, taskVars, loopVars, teamVars, dataVars
    <3> QED
      BY <3>1, <3>2 DEF TasksHold
  <2> QED
    BY <1>1, <2>1, <2>2, DataStutter
<1>5. DataInv' /\ TasksHold' /\ prog' = prog
  BY <1>3, <1>4 DEF Next, Ended
<1> QED
  BY <1>2, <1>5 DEF ResultInv

LEMMA ResultAlways ==
  ASSUME Programs \subseteq AllPrograms
  PROVE  Spec => []ResultInv
<1>1. Init => ResultInv
  BY ResultStart
<1> QED
  BY <1>1, ResultNext, PTL DEF Spec

LEMMA AllOutFinished ==
  ASSUME ResultInv, AllOut
  PROVE  /\ \A t \in Threads, k \in Constructs : k < at[t] /\ Finished(t, k)
         /\ \A k \in Constructs : prog.script[k].kind = "for" => Completed(k) = Iterations
<1>1. ASSUME NEW t \in Threads, NEW k \in Constructs
      PROVE  k < at[t] /\ Finished(t, k)
  <2>1. at[t] \in Nat \ {0} /\ at[t] \notin Constructs /\ Len(prog.script) \in Nat
    BY ReadyFacts DEF ResultInv, Inv, Ready, AllOut, Out
  <2>2. k < at[t]
    BY <2>1 DEF Constructs
  <2> QED
    BY <2>2 DEF Finished
<1> QED
  BY <1>1, AllCompleted DEF ResultInv, Inv, Ready, DataInv

LEMMA SumsRight ==
  ASSUME ResultInv, AllOut
  PROVE  /\ SumsExpected
         /\ \A k \in Constructs : Adds(k, Adding \cup {"tasks"}) => Expected(k) = {Final(k)}
<1>0. /\ Ready /\ HandedOut /\ Counted /\ SinglesExecuted
  BY DEF ResultInv, Inv, Ready, DataInv
<1>1. Total("one") = N
  <2> DEFINE f == [i \in Iterations |-> Value("one", i)]
  <2>1. \A i \in Iterations : f[i] = 1
    BY DEF Value
  <2> HIDE DEF f
  <2>2. SumFunctionOnSet(f, Iterations) = N
    BY <2>1, SizeOfIterations, SumOfOnes
  <2> QED
    BY <2>2 DEF Total, f
<1>2. ASSUME NEW k \in Constructs, Adds(k, Adding \cup {"tasks"})
      PROVE  Expected(k) = {Final(k)}
  BY <1>2 DEF Expected, Final, Adds, Adding, TaskResult
<1>3. ASSUME NEW k \in Constructs
      PROVE  sum[k] \in Expected(k)
  <2>1. \A t \in Threads : Finished(t, k)
    BY AllOutFinished
  <2>2. /\ Adds(k, Adding) => sum[k] = prog.start + Total(prog.script[k].detail)
        /\ Adds(k, {"assign"}) =>
             sum[k] = prog.start + SumFunctionOnSet([t \in Threads |-> t], Threads)
        /\ Adds(k, {"last"}) => sum[k] = prog.start + Cardinality(Block(NumThreads - 1))
        /\ Adds(k, {"plain"}) => sum[k] \in prog.start + 1..prog.start + N
        /\ Adds(k, {"tasks"}) => sum[k] = TaskResult
        /\ ~Adds(k, CounterWorks \cup {"tasks"}) => sum[k] = prog.start
    BY <1>0, <2>1, FinalCount
  <2>3. Adds(k, {"plain"}) => prog.start = 0 /\ prog.script[k].detail = "one"
    BY <1>0, ReadyFacts DEF Ready, Called, CallFits, Constructs, Adds, Fits
  <2>4. CASE Adds(k, Adding \cup {"tasks"})
    BY <1>2, <2>2, <2>4 DEF Final, Adds, Adding
  <2>5. CASE Adds(k, {"plain"})
    <3>1. Expected(k) = 1..N
      BY <1>1, <2>3, <2>5 DEF Expected, Adds
    <3> QED
      BY <2>2, <2>3, <2>5, <3>1, TeamFacts
  <2>6. CASE Adds(k, {"assign", "last"})
    BY <2>2, <2>6 DEF Expected, Adds
  <2>7. CASE ~Adds(k, CounterWorks \cup {"tasks"})
    BY <2>2, <2>7 DEF Expected, Adds, CounterWorks, Adding
  <2> QED
    BY <2>4, <2>5, <2>6, <2>7 DEF Adds, CounterWorks
<1> QED
  BY <1>2, <1>3 DEF SumsExpected

LEMMA PrintsRight ==
  ASSUME ResultInv, AllOut
  PROVE  PrintsExpected
<1> SUFFICES ASSUME NEW k \in Constructs, prog.script[k].work = "print"
             PROVE  printed[k] = <<CHOOSE s \in Expected(k - 1) : TRUE>>
  BY DEF PrintsExpected
<1>1. Ready /\ SinglesExecuted
  BY DEF ResultInv, Inv, Ready, DataInv
<1>2. prog.script[k].kind = "single" /\ claimed[k] \in Threads \cup {Nobody} /\ k \in Nat
  BY <1>1, ReadyFacts DEF Fits
<1>3. ExecutedOnce(k) /\ \A t \in Threads : Finished(t, k)
  BY <1>1, <1>2, AllOutFinished DEF SinglesExecuted
<1>4. claimed[k] \in Threads
  BY <1>2, <1>3, TeamFacts DEF ExecutedOnce, Threads
<1>5. printed[k] = <<Final(k - 1)>>
  BY <1>3, <1>4 DEF ExecutedOnce
<1>6. k - 1 \in Constructs /\ Adds(k - 1, Adding \cup {"tasks"})
  <2>1. k > 1 /\ prog.script[k - 1].work \in Adding \cup {"tasks"} /\ Len(prog.script) \in Nat
    BY <1>1, ReadyFacts DEF Ready, Shaped, Constructs
  <2> QED
    BY <1>2, <2>1 DEF Constructs, Adds
<1>7. Expected(k - 1) = {Final(k - 1)}
  BY <1>6, SumsRight
<1> QED
  BY <1>5, <1>7

LEMMA ArraysRight ==
  ASSUME ResultInv, AllOut
  PROVE  ArraysFilled /\ PrefixesSummed
<1>0. Ready /\ ArraysHold /\ BlocksSummed
  BY DEF ResultInv, Inv, Ready, DataInv
<1>1. ASSUME NEW k \in Constructs, prog.script[k].work \in {"set"} \cup Deriving
      PROVE  Completed(k) = Iterations
  <2>1. prog.script[k].kind = "for"
    BY <1>0, <1>1, ReadyFacts DEF Fits, LoopWorks, Deriving
  <2> QED
    BY <2>1, AllOutFinished
<1>2. ArraysFilled
  BY <1>0, <1>1 DEF ArraysFilled, Has, ArraysHold, Deriving, Derived
<1>3. CASE Has("prefix") \/ Has("triangle")
  <2>1. \A i \in Iterations : b[i] = PrefixSum[i]
    BY <1>0, <1>1, <1>3 DEF Has, ArraysHold, Deriving, Derived
  <2> QED
    BY <1>2, <2>1 DEF PrefixesSummed
<1>4. CASE Has("scan")
  <2>1. Planned(prog.script)
    BY <1>0, <1>4 DEF Has, Ready, Shaped, Planning, Constructs
  <2>2. \A t \in Threads : Out(t)
    BY DEF AllOut
  <2>3. \A i \in Iterations : b[i] = PrefixSum[i]
    BY <1>0, <2>1, <2>2, BlocksComplete
  <2> QED
    BY <1>2, <2>3 DEF PrefixesSummed
<1> QED
  BY <1>2, <1>3, <1>4 DEF PrefixesSummed

LEMMA OutputRight ==
  ASSUME ResultInv, AllOut
  PROVE  OutputInOrder
<1>1. ASSUME NEW k \in Constructs, prog.script[k].work = "report"
      PROVE  printed[k] = [t \in 1..NumThreads |-> TRUE]
  <2>1. Beyond(k) = Threads
    BY AllOutFinished DEF Beyond
  <2> QED
    BY <1>1, <2>1, TeamSize DEF ResultInv, DataInv, ReportsTrue
<1>2. ASSUME NEW k \in Constructs, Orders(k)
      PROVE  printed[k] = [i \in 1..N |-> i - 1]
  <2>1. prog.script[k].kind = "for"
    BY <1>2, ReadyFacts DEF ResultInv, Inv, Ready, Fits, LoopWorks, Orders
  <2>2. Completed(k) = Iterations
    BY <2>1, AllOutFinished
  <2>3. PICK n \in 0..N : /\ printed[k] = [i \in 1..n |-> i - 1]
                          /\ \A i \in Completed(k) : i < n
    BY <1>2 DEF ResultInv, DataInv, PrintedInOrder
  <2>4. N - 1 \in Iterations
    BY TeamFacts DEF Iterations
  <2>5. n = N
    BY <2>2, <2>3, <2>4, TeamFacts
  <2> QED
    BY <2>3, <2>5
<1>3. ASSUME NEW k \in Constructs, prog.script[k].work \notin {"print", "report"}, ~Orders(k)
      PROVE  printed[k] = <<>>
  BY <1>3 DEF ResultInv, DataInv, Silent
<1>4. \A k \in Constructs : Orders(k) => prog.script[k].work \notin {"print", "report"}
  BY ReadyFacts DEF ResultInv, Inv, Ready, Fits, Orders
<1> QED
  BY <1>1, <1>2, <1>3, <1>4 DEF OutputInOrder, Orders

LEMMA CopiesRight ==
  ASSUME ResultInv, AllOut
  PROVE  CopiesEqual
<1> SUFFICES ASSUME NEW k \in Constructs, prog.script[k].detail = "copyprivate", ~Has("assign"),
                    NEW t \in Threads, NEW u \in Threads
             PROVE  local[t] = local[u]
  BY DEF CopiesEqual
<1>1. k < at[t] /\ k < at[u]
  BY AllOutFinished
<1> QED
  BY <1>1 DEF ResultInv, DataInv, CopiesHeld

(* When all threads have left the region, whatever the schedule of the     *)
(* loops and tasks, every program of the repository leaves what a run by   *)
(* one thread would: exact sums (of the unprotected one at least one       *)
(* iteration is left), the printed sums, the filled arrays and prefix      *)
(* sums, the output in order, equal copies behind a copyprivate, and the   *)
(* Fibonacci number or the sum that the tree of tasks computes.            *)
THEOREM ResultsAreSequential ==
  ASSUME Programs \subseteq AllPrograms
  PROVE  Spec => []SequentialResult
<1>1. ResultInv => SequentialResult
  BY SumsRight, PrintsRight, ArraysRight, OutputRight, CopiesRight DEF SequentialResult
<1> QED
  BY <1>1, ResultAlways, PTL

=============================================================================
