------------------------------ MODULE TaskTree ------------------------------
(***************************************************************************)
(* Recursive functions whose calls are OpenMP tasks, executed within a     *)
(* single of a parallel region.  A task is named by its path from the      *)
(* root: <<1, 2>> is the second call of the first call.  prog has          *)
(*   call    the argument of the root: <<n>> for the Fibonacci numbers,    *)
(*           <<start, end>> for the sum over a range;                      *)
(*   array   the sum is over the elements of the array a, and a range with *)
(*           end - start = Grain is split; otherwise it is over the        *)
(*           numbers themselves, and only longer ranges are split.         *)
(***************************************************************************)
EXTENDS ParallelLoops, SequencesExt

CONSTANTS Above,          \* fib defers its calls when n > Above (30)
          Grain           \* the end - start that splits a range (1000)

ASSUME TaskAssumption == Above \in Nat /\ Grain \in Nat \ {0}

VARIABLES stage,          \* stage[p]: what task p does next, for each task so far
          cell,           \* cell[p]: what p has stored in its parent's variable
          stack           \* stack[t]: the tasks thread t executes, innermost first

taskVars == <<stage, cell, stack>>
vars == <<loopVars, taskVars>>

Init == /\ LoopInit
        /\ stage = <<>> /\ cell = <<>>
        /\ stack = [t \in Threads |-> <<>>]

Root == <<>>
IsFib == Len(prog.call) = 1

\* The argument of the first and of the second call.
CallOf(call, which) ==
  LET middle == (call[1] + call[2]) \div 2
  IN  IF IsFib THEN <<call[1] - which>>
      ELSE IF which = 1 THEN <<call[1], middle>> ELSE <<middle + 1, call[2]>>

Argument(p) == FoldLeft(CallOf, prog.call, p)

IsLeaf(call) == IF IsFib THEN call[1] < 2
                ELSE call[2] - call[1] < Grain + (IF prog.array THEN 0 ELSE 1)

LeafValue(call) ==
  IF IsFib THEN call[1]
  ELSE SumFunctionOnSet([i \in call[1]..call[2] |-> IF prog.array THEN a[i] ELSE i], call[1]..call[2])

\* With an if clause that is false the thread executes the task at once; it
\* may do so with any task.
Deferrable(call) == IsFib => call[1] > Above

\* The task that thread t is executing.
Running(t, labels) == stack[t] # <<>> /\ stage[Head(stack[t])] \in labels

\* f with the value v at x, whether f has an x already or not.
Put(f, x, v) == [y \in DOMAIN f \cup {x} |-> IF y = x THEN v ELSE f[y]]

Stage(p, label) == stage' = Put(stage, p, label)

\* A task ends: its value goes where the parent, or the single, wants it.
Return(t, value) ==
  LET p == Head(stack[t])
  IN  /\ Stage(p, "done")
      /\ cell' = Put(cell, p, value)
      /\ stack' = [stack EXCEPT ![t] = Tail(@)]

StartRoot(t) == /\ Runs(t, {"single"}, "work") /\ Construct(t).work = "tasks"
                /\ Stage(Root, "first")
                /\ stack' = [stack EXCEPT ![t] = <<Root>>]
                /\ Becomes(t, "store")
                /\ UNCHANGED <<prog, todo, next, claimed, dataVars, cell>>

ReturnLeaf(t) == /\ Running(t, {"first"})
                 /\ IsLeaf(Argument(Head(stack[t])))
                 /\ Return(t, LeafValue(Argument(Head(stack[t]))))
                 /\ UNCHANGED loopVars

\* Call number which of the running task becomes a task of its own.
Spawn(t, which) ==
  LET p == Head(stack[t])
      child == Append(p, which)
      Proceed(f) == Put(f, p, IF which = 1 THEN "second" ELSE "taskwait")
  IN  /\ Running(t, {IF which = 1 THEN "first" ELSE "second"})
      /\ ~IsLeaf(Argument(p))
      /\ \/ /\ Deferrable(Argument(p))
            /\ stage' = Proceed(Put(stage, child, "created"))
            /\ UNCHANGED stack
         \/ /\ stage' = Proceed(Put(stage, child, "first"))
            /\ stack' = [stack EXCEPT ![t] = <<child>> \o @]
      /\ UNCHANGED <<loopVars, cell>>

\* A thread that waits takes a task: at a taskwait one that descends from the
\* task it has suspended, at a barrier any.
PickUp(t) == \E p \in DOMAIN stage :
               /\ stage[p] = "created"
               /\ \/ stack[t] = <<>> /\ Runs(t, {"single"}, "arrived")
                  \/ Running(t, {"taskwait"}) /\ IsPrefix(Head(stack[t]), p)
               /\ Stage(p, "first")
               /\ stack' = [stack EXCEPT ![t] = <<p>> \o @]
               /\ UNCHANGED <<loopVars, cell>>

\* Mutant: only the first call is waited for.
FirstDone(p) == stage[Append(p, 1)] = "done"

ChildrenDone(p) == \A which \in {1, 2} : stage[Append(p, which)] = "done"

\* taskwait, and the sum of what the two calls have stored.
Join(t) == LET p == Head(stack[t])
               Stored(q) == IF q \in DOMAIN cell THEN cell[q] ELSE Unset
           IN  /\ Running(t, {"taskwait"}) /\ ChildrenDone(p)
               /\ Return(t, Stored(Append(p, 1)) + Stored(Append(p, 2)))
               /\ UNCHANGED loopVars

\* The single ends with the value of the root.
Conclude(t) == /\ Runs(t, {"single"}, "store") /\ stack[t] = <<>>
               /\ sum' = [sum EXCEPT ![at[t]] = cell[Root]]
               /\ Private(t, cell[Root])
               /\ Becomes(t, "arrived")
               /\ UNCHANGED <<prog, todo, next, claimed, a, b, temp, block_size, block_sum,
                              printed, taskVars>>

\* No thread leaves a barrier with tasks left.
AllTasksDone == \A p \in DOMAIN stage : stage[p] = "done"

Step(t) == \/ Act(t) /\ (phase[t] = "arrived" => AllTasksDone) /\ UNCHANGED taskVars
           \/ StartRoot(t) \/ ReturnLeaf(t) \/ Spawn(t, 1) \/ Spawn(t, 2)
           \/ PickUp(t) \/ Join(t) \/ Conclude(t)

Ended == AllOut /\ UNCHANGED vars

Next == (\E t \in Threads : Step(t)) \/ Ended

\* Each thread goes on running.
Fairness == \A t \in Threads : WF_vars(Step(t))

Spec == Init /\ [][Next]_vars
FairSpec == Spec /\ Fairness
=============================================================================
