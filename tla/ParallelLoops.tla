--------------------------- MODULE ParallelLoops ----------------------------
(***************************************************************************)
(* The OpenMP programs whose threads share out loops and meet at barriers: *)
(* counters and sums, arrays that a second loop reads, ordered output,     *)
(* sections, single with copyprivate, and prefix sums in blocks.  prog has *)
(*   script   the constructs of the parallel region, in order; work is     *)
(*            what a thread does with iteration i of a loop, detail which  *)
(*            term it adds, or whether it also prints in order;            *)
(*   start    what the summed variable holds before the region.            *)
(* Each loop sums into a variable of its own, sum[k] for construct k.      *)
(***************************************************************************)
EXTENDS Team

VARIABLES sum,
          a, b,           \* the arrays that loops fill and read
          local,          \* private variables: partial sums, offset, copies
          temp,           \* the value loaded by an unprotected or critical +=
          block_size, block_sum,
          printed         \* printed[k]: what construct k has printed

dataVars == <<sum, a, b, local, temp, block_size, block_sum, printed>>
loopVars == <<teamVars, dataVars>>

Unset == -1

LoopInit == /\ TeamInit
            /\ sum = [k \in Constructs |-> prog.start]
            /\ a = [i \in Iterations |-> 0]
            /\ b = [i \in Iterations |-> Unset]
            /\ local = [t \in Threads |-> t]
            /\ temp = [t \in Threads |-> Unset]
            /\ block_size = Unset
            /\ block_sum = [t \in Threads |-> Unset]
            /\ printed = [k \in Constructs |-> <<>>]

Working(t, works) == /\ Runs(t, {"for", "each"}, "work") /\ Construct(t).work \in works
                     /\ todo[t] # {}
Current(t) == Min(todo[t])
Finish(t) == todo' = [todo EXCEPT ![t] = @ \ {Current(t)}]
PrintOut(t, value) == printed' = [printed EXCEPT ![at[t]] = Append(@, value)]
Private(t, value) == local' = [local EXCEPT ![t] = value]

\* What iteration i adds to the sum.
Term(detail, i) == CASE detail = "one" -> 1 [] detail = "square" -> i * i [] detail = "element" -> a[i]

-----------------------------------------------------------------------------
(* Loops. *)

\* Private copies start at 0 for a reduction, at the original for firstprivate.
EnterLoop(t) == /\ EnterFor(t)
                /\ CASE Construct(t).work \in {"reduction", "assign"} -> Private(t, 0)
                     [] Construct(t).work \in {"last", "private"} -> Private(t, prog.start)
                     [] OTHER -> UNCHANGED local
                /\ UNCHANGED <<sum, a, b, temp, block_size, block_sum, printed>>

GrabChunk(t) == Grab(t) /\ UNCHANGED dataVars

\* a[i] = i, or the thread's own number; what is ordered comes after it.
Set(t) == /\ Working(t, {"set", "own"})
          /\ a' = [a EXCEPT ![Current(t)] = IF Construct(t).work = "own" THEN t ELSE Current(t)]
          /\ IF Construct(t).detail = "ordered" THEN Becomes(t, "store") /\ UNCHANGED todo
             ELSE Finish(t) /\ UNCHANGED <<at, phase>>
          /\ UNCHANGED <<prog, next, claimed, sum, b, local, temp, block_size, block_sum, printed>>

\* An ordered region is executed in the order of the iterations.
Ordered(t) == /\ \/ Working(t, {"ordered"})
                 \/ Runs(t, {"for"}, "store") /\ Construct(t).detail = "ordered"
              /\ Len(printed[at[t]]) = Current(t)
              /\ PrintOut(t, Current(t))
              /\ Finish(t) /\ Becomes(t, "work")
              /\ UNCHANGED <<prog, next, claimed, sum, a, b, local, temp, block_size, block_sum>>

\* The sum of the numbers up to i, one after the other.
PrefixSum[i \in Nat] == IF i = 0 THEN 0 ELSE PrefixSum[i - 1] + i

\* b[i] from a[i] of an earlier loop, by summing up to i, or by the formula.
Derive(t) == /\ Working(t, {"successor", "prefix", "triangle"})
             /\ LET i == Current(t)
                IN  b' = [b EXCEPT ![i] = CASE Construct(t).work = "successor" -> a[i] + 1
                                            [] Construct(t).work = "prefix" -> PrefixSum[i]
                                            [] Construct(t).work = "triangle" -> ((i + 1) * i) \div 2]
             /\ Finish(t)
             /\ UNCHANGED <<prog, at, phase, next, claimed, sum, a, local, temp,
                            block_size, block_sum, printed>>

\* omp atomic update
Update(t) == /\ Working(t, {"atomic"})
             /\ sum' = [sum EXCEPT ![at[t]] = @ + Term(Construct(t).detail, Current(t))]
             /\ Finish(t)
             /\ UNCHANGED <<prog, at, phase, next, claimed, a, b, local, temp,
                            block_size, block_sum, printed>>

\* Nobody is inside omp critical.
CriticalFree(t) == \A u \in Threads : ~Runs(u, {"for"}, "store")

\* The += of a critical region, or of none, in two steps.
Load(t) == /\ Working(t, {"critical", "plain"})
           /\ Construct(t).work = "critical" => CriticalFree(t)
           /\ temp' = [temp EXCEPT ![t] = sum[at[t]]]
           /\ Becomes(t, "store")
           /\ UNCHANGED <<prog, todo, next, claimed, sum, a, b, local, block_size, block_sum, printed>>

Store(t) == /\ Runs(t, {"for"}, "store") /\ Construct(t).work \in {"critical", "plain"}
            /\ sum' = [sum EXCEPT ![at[t]] = temp[t] + Term(Construct(t).detail, Current(t))]
            /\ Finish(t) /\ Becomes(t, "work")
            /\ UNCHANGED <<prog, next, claimed, a, b, local, temp, block_size, block_sum, printed>>

\* On the private copy of a reduction, firstprivate, lastprivate or private variable.
UpdateCopy(t) == /\ Working(t, {"reduction", "assign", "last", "private"})
                 /\ Private(t, CASE Construct(t).work = "reduction" ->
                                      local[t] + Term(Construct(t).detail, Current(t))
                                 [] Construct(t).work = "assign" -> t
                                 [] OTHER -> local[t] + 1)
                 /\ Finish(t)
                 /\ UNCHANGED <<prog, at, phase, next, claimed, sum, a, b, temp,
                                block_size, block_sum, printed>>

\* At the end of its loop a thread contributes its copy; that of the thread
\* with the last iteration is stored, once all threads have made theirs.
LeaveLoop(t) ==
  LET k == at[t]
      work == Construct(t).work
      copied == \A u \in Threads : at[u] > k \/ (at[u] = k /\ phase[u] # "enter")
  IN  /\ Exhausted(t)
      /\ CASE work \in {"reduction", "assign"} -> sum' = [sum EXCEPT ![k] = @ + local[t]]
           [] work = "last" /\ N - 1 \in Block(t) -> copied /\ sum' = [sum EXCEPT ![k] = local[t]]
           [] OTHER -> UNCHANGED sum
      /\ Done(t)
      /\ UNCHANGED <<prog, todo, next, claimed, a, b, local, temp, block_size, block_sum, printed>>

-----------------------------------------------------------------------------
(* Single, and what each thread does by itself. *)

\* plan: the size of the blocks; print: the sum of the loop before; say: a
\* fixed text; copy: a private variable, handed to everybody at the end.
ExecuteSingle(t) ==
  /\ Runs(t, {"single"}, "work") /\ Construct(t).work \in {"plan", "print", "copy", "say"}
  /\ block_size' = IF Construct(t).work = "plan" THEN N \div NumThreads ELSE block_size
  /\ IF Construct(t).work = "print" THEN PrintOut(t, sum[at[t] - 1]) ELSE UNCHANGED printed
  /\ IF Construct(t).work = "copy" THEN Private(t, t) ELSE UNCHANGED local
  /\ Becomes(t, "arrived")
  /\ UNCHANGED <<prog, todo, next, claimed, sum, a, b, temp, block_sum>>

\* Mutant: the last thread gets no more than the others.
EvenSlice(t) == t * block_size..(t + 1) * block_size - 1

\* Thread t's block in the prefix sums; the last thread takes what is left.
Slice(t) == t * block_size..IF t = NumThreads - 1 THEN N - 1 ELSE (t + 1) * block_size - 1

SumBefore(t) == SumFunctionOnSet(block_sum, 0..t - 1)

EnterSlice(t) == /\ Runs(t, {"each"}, "enter") /\ Construct(t).work \in {"scan", "offset"}
                 /\ todo' = [todo EXCEPT ![t] = Slice(t)]
                 /\ IF Construct(t).work = "offset" THEN Private(t, SumBefore(t)) ELSE UNCHANGED local
                 /\ Becomes(t, "work")
                 /\ UNCHANGED <<prog, next, claimed, sum, a, b, temp, block_size, block_sum, printed>>

\* The prefix sums within the block, and later the offset on top of them.
Accumulate(t) == /\ Working(t, {"scan", "offset"})
                 /\ LET i == Current(t)
                    IN  b' = [b EXCEPT ![i] = IF Construct(t).work = "offset" THEN @ + local[t]
                                              ELSE i + IF i = Min(Slice(t)) THEN 0 ELSE b[i - 1]]
                 /\ Finish(t)
                 /\ UNCHANGED <<prog, at, phase, next, claimed, sum, a, local, temp,
                                block_size, block_sum, printed>>

LeaveSlice(t) == /\ Runs(t, {"each"}, "work") /\ todo[t] = {}
                 /\ block_sum' = IF Construct(t).work = "scan"
                                 THEN [block_sum EXCEPT ![t] = b[Max(Slice(t))]] ELSE block_sum
                 /\ Done(t)
                 /\ UNCHANGED <<prog, todo, next, claimed, sum, a, b, local, temp, block_size, printed>>

\* Behind the sections, each thread says that all of them have ended.
Report(t) == /\ Runs(t, {"each"}, "enter") /\ Construct(t).work = "report"
             /\ PrintOut(t, \A i \in Iterations : a[i] = i)
             /\ GoOn(t)
             /\ UNCHANGED <<prog, todo, next, claimed, sum, a, b, local, temp, block_size, block_sum>>

\* copyprivate: everybody leaves with the copy of the thread that had the single.
LeaveBarrier(t) == /\ Pass(t)
                   /\ IF Construct(t).detail = "copyprivate" THEN Private(t, local[claimed[at[t]]])
                      ELSE UNCHANGED local
                   /\ UNCHANGED <<sum, a, b, temp, block_size, block_sum, printed>>

Act(t) == \/ EnterLoop(t) \/ GrabChunk(t) \/ Set(t) \/ Ordered(t) \/ Derive(t)
          \/ Update(t) \/ Load(t) \/ Store(t) \/ UpdateCopy(t) \/ LeaveLoop(t)
          \/ (Claim(t) \/ Skip(t)) /\ UNCHANGED dataVars
          \/ ExecuteSingle(t) \/ EnterSlice(t) \/ Accumulate(t) \/ LeaveSlice(t) \/ Report(t)
          \/ LeaveBarrier(t)
=============================================================================
