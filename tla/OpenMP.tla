------------------------------- MODULE OpenMP -------------------------------
(***************************************************************************)
(* The OpenMP programs, as the scripts that a team of threads executes,    *)
(* and what they promise.                                                  *)
(***************************************************************************)
EXTENDS TaskTree

-----------------------------------------------------------------------------
(* The programs. *)

For(work, detail, chunk, waits) ==
  [kind |-> "for", work |-> work, detail |-> detail, chunk |-> chunk, waits |-> waits]
Single(work, detail) ==
  [kind |-> "single", work |-> work, detail |-> detail, chunk |-> 0, waits |-> TRUE]
Each(work, waits) == [kind |-> "each", work |-> work, detail |-> "", chunk |-> 0, waits |-> waits]
Barrier == [kind |-> "barrier", work |-> "", detail |-> "", chunk |-> 0, waits |-> TRUE]

Region(script) == [script |-> script, start |-> 0, call |-> <<>>, array |-> FALSE]
Sum(work, detail, chunk) == For(work, detail, chunk, TRUE)

Critical_Preparation == Region(<<Sum("critical", "one", 0)>>)
Atomic_Preparation == Region(<<Sum("atomic", "one", 0)>>)
Unprotected_Preparation == Region(<<Sum("plain", "one", 0)>>)
Reduction_Preparation == Region(<<Sum("reduction", "one", 0)>>)
Lastprivate_Three3 == Region(<<Sum("last", "one", 0)>>)
Critical_Three3 == Region(<<Sum("critical", "one", 0), Single("print", "")>>)
Atomic_Three3 == Region(<<Sum("atomic", "one", 0), Single("print", "")>>)
Reduction_Three3 == Region(<<Sum("reduction", "one", 0), Single("print", "")>>)
Squares_Exercise1 == Region(<<Sum("reduction", "square", 0)>>)
Squares_Again2 == Region(<<Sum("reduction", "square", Chunk)>>)
Sums_Again2 == Region(<<For("set", "", 0, TRUE),
                        Sum("critical", "element", 0), Single("print", ""),
                        Sum("atomic", "element", 0), Single("print", ""),
                        Sum("reduction", "element", 0), Single("print", "")>>)
BarrierMain_Three3 == Region(<<For("set", "", 0, FALSE), Barrier, For("successor", "", 0, TRUE)>>)
Init_Again2 == Region(<<For("own", "", Chunk, FALSE), Barrier, Single("say", ""),
                        For("ordered", "", 0, TRUE)>>)
Ordered_Three3 == Region(<<For("own", "ordered", Chunk, TRUE)>>)
Case1_Preparation == Region(<<For("own", "", Chunk, TRUE)>>)
Matrix_Exercises == Region(<<For("set", "", 0, TRUE)>>)
Prefix_Exercise4 == Region(<<For("prefix", "", 1, TRUE)>>)
Triangle_Exam1 == Region(<<For("triangle", "", 1, TRUE)>>)
PrefixSum_Exercise4_2 == Region(<<Single("plan", ""), Each("scan", FALSE), Barrier, Each("offset", TRUE)>>)
Sections_Three3 == Region(<<For("set", "", 1, TRUE), Each("report", FALSE)>>)
Sections_Reviewing == [Region(<<For("private", "", 1, TRUE), For("private", "", 0, TRUE),
                                Sum("last", "one", 0)>>) EXCEPT !.start = 100]
ThreadPrivate_Reviewing == [Region(<<For("private", "", 0, TRUE), Single("copy", "copyprivate"),
                                     Sum("assign", "one", 0)>>) EXCEPT !.start = 20]
Copyprivate_Three3 == Region(<<Single("copy", "copyprivate")>>)

LoopPrograms ==
  {Critical_Preparation, Atomic_Preparation, Unprotected_Preparation, Reduction_Preparation,
   Lastprivate_Three3, Critical_Three3, Atomic_Three3, Reduction_Three3,
   Squares_Exercise1, Squares_Again2, Sums_Again2, BarrierMain_Three3, Init_Again2,
   Ordered_Three3, Case1_Preparation, Matrix_Exercises,
   Prefix_Exercise4, Triangle_Exam1, PrefixSum_Exercise4_2,
   Sections_Three3, Sections_Reviewing, ThreadPrivate_Reviewing, Copyprivate_Three3}

\* n is the argument of fib.
Fib(n, script) == [Region(script) EXCEPT !.call = <<n>>]
Fib_Preparation(n) == Fib(n, <<Single("tasks", "")>>)
Fib_Three3(n) == Fib(n, <<Single("tasks", ""), Single("print", "")>>)
Fib_Again2(n) == Fib(n, <<Single("tasks", "copyprivate")>>)
\* With NUM = 1000 the root is a leaf; the function splits longer ranges.
Range_Three3 == [Region(<<For("set", "", 0, TRUE), Single("tasks", "")>>)
                 EXCEPT !.call = <<0, N - 1>>, !.array = TRUE]
Range_Again2 == [Region(<<Single("tasks", "")>>) EXCEPT !.call = <<0, N - 1>>]

TaskPrograms(n) == {Fib_Preparation(n), Fib_Three3(n), Fib_Again2(n), Range_Three3, Range_Again2}

-----------------------------------------------------------------------------
(* What a run of the same program by one thread would give. *)

Fibonacci[n \in Nat] == IF n < 2 THEN n ELSE Fibonacci[n - 1] + Fibonacci[n - 2]

\* What iteration i adds to a sum, once the array holds a[i] = i.
Value(detail, i) == CASE detail = "one" -> 1 [] detail = "square" -> i * i [] detail = "element" -> i

Total(detail) == SumFunctionOnSet([i \in Iterations |-> Value(detail, i)], Iterations)

\* The possible values of what construct k sums up.
Expected(k) ==
  LET c == prog.script[k]
  IN  CASE c.work \in {"critical", "atomic", "reduction"} -> {prog.start + Total(c.detail)}
        [] c.work = "plain" -> 1..Total(c.detail)
        [] c.work = "assign" -> {prog.start + SumFunctionOnSet([t \in Threads |-> t], Threads)}
        [] c.work = "last" -> {prog.start + Cardinality(Block(NumThreads - 1))}
        [] c.work = "tasks" -> {IF IsFib THEN Fibonacci[prog.call[1]] ELSE Total("element")}
        [] OTHER -> {prog.start}

Has(work) == \E k \in Constructs : prog.script[k].work = work

SumsExpected == \A k \in Constructs : sum[k] \in Expected(k)

PrintsExpected == \A k \in Constructs : prog.script[k].work = "print" =>
                    printed[k] = <<CHOOSE s \in Expected(k - 1) : TRUE>>

\* What is not the print of a sum: reports, ordered output, or nothing.
OutputInOrder ==
  \A k \in Constructs :
    LET c == prog.script[k]
    IN  CASE c.work = "print" -> TRUE
          [] c.work = "report" -> printed[k] = [t \in 1..NumThreads |-> TRUE]
          [] "ordered" \in {c.work, c.detail} -> printed[k] = [i \in 1..N |-> i - 1]
          [] OTHER -> printed[k] = <<>>

ArraysFilled == \A i \in Iterations : /\ Has("set") => a[i] = i
                                      /\ Has("own") => a[i] \in Threads
                                      /\ Has("successor") => b[i] = i + 1

PrefixesSummed == Has("scan") \/ Has("prefix") \/ Has("triangle") =>
                    \A i \in Iterations : b[i] = PrefixSum[i]

CopiesEqual == (\E k \in Constructs : prog.script[k].detail = "copyprivate") /\ ~Has("assign") =>
                 \A t, u \in Threads : local[t] = local[u]

(* Whatever the schedule of the loops and tasks, the program leaves what a *)
(* sequential run would: the sums (but for the unprotected one), what the  *)
(* singles print of them, the arrays and prefix sums, the ordered output,  *)
(* equal copies behind a copyprivate.                                      *)
SequentialResult ==
  AllOut => /\ SumsExpected /\ PrintsExpected /\ OutputInOrder
            /\ ArraysFilled /\ PrefixesSummed /\ CopiesEqual

\* The shared variables that the next step of thread t reads, writes, and
\* updates atomically.
Reads(t) ==
  IF Out(t) THEN {} ELSE
    LET c == Construct(t)
        i == Current(t)
    IN  CASE phase[t] = "enter" /\ c.work = "scan" -> {<<"block_size">>}
          [] phase[t] = "enter" /\ c.work = "offset" ->
               {<<"block_size">>} \cup {<<"block_sum", u>> : u \in 0..t - 1}
          [] phase[t] = "enter" /\ c.work = "report" -> {<<"a", j>> : j \in Iterations}
          [] phase[t] = "work" /\ c.work = "print" -> {<<"sum", at[t] - 1>>}
          [] Working(t, {"plain"}) -> {<<"sum", at[t]>>}
          [] Working(t, {"successor"}) \/ (Working(t, {"atomic", "reduction"}) /\ c.detail = "element") ->
               {<<"a", i>>}
          [] Working(t, {"scan"}) /\ i - 1 \in Slice(t) -> {<<"b", i - 1>>}
          [] Working(t, {"offset"}) -> {<<"b", i>>}
          [] Runs(t, {"for"}, "store") /\ c.detail = "element" -> {<<"a", i>>}
          [] OTHER -> {}

Writes(t) ==
  IF Out(t) THEN {} ELSE
    CASE Runs(t, {"single"}, "work") /\ Construct(t).work = "plan" -> {<<"block_size">>}
      [] Working(t, {"set", "own"}) -> {<<"a", Current(t)>>}
      [] Working(t, {"successor", "prefix", "triangle", "scan", "offset"}) -> {<<"b", Current(t)>>}
      [] Runs(t, {"each"}, "work") /\ todo[t] = {} /\ Construct(t).work = "scan" -> {<<"block_sum", t>>}
      [] Runs(t, {"for"}, "store") /\ Construct(t).work \in {"critical", "plain"} -> {<<"sum", at[t]>>}
      [] OTHER -> {}

Updates(t) ==
  IF Working(t, {"atomic"}) \/ (Exhausted(t) /\ Construct(t).work \in {"reduction", "assign", "last"})
  THEN {<<"sum", at[t]>>} ELSE {}

(* No data race, except on the unprotected sum: no two threads are about   *)
(* to access the same variable, one of them writing.  The barriers, the    *)
(* critical regions and the sharing out of the iterations see to that.     *)
NoDataRace ==
  ~Has("plain") =>
    \A t, u \in Threads :
      t # u => /\ (Writes(t) \cup Updates(t)) \cap Reads(u) = {}
               /\ Writes(t) \cap (Writes(u) \cup Updates(u)) = {}

(* A task stores its value in a variable of the call that created it: that *)
(* call has not returned before.                                           *)
FramesAlive == \A p \in DOMAIN stage : p # Root /\ stage[p] # "done" => stage[Front(p)] # "done"

(* Every thread leaves the region: no barrier, taskwait or ordered region  *)
(* waits for a thread that does not come.                                  *)
Termination == <>AllOut
=============================================================================
