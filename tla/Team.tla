-------------------------------- MODULE Team --------------------------------
(***************************************************************************)
(* What an OpenMP runtime does for a parallel region: a team of threads    *)
(* that executes the same sequence of constructs, prog.script.             *)
(*   "for"      the iterations are shared out, in blocks (chunk = 0, the   *)
(*              schedule static) or by who asks first (dynamic, chunk);    *)
(*   "single"   the first thread to come executes it;                      *)
(*   "each"     every thread executes it on a block of its own;            *)
(*   "barrier"  nothing but the wait.                                      *)
(* A construct with waits ends in a barrier (there is no nowait).  What    *)
(* the threads do inside is the construct's work, in ParallelLoops.        *)
(***************************************************************************)
EXTENDS Integers, Sequences, FiniteSetsExt

CONSTANTS NumThreads,
          N,              \* iterations of a loop
          Chunk,          \* what schedule(dynamic, 2), 4 or 5 hands out at a time
          Programs

Threads == 0..NumThreads - 1
Iterations == 0..N - 1

ASSUME TeamAssumption == /\ {NumThreads, N, Chunk} \subseteq Nat \ {0}
                         /\ N >= NumThreads

VARIABLES prog,
          at,             \* at[t]: the construct thread t is in
          phase,          \* phase[t]: "enter", "work", "store" or "arrived"
          todo,           \* todo[t]: the iterations thread t has been given
          next,           \* next[k]: the first that dynamic loop k still has
          claimed         \* claimed[k]: the thread that executes single k

teamVars == <<prog, at, phase, todo, next, claimed>>

Constructs == 1..Len(prog.script)
Nobody == NumThreads

TeamInit == /\ prog \in Programs
            /\ at = [t \in Threads |-> 1]
            /\ phase = [t \in Threads |-> "enter"]
            /\ todo = [t \in Threads |-> {}]
            /\ next = [k \in Constructs |-> 0]
            /\ claimed = [k \in Constructs |-> Nobody]

Construct(t) == prog.script[at[t]]
Runs(t, kinds, label) == at[t] \in Constructs /\ Construct(t).kind \in kinds /\ phase[t] = label
Out(t) == at[t] \notin Constructs
AllOut == \A t \in Threads : Out(t)

Becomes(t, label) == phase' = [phase EXCEPT ![t] = label] /\ UNCHANGED at
GoOn(t) == /\ at' = [at EXCEPT ![t] = @ + 1]
           /\ phase' = [phase EXCEPT ![t] = "enter"]

\* The block of a static schedule: the first N % NumThreads blocks have one more.
Block(t) == LET size == N \div NumThreads
                more == N % NumThreads
                first == t * size + Min({t, more})
            IN  first..first + size - 1 + (IF t < more THEN 1 ELSE 0)

EnterFor(t) == /\ Runs(t, {"for"}, "enter")
               /\ todo' = [todo EXCEPT ![t] = IF Construct(t).chunk = 0 THEN Block(t) ELSE {}]
               /\ Becomes(t, "work")
               /\ UNCHANGED <<prog, next, claimed>>

\* dynamic: the next chunk goes to the thread that has finished its own.
Grab(t) == /\ Runs(t, {"for"}, "work")
           /\ Construct(t).chunk > 0 /\ todo[t] = {} /\ next[at[t]] < N
           /\ LET end == Min({N, next[at[t]] + Construct(t).chunk})
              IN  /\ todo' = [todo EXCEPT ![t] = next[at[t]]..end - 1]
                  /\ next' = [next EXCEPT ![at[t]] = end]
           /\ UNCHANGED <<prog, at, phase, claimed>>

\* Thread t has nothing left to do in its loop.
Exhausted(t) == /\ Runs(t, {"for"}, "work") /\ todo[t] = {}
                /\ Construct(t).chunk > 0 => next[at[t]] = N

Claim(t) == /\ Runs(t, {"single"}, "enter") /\ claimed[at[t]] = Nobody
            /\ claimed' = [claimed EXCEPT ![at[t]] = t]
            /\ Becomes(t, "work")
            /\ UNCHANGED <<prog, todo, next>>

\* Another thread has the single, or there is nothing but the barrier.
Skip(t) == /\ \/ Runs(t, {"single"}, "enter") /\ claimed[at[t]] # Nobody
              \/ Runs(t, {"barrier"}, "enter")
           /\ Becomes(t, "arrived")
           /\ UNCHANGED <<prog, todo, next, claimed>>

\* The end of a construct: wait for the others, or not.
Done(t) == IF Construct(t).waits THEN Becomes(t, "arrived") ELSE GoOn(t)

\* Mutant: nobody waits for the others.
AnyoneHere(t) == TRUE

\* Mutant: the threads that have passed it already are waited for.
AllStillHere(t) == \A u \in Threads : at[u] = at[t] /\ phase[u] = "arrived"

\* Everybody has reached the barrier that thread t waits at.
AllHere(t) == \A u \in Threads : \/ at[u] > at[t]
                                 \/ at[u] = at[t] /\ phase[u] = "arrived"

Pass(t) == /\ Runs(t, {"for", "single", "each", "barrier"}, "arrived") /\ AllHere(t)
           /\ GoOn(t)
           /\ UNCHANGED <<prog, todo, next, claimed>>
=============================================================================
