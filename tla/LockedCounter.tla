--------------------------- MODULE LockedCounter ---------------------------
(***************************************************************************)
(* What every lock program of this repository promises: threads take turns *)
(* in a critical section, and each increment of the shared counter made    *)
(* there is one indivisible step.  The programs implement the increment by *)
(* a load and a store, and the turns by a lock algorithm; the modules that *)
(* EXTEND Worker are shown to implement this one.                          *)
(***************************************************************************)
EXTENDS Naturals

CONSTANTS Threads,      \* the threads main() creates
          Increments    \* how often each of them increments the counter

VARIABLES inside,       \* the threads in the critical section
          count,        \* the shared counter
          done          \* how often each thread has incremented it

vars == <<inside, count, done>>

Init == /\ inside = {}
        /\ count = 0
        /\ done = [t \in Threads |-> 0]

\* A thread enters only an empty critical section.
Enter(t) == /\ inside = {}
            /\ inside' = {t}
            /\ UNCHANGED <<count, done>>

\* The increment is atomic, and only the thread inside performs it.
Increment(t) == /\ inside = {t}
                /\ done[t] < Increments
                /\ count' = count + 1
                /\ done' = [done EXCEPT ![t] = @ + 1]
                /\ UNCHANGED inside

Exit(t) == /\ inside = {t}
           /\ inside' = {}
           /\ UNCHANGED <<count, done>>

Next == \E t \in Threads : Enter(t) \/ Increment(t) \/ Exit(t)

Spec == Init /\ [][Next]_vars
=============================================================================
