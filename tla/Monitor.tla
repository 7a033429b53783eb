------------------------------ MODULE Monitor -------------------------------
(***************************************************************************)
(* A pthread mutex with its condition variables, as the pthread programs   *)
(* use them.  Every variable of a monitor is accessed with the mutex held, *)
(* so what a thread does from pthread_mutex_lock (or the return of         *)
(* pthread_cond_wait) to pthread_mutex_unlock (or the next wait) is one    *)
(* step, and the mutex is free between steps.  A thread in                 *)
(* pthread_cond_wait is asleep until it is signalled, or until it wakes up *)
(* for no reason, which POSIX allows.                                      *)
(***************************************************************************)
EXTENDS Integers, FiniteSets

CONSTANT Conditions    \* the condition variables

VARIABLE asleep        \* the threads that sleep on each of them

NobodyAsleep == asleep = [c \in Conditions |-> {}]

Awake(t) == \A c \in Conditions : t \notin asleep[c]

\* pthread_cond_wait, up to the point where the mutex is released.
Sleep(t, c) == asleep' = [asleep EXCEPT ![c] = @ \cup {t}]

\* pthread_cond_signal: one of the sleepers, if there is one.
Signal(c) == IF asleep[c] = {} THEN UNCHANGED asleep
             ELSE \E t \in asleep[c] : asleep' = [asleep EXCEPT ![c] = @ \ {t}]

\* pthread_cond_broadcast
Broadcast(c) == asleep' = [asleep EXCEPT ![c] = {}]

\* t returns from pthread_cond_wait though nobody has signalled.
WakeUp(t) == \E c \in Conditions : /\ t \in asleep[c]
                                   /\ asleep' = [asleep EXCEPT ![c] = @ \ {t}]
=============================================================================
