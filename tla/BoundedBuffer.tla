--------------------------- MODULE BoundedBuffer ----------------------------
(***************************************************************************)
(* Threads that put items into slots and take items out of them: producers *)
(* and consumers that share one slot for several items, and threads that   *)
(* pass messages to their neighbours through a slot for each.  Programs    *)
(* are told apart by                                                       *)
(*   waits  what a thread does that finds nothing to do: it waits and      *)
(*          tests again ("while"), waits and does not ("if"), or releases  *)
(*          the mutex and comes back ("poll");                             *)
(*   once   each thread puts or takes one item and returns;                *)
(*   slots  "one": producers put into slot 0, consumers take from it;      *)
(*          "pair": the same with one producer, that does not test, and    *)
(*          one consumer; otherwise thread t puts into slot t + 1 and      *)
(*          takes from slot t - 1, in a "ring", modulo the number of       *)
(*          threads, where taking comes first, or in a line, where putting *)
(*          comes first: "line" tests for both ends, "spill" does not, and *)
(*          uses the words before and behind the array.                    *)
(* A poll that finds nothing to do changes nothing and is no step.         *)
(***************************************************************************)
EXTENDS Monitor

CONSTANTS N,              \* THREAD_NUMS
          Producers, Consumers, Programs,
          Capacity        \* 1000

Threads == 0..N - 1

ASSUME ThreadsAssumption == /\ N \in Nat /\ N > 2
                            /\ Producers \cup Consumers \subseteq Threads
                            /\ Producers \cap Consumers = {}
ASSUME ConditionsAssumption == Conditions = {"cond_producer", "cond_consumer"}
ASSUME ProgramsAssumption ==
         /\ Programs \subseteq [waits : {"while", "if", "poll"}, once : BOOLEAN,
                                slots : {"one", "pair", "ring", "line", "spill"}]
         /\ \A p \in Programs : p.once \/ p.slots # "one" => p.waits = "poll"
ASSUME CapacityAssumption == Capacity \in Nat \ {0}

VARIABLES prog, pc,
          level             \* shared_value or message_available: the items in
                            \* a slot; message_slots[i]: 1 if there is one

vars == <<prog, pc, asleep, level>>

\* What spill does not test for are the words before and behind the array.
\* Undefined in C; in the build nothing else is kept there, because gcc aligns
\* the arrays of 40 bytes and their neighbours to multiples of 32.
Slots == CASE prog.slots \in {"one", "pair"} -> {0}
           [] prog.slots \in {"ring", "line"} -> Threads
           [] prog.slots = "spill" -> -1..N

\* The slots that thread t uses, if any.
PutsInto(t) == CASE prog.slots = "one" -> IF t \in Producers THEN {0} ELSE {}
                 [] prog.slots = "pair" -> IF t = 1 THEN {0} ELSE {}
                 [] prog.slots = "ring" -> {(t + 1) % N}
                 [] OTHER -> {t + 1} \cap Slots

TakesFrom(t) == CASE prog.slots = "one" -> IF t \in Consumers THEN {0} ELSE {}
                  [] prog.slots = "pair" -> IF t = 0 THEN {0} ELSE {}
                  [] prog.slots = "ring" -> {(t - 1 + N) % N}
                  [] OTHER -> {t - 1} \cap Slots

Init == /\ prog \in Programs
        /\ pc = [t \in Threads |->
                   IF PutsInto(t) \cup TakesFrom(t) = {} THEN "done" ELSE "lock"]
        /\ NobodyAsleep
        /\ level = [s \in Slots |-> 0]

Goto(t, label) == pc' = [pc EXCEPT ![t] = label]

Size == IF prog.slots = "one" /\ ~prog.once THEN Capacity ELSE 1

HasRoom(t) == \E s \in PutsInto(t) : prog.slots = "pair" \/ level[s] < Size
HasItem(t) == \E s \in TakesFrom(t) : level[s] > 0

\* The condition on which a thread sleeps, and the one it broadcasts.
Own(t) == IF t \in Producers THEN "cond_producer" ELSE "cond_consumer"

\* Mutant: the two conditions are confused.
OwnAgain(t) == Own(t)

Other(t) == IF t \in Producers THEN "cond_consumer" ELSE "cond_producer"

May(t) == HasRoom(t) \/ HasItem(t)

\* pthread_cond_wait, on the first test or on a later one.
Wait(t) == /\ \/ pc[t] = "lock" /\ prog.waits # "poll"
              \/ pc[t] = "wait" /\ prog.waits = "while"
           /\ Awake(t) /\ ~May(t)
           /\ Sleep(t, Own(t))
           /\ Goto(t, "wait")
           /\ UNCHANGED <<prog, level>>

\* Mutant: nobody tests again.
PassesUntested(t) == \/ pc[t] = "lock" /\ May(t)
                     \/ pc[t] = "wait" /\ Awake(t)

\* The thread gets past its test; after a wait, only while tests again.
Passes(t) == \/ pc[t] = "lock" /\ May(t)
             \/ /\ pc[t] = "wait" /\ Awake(t)
                /\ prog.waits = "while" => May(t)

\* With nobody asleep, as in the programs that poll, the broadcast is void.
Finish(t) == /\ Broadcast(Other(t))
             /\ Goto(t, IF prog.once THEN "done" ELSE "lock")
             /\ UNCHANGED prog

\* In the lines a thread takes only if it cannot put, in the ring it puts
\* only if it cannot take.
PutsFirst == prog.slots \in {"line", "spill"}

\* Mutant: putting comes first everywhere.
PutsIfRoom(t) == HasRoom(t)

PutsNow(t) == IF PutsFirst THEN HasRoom(t) ELSE ~HasItem(t)

Produce(t) == /\ PutsInto(t) # {} /\ Passes(t)
              /\ PutsNow(t)
              /\ level' = [s \in Slots |->
                             IF s \notin PutsInto(t) THEN level[s]
                             ELSE IF prog.slots = "pair" THEN 1 ELSE level[s] + 1]
              /\ Finish(t)

\* Mutant: the message is read and left where it is.
Unchanged(t) == [s \in Slots |-> IF s \in TakesFrom(t) /\ ~prog.once
                                 THEN level[s] - 1 ELSE level[s]]

Without(t) == [s \in Slots |-> IF s \in TakesFrom(t) THEN level[s] - 1 ELSE level[s]]

Consume(t) == /\ TakesFrom(t) # {} /\ Passes(t)
              /\ PutsInto(t) # {} => ~PutsNow(t)
              /\ level' = Without(t)
              /\ Finish(t)

Act(t) == Wait(t) \/ Produce(t) \/ Consume(t)

SpuriousWakeup(t) == WakeUp(t) /\ UNCHANGED <<prog, pc, level>>

AllDone == \A t \in Threads : pc[t] = "done"

Joined == AllDone /\ UNCHANGED vars

Next == (\E t \in Threads : Act(t) \/ SpuriousWakeup(t)) \/ Joined

\* A thread that is awake goes on running.
Fairness == \A t \in Threads : WF_vars(Act(t))

Spec == Init /\ [][Next]_vars
FairSpec == Spec /\ Fairness

-----------------------------------------------------------------------------
Counting(waits) == [waits |-> waits, once |-> FALSE, slots |-> "one"]
Passing(slots) == [waits |-> "poll", once |-> FALSE, slots |-> slots]

Condition_Pthread == Counting("while")
Condition_Again2 == Counting("while")
Condition_Three3 == Counting("if")
Polling_Three3 == Counting("poll")
Polling_Again2 == Counting("poll")
Slot_Exam == [waits |-> "poll", once |-> TRUE, slots |-> "one"]
Message_Exam == [waits |-> "poll", once |-> TRUE, slots |-> "pair"]
Messages_Exam == Passing("ring")
Messages_Three3 == Passing("line")
Messages_Again2 == Passing("spill")

Testing == {Condition_Pthread, Condition_Again2, Polling_Three3, Polling_Again2,
            Slot_Exam, Message_Exam, Messages_Exam, Messages_Three3, Messages_Again2}
NotTesting == {Condition_Three3}

-----------------------------------------------------------------------------
(* No item is taken out of an empty slot or put into a full one.           *)
InBounds == \A s \in Slots : level[s] \in 0..Size

(* Consumers sleep only while there is nothing to consume, producers only  *)
(* while there is no room: nobody sleeps through his wake-up.              *)
NoLostWakeup == \A t \in Threads : ~Awake(t) => ~May(t)

(* The looping programs go on for ever: not everybody waits.               *)
KeepsMoving == prog.once \/ []<><<TRUE>>_level

(* Every message is consumed once: with as many consumers as producers,    *)
(* each gets one and none is left.                                         *)
AllServed ==
  prog.once /\ Cardinality(Producers) = Cardinality(Consumers)
    => <>[](AllDone /\ level[0] = 0)

Full(s) == s \in Slots /\ level[s] = 1

(* In the ring every message is received in the end, however busy the      *)
(* threads are with sending.  In the lines nobody receives from the last   *)
(* slots; when those are full, the slots before them are served.           *)
Delivered ==
  \A s \in Threads :
    /\ prog.slots = "ring" /\ Full(s) ~> ~Full(s)
    /\ PutsFirst /\ s \in {N - 2, N - 3} /\ Full(s) ~> ~Full(s)
=============================================================================
