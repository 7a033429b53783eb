----------------------------- MODULE ALockProofs ----------------------------
(***************************************************************************)
(* The array lock, for every set of threads, number of increments and      *)
(* array that has a slot for each thread: first come first served, one at  *)
(* a time, the key behind the array overwritten too late to matter, and    *)
(* the refinement of the atomic counter.                                   *)
(*                                                                         *)
(* A slot is used again by another thread.  That this is late enough rests *)
(* on Tickets: the threads in the queue hold consecutive tickets, so there *)
(* are no more of them than threads, and tickets less than CAPACITY apart  *)
(* fall on different slots.                                                *)
(***************************************************************************)
EXTENDS ALock, WorkerProofs, FunctionTheorems

\* Without the modulo, each thread takes the lock once.
Sound == \A p \in Programs : p.wraps \/ p.once

ALockTypeOK == /\ prog \in Programs
               /\ tail \in Nat
               /\ flags \in [0..Capacity -> BOOLEAN]
               /\ index \in [Threads -> Nat]

Queue == /\ queued = {t \in Threads : pc[t] \in Critical \cup {"spin", "grant"}}
         /\ Ordered(queued, ahead)

\* The threads in the queue hold consecutive tickets, in the queue's order.
Tickets == \A t \in queued :
             /\ index[t] < tail
             /\ \A u \in queued : u \in ahead[t] <=> index[u] < index[t]
             /\ \A i \in index[t]..tail - 1 : \E u \in queued : index[u] = i

\* One flag is set: that of the first in the queue until he clears it, or of
\* the next to come.
OneFlag ==
  /\ queued = {} => \A i \in 0..Capacity : flags[i] <=> i = Slot(tail)
  /\ \A t \in queued : ahead[t] = {} =>
       \A i \in 0..Capacity : flags[i] <=> i = Slot(index[t]) /\ pc[t] # "grant"

HasFirst == queued # {} => \E t \in queued : ahead[t] = {}

OthersSpin == \A t \in queued : ahead[t] # {} => pc[t] = "spin"

Started == {t \in Threads : pc[t] # "lock"}

OneTicketEach ==
  prog.once => /\ tail = Cardinality(Started)
               /\ \A t \in Threads : pc[t] \in {"unlock", "grant"} => done[t] = Increments

Inv == /\ ALockTypeOK /\ WorkInv({"spin"}, {"grant"})
       /\ Queue /\ Tickets /\ OneFlag /\ HasFirst /\ OthersSpin /\ OneTicketEach

-----------------------------------------------------------------------------
(* Slots.                                                                  *)

\* Numbers less than n apart differ modulo n.
LEMMA ModWindow ==
  ASSUME NEW i \in Nat, NEW j \in Nat, NEW n \in Nat \ {0},
         i <= j, j - i < n, i % n = j % n
  PROVE  i = j
<1> DEFINE p == i \div n
           q == j \div n
<1>1. /\ i = n * p + (i % n) /\ p \in Nat
      /\ j = n * q + (j % n) /\ q \in Nat
      /\ i % n \in Int
  OBVIOUS
<1> HIDE DEF p, q
<1>2. n * q - n * p = j - i /\ n * q \in Int /\ n * p \in Int
  BY <1>1
<1>3. n * q - n * p = n * (q - p)
  BY <1>1
<1>4. q - p < 1
  <2> SUFFICES ASSUME q - p >= 1 PROVE n * (q - p) >= n
    BY <1>1, <1>2, <1>3
  <2> QED
    BY <1>1
<1>5. q - p > -1
  <2> SUFFICES ASSUME q - p <= -1 PROVE n * (q - p) < 0
    BY <1>1, <1>2, <1>3
  <2> QED
    BY <1>1
<1>6. q = p
  BY <1>1, <1>4, <1>5
<1> QED
  BY <1>2, <1>6

\* The tickets in the queue are less than CAPACITY apart.
LEMMA Window ==
  ASSUME Inv, NEW t \in queued
  PROVE  tail - index[t] <= Capacity
<1> USE DEF Inv, ALockTypeOK
<1>0. /\ queued \subseteq Threads /\ tail \in Nat /\ index[t] \in Nat
      /\ Capacity \in Nat /\ IsFiniteSet(Threads) /\ Cardinality(Threads) <= Capacity
  BY CapacityAssumption, FiniteThreads DEF Queue, Ordered
<1>1. /\ IsFiniteSet(queued) /\ Cardinality(queued) <= Cardinality(Threads)
      /\ Cardinality(queued) \in Nat /\ Cardinality(Threads) \in Nat
  BY <1>0, FS_Subset, FS_CardinalityType
<1> DEFINE Held == {index[u] : u \in queued}
           f == [u \in queued |-> index[u]]
<1>2. f \in Surjection(queued, Held)
  <2>1. f \in [queued -> Held] /\ \A i \in Held : \E u \in queued : f[u] = i
    OBVIOUS
  <2> QED
    BY <2>1, Fun_IsSurj
<1>3. IsFiniteSet(Held) /\ Cardinality(Held) <= Cardinality(queued)
  BY <1>1, <1>2, FS_Surjection
<1>4. index[t]..tail - 1 \in SUBSET Held
  BY DEF Tickets
<1>5. Cardinality(index[t]..tail - 1) <= Cardinality(Held) /\ Cardinality(Held) \in Nat
  BY <1>3, <1>4, FS_Subset, FS_CardinalityType
<1>6. Cardinality(index[t]..tail - 1) = tail - index[t]
  <2>1. index[t] \in Int /\ tail - 1 \in Int /\ index[t] < tail
    BY <1>0 DEF Tickets
  <2> QED
    BY <2>1, FS_Interval
<1> QED
  BY <1>0, <1>1, <1>3, <1>5, <1>6

\* Without the modulo, no more tickets are given out than there are slots.
LEMMA FewTickets ==
  ASSUME Inv, prog.once
  PROVE  /\ tail <= Capacity
         /\ tail = Capacity => Started = Threads
<1> USE DEF Inv
<1>1. Started \in SUBSET Threads /\ IsFiniteSet(Threads)
  BY FiniteThreads DEF Started
<1>2. /\ IsFiniteSet(Started) /\ Cardinality(Started) <= Cardinality(Threads)
      /\ Cardinality(Threads) = Cardinality(Started) => Threads = Started
      /\ Cardinality(Started) \in Nat /\ Cardinality(Threads) \in Nat
  BY <1>1, FS_Subset, FS_CardinalityType
<1> QED
  BY <1>2, CapacityAssumption, FiniteThreads DEF OneTicketEach

LEMMA SlotRange ==
  ASSUME Inv, Sound
  PROVE  /\ Slot(tail) \in 0..Capacity
         /\ \A t \in queued : Slot(index[t]) \in 0..Capacity - 1
         /\ \A t \in queued : Slot(index[t] + 1) \in 0..Capacity
<1> USE DEF Inv, ALockTypeOK
<1>0. queued \subseteq Threads /\ Capacity \in Nat \ {0} /\ prog.wraps \in BOOLEAN
  BY CapacityAssumption, ProgramsAssumption DEF Queue, Ordered
<1>1. CASE prog.wraps
  BY <1>0, <1>1 DEF Slot
<1>2. CASE ~prog.wraps
  <2>1. prog.once
    BY <1>2 DEF Sound
  <2>2. tail <= Capacity
    BY <2>1, FewTickets
  <2> QED
    BY <1>0, <1>2, <2>2 DEF Slot, Tickets
<1> QED
  BY <1>1, <1>2

\* No two threads in the queue have the same slot.
LEMMA OwnSlot ==
  ASSUME Inv, NEW t \in queued, NEW u \in queued, Slot(index[t]) = Slot(index[u])
  PROVE  t = u
<1> USE DEF Inv, ALockTypeOK
<1>0. /\ t \in Threads /\ u \in Threads /\ Capacity \in Nat \ {0}
      /\ index[t] \in Nat /\ index[u] \in Nat /\ tail \in Nat
      /\ index[t] < tail /\ index[u] < tail
  BY CapacityAssumption, FiniteThreads DEF Queue, Ordered, Tickets
<1>1. tail - index[t] <= Capacity /\ tail - index[u] <= Capacity
  BY Window
<1>2. index[t] = index[u]
  <2>1. CASE prog.wraps
    <3>1. index[t] % Capacity = index[u] % Capacity
      BY <2>1 DEF Slot
    <3>2. CASE index[t] <= index[u]
      <4>1. index[u] - index[t] < Capacity
        BY <1>0, <1>1
      <4> QED
        BY <1>0, <3>1, <3>2, <4>1, ModWindow
    <3>3. CASE index[u] <= index[t]
      <4>1. index[t] - index[u] < Capacity
        BY <1>0, <1>1
      <4> QED
        BY <1>0, <3>1, <3>3, <4>1, ModWindow
    <3> QED
      BY <1>0, <3>2, <3>3
  <2>2. CASE ~prog.wraps
    BY <2>2 DEF Slot
  <2> QED
    BY <2>1, <2>2
<1> QED
  BY <1>0, <1>2 DEF Queue, Ordered, Tickets

-----------------------------------------------------------------------------
(* The steps.                                                              *)

LEMMA LabelsDisjoint == Labelled({"spin"}, {"grant"})
BY DEF Labelled, Critical

\* Only the first in the queue finds its flag set, and nobody is inside then.
LEMMA FirstGoes ==
  ASSUME Inv, Sound, NEW t \in queued, flags[Slot(index[t])], pc[t] = "spin"
  PROVE  ahead[t] = {} /\ Inside = {}
<1> USE DEF Inv
<1>1. PICK u \in queued : ahead[u] = {}
  BY DEF HasFirst
<1>2. Slot(index[t]) \in 0..Capacity
  <2>1. Slot(index[t]) \in 0..Capacity - 1 /\ Capacity \in Nat
    BY SlotRange, CapacityAssumption
  <2> QED
    BY <2>1
<1>3. Slot(index[t]) = Slot(index[u])
  BY <1>1, <1>2 DEF OneFlag
<1>4. t = u
  BY <1>3, OwnSlot
<1>5. Inside = {}
  <2> SUFFICES ASSUME NEW v \in Inside PROVE FALSE
    OBVIOUS
  <2>1. v \in queued /\ v # t /\ pc[v] # "spin"
    BY DEF Inside, Queue, Critical
  <2>2. ahead[v] = {}
    BY <2>1 DEF OthersSpin
  <2> QED
    BY <1>1, <1>4, <2>1, <2>2 DEF Queue, Ordered
<1> QED
  BY <1>1, <1>4, <1>5

LEMMA WorkInvKept ==
  ASSUME Inv, NEW t \in Threads, Work(t), UNCHANGED <<queueVars, tail, flags, index>>
  PROVE  Inv' /\ (Abstract!Increment(t) \/ UNCHANGED Abstract!vars)
<1> USE DEF Inv
<1>0. prog \in Programs /\ prog.once \in BOOLEAN
  BY ProgramsAssumption DEF ALockTypeOK
<1>1. /\ WorkInv({"spin"}, {"grant"})'
      /\ Abstract!Increment(t) \/ UNCHANGED Abstract!vars
  BY <1>0, LabelsDisjoint, WorkStep
<1>2. PICK to \in {"read", "write", "unlock"} : Goto(t, to)
  BY DEF Work, ReadShared, WriteShared, Step
<1>3. /\ pc' = [pc EXCEPT ![t] = to] /\ t \in DOMAIN pc
      /\ pc[t] \in {"read", "write"} /\ prog' = prog
  BY <1>2 DEF Goto, Work, ReadShared, WriteShared, Step, WorkInv, WorkTypeOK
<1>4. ALockTypeOK' /\ Tickets' /\ HasFirst'
  BY <1>3 DEF ALockTypeOK, Tickets, HasFirst, queueVars
<1>5. Queue'
  BY <1>3 DEF Queue, queueVars, Critical, Ordered
<1>6. OneFlag'
  BY <1>3 DEF OneFlag, queueVars, Slot, Queue, Ordered
<1>7. OthersSpin'
  BY <1>3 DEF OthersSpin, queueVars
<1>8. OneTicketEach'
  <2> SUFFICES ASSUME prog.once
               PROVE  /\ tail = Cardinality(Started')
                      /\ \A u \in Threads : pc'[u] \in {"unlock", "grant"} => done'[u] = Increments
    BY <1>3 DEF OneTicketEach
  <2>1. Started' = Started
    BY <1>3 DEF Started
  <2>2. ASSUME NEW u \in Threads, pc'[u] \in {"unlock", "grant"}
        PROVE  done'[u] = Increments
    <3>1. CASE u = t
      <4>1. WriteShared(t)
        BY <1>3, <2>2, <3>1 DEF Work, ReadShared, Step, Goto
      <4>2. /\ ~(done[t] + 1 < Increments) /\ done' = [done EXCEPT ![t] = @ + 1]
            /\ done \in [Threads -> 0..Increments] /\ Increments \in Nat
        BY <1>3, <2>2, <3>1, <4>1, IncrementsAssumption
           DEF WriteShared, Goto, WorkInv, WorkTypeOK
      <4>3. done'[t] \in 0..Increments
        BY <1>1 DEF WorkInv, WorkTypeOK
      <4> QED
        BY <3>1, <4>2, <4>3
    <3>2. CASE u # t
      BY <1>3, <2>2, <3>2 DEF OneTicketEach, Work, ReadShared, WriteShared, WorkInv, WorkTypeOK
    <3> QED
      BY <3>1, <3>2
  <2> QED
    BY <2>1, <2>2 DEF OneTicketEach
<1> QED
  BY <1>1, <1>4, <1>5, <1>6, <1>7, <1>8

LEMMA TakeSlotInv ==
  ASSUME Inv, NEW t \in Threads, TakeSlot(t)
  PROVE  Inv' /\ UNCHANGED Abstract!vars
<1> USE DEF Inv
<1>0. /\ pc[t] = "lock" /\ Goto(t, "spin") /\ UNCHANGED workVars /\ prog' = prog
      /\ pc' = [pc EXCEPT ![t] = "spin"] /\ t \in DOMAIN pc
      /\ t \notin queued /\ queued \subseteq Threads
      /\ queued' = queued \cup {t} /\ ahead' = [ahead EXCEPT ![t] = queued]
      /\ index' = [index EXCEPT ![t] = tail] /\ tail' = tail + 1 /\ flags' = flags
      /\ ahead \in [Threads -> SUBSET Threads]
      /\ index \in [Threads -> Nat] /\ tail \in Nat
  BY DEF TakeSlot, Step, Goto, Join, workVars, Queue, Ordered, Critical, WorkInv, WorkTypeOK, ALockTypeOK
<1>1. WorkInv({"spin"}, {"grant"})' /\ UNCHANGED Abstract!vars
  BY <1>0, LabelsDisjoint, OutsideStep
<1>2. ALockTypeOK'
  BY <1>0 DEF ALockTypeOK
<1>3. Queue'
  <2>1. Ordered(queued', ahead')
    BY <1>0, JoinOrder DEF Queue
  <2> QED
    BY <1>0, <2>1 DEF Queue, Critical
<1>4. Tickets'
  <2> SUFFICES ASSUME NEW u \in queued'
               PROVE  /\ index'[u] < tail'
                      /\ \A v \in queued' : v \in ahead'[u] <=> index'[v] < index'[u]
                      /\ \A i \in index'[u]..tail' - 1 : \E v \in queued' : index'[v] = i
    BY DEF Tickets
  <2>1. index'[u] < tail'
    BY <1>0 DEF Tickets
  <2>2. ASSUME NEW v \in queued'
        PROVE  v \in ahead'[u] <=> index'[v] < index'[u]
    <3>1. CASE u = t
      BY <1>0, <2>2, <3>1 DEF Tickets
    <3>2. CASE u # t /\ v = t
      <4>1. u \in queued /\ index[u] < tail /\ index[u] \in Nat
        BY <1>0, <3>2 DEF Tickets
      <4>2. t \notin ahead[u]
        BY <1>0, <4>1 DEF Queue, Ordered
      <4> QED
        BY <1>0, <3>2, <4>1, <4>2
    <3>3. CASE u # t /\ v # t
      BY <1>0, <2>2, <3>3 DEF Tickets
    <3> QED
      BY <3>1, <3>2, <3>3
  <2>3. ASSUME NEW i \in index'[u]..tail' - 1
        PROVE  \E v \in queued' : index'[v] = i
    <3>1. CASE i = tail
      BY <1>0, <3>1
    <3>2. CASE i # tail
      <4>1. u # t /\ u \in queued /\ i \in index[u]..tail - 1
        BY <1>0, <2>3, <3>2
      <4>2. PICK v \in queued : index[v] = i
        BY <4>1 DEF Tickets
      <4> QED
        BY <1>0, <4>2
    <3> QED
      BY <3>1, <3>2
  <2> QED
    BY <2>1, <2>2, <2>3
<1>5. OneFlag'
  <2>1. queued' # {}
    BY <1>0
  <2>2. ASSUME NEW u \in queued', ahead'[u] = {}, NEW i \in 0..Capacity
        PROVE  flags'[i] <=> i = Slot(index[u])' /\ pc'[u] # "grant"
    <3>1. CASE u = t
      <4>1. queued = {}
        BY <1>0, <2>2, <3>1
      <4>2. Slot(index[u])' = Slot(tail)
        BY <1>0, <3>1 DEF Slot
      <4> QED
        BY <1>0, <3>1, <4>1, <4>2 DEF OneFlag
    <3>2. CASE u # t
      <4>1. u \in queued /\ ahead[u] = {} /\ pc'[u] = pc[u] /\ Slot(index[u])' = Slot(index[u])
        BY <1>0, <2>2, <3>2 DEF Slot
      <4> QED
        BY <1>0, <4>1 DEF OneFlag
    <3> QED
      BY <3>1, <3>2
  <2> QED
    BY <2>1, <2>2 DEF OneFlag
<1>6. HasFirst'
  BY <1>0 DEF HasFirst
<1>7. OthersSpin'
  BY <1>0 DEF OthersSpin
<1>8. OneTicketEach'
  <2>1. Started' = Started \cup {t} /\ t \notin Started
    BY <1>0 DEF Started
  <2>2. IsFiniteSet(Started)
    BY FiniteThreads, FS_Subset DEF Started
  <2>3. Cardinality(Started') = Cardinality(Started) + 1
    BY <2>1, <2>2, FS_AddElement
  <2> QED
    BY <1>0, <2>3 DEF OneTicketEach, workVars
<1> QED
  BY <1>1, <1>2, <1>3, <1>4, <1>5, <1>6, <1>7, <1>8

LEMMA GoInv ==
  ASSUME Inv, Sound, NEW t \in Threads, Go(t)
  PROVE  Inv' /\ Abstract!Enter(t)
<1> USE DEF Inv
<1>0. /\ pc[t] = "spin" /\ Goto(t, "read") /\ UNCHANGED workVars /\ prog' = prog
      /\ pc' = [pc EXCEPT ![t] = "read"] /\ t \in DOMAIN pc
      /\ t \in queued /\ flags[Slot(index[t])]
      /\ UNCHANGED <<queueVars, tail, flags, index>>
  BY DEF Go, Step, Goto, workVars, Queue, WorkInv, WorkTypeOK
<1>1. ahead[t] = {} /\ Inside = {}
  BY <1>0, FirstGoes
<1>2. WorkInv({"spin"}, {"grant"})' /\ Abstract!Enter(t)
  BY <1>0, <1>1, LabelsDisjoint, EnterStep
<1>3. ALockTypeOK' /\ Tickets' /\ HasFirst'
  BY <1>0 DEF ALockTypeOK, Tickets, HasFirst, queueVars
<1>4. Queue'
  BY <1>0 DEF Queue, queueVars, Critical, Ordered
<1>5. OneFlag'
  BY <1>0 DEF OneFlag, queueVars, Slot, Queue, Ordered
<1>6. OthersSpin'
  BY <1>0, <1>1 DEF OthersSpin, queueVars
<1>7. OneTicketEach'
  <2>1. Started' = Started
    BY <1>0 DEF Started
  <2> QED
    BY <1>0, <2>1 DEF OneTicketEach, workVars
<1> QED
  BY <1>2, <1>3, <1>4, <1>5, <1>6, <1>7

LEMMA ClearFlagInv ==
  ASSUME Inv, Sound, NEW t \in Threads, ClearFlag(t)
  PROVE  Inv' /\ Abstract!Exit(t)
<1> USE DEF Inv
<1>0. /\ pc[t] = "unlock" /\ Goto(t, "grant") /\ UNCHANGED workVars /\ prog' = prog
      /\ pc' = [pc EXCEPT ![t] = "grant"] /\ t \in DOMAIN pc
      /\ t \in queued /\ UNCHANGED <<queueVars, tail, index>>
      /\ flags' = [flags EXCEPT ![Slot(index[t])] = FALSE]
      /\ Slot(index[t])' = Slot(index[t])
  BY DEF ClearFlag, Step, Goto, workVars, Queue, Critical, WorkInv, WorkTypeOK, Slot
<1>1. ahead[t] = {}
  BY <1>0 DEF OthersSpin
<1>2. WorkInv({"spin"}, {"grant"})' /\ Abstract!Exit(t)
  BY <1>0, LabelsDisjoint, ExitStep
<1>3. ALockTypeOK' /\ Tickets' /\ HasFirst'
  BY <1>0 DEF ALockTypeOK, Tickets, HasFirst, queueVars
<1>4. Queue'
  BY <1>0 DEF Queue, queueVars, Critical, Ordered
<1>5. OneFlag'
  <2>1. \A u \in queued : ahead[u] = {} => u = t
    BY <1>0, <1>1 DEF Queue, Ordered
  <2>2. \A i \in 0..Capacity : ~flags'[i]
    BY <1>0, <1>1 DEF OneFlag, ALockTypeOK
  <2> QED
    BY <1>0, <2>1, <2>2 DEF OneFlag, queueVars
<1>6. OthersSpin'
  BY <1>0, <1>1 DEF OthersSpin, queueVars
<1>7. OneTicketEach'
  <2>1. Started' = Started
    BY <1>0 DEF Started
  <2> QED
    BY <1>0, <2>1 DEF OneTicketEach, workVars
<1> QED
  BY <1>2, <1>3, <1>4, <1>5, <1>6, <1>7

LEMMA GrantInv ==
  ASSUME Inv, Sound, NEW t \in Threads, Grant(t)
  PROVE  Inv' /\ UNCHANGED Abstract!vars
<1> USE DEF Inv
<1>0. /\ pc[t] = "grant" /\ Leave(t) /\ UNCHANGED workVars /\ prog' = prog
      /\ t \in queued /\ queued \subseteq Threads
      /\ queued' = queued \ {t} /\ ahead' = [u \in Threads |-> ahead[u] \ {t}]
      /\ tail' = tail /\ index' = index
      /\ flags' = [flags EXCEPT ![Slot(index[t] + 1)] = TRUE]
      /\ index \in [Threads -> Nat] /\ tail \in Nat
      /\ \A i : Slot(i)' = Slot(i)
  BY DEF Grant, Depart, workVars, Queue, Ordered, ALockTypeOK, Slot
<1>1. PICK to \in {"lock", "done"} : pc' = [pc EXCEPT ![t] = to]
  BY <1>0 DEF Leave, Goto
<1>2. t \in DOMAIN pc /\ done \in [Threads -> 0..Increments] /\ Increments \in Nat
  BY IncrementsAssumption DEF WorkInv, WorkTypeOK
<1>3. /\ ahead[t] = {}
      /\ \A u \in queued \ {t} : t \in ahead[u] /\ index[t] < index[u]
  BY <1>0 DEF OthersSpin, Queue, Ordered, Tickets
<1>4. WorkInv({"spin"}, {"grant"})' /\ UNCHANGED Abstract!vars
  BY <1>0, LabelsDisjoint, LeaveStep
<1>5. ALockTypeOK'
  BY <1>0 DEF ALockTypeOK
<1>6. Queue'
  <2>1. Ordered(queued', ahead')
    BY <1>0, DepartOrder DEF Queue
  <2> QED
    BY <1>0, <1>1, <1>2, <2>1 DEF Queue, Critical
\* The threads that were not first keep their tickets.
<1>7. Tickets'
  <2> SUFFICES ASSUME NEW u \in queued'
               PROVE  /\ index[u] < tail
                      /\ \A v \in queued' : v \in ahead'[u] <=> index[v] < index[u]
                      /\ \A i \in index[u]..tail - 1 : \E v \in queued' : index[v] = i
    BY <1>0 DEF Tickets
  <2>1. u \in queued /\ u # t /\ index[t] < index[u] /\ index[u] < tail
    BY <1>0, <1>3 DEF Tickets
  <2>2. \A v \in queued' : v \in ahead'[u] <=> index[v] < index[u]
    BY <1>0, <2>1 DEF Tickets
  <2>3. ASSUME NEW i \in index[u]..tail - 1
        PROVE  \E v \in queued' : index[v] = i
    <3>1. PICK v \in queued : index[v] = i
      BY <2>1 DEF Tickets
    <3>2. v # t
      BY <1>0, <2>1, <3>1
    <3> QED
      BY <1>0, <3>1, <3>2
  <2> QED
    BY <2>1, <2>2, <2>3
\* The next ticket is the next thread's, if there is one.
<1>8. ASSUME index[t] + 1 < tail
      PROVE  \E v \in queued' : index[v] = index[t] + 1 /\ ahead'[v] = {}
  <2>1. index[t] + 1 \in index[t]..tail - 1
    BY <1>0, <1>8
  <2>2. PICK v \in queued : index[v] = index[t] + 1
    BY <1>0, <2>1 DEF Tickets
  <2>3. v # t
    BY <1>0, <2>2
  <2>4. ASSUME NEW w \in ahead[v], w # t
        PROVE  FALSE
    <3>1. w \in queued
      BY <2>2 DEF Queue, Ordered
    <3>2. index[w] < index[v] /\ index[t] < index[w]
      BY <1>3, <2>2, <2>4, <3>1 DEF Tickets
    <3> QED
      BY <1>0, <2>2, <3>1, <3>2
  <2>5. ahead'[v] = {}
    BY <1>0, <2>2, <2>4
  <2> QED
    BY <1>0, <2>2, <2>3, <2>5
<1>9. HasFirst'
  <2> SUFFICES ASSUME NEW u \in queued' PROVE \E v \in queued' : ahead'[v] = {}
    BY DEF HasFirst
  <2>1. index[t] < index[u] /\ index[u] < tail /\ u \in Threads
    BY <1>0, <1>3 DEF Tickets
  <2>2. index[t] + 1 < tail
    BY <1>0, <2>1
  <2> QED
    BY <1>8, <2>2
<1>10. OneFlag'
  <2>1. \A i \in 0..Capacity : flags'[i] <=> i = Slot(index[t] + 1)
    <3>1. \A i \in 0..Capacity : ~flags[i]
      BY <1>0, <1>3 DEF OneFlag
    <3>2. Slot(index[t] + 1) \in 0..Capacity
      BY <1>0, SlotRange
    <3> QED
      BY <1>0, <3>1, <3>2 DEF ALockTypeOK
  <2>2. ASSUME queued' = {}
        PROVE  tail = index[t] + 1
    <3>1. index[t] < tail /\ ~(index[t] + 1 < tail)
      BY <1>0, <1>8, <2>2 DEF Tickets
    <3> QED
      BY <1>0, <3>1
  <2>3. ASSUME NEW u \in queued', ahead'[u] = {}
        PROVE  index[u] = index[t] + 1 /\ pc'[u] # "grant"
    <3>1. /\ u \in queued /\ u # t /\ u \in Threads
          /\ t \in ahead[u] /\ index[t] < index[u] /\ index[u] < tail
      BY <1>0, <1>3 DEF Tickets
    <3>2. pc'[u] # "grant"
      BY <1>1, <1>2, <3>1 DEF OthersSpin
    <3>3. index[t] + 1 < tail
      BY <1>0, <3>1
    <3>4. PICK v \in queued' : index[v] = index[t] + 1
      BY <1>8, <3>3
    <3>5. ~(index[v] < index[u])
      BY <1>0, <1>7, <2>3, <3>4 DEF Tickets
    <3>6. index[u] = index[t] + 1
      BY <1>0, <3>1, <3>4, <3>5
    <3> QED
      BY <3>2, <3>6
  <2>4. queued' = {} => \A i \in 0..Capacity : flags'[i] <=> i = Slot(tail)'
    BY <1>0, <2>1, <2>2
  <2>5. ASSUME NEW u \in queued', ahead'[u] = {}, NEW i \in 0..Capacity
        PROVE  flags'[i] <=> i = Slot(index[u])' /\ pc'[u] # "grant"
    <3>1. Slot(index[u])' = Slot(index[t] + 1)
      BY <1>0, <2>3, <2>5 DEF Slot
    <3> QED
      BY <2>1, <2>3, <2>5, <3>1
  <2> QED
    BY <1>0, <2>4, <2>5 DEF OneFlag
<1>11. OthersSpin'
  BY <1>0, <1>1, <1>2 DEF OthersSpin
<1>12. OneTicketEach'
  <2> SUFFICES ASSUME prog.once PROVE OneTicketEach'
    BY <1>0 DEF OneTicketEach
  <2>1. done[t] = Increments
    BY <1>0 DEF OneTicketEach
  <2>2. pc' = [pc EXCEPT ![t] = "done"]
    <3>1. ~(done[t] < Increments)
      BY <1>2, <2>1
    <3>2. Goto(t, IF done[t] < Increments THEN "lock" ELSE "done")
      BY <1>0 DEF Leave
    <3> QED
      BY <3>1, <3>2 DEF Goto
  <2>3. Started' = Started
    BY <1>0, <1>2, <2>2 DEF Started
  <2>4. tail = Cardinality(Started) /\ done' = done
    BY <1>0 DEF OneTicketEach, workVars
  <2>5. \A u \in Threads : pc'[u] \in {"unlock", "grant"} => done[u] = Increments
    BY <1>2, <2>2 DEF OneTicketEach
  <2> QED
    BY <1>0, <2>3, <2>4, <2>5 DEF OneTicketEach
<1> QED
  BY <1>4, <1>5, <1>6, <1>7, <1>9, <1>10, <1>11, <1>12

LEMMA InvInit == Init => Inv /\ Abstract!Init
<1> SUFFICES ASSUME Init PROVE Inv /\ Abstract!Init
  OBVIOUS
<1> USE DEF Init, QueueInit
<1>0. Capacity \in Nat \ {0} /\ \A t \in Threads : pc[t] = "lock"
  BY CapacityAssumption DEF WorkInit
<1>1. WorkInv({"spin"}, {"grant"}) /\ Abstract!Init
  BY WorkStart, LabelsDisjoint
<1>2. ALockTypeOK
  BY DEF ALockTypeOK
<1>3. Queue
  BY <1>0 DEF Queue, Ordered, Critical
<1>4. Slot(0) = 0
  <2>1. 0 % Capacity = 0
    BY <1>0
  <2> QED
    BY <2>1 DEF Slot
<1>5. Tickets /\ OneFlag /\ HasFirst /\ OthersSpin
  BY <1>4 DEF Tickets, OneFlag, HasFirst, OthersSpin
<1>6. OneTicketEach
  <2>1. Started = {}
    BY <1>0 DEF Started
  <2> QED
    BY <1>0, <2>1, FS_EmptySet DEF OneTicketEach
<1> QED
  BY <1>1, <1>2, <1>3, <1>5, <1>6 DEF Inv

(* Every step keeps Inv and is a step of the abstract counter or changes   *)
(* nothing there.                                                          *)
LEMMA InvNext ==
  ASSUME Sound
  PROVE  Inv /\ [Next]_vars => Inv' /\ [Abstract!Next]_(Abstract!vars)
<1> SUFFICES ASSUME Inv, [Next]_vars
             PROVE  Inv' /\ [Abstract!Next]_(Abstract!vars)
  OBVIOUS
<1>1. ASSUME NEW t \in Threads, Act(t)
      PROVE  Inv' /\ [Abstract!Next]_(Abstract!vars)
  BY <1>1, WorkInvKept, TakeSlotInv, GoInv, ClearFlagInv, GrantInv DEF Act, Abstract!Next
<1>2. CASE UNCHANGED vars
  <2>1. WorkInv({"spin"}, {"grant"})' /\ UNCHANGED Abstract!vars
    BY <1>2, WorkStutter DEF vars, workVars, Inv
  <2> QED
    BY <1>2, <2>1 DEF vars, workVars, queueVars, Inv, ALockTypeOK, Queue, Tickets,
                      OneFlag, Slot, HasFirst, OthersSpin, OneTicketEach, Started
<1> QED
  BY <1>1, <1>2 DEF Next, Joined

LEMMA Invariance ==
  ASSUME Sound
  PROVE  Spec => []Inv
<1>1. Init => Inv
  BY InvInit
<1>2. Inv /\ [Next]_vars => Inv'
  BY InvNext
<1> QED
  BY <1>1, <1>2, PTL DEF Spec

-----------------------------------------------------------------------------
(* The threads are served in the order in which they took their tickets,   *)
(* and so one at a time.                                                   *)
THEOREM InOrder ==
  ASSUME Sound
  PROVE  Spec => []FirstComeFirstServed
<1>1. Inv => FirstComeFirstServed
  BY DEF Inv, FirstComeFirstServed, Queue, OthersSpin, Inside, Critical
<1> QED
  BY <1>1, Invariance, PTL

(* Nobody else is inside.                                                  *)
THEOREM MutuallyExclusive ==
  ASSUME Sound
  PROVE  Spec => []MutualExclusion
<1>1. Inv => MutualExclusion
  BY DEF Inv, WorkInv
<1> QED
  BY <1>1, Invariance, PTL

(* When main() has joined the threads, shared_value holds every increment  *)
(* of every one of them.                                                   *)
THEOREM CountComplete ==
  ASSUME Sound
  PROVE  Spec => []NothingLost
<1>1. Inv => NothingLost
  BY CountAll DEF Inv, WorkInv
<1> QED
  BY <1>1, Invariance, PTL

(* Whoever waits spins within the array, and the word behind it, the key,  *)
(* is overwritten only when all threads have returned from unlock().       *)
THEOREM KeySurvives ==
  ASSUME Sound
  PROVE  Spec => []KeyIntact
<1>1. ASSUME Inv PROVE KeyIntact
  <2> USE <1>1 DEF Inv
  <2>0. Capacity \in Nat \ {0} /\ prog.wraps \in BOOLEAN /\ tail \in Nat /\ index \in [Threads -> Nat]
    BY CapacityAssumption, ProgramsAssumption DEF ALockTypeOK
  <2>1. \A t \in queued : Slot(index[t]) < Capacity
    BY <2>0, SlotRange
  <2>2. ASSUME flags[Capacity]
        PROVE  AllDone
    <3>1. queued = {}
      <4> SUFFICES ASSUME queued # {} PROVE FALSE
        OBVIOUS
      <4>1. PICK t \in queued : ahead[t] = {}
        BY DEF HasFirst
      <4>2. Capacity = Slot(index[t])
        BY <2>0, <2>2, <4>1 DEF OneFlag
      <4> QED
        BY <2>0, <2>1, <4>2
    <3>2. Slot(tail) = Capacity
      BY <2>0, <2>2, <3>1 DEF OneFlag
    <3>3. ~prog.wraps
      <4> SUFFICES ASSUME prog.wraps PROVE FALSE
        OBVIOUS
      <4>1. tail % Capacity \in 0..Capacity - 1
        BY <2>0
      <4> QED
        BY <2>0, <3>2, <4>1 DEF Slot
    <3>4. tail = Capacity /\ prog.once
      BY <3>2, <3>3 DEF Slot, Sound, ALockTypeOK
    <3>5. Started = Threads
      BY <3>4, FewTickets
    <3> QED
      BY <3>1, <3>5 DEF Started, Queue, AllDone, WorkInv, WorkTypeOK
  <2> QED
    BY <2>1, <2>2 DEF KeyIntact
<1> QED
  BY <1>1, Invariance, PTL

(* The program implements the counter with atomic increments.              *)
THEOREM Refines ==
  ASSUME Sound
  PROVE  Spec => ImplementsLockedCounter
<1>1. Init => Inv /\ Abstract!Init
  BY InvInit
<1> QED
  BY <1>1, InvNext, PTL DEF Spec, ImplementsLockedCounter, Abstract!Spec
=============================================================================
