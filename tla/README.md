# TLA+ models of UppsalaParallelProgramming

The repository is a collection of small C programs written along a course on
parallel programming: lock algorithms, pthread synchronisation, OpenMP and MPI
exercises.  There is no library and no test suite; each program is its own
system, and many of them are the same algorithm written again, with small
differences.  Those differences are what this project is about: each module
models one algorithm, and a record of *features* selects the program, so that
all the programs of an algorithm run through the same actions.

## 1. Inventory

Paths are relative to `src/`; `T3` is `exam_preparation/Three3`, `A2` is
`exam_preparation/second/Again2`, `EP` is `exam_preparation/Pthread`.

| Component | Programs | State | Operations | What makes it correct |
|---|---|---|---|---|
| Test-and-set locks | `Spin Locks/{TASLock,TATASLock,TATASBackOffLock}`, `T3/Algorithm/{TASLock,TTAS,TTASBackoffLock}.c`, `A2/{TASLock,TTASLock,BackLock}.c` | `lock_status`, a delay limit per thread | lock, delay, unlock | exclusion; no lost increment; delay within its bounds |
| Peterson's lock | `Spin Locks/PetersonLock`, `A2/main.c` | `flags[2]`, `victim` | lock, unlock | exclusion, no overtaking, no deadlock, on the memory it runs on |
| Array lock | `Queue Locks/QueueLock`, `A2/ALock{,2,3}.c`, `T3/Algorithm/ALock{,2}.c`, `T3/Algorithm/Last/ALock.c` | `tail`, `flags[]`, the slot of each thread | take a slot, spin, clear, grant | exclusion, first come first served, stays within the array |
| CLH lock | `Queue Locks/CLHLock`, `A2/CLHLock{,2}.c`, `T3/Algorithm/CLHLock.c`, `.../Last/CLHLogic.c` | `tail`, node flags, each thread's node and predecessor | prepare, exchange, spin, unlock | exclusion, order, no wait on a node that is set again |
| MCS lock | `Queue Locks/MCSLock/main{,2}.c`, `T3/Algorithm/MCSLock.c`, `.../Last/MCSLogic.c`, `A2/MCSLock.c` | `tail`, node `lock` and `next` | enqueue, link, spin, release, wake | exclusion, order, no null or freed node |
| Timeout lock | `Queue Locks/TOLock` | `tail`, node `pred` | lock with patience, abandon, unlock | exclusion although waiters give up |
| Readers-writer lock | `Pthread/ReadWriteLock`, `EP/ReadWriteLockPthread`, `T3/Pthread/PthreadReadWriteLock`, `A2/ReadWriteLock` | readers, writers, pending writers, mutex, two conditions | read lock, write lock, unlock | writers alone; pending writers go first; nobody sleeps through his turn |
| Barrier | `Pthread/Barrier`, `EP/PthreadBarrier*.c`, `T3/Pthread/PthreadBarrier`, `A2/Pthread_barrier` | arrivals, mutex, condition | arrive | nobody leaves before all have arrived; everybody leaves |
| Producers and consumers | `Pthread/PThreadProducerCustomer`, `EP/Pthread_Onsumer_Producer.c`, `T3/Pthread/Pthread{ProducerConsumerCondition,CustomerConsumer}.c`, `A2/Pthread{ProduceConsumerCondition,CustomerConsumer}.c`, `EP/PthreadExam/PthreadConsumer{,2}.c` | a count, or one slot; mutex, two conditions | produce, consume | the count stays in its bounds; nobody waits for ever |
| Message rings and lines | `EP/PthreadExam/PthreadMsg.c`, `T3/Pthread/PthreadMessage.c`, `A2/PthreadMessage.c` | a slot per thread, mutex | send, receive | each message is received |
| Pi by sampling | `Pthread/Pi`, `EP/main.c`, `A2/PthreadPi.c` | a count per thread | sample, sum | every sample counted once |
| OpenMP loops | `OMP/`, `exam_preparation/OpenMPPreparation`, `T3/OpenMP`, `A2/OpenMp` | shared sums and arrays, private copies | share out a loop, update, reduce, order, meet | the result is that of one thread, whatever the schedule; no data race |
| OpenMP tasks | `OpenMPPreparation/fib/fib.c`, `T3/OpenMP/{Fib,RecurationExercise}.c`, `A2/OpenMp/{Fib,Recursion,OpenMpRecursion2}.c` | a tree of calls, a stack of suspended tasks per thread | spawn, pick up, wait, return | the result; no task outlives the variable it writes to |
| MPI | `MPI/`, `exam_preparation/MPIReviewingPreparation` | ranks, messages, open requests | send, receive, their non-blocking forms, collectives | every message received by whom it was meant for; the job ends |

How they interact: within a program, the threads share global variables and
nothing else, and the MPI processes exchange messages and share nothing; there
are no callbacks and no I/O that feeds back.  The lock programs share one thread
function (take the lock, increment the counter, release), the pthread programs share the mutex and its condition variables, and
the OpenMP programs the runtime.  No program depends on another.

What is hard in them: every interleaving of the threads' loads and stores; the
window between two stores of one operation (publish a node, then link it; clear
a flag, then set the next); nodes used again while another thread looks at
them; the store buffers of the processor where no atomic instruction is used;
waiting that nobody ends; in OpenMP, the schedules of loops and tasks and a
barrier left out where one phase reads what another writes; in MPI, calls that
may return early or wait, as the library likes.  PROJECT.json lists these hazards
at their lines.

## 2. Modules

    LockedCounter        what a lock promises: the counter of one thread at a time
    Worker               the thread function around any lock; ImplementsLockedCounter
      SpinLock           nine test-and-set programs
      Peterson           two programs, sequentially consistent memory
        PetersonTSO      the same two on x86 store buffers
      QueuedWorker       history of the queue; FirstComeFirstServed
        ALock            seven array locks
        CLHLock          five CLH locks
        MCSLock          five MCS locks
        TOLock           the timeout lock
    ReadersWriters       what a readers-writer lock promises
    Monitor              a mutex with its condition variables
      ReadWriteLock      four programs
      Barrier            four programs
      BoundedBuffer      ten programs that put items into slots and take them out
    Team                 an OpenMP team: loops, singles and barriers
      ParallelLoops      what the threads do in them
        TaskTree         recursive functions as tasks
          OpenMP         28 programs as scripts; what they promise   MCOpenMP
    MPI                  nine programs as scripts, one per rank
    WorkerProofs         lemmas about Worker and QueuedWorker
      SpinLockProofs     the test-and-set locks and Peterson's lock
      MCSLockProofs      the MCS and the CLH locks
      ALockProofs, TOLockProofs
    MonitorProofs        the readers-writer lock, the bounded buffer, the barrier
    OpenMPProofs         the team, its loops and its tasks
    MPIProofs            the messages and the collectives

**LockedCounter** is the abstract specification: a thread enters when nobody is
inside, increments the count while it is inside, and exits.  `Worker` states
`ImplementsLockedCounter` with the refinement mapping *inside = the threads
between lock() and the release in unlock()*, *count = shared_value*.

**Worker** is the thread function.  `prog` holds the features of the program
that runs and never changes; `pc[t]` is the statement thread `t` executes next.
`shared_value++` is two steps, the load `ReadShared` into `temp[t]` and the store
`WriteShared`: a lock that does not exclude loses an increment.  `prog.once` tells the
two shapes of the function apart: lock once and increment in a loop ("Spin
Locks", "Queue Locks"), or lock for every increment (`exam_preparation`).

The lock modules EXTEND it and add one action for each access to shared memory
in lock() and unlock().  An iteration of a spinning loop that goes on spinning
changes nothing; it is not a step, and the exit condition of the loop is the
guard of the step that leaves it.  The one iteration that does change something,
the back-off delay, is an action.

**SpinLock** features: `tests` (read before the compare-and-swap), `min` (the
shortest delay; 0 is no back-off), `resets` (unlock() resets the delay).  The
time slept is left out; how the delay grows is not.

**Peterson** features: `self` (the caller is the victim).  The condition of the
while loop is two loads, `TestFlag` and `TestVictim`.  **PetersonTSO** replaces each
load and store of the same program text by one that goes through a FIFO store
buffer per thread: the code uses plain volatile variables without a fence, and
on x86 that is the memory it gets.

**QueuedWorker** adds two history variables, `queued` and `ahead`, set by the one
atomic instruction that gives a thread its place.  No action reads them.

**ALock** features: `wraps` (slots modulo CAPACITY).  `flags[Capacity]` stands for the
word behind the array, the pthread key that the program without the modulo
overwrites.  In two of the programs 0 means go; `flags` holds the meaning.

**CLHLock** features: `sets` (lock() sets the node's flag) and `node` (what the
thread uses for its next lock(): the same node, a fresh one, or its predecessor's).

**MCSLock** features: `waits` (unlock() waits for the link).  A thread has one node,
so nodes are named by their threads; a node is freed when its thread is `done`.

**TOLock** needs no features; `Impatient` is the set of threads that may run out of
patience.  Time is abstracted: `TimeOut` is possible whenever a thread waits, so
every order of timeouts, hand-overs and arrivals is covered.  A thread calls
lock() once, so its node is named by it.

**Monitor** is the pthread mutex with condition variables as these programs use
them: `asleep[c]` is the set of threads that sleep on condition `c`.  All variables
of a monitor are accessed with the mutex held, so the stretch from
`pthread_mutex_lock` (or from the return of `pthread_cond_wait`) to
`pthread_mutex_unlock` (or to the next wait) is one step and the mutex is free
between steps.  A thread leaves `asleep` when it is signalled or spuriously
(`WakeUp`), which POSIX allows; which sleeper a signal wakes is arbitrary, and a
woken thread competes for the mutex with everybody else.

**ReadWriteLock** features: `signals` (wake one writer or all), `writeLocks` (whether
the writing threads call wLock), `until` (loop on `shared_value`, read without the
lock, or count rounds).  The access to the shared variable, between lock and
unlock, is two steps, `LoadValue` and `StoreValue`, because the mutex is not held
there.  `Rounds` cuts the `while (1)` loops off; `Limit` is the 11 of the loop
that tests the value.  The sleep()s between rounds are left out: any order may
happen.  Its abstract specification is **ReadersWriters**, refined with *reading,
writing = the threads between lock and unlock*, *value = shared_value*.

**Barrier** features: `retests` (while or if around the wait) and `everyone` (who
broadcasts).  The constant `Spurious` is the set of programs that get spurious
wake-ups, to separate what the if-barriers do wrong from what they do right.

**BoundedBuffer** features: `waits` (while, if, or release the mutex and poll),
`once` (one item per thread) and `slots`.  With `"one"` slot all producers put into
it and all consumers take from it; with a `"pair"` one thread puts and one takes.
In a `"ring"` thread `t` puts into slot `t + 1` and takes from slot `t - 1`, modulo the
number of threads, and takes first; in a `"line"` there is no modulo, the ends are
tested for, and putting comes first; `"spill"` is the line whose program does not
test for its ends.  The words before and behind its array are slots like the
others: gcc aligns the arrays of 40 bytes, and the mutex beside them, to multiples
of 32, so that these words are padding.  `level[s]` is the count or the full flag
of slot `s`.  A poll that finds nothing to do changes nothing and is no step.

**Team** is what an OpenMP runtime does for a parallel region, as far as these
programs use it: `prog.script` is the region's sequence of constructs, every
thread walks through it (`at[t]`), and each construct is a loop whose iterations
are shared out (static blocks, or dynamic chunks to who asks first), a `single`
that the first thread to come executes, a stretch that each thread executes on a
block of its own, or a barrier.  The team's size and the block of each thread
follow the standard; the constructs and their order come from the source.
**ParallelLoops** has the bodies: one action for each access to a shared variable
in them.  An `omp atomic` update is one step; the `+=` in an `omp critical`, or in no
region at all, is a load and a store, and the critical region keeps others out
in between; a reduction, `firstprivate` or `lastprivate` variable is a private copy,
`local[t]`, that the thread hands back when it leaves the loop.  Each loop sums
into a variable of its own, `sum[k]`, as the programs do or by resetting the one
they have between loops.

**TaskTree**: a task is named by its path in the tree of calls, `stage[p]` is
where it stands, `stack[t]` the tasks that thread `t` has begun, innermost first.  A
spawned task is deferred or executed at once (always the latter where the `if`
clause is false); at `taskwait` a thread may take up another task, of the
descendants of the one it has suspended, which is the constraint on tied tasks;
at the barrier of the `single` any.  `Above` is the 30 of `if (n > 30)`.  `Grain` is the
1000 of `end - start < 1000`; T3's array has 1000 elements, so its own call is a
leaf, and the model lets the same function split a longer range, which is what
it is there for.

**OpenMP** gives the scripts.  Sections are a loop of chunk 1, which is how they
are shared out; the loop bounds are replaced by N.

**MPI**: `Script(r)` is what rank `r` executes.  A send puts its message into the channel
and may return when it has been received (`SendReturns`), or once it is buffered
(`ReturnsBuffered`), whichever the library likes; a receive takes the first message
of its peer that has its tag; an open request is filled at any time (`Deliver`).
In a collective a rank brings its data (`Enter`) and leaves when all have entered
(`LeaveTogether`) or as soon as it has what it needs (`LeaveEarly`).  An operation with a
peer that does not exist, or a block that does not fit, is an error, and errors
are fatal to the job (`Abort`).  `world` is the size of the job: every program is
run with sizes it was not written for.

The atomic builtins (`__sync_*`) are full barriers.  In the queue locks every
plain store that another thread depends on is made before such an instruction
or is the last store of unlock(), and x86 keeps the stores of a thread in
order, so these modules use a sequentially consistent memory; only Peterson's
lock needs the store buffers.  The CMake files set no build type, so the loops on
non-volatile fields (CLH) are compiled without optimisation and do reload.

## 3. Runs

| Run | Shows |
|---|---|
| `spin` | nine programs, 3 threads, 2 increments: the lock properties and the back-off delay |
| `peterson` | the sound program with its 5 increments |
| `peterson_tso` | **violated**: with store buffers both threads enter, although the algorithm is the sound one |
| `alock` | seven programs, 4 threads on 4 slots, 2 increments |
| `clh` | the three sound programs, 4 threads, 2 increments |
| `mcs` | `MCSLock/main2.c`, 4 threads, 2 increments |
| `timeout` | 4 threads that give up at any point |
| `rw` | four programs, 2 readers and 2 writers, 2 rounds, spurious wake-ups |
| `barrier` | four programs, 5 threads, spurious wake-ups in the one that tests again |
| `buffer` | nine programs: 3 producers, 3 consumers and 2 places with spurious wake-ups, a ring and two lines of 7 threads |
| `openmp` | 28 programs, 3 threads, 5 iterations, tasks of fib(4) and of a range, every schedule |
| `mpi` | nine programs in jobs of 1 to 5 ranks, 8 elements to share out, a library that buffers or not |

Locks: `MutualExclusion`; `ImplementsLockedCounter`; for the queue locks
`FirstComeFirstServed`, which implies exclusion, because of two threads inside one
queued first (`alock` and `mcs` check nothing else of it).  `ImplementsLockedCounter` is about
`Worker` and is checked where the critical section is entered in the most ways, and
proved for every family but the timeout lock.  So is `NothingLost` (after the join
the counter is threads × increments, the test at the end of `MCSLock/main2.c` and
checked in `mcs`): it follows from the refinement only together with the loops, which `LockedCounter`
does not have.  Each module adds what is particular to its
algorithm: `DelayNeedsContention`, `NoOvertaking`, `KeyIntact`, `ImplicitQueue`,
`NoNullDereference`, `NoDanglingNode`, `LinksFollowQueue`.

Timeout lock: `OneIntruderEach` (with nobody gone from the middle of the queue it
is mutual exclusion; each thread that gives up there lets in one thread and no
more), `LeftFree` (whoever gave up, the lock can be taken afterwards).

Monitors: `TypeOK` of the readers-writer lock (its counts are those of the threads
inside), `ImplementsReadersWriters`, `WritersFirst` (no reader enters past a waiting
writer), `FinalValue` (no lost increment; where the loop tests the value without
the lock, by how much it may overshoot); `NobodyEarly` (nobody passes the barrier
before all arrived); `InBounds` (the buffer); `NoLostWakeup` (nobody sleeps on a
condition that has come true); `KeepsMoving`, `AllServed` and `Delivered` (the loops
go on, each consumer is served, each message received, however busy the
threads are with sending).

OpenMP: `SequentialResult` (the sums, arrays and printed lines are those of one
thread executing the same text; the unprotected counter of
`OpenMPPreparation` may hold anything from 1 to the number of updates),
`NoDataRace` (never are two threads about to access the same variable, one of
them writing; atomic updates do not conflict with each other), `FramesAlive` (a
task stores its result in a local variable of the call that spawned it; that call
has not returned).

MPI: `Collected` (when the job ends, every message has been received by the
operation it was meant for, and the collectives have shared out and put together
every element, in order and once), `Completes` (the job ends whether the library
buffers or waits, and by an error exactly where a peer does not exist).

`Termination` says that every thread gets through.  It is checked where a behaviour
could go on for ever without it (`peterson`, `mcs`, `timeout`, `rw`, `barrier`, `openmp`).
In `spin`, `alock` and `clh` spinning is no step and the increments are finite, so
every behaviour is finite, and that no thread waits for ever is the absence of
deadlock, which TLC checks in every run.

**Bounds.**  Three threads are the fewest that have a first, a middle and a last
one in a queue, and a thread that is overtaken while two others compete; the
queue locks have four, so that two wait behind one another in the middle, and
the array lock has as many slots, so that they are used again with the array
full.  The timeout lock has four, so that two neighbours in the middle give up.  Two
increments make every program with a loop lock again, which is when nodes and
slots are used again.  In `spin` MAXDELAY is 150, not 10000: a delay of 10 grows
to the bound in four doublings and one of 100 in one, as many failures as the
other two threads' acquisitions allow.
Two readers and two writers are the fewest in which a reader waits behind a
pending writer while another one writes; three producers and consumers on two
places have a thread of each kind asleep while two of the other kind compete.
A thread's neighbourhood in the ring is three slots; with seven, two exchanges go
on far from each other, and an odd ring does not fall into pairs.
Five iterations on three threads make static blocks of 2, 2 and 1, prefix-sum
blocks of 1, 1 and the rest of 3, and with chunks of 2 a last one that is not
full; fib(4) with `Above = 2` has tasks that are deferred and tasks that are not,
three levels deep, so that a thread suspends a task and takes up another.  A job
of five ranks has three classes of ranks modulo 3 of different sizes, and 8
elements go evenly on 1, 2 and 4 ranks and leave a remainder on 3 and 5.
The bounds are the CONSTANTS of the .cfg files; no action is capped otherwise.

**Fairness.**  Liveness assumes weak fairness of each thread or rank: the operating
system goes on scheduling everyone that can take a step.  Nothing is assumed about
who gets a lock or wins a compare-and-swap.  No spurious wake-up, no timeout, no
early return of an MPI call (`ReturnsBuffered`, `LeaveEarly`) is assumed to happen, and
which thread gets a chunk, a single or a task is up to the runtime.

**Mutants.**  An operator under a comment that begins with *Mutant:* is a wrong
version of the definition that follows it, as a slip in the code would make it;
no specification uses it.  PROJECT.json pairs each property with one: put in the
place of the definition, it makes TLC find the property violated, so that the
property is known to depend on what the code does there.

## 4. Proofs

Checked by TLAPS for every set of threads (finite, where they are counted), every
number of increments, rounds, iterations or elements, and every size of a job:

| Module | Theorems |
|---|---|
| `SpinLockProofs` | test-and-set locks: type invariant, exclusion, `NothingLost`, `DelayNeedsContention`, refinement of LockedCounter |
| | Peterson's lock: type invariant, exclusion, `NothingLost`, `NoOvertaking`, refinement (programs with `self`) |
| `ALockProofs` | first come first served, exclusion, the key behind the array, `NothingLost`, refinement (programs that wrap, or lock once: `Sound`; all seven do) |
| `MCSLockProofs` | exclusion, first come first served, no null pointer, no freed node, link order, `NothingLost`, refinement (programs that wait: `Sound`) |
| | CLH: exclusion, first come first served, `ImplicitQueue`, `NothingLost`, refinement (programs that set the flag and never set it in a node twice: `CLHAssumption`) |
| `TOLockProofs` | `OneIntruderEach` and `LeftFree`, whoever is impatient |
| `MonitorProofs` | readers-writer lock: the counts (`TypeOK`) and `NoLostWakeup` of all four programs; `WritersFirst`, `FinalValue` and the refinement of ReadersWriters where writers call wLock (`WritersLock`) |
| | bounded buffer: `InBounds` and `NoLostWakeup` of the programs that test again (`Retested`), counts, pairs, rings and lines alike |
| | barrier: `NobodyEarly`, and that the last broadcast leaves nobody asleep (spurious wake-ups only in programs that test again: `Robust`) |
| `OpenMPProofs` | `NoDataRace`, `FramesAlive` and `SequentialResult` of all 28 programs, for any argument of the recursive functions |
| `MPIProofs` | `Collected` of all nine programs |

`WorkerProofs` has the part that does not depend on the lock: `WorkInv` joins the
type of the thread function's variables with `FreshRead` (the value about to be
incremented is still the counter's), `WorkLeft` (a thread in lock() has an
increment to do), `WorkDone` (one that has returned has none), `EachCounted` and
`MutualExclusion`.  `EachCounted` counts the increments as a set of pairs, thread
and number, so that one more increment is one more element and, at the end,
the set is a product, with no sum over the threads.  Its lemmas
say that a step inside the critical section, outside it, into it and out of it keeps `WorkInv` and maps
to a step of LockedCounter or a stutter; a lock's proof only has to show that
the entering step finds nobody inside.  That is the lock's own invariant:

- *SpinLock*: `lock_status = 1` exactly when somebody is inside.  For the delay, a thread
  that is about to double its limit (it is in its delay, or at its compare-and-swap with
  the lock taken) has been beaten by an acquisition that none of its earlier doublings
  stands for.  One more acquisition is one more element of `Contention`, and twice
  the number of its subsets, which is how powers of two are reasoned about.
- *Peterson*: if a thread is past its loop or has seen the other flag down, then
  the other one is not in lock(), or is the victim, or has not yet made
  itself the victim.  Exclusion alone is not inductive because it does not say
  what a waiting thread has already seen.
- *Array lock*: the threads in the queue hold consecutive tickets, so there are no
  more of them than threads, and tickets less than CAPACITY apart are different
  modulo CAPACITY; exactly one flag is set, that of the first in the queue or, with
  the queue empty, of the next to come.  Without the modulo, the tickets given out
  are as many as the threads that have begun.
- *CLH*: the history orders the queue; a waiting thread spins on the node of the
  one just ahead, which is locked; only the first thread in the queue is past
  its loop.
- *MCS*: the same order, with `next` and `pred` inverse to each other once the link is
  made, every thread but the last having a successor that waits, and `lock` set
  in every node that is not linked yet.  A node that somebody can still reach belongs
  to a thread in the queue, so that it is not freed.
- *Timeout lock*: exclusion does not hold, and how far it fails is counted
  (`Balance`).  A permission to enter is the tail AVAILABLE, a node made AVAILABLE
  that has let nobody in yet, or a thread that holds the lock; there is one of them to
  begin with, and each thread that abandons its node makes one more.  For no
  permission to be used twice, no two threads may have the same node before them
  (`OneBehind`), and whoever got the lock got it from a node that is AVAILABLE for
  good (`LetIn`, `AvailableLast`).
- *Readers-writer lock*: a thread that has called wLock is alone inside.  Without it
  the counts are not inductive, because unlock() takes one off the readers if there
  are any, whoever calls it.  A woken writer, or a thread inside, stands for the
  wake-up of the writers that still sleep.  `FinalValue` counts as `EachCounted` does, the
  rounds of the writers between StoreValue and the end of the round included; where
  the loop tests the value, the counter and the writers that have passed the test and
  not yet stored are together less than `Limit` plus the number of writers.
- *Bounded buffer*: each thread sleeps on its own condition (`OwnCondition`), the
  level is in bounds, and `NoLostWakeup` itself: a consumer that takes an item wakes a
  producer, which is then awake.
- *Barrier*: the count is that of the threads that have arrived, and in a program that
  does not test again a thread is awake in the wait only when all have.
- *OpenMP, races*: no thread is behind a barrier that another has not reached
  (`BarriersHold`); what each thread has still to do in a loop is disjoint from what the
  others have (`Shares`, `ChunksDisjoint`), and one thread at a time is in a critical region
  or a single.  The tasks are a tree: no call has begun before its parent came to it
  (`CallsBegun`), and its root is started once (`RootOnce`).
- *OpenMP, results*: `SequentialResult` speaks of the end only, so each part of it is
  restated for the iterations completed so far (`Completed`) and proved to hold at
  every moment: `Counted` (a sum and the copies the threads still hold make up the completed iterations;
  of the unprotected sum, something is left of them), `ExecutedOnce` (a
  single has been executed by the thread that claimed it, and what it printed was final),
  `ArraysHold`, `PrintedInOrder` (an ordered loop has printed the first iterations),
  `CopiesHeld` and `ReportsTrue` (what a copyprivate hands out, what the threads report),
  `BlocksSummed` (in each block, the prefix sums short of what is added in the next phase)
  and `TasksHold` (a call that has returned has stored its value, one that waits for its
  children has those values that have come).  When all threads have left the
  region every iteration has been completed.
- *MPI*: three kinds of programs with an invariant each.  Where every rank goes through
  the same collectives, what it has brought and got so far is fixed by its script
  (`CollInv`): nobody leaves a collective before those it needs have entered it.  Where
  rank 0 sends to the others, the messages in transit are those that it has posted and
  the receiver has not taken (`LetterInv`); where a rank that is addressed does not exist,
  rank 0 does not get past that operation without the job being aborted.  In the exchange
  of two ranks, the partner's message is in transit, or taken by the open request
  (`SwapInv`).

Sums, prefix sums, Fibonacci numbers, displacements, and folds and `FlattenSeq` of the
community modules are defined by recursion.  The induction theorems of the library take the
property as an operator, which these provers cannot instantiate; the proofs take the set
of the numbers up to a bound that do *not* have it and show that a least one cannot
exist (`LeastNumber`, `Upwards`; `<` on the naturals is well-founded).  A recursive function
is first shown to satisfy its equation: the functions that do so up to `n` exist for
every `n` and agree where both are defined.

Assumptions: the named ASSUMEs of the modules (`IncrementsAssumption`,
`ProgramsAssumption`, `DelayAssumption`, `ThreadsAssumption`, `NodeAssumption`,
`NullAssumption`, `CapacityAssumption`, `ConditionsAssumption`,
`BoundsAssumption`, `FiniteThreads`, `ImpatientAssumption`, `TeamAssumption`,
`TaskAssumption`, `WorldsAssumption`), and which programs a
theorem is about.  Where a module of proofs takes an instance, the ASSUMEs of the instantiated
module are hypotheses: `BufferAssumption` and a finite set of parties (buffer and
barrier), `PetersonAssumption`, `CLHAssumption`.  The theorems on OpenMP and MPI are about
`AllPrograms`: the programs of the repository as the modules write them down, with any
argument of the recursive functions.

Only model-checked, and why:

- `Termination`, `KeepsMoving`, `AllServed`, `Delivered`, `Completes`: liveness under
  fairness is beyond the prover.
- The store buffers: the run is there to be violated.

## 5. Findings

One is a run that is violated; PROJECT.json quotes the lines.

- Peterson's lock without a fence does not exclude on x86 (`peterson_tso`).

The others have no run of their own; the modules contain the programs, and their
names are the values of `Programs` that show them.

- Four of the five MCS locks use `next` before it is set: `NotWaiting` violates
  `NoNullDereference`.
- Peterson's lock of `A2/main.c` makes the wrong thread the victim: `OtherVictim`
  violates `MutualExclusion`.
- `A2/CLHLock2.c` never locks a node: `NeverSets` violates `MutualExclusion`.
  `A2/CLHLock.c` uses its node again too early and hangs: `KeepsNode` ends in a
  deadlock.
- In the timeout lock a thread that gives up with a successor makes its own node
  AVAILABLE, and the successor enters while the lock is held.  `OneIntruderEach`
  says how far this goes.
- The writers of `Pthread/ReadWriteLock` take the read lock: `WritersRead` violates
  `ImplementsReadersWriters`.
- Three of the four barriers test the count with `if`: with `TestOnce` among the
  `Spurious` programs, `NobodyEarly` is violated.
- The consumers of `T3/Pthread/PthreadProducerConsumerCondition.c` test with
  `if`: two of them, woken for one item, make the count negative; `NotTesting`
  violates `InBounds`.
- In the line of `T3/Pthread/PthreadMessage.c` a message is not received by the
  thread it is logged as sent to, and the last slots are never emptied.
  `A2/PthreadMessage.c`, which does not test for the ends, also stores outside its
  array.
- `OpenMPPreparation`'s unprotected counter loses updates; `SequentialResult` bounds by
  how many.
- The non-blocking exchange of `MPI/` and the sends of its other programs assume
  a job of a fixed size; in others they name ranks that do not exist, and
  the job is aborted (`Completes`).

## 6. Plan

Done: the locks, the pthread monitors, rings and lines, OpenMP and MPI, and proofs of
the safety properties that the runs check.
Open: liveness, which stays with TLC.

Not modelled, and why:

- Pi (`Pthread/Pi`, `EP/main.c`, `A2/PthreadPi.c`) and `OMP/OMPIntegral`: each thread's
  count is its own and is read after the join, and the rest is floating point.
- `EP/Pthread_Onsumer_Producer.c` passes the arguments of `pthread_cond_wait` in the
  wrong order, which is undefined; apart from that it is `Condition_Three3`.
- Programs that do not compile, or not as meant: `exercise5.c` and `exam2.c` call
  methods that C has not, `OpenMPPreparation/main.c` has a block where the loop
  should be, and in `A2/OpenMp/OpenMpRecursion2.c` a local `sum` hides the function.
- Programs without shared state: `OpenMPHello`, `OMPReviewing/main.c`,
  `OMPReviewing/ForMain.c`, T3's `ThreadPrivate.c`, and the `main.c`s of `MPI/` only print.
- The second parallel region of `fib.c` has a `single` with a `shared` clause, which
  OpenMP does not allow; only the first one is modelled.
- The console output, except where an exercise is about it (ordered loops, singles
  that print a sum).
