# Verification of the ID1206 operating-system assignments

The repository holds the programs of a course on operating systems. Some of them
measure or print something; the others keep state that can go wrong in ways a
test hardly reaches, and those are modelled in TLA+, checked with TLC on small
instances and, in large part, proved with TLAPS.

## The system

| Component | State | Operations | What makes it correct |
|---|---|---|---|
| green threads, `seminar3/green.c` | `running`, `ready_queue`, per thread `context`, `next`, `join`, `retval`, `zombie`; per mutex `taken`, `susp`; per condition `susp_list`; whether SIGVTALRM is blocked | `green_create`, `green_yield`, `green_join`, `green_mutex_lock`/`unlock`, `green_cond_wait`/`signal`, the body of `green_thread`, `timer_handler` | a thread is in one place; a mutex has one owner; join waits for the end; a process dies only when nobody can run |
| their queues | `*list`, `green_t.next` | `enqueue`, `dequeue` | FIFO queues, although all lists share one field |
| test programs, `seminar3/test_*.c` | a counter, a result | `main` and a thread function | they end, count right, get the result |
| locks, `locks-assignment/` | `request`, `turn`; a word; a counter | `lock`, `unlock`, `increment` | mutual exclusion, no increment lost, termination |
| `seminar2/dlmalloc.c` | headers in one arena, the free list | `init`, `dalloc`, `dfree`, `sanity`, `merge` (never called) | blocks tile the arena, the free list is complete, the client sees a heap |
| `mylloc-assignment/` | the break, a list of chunks | `malloc`, `free` over `sbrk`; the loop of `bench.c` | no chunk is lost or handed out twice, chunks are reused, the client sees a heap |
| `contexts-assignment/` | three contexts, `running`, `done1`, `done2` | `yield`, `push`, `done`; `getcontext` and back in `switch.c` | the process that executes is the one `running` names, the other is parked on its own stack, main goes on after both |
| `hellodolly-assignment/` | the kernel's process table and file descriptors | `fork`, `wait`, `exec`, `open`, `dup2`, the end of a process | a mother that waits ends after her child, output goes where it should |
| `signals-assignment/`, `tlb-assignment/`, `swapping-assignment/`, `stack-assignment/`, `seminar1/` | none that lasts | a handler that prints, loops that are timed, maps that are printed, boot code | not modelled |

How they interact. The green threads run in one process on one processor: the
library's calls switch contexts, the timer's handler calls `green_yield` from
wherever the signal is not blocked, and `green_thread` is where every thread
begins and ends. A test program is a client of the library. The lock programs
use pthreads, so their statements interleave on several processors, whose
memory may delay stores. The allocators are sequential libraries whose
histories are arbitrary sequences of calls. The programs of
`contexts-assignment` switch by hand; those of `hellodolly-assignment` interact
through the kernel: who ends first, who waits, who inherits an orphan.

What is hard here: preemption between any two statements of the clients, the
tail of `green_thread` that runs with the signal unblocked, join before or
after the end of a thread, the hand-over of the mutex, waiting with a mutex,
stores that are delayed past loads, long histories of splits and frees, and
`fork`, `open` or `sbrk` failing.
The hazards are listed, each at its line, in `PROJECT.json`.

## Modules

### The thread library

`GreenThreads` is the library under a *most general client*: each thread may
make any call that a correct program could make at that point. What is asked of
a client: create a thread once, join a thread at most once and not itself, lock
a mutex it does not hold, unlock or wait with a mutex it holds, and give
`green_join` a place for the result unless that thread returns nothing. These
conditions are the guards of `Call`, the client; the library's actions check
nothing, as the code does not, so that a program that breaks one shows
(`UsesAsAgreed` of `TestPrograms`).

`cpu` names the stack that executes and the point it is at. A call runs with
SIGVTALRM blocked, so that it is one step up to its `swapcontext` (`Dispatch`:
dequeue the next thread, make it running, save the caller, load the next) and a
second step from there (`Collect` for `green_join`, `Locked` for a thread that
waited for a mutex, `CondReacquire` for a thread that waited for a condition
with a mutex). `green_thread` enters the thread function with the signal still
blocked (`Start`) and does not block it again when the function returns, so
each statement of its end is a step: `WakeJoiner`, `SaveResult`,
`BecomeZombie`, `PickNext`, `SetRunning`, `SetContext`. `TimerHandler` preempts
the points `Preemptible` names. A context remembers which stack was saved in
it: a switch while `running` is not the stack that executes saves the wrong one,
and the model shows it. When `dequeue` returns NULL the process dies as the
code does, on its assertion or on the NULL pointer (`fault`).

Abstracted: the queues are sequences (`GreenQueue` shows why they may be), the
result is a value of a small set, one mutex and one condition, `malloc`
succeeds. `holds`, `created` and `claimed` are the client's history.

Three parameters choose what the environment does. `WaitWith` is what clients
pass as `green_cond_wait`'s mutex; `Timer` says where the timer may expire
("off", "client" for the code of the clients, "any" also for the end of
`green_thread`); `Values` is what threads return.

| Module | What it is |
|---|---|
| `MCGreenThreads` | the instance TLC checks, with symmetric workers |
| `GreenThreadsInvariant` | the inductive invariant `IInv` |
| `QueueLemmas` | what Append, Head and Tail do to a queue; least numbers |
| `GreenThreadsProofs` | the proofs about the library |
| `GreenQueue` | `enqueue` and `dequeue`, one load or store at a time |
| `ThreadQueues` | the FIFO queues they implement |
| `GreenQueueProofs` | that the lists are FIFO queues, and that neither call dereferences NULL |
| `TestPrograms` | `test_mutex.c` and `test_green.c` as clients of `GreenThreads` |
| `TestProgramsProofs` | that these two are clients as above, get their result and lose no increment |
| `AtomicCounter` | what `test_mutex.c` and the lock programs promise: increments are indivisible and none is lost (`CounterSpec`), and all get made (`AllMade`) |

### The locks

`StoreBuffers` is the memory: sequentially consistent, or with the store
buffers of the x86, whichever a behaviour chooses at its start. It is not code
of the repository; it is modelled from how the programs use it. `Locks` is
`peterson.c` and `swap.c` on it, statement by statement; a `count++` is a load
and a store, and the compare-and-swap is one step that waits until the buffer of
its thread is empty. `overtaken` is history. `main` of `swap.c` does not
compile; its threads are read as `peterson.c` starts them, but as many as there
are processors. `LocksProofs` has the proofs.

### The allocators

`DLMalloc` is `dlmalloc.c` as it is compiled, with the 8-byte header (the
`#ifdef TAKENSTRUCT` is true whatever the value). Headers and links are at byte
offsets in the arena. `merge` exists and its call in `dfree` is commented out:
`merging` chooses between the code as it is and the code with the call put
back. The links of a block exist only while it is on the free list, its
payload is the client's otherwise. A write of links over the next header ends
the run (`fault = "overrun"`), because what such a heap does is arbitrary.
`Heap` is what the client is promised: aligned blocks inside the arena, as large
as asked for, that share no byte. `DLMallocProofs` has the proofs.

`Mylloc` is `mylloc.c` and `mhysa.c` under the loop of `bench.c`, which frees an
entry of its buffer or fills it with a request, at random. The break is a
number, a chunk is its address and its `size` field, which is an int (`ToInt`),
and the free list is a sequence of addresses: the header with its link is not in
the block, so that no client that keeps to its blocks changes it. `sbrk` refuses
beyond `LIMIT`; `bench.c` then returns. Both implement `Heap` as well.
`MyllocProofs` has the proofs.

### The small programs

`Contexts` is `yield.c` and `switch.c`: a context is the stack that was saved in
it and the position there, `swapcontext` saves one and loads another, and the
end of a context's function goes to its `uc_link`. The `done` context is entered
twice and continues the second time after its own `swapcontext`; its loop makes
that the same point. `switch.c` tests a flag after the second return of
`getcontext`, taken to be in memory as an unoptimised build has it.

`Processes` is the five programs that fork. A process has a statement it is at,
a state, a parent and a file descriptor 1; `fork`, `open` and `exec` may fail,
and the programs go on as they do then (they test none but `exec`). The kernel's
part, modelled from how the programs use it, is `Wait`, `Reap` and `Exit`, which
has orphans adopted; that no zombie stays is the kernel's promise and no
property here. `SmallPrograms` starts one program of each kind side by
side; they share nothing. `SmallProgramsProofs` has the proofs.

## Runs

| Run | Question | Outcome |
|---|---|---|
| `MCGreenThreads` | Do the library's properties hold for every client that waits without a mutex, with the timer anywhere in the clients' code? Does `IInv` hold, the types included? | yes |
| `WaitWithMutex` | What survives when clients also wait with the mutex? Join and the contexts, saved and freed, do. | yes |
| `WaitWithMutexLock` | Does the mutex exclude then? | no, see below |
| `EndPreemptedJoin` | Does join wait when the timer interrupts the end of `green_thread`? | no, see below |
| `TestPrograms` | Does `test_mutex.c` count right, does `test_green.c` get its result, do both use the library as its general client may, do both end with all increments made, with three threads and the timer anywhere in their code? | yes |
| `GreenQueue` | Are the linked lists FIFO queues? | yes |
| `Locks` | Does the compare-and-swap lock exclude on both memories and Peterson's on the ordered one; does Peterson's let nobody be overtaken twice; are all increments made and none lost? | yes |
| `PetersonTSO` | Does Peterson's exclude with store buffers? | no, see below |
| `DLMalloc` | Are the boundary tags, the free list and the client's view right, for requests of 16 bytes and more, with and without `merge`? | yes |
| `DLMallocSmall` | And for smaller requests? | no, see below |
| `Mylloc` | Does the free list keep every chunk, does the heap stop growing, are both allocators heaps to their client, also when `sbrk` fails? | yes |
| `SmallPrograms` | Are contexts and processes handed over right, in whatever order mother and child get to the wait and the end; do the contexts come to their end, does output go where it should? | yes |

Each property of a passing run is shown to notice a bug: operators whose comment
begins with "Slip" are variants of a definition with a plausible mistake, used
for nothing else.

### Bounds

- The library: main and two workers. Two workers and main are enough for a
  thread that runs, one that was handed the mutex and one that waits for it,
  for a waiter of a condition with a signaller and a third, and for a joiner
  preempted while the joined thread ends. Values has one value besides NULL:
  no definition compares two of them. The proofs lift the bounds, but those of
  `WaitWithMutex`, which has none.
- `TestPrograms`: three workers as both tests start, and two iterations instead
  of 10000 and 4. With three, two wait for the mutex while the third has it. All
  handing-over happens in two iterations: the mutex is released to a waiter and
  locked again, and a thread joined early, late and in the middle occurs.
- `GreenQueue`: two lists, three threads: an element in front, in the middle and
  at the end, and a second list to run into.
- `Locks`: three processors, two rounds: the second round starts while the
  stores of the first are under way, and a third thread tries the word of
  `swap.c` between the two. Peterson's lock has two threads by construction.
  Buffers are bounded by the rounds.
- `DLMalloc`: an arena of 136 bytes (64 KiB in the code), which holds up to five
  blocks; requests of 0, of MIN, of one byte more, of 40. A block that is taken
  whole, one split at exactly the limit and one that no request fits all occur.
  `IntSpan`, the number of values of an int, is 1024, and `ShortSpan`, that of
  the values of a `uint16_t`, which the fields of a header are, 65536 as in C.
  The proofs lift the bounds.
- `Mylloc`: a buffer of two entries (100 in the code), three sizes, of which a
  larger chunk serves a smaller request, and a limit of 184 bytes that some
  sequences reach and others do not: `SizesAreReused` allows two chunks of each
  size, 240 bytes, so that refusals and full reuse both occur. The proofs lift
  the bounds.
- `SmallPrograms`: the depth of `yield.c` itself (`MAX` is 10), and every
  program.

### Fairness

`MCGreenThreads` and the other safety runs assume none. The test programs assume
that a thread that is given the processor again and again executes: the interval
timer is `ITIMER_VIRTUAL`, which counts the time the process itself executes, so
a thread makes progress between two expirations. That is strong fairness of each
thread's steps, because the timer disables them. No fairness of the timer is
assumed: a program must end if it never expires, too. `Locks` assumes weak
fairness of every thread, which the operating system's scheduler gives, and that
stores reach the memory; `GreenQueue` that a call runs to its end;
`SmallPrograms` that the process of `contexts-assignment` executes. That all
increments are made is `Finishes` of `TestPrograms` and `AllCounted` of `Locks`,
which holds of Peterson's lock also where it does not exclude.

### Deadlock

TLC checks it in every run. A process that is dead or has exited stutters
(`Halted`, `Dead`, `Finished`, `Collected`, `failed`). That green threads all wait for each other is
no deadlock of the model but a fault: the last call dies on its assertion or on
NULL, and `DiesOnlyWhenStuck` says that this is the only way.

## What was found

- `green_cond_wait` with a mutex loses the lock (`WaitWithMutexLock`). It marks
  the mutex free *and* readies a thread that waits for it, which returns from
  `green_mutex_lock` without looking again; a third thread, or the signalled
  one, holds it as well.
- It also drops all other waiters of the mutex, `mutex->susp = NULL` (`green.c:243`).
  With `WaitWith = {"mutex"}`, `EveryThreadInOnePlace` fails without any timer:
  two threads wait for the mutex, the owner waits for the condition, and the
  second is in no queue any more. This is the second half of the same defect
  and has no run of its own. Threads that were dropped wait in
  `green_mutex_lock` still, but `green_mutex_unlock` does not see them: others
  take the mutex before them, so that `NoBarging` fails for such clients too.
- The end of `green_thread` is not protected from the timer
  (`EndPreemptedJoin`): the joiner may run before result and zombie are stored.
  A switch between `running = next` and `setcontext` is worse: it overwrites the
  context of the next thread with that of the ended one. `RightStack` fails, and
  if the next thread is main, `test_mutex.c` never comes to its end: `Finishes`
  fails with `Timer = "any"` and one iteration, under the same fairness. This
  second half of the defect has no run of its own.
  The passing runs of the library and of the test programs therefore set
  `Timer` to "client": they show what holds once the end is protected.
- Peterson's lock needs a fence between its stores and its loads on an x86
  (`PetersonTSO`).
- `adjust` returns requests of 1 to 15 bytes unrounded, and freeing such a block
  writes its links over the next header (`DLMallocSmall`). `bench.c` asks for
  8 bytes and more.

Also seen, without a run: a request of 2^32 + 24 bytes is truncated to 24 by
`adjust` (`NoLeak` fails if `Requests` has a number beyond `IntSpan`); `sanity`
reads through a NULL `flist`; `init` a second time inserts NULL; a signal that
finds no waiter leaves SIGVTALRM blocked; `test_timer.c` and `test_final.c` can
run into the assertion of `green.c:249`, the one because it tests `flag` and
waits without a lock, the other because of the lock that is lost.

## What is proved

Every safety property that a passing run checks is also a theorem: no set, number
of rounds or size is bounded in it, and the conditions under which it holds are
named below. Only the run `WaitWithMutex`, of clients that wait with a mutex, has
no theorems of its own.

### The thread library

`TypeCorrect`: `Spec => []TypeOK`, for any set of threads and whatever the
clients and the timer do. No run lists `TypeOK`, because `IInv` includes it, nor
`LTypeOK` of `Locks`, which is proved only.

Under `Disciplined` (the timer is "off" or "client", and clients wait without a
mutex, the two conditions the violations above show to be necessary)
`LockExcludes`, `LockIsOwned`, `WaitersFirst`, `NobodyLost`, `JoinWaits`,
`FreedIsGone`, `DiesOfStarvation` and `OwnStack`: every safety property of the run
`MCGreenThreads`, from `IInvInvariant`, that `IInv` holds.

None of the properties is inductive. `EveryThreadInOnePlace`, for instance, says
nothing of where the stack of a queued thread stands, and without that a thread
that leaves `ready_queue` could find itself at the end of `green_thread`.
`GreenThreadsInvariant` therefore states `Safe`, a conjunction of named parts:
`Stacked` (each context holds its own thread's stack, at a point where the
library parks threads), `Placed` and `Found` (the queues are disjoint, injective
and hold the living), `Ended` (zombie, freed and stored results follow each
other), `Joined` and `Collectable` (a joiner is nowhere else while it waits, and
finds a zombie when it is ready), `Suspended` (where the queued stand) and
`Owned` (taken, the holder and the thread the mutex was handed to). `IInv` adds
the types, `ResultsWanted` (a thread that was joined without a place for the
result has none) and what remains true in a dead process; TLC checks it in
`MCGreenThreads`.

`GreenThreadsProofs` proves first the types (`Typed`), then one lemma per action
that leaves `Safe` true, resting on a few about what they have in common
(`Dispatched`: what giving up the processor does; `PlainSafe`: steps that leave
the queues alone), then puts them together (`IInvInit`, `IInvStep`,
`IInvInvariant`) and derives the theorems. `QueueLemmas` has facts about Head,
Tail, Append and ranges. The only assumption on the constants is
`ConstantsAssumption` of `GreenThreads`; that the workers are finite is not
needed.

### The queues

`GreenQueueProofs`: `QueuesTypeCorrect` (no NULL is dereferenced), `LinksAreApart`
(no thread is linked from two places, although all lists share the field `next`)
and `QueuesAreImplemented` (each load or store of `enqueue` and `dequeue` is a step
of `ThreadQueues` or changes no queue). Assumed is `ThreadsAssumption`: finitely
many threads, none of which is NULL.

The refinement's `Chain` is a walk, defined by recursion along the links, and
induction over it is out of reach. The proofs use sequences instead:
`Represents(q)` says that the links of each list spell out the sequence `q[l]`
(`Linked`), with the thread `dequeue` has taken still pointing to the `rest`, and
that no thread is twice in `q` (`Apart`). Each store keeps such a `q`, or makes the
queue operation on it. `ChainIsQueue` then shows that the walk is that sequence:
the least position at which the two disagree (`QueueLemmas`) does not exist.

### The test programs

All for a `Disciplined` environment, on top of `IInv`. `TestsUseAsAgreed`: every
step of `test_mutex.c` and `test_green.c` is one of the library's general
client, so that all theorems above hold of them. `Agreed` says where the workers
are, that only `test_B` returns something, and that main has a place for it;
`Counting`, that whoever is between lock and unlock owns the mutex; `Kept`, that
nobody else has it, so that none locks it twice or returns with it.
`ResultIsThere` (`Answered` follows the result from the thread through `retval`
to main), and `NoIncrementIsLost`, that `test_mutex.c` implements
`AtomicCounter` (`Counting` again: what such a worker has loaded is the
counter). Assumed is `ProgramsAssumption`: there is a worker and there are
finitely many.

### The locks

`LocksProofs`: `LocksTypeCorrect`, `LocksExclude`, `LocksAreFair` and
`CountIsRight`, for any number of processors and rounds. Exclusion is not
inductive: with store buffers a thread may have left the critical section while
its unlocking store is on its way. The invariant `LocksInv` therefore says who
*holds* a lock: of the word of `swap.c`, a thread in the critical section or with
an unlocking store in its buffer, of which there is at most one, and none when
the word in memory is 0 (`Held`). For Peterson's lock on ordered memory, `InTurn`
says that a thread's request is up from its first store to its unlock, and that
of two threads past their store to `turn` the one that came last waits for the
other; `overtaken` counts what that order allows.

`CountIsRight`, that both programs implement `AtomicCounter`, needs to know what
is in the buffers: at most a count and the unlocking behind it, in this order
(`Shaped`). So whoever has a count on its way still holds the lock
(`HoldersStore`), which makes the newest count a single value (`NewestKnown`) that
a thread between its load and its store has in its register (`Loaded`). Where
Peterson's lock does not exclude, the theorem is about the number of increments
only.

### The allocators

`DLMallocProofs`. For any arena whose sizes fit a `uint16_t` and any requests,
with and without `merge`: `DLTypeCorrect`, `TagsTellTheTruth`, `FreeListIsComplete`
and `FreeNeighboursMerge`. The invariant is `DLInv`. Before `init` nothing exists
(`Unstarted`); afterwards (`Started`) the headers tile the arena, each telling the
truth about the block before it (`Tiled`), the free list is a sequence of
distinct blocks whose two links agree (`Linked`, `IsList`), these are the free
ones and the others the client's (`Free`, `Taken`), and with `merge` no two free
blocks are neighbours (`NoTwoFree`). `detach`, `insert`, `split` and the two merges
have a lemma each.

What the client gets depends on what it asks for. `NothingLeaks` (a block is as
large as its request) assumes `RequestsFitInt`: with ALIGN added and the sign bit
an int can hold the request. `LinksAlwaysFit`, `SanityAlwaysHolds` and
`DLMallocImplementsHeap` assume in addition `RequestsHoldLinks`: a request is 0,
which gets nothing, or large enough for the two links of a free block.
`DLMallocSmall` shows that this is necessary; `RequestsFitInt` is what `adjust`'s
parameter needs.

`MyllocProofs`: `ChunksAreAccounted`, `TheHeapStopsGrowing`, and
`MyllocImplementsHeap`, that both libraries implement `Heap`, for any buffer,
requests and limit. The refinement maps the entries of the buffer to the client's
blocks (`Held`); what makes the steps of `bench.c` steps of `Heap` is `Layout`: a
chunk ends before the next begins and is at least as large as its entry asked
for, and under `mylloc.c` the blocks themselves are apart. The heap stops growing
because `mhysa.c` makes a chunk only when the free list has none of its size: all
of that size (`OfSize`) are then in the buffer, at most one in an entry, and one is
empty. The assumption used is that an int can hold each request
(`MyllocAssumption`), which `request()` guarantees.

### The small programs

`SmallProgramsProofs`: `ContextsAreRight`, for any depth of the recursion, from an
invariant that names the phases of `yield.c` (`Start`, `Descending`,
`Returning`, `Ending`, `Ended`) and says what each context holds in each;
`WaitIsForTheChild` and `OutputIsRedirected`, from `ProcessInv`: who collects a
child whose mother runs (`Motherhood`), and where file descriptor 1 leads
whenever something is written (`Writes`).

### Only model-checked

All liveness, which the prover does not reach: `WalkEnds` (the walk of `enqueue`
ends), `Finishes` (the test programs), `AllCounted` (the locks) and `ContextsEnd`
(`yield.c` and `switch.c`). And what holds of the library when
clients wait with a mutex: the run `WaitWithMutex`.

## Not modelled

Of the thread library: several mutexes and conditions, and two joiners of a
thread (the second overwrites `join`, the first waits forever, and the context
is freed twice); the timer between two stores of `enqueue` or `dequeue` at the
end of `green_thread`; stacks of 4096 bytes; `printf` interrupted by the timer;
`malloc` failing. `test_timer.c`, `test_cond.c` and `test_final.c` are not
modelled one by one: the general client makes their calls.

Of the allocators: clients that free twice or write beyond a block; requests
that an int cannot hold, which the models can be given (`IntSpan`) and the
properties exclude; the benchmarks of `seminar2`, which print the lengths of
lists.

Whole components: `swapping-assignment/bench.c` does not compile (`refs`,
`pages` and `SAMPLES` are nowhere declared) and its `evict` searches from an
uninitialised pointer, so that there is no program to model; `tlb.c` and
`random.c` measure or print; `stack-assignment` prints addresses and
`/proc/self/maps`; the live part of `signals-assignment/test1.c` is a handler
that prints; `seminar1` is straight-line boot code; the sizes of `rand.c` come
from a floating-point distribution, where the models take any of a set. Large
parts of `hellodolly-assignment`, `signals-assignment` and `stack-assignment`
are earlier programs in comments (all of `zombie.c`), which are not modelled.

## Plan

Done: the thread library with its invariant and proofs, its queues and test
programs, the locks, the three allocators, the contexts and the processes, with
the proofs above.

Left, in this order:

1. The library without `Disciplined`: that `RightStack`, `NoUseAfterFree` and
   `JoinAfterTermination` survive clients that wait with the mutex, which the run
   `WaitWithMutex` shows for three threads.
2. `GreenTail`: the queue operations at the end of `green_thread`, interrupted by
   the handler's own, on the links of `GreenQueue`.
3. A second mutex, condition and joiner in `GreenThreads`, with the proofs.
