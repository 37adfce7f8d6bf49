# X-Kaapi, specified in TLA+

X-Kaapi is a run-time system for data-flow tasks and parallel loops on multicore
machines. Programs create tasks in the order of a sequential execution; idle
processors steal tasks out of the stacks of the others when the access modes of
their parameters allow it. Almost every hard part of the code is about two
processors that look at the same words with as few locks and fences as possible.
This directory models those parts, checks them with TLC and proves the main
results with TLAPS for every value of the constants.

Paths below are relative to the root of the repository; the core of the run time
is under `src/`.

## The system

A **kprocessor** is a kernel thread. It executes the context of one user thread
at a time: a stack of **frames**, each a segment `[pc, sp)` of the stack of
**tasks**. A kprocessor with nothing to do posts a **steal request** to a
victim; a thief that gets the lock of the victim answers the requests of all
with tasks found in the victim's stack (or in its ready lists, or by splitting
an adaptive task). A stolen task runs in the request frame of the thief that
asked for it.

| Part | State | Operations | Talks to | What is hard | What makes it correct |
|---|---|---|---|---|---|
| Task state word (`src/kaapi_task.h`, `thread/kaapi_thread_execframe.c`, `task/kaapi_task_steal_body.c`, `workstealing/kaapi_sched_stealtask.c`) | bits EXEC, STEAL, TERM, MERGE, SIGNALED, LOCKED; `reserved` | markexec, marksteal, try_preempt, taskwrite_body, aftersteal | owner and thieves, by atomic OR/AND | owner and thief claim without a lock; a slot is reused while a thief still holds its address | each task is claimed and run once, its results are there before it is passed |
| Stack of frames (`thread/kaapi_thread_execframe.c`, `workstealing/kaapi_sched_stealstack.c`, `_stealframe.c`, `_sync.c`) | `sfp`, `pc`/`sp` of frames, `thieffp`, `lock` | push_frame, pop, flush; walk by a thief | the task state word, the lock | the owner pops without a lock (Dekker on `sfp`/`thieffp`) | no thief looks at positions given to new tasks; what it skips is over |
| Data flow (`data/kaapi_task_computeready.c`, `kaapi_hashmap.h`, `task/kaapi_task_steal_body.c`, `task/kaapi_task_aftersteal_body.c`) | last mode per datum in the map of a scan; `war_param`, `cw_param` | computeready, renaming, merge | run by the thief inside the walk of a frame | tasks run out of order | reads see what the sequential execution gives |
| Lock (`src/kaapi_atomic.h`) | `_counter`, `_sync` | lock, trylock, unlock, waitlock | used by stacks, kprocessors, queues | attempts that fail still decrement | exclusion; a wait covers one release and ends |
| Work queue (`src/kaapi.h`, `workstealing/kaapi_wq_slowpop*.c`) | `beg`, `end` | push, rpush, pop, slowpop, steal, reset | adaptive tasks, `api/kaapic` loops | owner and thief store their bound and read the other's | every iteration is given once |
| Steal requests (`machine/mt/kaapi_mt_sched_emitsteal.c`, `kaapi_mt_machine.h`, `src/kaapi_impl.h`) | status and frame of a request, bitmap and lock per victim | post, combine, reply, cancel at termination | all the above | a combiner writes the answer on the stack of another processor | one reply per request, to a call that waits for it; no task lost with a reply; everybody is answered |
| Suspension of kprocessors (`machine/mt/kaapi_mt_suspendresume.c`, `_condvar.c`, `_setconcurrency.c`, `misc/kaapi_init.c`) | futex words, `kaapi_suspendedthreads`, `kaapi_isterm` | suspend, resume, begin/end of parallel regions | the idle loop, init and finalize | spurious wake-ups; a wake-up before the sleep | every thread sleeps and wakes at region bounds |
| Suspended contexts (`workstealing/kaapi_sched_suspend.c`, `_wakeup.c`, `_wsqueue.c`) | list of waiting contexts | push, pop, steal of a ready context | execframe, idle loop | two processors resume the same context | each context is resumed once, when its task is ready |
| Ready lists and task lists (`tasklist/*`, `thread/kaapi_thread_execframe_tasklist.c`) | activation counters, distributed ready lists, `recv` counts | activate, push, pop, steal, end of list | execution of a data-flow graph | counters are decremented by several processors | a task runs after all its predecessors, the list ends |
| Adaptive tasks (`adapt/*`, `workstealing/kaapi_sched_splittask.c`) | steal context, list of thieves, `thieves.count` | split, preempt, merge | steal requests, work queue | termination by counting | every thief is merged once, the end waits for all |
| Parallel loops (`api/kaapic/kaapic_work.c`, `_ull.c`) | global map of slices, `workremain`, `workdone`, local queues | init, split, pop, steal, refill, end | work queue, steal requests, adaptive tasks | slices are taken by their processor and by thieves | every iteration is executed once, the loop ends |
| Static scheduling, thread groups (`static/*`) | partitions, versions | compute versions, broadcast, execute | data flow | older execution path | |
| Memory views, copies, NUMA (`memory/*`) | address spaces | allocate, copy | CUDA, static | sequential on a multicore | |
| Affinity queues, victim selection (`affinity/*`, `workstealing/kaapi_sched_select_*.c`) | queues per place | push, steal, select | steal requests | only speed depends on it | |
| Start-up, contexts, formats, hash maps (`machine/mt/*init*.c`, `task/kaapi_fmt*.c`) | tables | registration, allocation | all | sequential | |
| CUDA, network, tracing, interfaces (kaapic, Kaapi++, KaSTL, libgomp, QUARK) | | | the core | | |

`PROJECT.json` lists the same components with their files and status.

## Modules

| Module | Models | Depends on |
|---|---|---|
| `TaskOnce` | the life of the tasks of a frame as its caller sees it: claimed once, run once, completed, passed in order | |
| `TaskSteal` | the state word, `reserved`, `frame->pc`, the stack lock, and the three roles: owner, thief inside the stack, thief running its stolen task | implements `TaskOnce` |
| `FrameStack` | `sfp`, `thieffp`, `pc`, `sp` of nested frames, their pop, the wait for a thief, the flush of `kaapi_sched_sync_`, with x86 store buffers | |
| `Dataflow` | access modes, the map of a scan, readiness, renaming, merge | |
| `Lock` | a lock with a wait for one release | |
| `KaapiLock` | `_counter` and `_sync` of `kaapi_lock_t` | implements `Lock` |
| `RangeQueue` | an interval taken from both ends | |
| `WorkQueue` | `kaapi_workqueue_*`, signed and unsigned, with store buffers | implements `RangeQueue` |
| `TaskPlace` | where the tasks of a program are: in a stack, given to a processor, over | |
| `StealRequest` | the bitmap of requests, the election of a combiner, the replies, around them the idle loop and termination | implements `TaskPlace` |
| `Rounds` | rounds of suspension: posted, slept for, resumed | |
| `SuspendResume` | the start of the threads, their suspension between parallel regions, the end of the program, on the futex mutex and condition variable | implements `Rounds` |
| `ParallelLoop` | every iteration given once to a call of the body, the loop over after the last | |
| `Foreach` | a loop of `kaapic`: slices, local queues, direct steals, splitter, end of the adaptive task | implements `ParallelLoop` |
| `TaskGraph` | the tasks of a frame in an order that respects their conflicts | |
| `TaskList` | the graph of a frame, the list of its ready nodes, thefts from lists, reports to the master, end of the frame | implements `TaskGraph` |
| `MC*` | constants and programs for TLC | |
| `*Proofs` | theorems and proofs of every model of code; `LockAndQueueProofs` has those of `KaapiLock` and of `WorkQueue` | extend the module they are about |

The models are split where the code has a narrow interface. `TaskSteal`,
`FrameStack` and `TaskList` use the lock of a stack as `Lock` describes it,
which `KaapiLock` implements. `Dataflow` claims a task in one step, which
`TaskSteal` shows the state word does, and `StealRequest` takes a task out of a
stack in one step, which is what `TaskSteal`, `FrameStack` and `Dataflow` are
about. `FrameStack` reduces a task to what `execframe` may find: to run, over,
or stolen and not over. `Foreach` takes from a local queue in one step, which is
what `RangeQueue` says and `WorkQueue` implements; there and in `TaskList` a
thief that combines requests takes any set of idle processors with it, as
`StealRequest` lets it.

### TaskSteal

`state[t]` is the set of bits of `u.s.state`, `reserved[t]` the pointer to the
thief task, `fpc` the `pc` that thieves read and `pc` the one the owner keeps in
a register. `opc` is the place of the owner in `kaapi_stack_execframe`,
`__kaapi_try_preempt` and `kaapi_sched_sync_`; `tpc` that of a thief in
`kaapi_sched_stealframe` / `kaapi_sched_steal_task`, then in
`kaapi_tasksteal_body` / `kaapi_taskwrite_body`. Every atomic operation of the
code, and every read of a shared word whose result is used later, is a step.
When the owner reaches the end of the frame it pops it, waiting for the stack
lock only if a thief holds it, and new tasks take the same slots (`round`).
Whether a task is ready, and whether it needs renaming, is a free choice. Ghost
variables (`by`, `runs`, `versions`, `round`, `seen`) record what happened.

### FrameStack

The stack of tasks is an array of positions; frames are intervals of it. The
owner's stores go through a queue of at most `BufferSize` delayed values of its
view of the stack (`versions`), those of the thief that holds the lock through a
queue of values of `thieffp`; locked instructions and fences wait for an empty
queue. `delay` is chosen once for the machine: 0, which is sequential
consistency, or `BufferSize`. `kaapi_writemem_barrier` is a compiler barrier on
x86 and gives no step.

### Dataflow

A program is a frame of tasks, each a function from data to access modes. The
content of a datum is the set of tasks whose writes it contains, which is what
is needed to tell a stale, lost or early write. The sequential execution of the
same program is computed by a recursive function (`Sequential`) and compared
with what tasks read and with what is left behind the owner. `ReadsAgain` says
of a frame that it reads, changes and reads again a datum.

### KaapiLock

The default lock: the counter is 1 when free; `lock` decrements and spins,
`trylock` reads then decrements, `unlock` clears `_sync` if set, then writes 1;
`waitlock` sets `_sync` and returns when it finds it clear or finds the counter
positive. What other modules call `Init` or `TypeOK` carries here the prefix
`Lock`, because one module of proofs extends this one and `WorkQueue`.

### WorkQueue

`beg`, `end` and the two store buffers. `PopStore`, `PopFast`, `PopConflict`,
`SlowPop` are the steps of a pop; `StealStore`, `StealOk`, `StealFails`,
`StealUnlock` those of a steal. `ull` selects the unsigned functions, whose
arithmetic wraps at `Modulus`. One thief stands for all, because a steal is
called with the lock held. The answer ESRCH of `kaapi_workqueue_slowpop` (no
lock) is no action: both functions that initialise a queue give it one.

### StealRequest

`pc[p]` follows processor `p` through `kaapi_sched_idle` and
`kaapi_sched_flat_emitsteal`. `status[p]` is the local variable of the call,
`pointer[p]` tells whether `request->status` points to it, `frame[p]` is the
task pushed in the frame of the request, `bitmap[v]` the requests posted to `v`,
`lock[v]` who combines for `v`; `iter`, `target` and `answer` are the locals of
the combiner. `BeginReply` and `WriteStatus` are the two stores of
`kaapi_request_replytask`, the pointer and then the status. The last loop of the
function, which withdraws the request at termination and leaves without waiting
for a reply that is on its way, is not an action: `OwnRequestIsAnswered` shows
that it is never entered, so `After` is only enabled where the loop is skipped
and the model would not hide a state in which it is not.

### SuspendResume

`pc[t]` follows the main thread through `kaapi_setconcurrency`,
`kaapi_begin_parallel`, `kaapi_end_parallel` and `kaapi_mt_finalize`, and every
other thread through its start and its turns of `kaapi_sched_idle`. The futex
mutex has its two bytes (`locked`, `contended`), the condition variable its
sequence number `seq`; a futex wait is a step that tests the word again and a
sleep that a wake-up, or nothing at all (`LockInterrupted`, `CondInterrupted`),
ends. `flag`, `round` and `count` are `kaapi_suspendflag`, `kaapi_suspend_round`
and `kaapi_suspendedthreads`; `init1`, `init2`, `term`, `kprocs` and `isterm`
the barriers around them. The local variable `first` of `kaapi_mt_suspend_self`
is a constant of the model (`First`), because the code never resets it: a thread
whose sleep the kernel ended by itself is counted again, against the comment of
`kaapi_mt_suspendresume.c:98-99`. The main thread, which waits for equality in
`kaapi_mt_suspend_threads_wait`, may then go on too early or wait forever, which
is why `CountIsExact` and the first part of `WaitsEnd` suppose no such wake-up.

A thread may fail in two ways: its kprocessor is not allocated (`BirthFails`),
and the others go on; or `pthread_create` returns EAGAIN (`CreateFails`), and
the assertion of `kaapi_mt_init.c:243` aborts the program (the place `aborted`)
while the threads created before still run. `WaitsEnd` says that the start ends
in one way or the other.

### Foreach

Processors are numbered as `kid`. `map` is the map of slices nobody took,
`queue[p]` the local queue, `workremain` and `workdone[p]` the two counts of
which the first is decremented late, `piece[p]` the bounds a processor holds in
its local variables. `split[v]` is the splitter running on the task of `v`: who
asks, the slices it took out of the map, what it still has to reply. `thieves`
is the count the end of the adaptive task waits for. The steps are those of
`kaapic_foreach_worknext`, of the direct steal of the queue of another, of the
splitter `_kaapic_split_task`, and of the end of the adaptive task and of the
loop; `total` and `nthreads` are chosen in `Init`.

The two tables `tid2pos` and `startindex` are computed as the code computes
them, for any `Starter`. `tid2pos` puts the starter first, and the splitter
mixes positions and processors: see `foreach_split`. A starter whose number is
beyond the slices has no slice of its own, and its byte of `tid2pos` is read
without having been written (`kaapic_work.c:404-411`): it takes any slice
(`StarterSlice`). Left out is a byte that is not even a bit of the map, which is
a debug assertion of the bitmap and, without it, an undefined shift. The
processor 0 always has a slice, so that the run `foreach` and the theorems do
not meet the case; `foreach_split`, with one slice and the starter 1, does.

`CheckSlice` is the second look at `workremain` after a slice was taken
(`kaapic_work.c:220-227`), which would forget the slice if nothing remained. The
proofs show (`SliceIsKept`) that it never does: what is in a slice remains.

### TaskList

`Graph(p)` is the graph that `kaapi_thread_computeready_access` builds from the
accesses of program `p`, by recursion over its tasks: for each datum the node
that moves or allocates it, the links from the last writer, and the count of
predecessors of each node. `list[c]` and `cnt[c]` are the list of ready nodes of
context `c` and the count kept beside it; they differ between the link of a node
and its count, and between the removal by a thief and its discount. `exec[c]` is
`cnt_exec` of the list, `local[c]` that of the loop, `boss[c]` the pointer to
the list of the master, `listed`/`alive` whether the frame shows its list and
whether it is allocated. `TakeTail`, `TakeNothing`, `Reply` are the steps of a
thief that holds the lock of the stack of its victim. A task that accesses no
datum is counted among the nodes and put in no list (see below), so that
`GraphEnds` promises of its frame only that all other tasks are executed.

## What TLC checks

| Run | Expected | Question |
|---|---|---|
| `tasksteal` | pass | is each task of a frame claimed and run once, complete before it is passed, held by one thief; is a claim always of the generation of tasks the thief examined; is it all a behaviour of `TaskOnce`; is the frame always emptied? |
| `framestack` | pass | where no store is delayed, are the positions a thief has still to look at left alone, and does the `pc` it reads never run ahead of unfinished children; where stores are or are not delayed, are slots reused only when their task is over, and is every task executed although the thief takes the lock again and again? |
| `dataflow` | pass | does every task read what the sequential execution gives it? |
| `dataflow_reads` | violation | the same for frames that read, change, and read again a datum |
| `kaapilock` | pass | do holders exclude each other, does a wait cover who is inside and end, do some calls always get in? |
| `workqueue` | pass | is each iteration given once; is the queue an interval taken from both ends? |
| `stealrequest` | pass | does a reply find its request; has who combined its own answer; is no task lost, doubled or overwritten; is every request answered; is it all a behaviour of `TaskPlace`? |
| `suspendresume` | pass | is no wake-up lost, does every thread sleep for a posted round and wake, does the main thread get out of each wait, is a kprocessor freed only when its thread is gone? |
| `foreach` | pass | is every iteration in one place until it is given to one call of the body; is the count of what remains exact; does the loop end, with nobody in it; is it a behaviour of `ParallelLoop`? |
| `foreach_split` | violation | does the splitter reply to who asked? |
| `tasklist` | pass | does every task run once and after those it conflicts with; is a list that is left empty; are freed lists left alone; is the number of reports exact; does the frame end? |
| `tasklist_report` | violation | is the list of the master still there when the last context reports to it? |

### Bounds

- `TaskSteal`: two tasks, two thieves, two generations. Two tasks give a thief
  something before and after the task it takes; two thieves give one inside the
  stack while the other runs or ends its task; a second generation is what a
  late thief could confuse with the first.
- `FrameStack`: four frames (numbers 0 to `MaxFrame` = 3), three positions,
  three tasks, one thief, delays of 0 or 2 stores. Depth three is needed to pop
  two frames in a row and return to a frame that is not the bottom; three tasks
  nest that deep or refill a position that was popped. One thief is enough
  because thieves are one at a time inside the lock, and a second one would only
  repeat the first; it may take the lock any number of times.
- `Dataflow`: four tasks (the shortest frame in which renaming after a write
  matters is W, RW, W, RW), two workers, one datum in all modes, two data where
  one task mixes renamed and in-place parameters.
- `KaapiLock`: three processes and one waiter: one inside, one entering, one
  with a stale read. The counter is bounded by what the code does.
- `WorkQueue`: four iterations, requests of one to three, so that a request may
  be less than, equal to and more than what is left, on either side. `Modulus =
  8` is the width of the unsigned index.
- `StealRequest`: three processors, one of which can be chosen as a victim, by
  itself too, and two tasks. Three are needed for a combiner that answers a
  second while a third posts, waits or enters after it; victims do not interact,
  each has its own bitmap and lock. Two tasks let a combiner answer two requests
  with a task, or one with a task and the rest negatively.
- `SuspendResume`: two threads besides the main one (one may be inside the mutex
  or asleep while the other comes late), two regions (`MaxRegions`), so that a
  suspension may be posted while a thread still wakes from the one before, and
  one wake-up for no reason (`MaxSpurious`) on the condition variable, any
  number on the mutex.
- `Foreach`: three processors, one to three threads, up to four iterations, no
  grain. Three processors give a splitter, one that steals from it directly, and
  one that asks; with four iterations some slices have one and some two, and a
  queue can be shared. `MaxPosts` bounds the requests a processor posts in vain,
  and hides one thing from `LoopEnds`: processors that post and combine in vain
  without end may take a lock, which is not fair, again and again before one
  that waits for it; the code does not prevent that.
- `TaskList`: a master and two other contexts, so that one may steal from the
  other what it stole; frames of two or three tasks with two readers of a
  writer, a task that waits twice for another, a task that accesses a datum
  three times, a task that accesses nothing. `MaxThefts = 3` bounds the thefts:
  without a bound two contexts may steal the last node from each other forever,
  which the code does not prevent either. In these frames no task writes what an
  earlier one only reads (see below).

Deadlock is checked in the runs where nothing may stop (`kaapilock`,
`workqueue`). The others model the execution of one program, which ends.

### Fairness

Weak fairness of each processor's own steps: kernel threads are preempted but
not stopped. Nothing obliges a thief to come (no fairness on taking the lock of
a stack, none on calling `lock`, none on posting a request or starting a theft
in `Foreach` and `TaskList`); a thief that is inside goes on. Store buffers
drain. In `StealRequest` only a processor inside `emitsteal` must go on; nothing
obliges one to create or execute tasks. In `SuspendResume` the program need not
begin or end a region, and the kernel need not end a sleep.
`EveryTaskIsExecuted` and the part of `CallsReturn` about waits therefore hold
although the lock may be taken again and again, because of `_sync`; starvation
of one particular caller of `lock` is possible and not claimed otherwise (the
rest of `CallsReturn` says that one of them gets in). In `Foreach` the fairness
of the splitters is stated for all of them together, which asks for less than
the fairness of each.

## What is proved

`tlapm` checks the following for all values of the constants, from the named
assumptions on constants and the hypotheses that are stated with each result.

- **TaskStealProofs**. `TypeCorrect`, `BodyRunsOnce`, `PassedIsComplete`,
  `ThiefTaskIsAlone`, `ClaimIsFresh`, `TaskOnceIsImplemented`, for any number of
  tasks and generations and any set of thieves. The inductive invariant `IndInv`
  is `TypeOK` and what the code keeps implicitly: a task nobody claimed has none
  of the execution bits (`UnclaimedInv`); one the owner claimed is at or behind
  its `pc` (`OwnedInv`); one a thief claimed carries STEAL and, until it is TERM
  or MERGE, is in the request frame of that thief and no other (`StolenInv`,
  `ThiefInv`); the place of the owner tells what it knows of the task at `pc`,
  and everything behind it is settled (`OwnerInv`); a thief inside the stack
  looks at the generation it started in, and at nothing once the owner may
  refill the frame (`ScanInv`). None of the properties is inductive without it:
  that `marksteal` does not test STEAL, for instance, is harmless only because
  of the lock and of the test of `isstealable` before it.
- **FrameStackProofs**. `NothingOverwritten` on any machine, `ScanIsNotStale`
  and `HistoryAboveIsComplete` where no store is delayed (`delay = 0`), for any
  number of frames, positions, tasks and thieves. Two invariants. `OwnerInv` is
  the owner's own view of its stack: the frames are in order, the task at the
  `pc` of a covered frame is the one whose body uses the frame above
  (`ParentInv`), and no task that is not finished lies above the top
  (`FreeInv`). `ThiefInv` adds the thief: `thieffp` is the frame of the thief
  that has the lock, or the one below while it moves (`LockInv`); what it read
  is still there (`ReadInv`); and the place of the owner tells where the thief
  may be (`PlaceInv`). While the owner pops, the thief may be above, and then
  what is above is kept; the owner pushes again only after it saw `thieffp`
  below its frame, or after the thief of its check left and the next one saw the
  new `sfp`. The proof uses that a store is visible when it is made: with delays
  `NoStaleScan` fails (see below), and `HistoryIsComplete` fails with none,
  which is why the theorem is about the frames above the bottom one.
- **DataflowProofs**. `FrameIsWellTyped`, `PrefixIsKept`,
  `FrameResultIsSequential`, `UpdatesReadLastWrite`, `ReadsAreSequential` and
  `ReadsAreLastWrites`, for a frame of any length, any data and any number of
  workers. In every frame, what the owner leaves behind it is what the tasks
  leave when they run in order, so is the result of the frame, and a task that
  changes a datum in place (RW) finds in it what the tasks before it leave. That
  a plain read does so too holds of the frames that are not `ReadsAgain`; the
  run `dataflow_reads` shows one where it fails. Note what the
  first results mean: a content is the set of tasks whose writes it holds, not
  the value they computed, so that they say no write is lost, doubled or out of
  order, and not that a task which read too early wrote the right value. The
  invariant relates what is ahead of the owner to what the scan remembers.
  `Passed` is the number of tasks the owner has done with. The map of a scan
  knows which data the tasks walked over access, and the mode it keeps for a
  datum is one that no access ahead of the owner comes before (`MapInv`); so a
  task that was stolen has copies of data it only writes, and what it changes in
  place nobody uses between the owner and itself (`MayWrite`, in `ScanInv` and
  `StolenInv`), nor, for `ReadInv`, writes what it reads. Then a datum is as the
  tasks passed leave it, or as the one task that wrote it ahead of the owner
  does (`DataInv`). TLC also checked this invariant on all frames of three tasks
  on two data.
- **LockAndQueueProofs, the lock**. `LockIsExclusive`, `WaitIsLongEnough`,
  `LockIsImplemented`, `CounterIsBounded` for any finite set of processes. The
  invariant: the counter is at most 1 and not positive while somebody is between
  its success and its store (`CounterInv`); as long as somebody a wait is for is
  inside, `_sync` is set (`PendingInv`). The lower bound of the counter is that
  of `DriftInv`, which counts the processes that may still decrement: an attempt
  that fails decrements and gives nothing back, but it is made again only after
  a release, whose store of 1 forgets all of them.
- **LockAndQueueProofs, the work queue**. `TypeCorrect`,
  `IterationsAreGivenOnce`, `QueueIsImplemented`, `PopIsNeverEmpty` for any
  range of iterations and any size of request, under the hypothesis `NoWrap`
  (`MaxIndex + MaxSize < Modulus`: the sum of a bound and a size fits in the
  type). The invariant: what is left is an interval `[Low, High)` (`RangeInv`),
  a bound that may still be taken back not counted; every value of `beg` a thief
  may see, in memory or in flight, is at or above `Low` (`BegInv`), every value
  of `end` the owner may see is at or below `High` (`EndInv`): each side only
  ever shows the other too little. "Unsigned wrap" below shows that the
  hypothesis is needed.
- **StealRequestProofs**. `TypeCorrect`, `RepliesFindRequests`,
  `CombinerIsAnswered`, `TasksHaveOnePlace`, `TaskPlaceIsImplemented` for any
  set of processors, of possible victims and of tasks. The invariant: a combiner
  has the lock of its victim (`LockInv`); a request that waits is in the bitmap
  of its victim or in the hands of one combiner, and nowhere else (`BitmapInv`,
  `IterInv`, `PostedInv`), and its caller is then waiting without the lock or is
  that combiner; a task is in the frame of a request only when a positive answer
  is given or being written (`FrameInv`). That a combiner is always answered
  follows: its own request was posted before the lock was taken, hence before
  the bitmap was read. The step that matters most is the exchange of the bitmap,
  after which a second combiner of the same victim cannot see the same request.
- **SuspendResumeProofs**. `TypeCorrect`, `MutexExcludes`, `WakeUpsAreNotLost`,
  `RoundsAreImplemented`, `CountsAreExact`, `FreedAreUnused` for any finite set
  of threads, any number of regions and any wake-ups for no reason. The
  invariant: the word of the mutex is set as long as somebody is inside
  (`MutexInv`); only the main thread changes the flag, and its place tells the
  flag and the depth of regions (`MainInv`); a thread that sleeps was counted
  for a round up to the last, and with a sequence number older than the last
  only if that round is being resumed (`SleepInv`). What fails without it: a
  thread reads the sequence number under the mutex and gives it to the kernel
  after the mutex is released, so that nothing but the order of the flag, the
  sequence number and the wake-up in `kaapi_mt_resume_threads` keeps it from
  sleeping for a round that is over. `CountInv` says what each shared counter
  counts: the threads created and not started, those registered and not ended,
  the processors alive, and, without wake-ups for no reason, the sleepers. A
  main thread that finds no thread left then frees processors nobody uses.
- **ForeachProofs**. `FrameIsFree`, `IterationsHaveOnePlace`, `RemainIsCounted`,
  `LoopIsImplemented` for any number of processors and threads, any length of
  the loop and any grain, for loops started by the processor 0 (`Starter = 0`:
  elsewhere the mask of slices confuses positions and processors, and the first
  two fail, `foreach_split`). The invariant has three layers. `CoreInv`: who
  asks what of whom, and who holds a lock. `LoopInv`: who takes part in the
  loop; the counter `thieves` is the cardinality of that set, so that the frame
  of the master is not left while somebody reads it. `WorkInv`: slices not
  given, queues, pieces being cut, replies and iterations being run are disjoint
  intervals, and `workremain` is the number of iterations that are there or
  given and not reported yet. The lemmas about `SlicesInOrder` do the arithmetic
  of the division of the range.
- **TaskListProofs**. `IndInvHolds`, `ListsAreLeftEmpty`,
  `ListsOutliveTheirUsers`, `EveryExecutionIsReported` for any finite set of
  contexts, any data, frames and number of thefts; `FrameIsImplemented` and
  `ConflictsOrdered` for frames where a task writes what an earlier one accesses
  only if that one writes it too (`NoWriteAfterRead`: the code keeps no readers,
  see below; TLC evaluates it for the frames of the run, as the assumption
  `SafeProgramsAreSafe`). First the graph, by the steps in which `Graph`
  computes it (`GraphOK`): the count of each node is the number of links to it,
  and a task that accesses what an earlier one wrote is linked from the last
  that wrote it before (`LinkedOK`). Then the invariant `IndInv` of the
  execution. A node is in one place: a list, the hands of a context or of a
  thief, or executed (`PlaceInv`). A link is pending until the context that
  executed its source has walked over it; the counter of a node and its pending
  links make `wc`, and a node that is in a place has none (`PendingInv`), so
  that one predecessor, the last, finds it ready, in whatever order they count.
  The count of a list is its length and what is on its way in or out
  (`ListInv`), which at the places where the loop is left is nothing. What
  contexts owe to the master and what it has make the number of nodes executed
  (`ReportInv`); when it has them all nobody holds a node, and this is all that
  keeps its list from being freed under a user. The order of the tasks follows
  by `OrderInv`: what was executed was executed after what it conflicts with,
  through the chain of writers of a datum.

  The graph is recursive, and the library's theorems about recursion and
  induction over numbers take operators as parameters, which the provers cannot
  instantiate. The fact that is needed is proved from the library's theorem on
  well-founded orders, which takes sets (`LeastCounterexample`,
  `IterationExists`): a function defined by a step exists, and has its values in
  any set the step does not leave. `Sequential` of `Dataflow` is such a function
  too: `SequentialExists` builds it task by task, and the other proofs use only
  `SequentialFacts`, what it is at 0 and from one task to the next.

The proofs of `TaskSteal`, `KaapiLock`, `WorkQueue` and `StealRequest` have one
lemma per action (`<Action>Step`), that of `SuspendResume` one per conjunct of
the invariant with a step per action, those of `Foreach`, `FrameStack`,
`TaskList` and `Dataflow` one per conjunct and group of actions that disturb it
in the same way; then come a lemma for `Init`, one that combines them, and
theorems by `PTL`. Every inductive invariant was an invariant of a run of TLC
before it was proved.

Every invariant, every action property and every refinement of a run that is
expected to pass is stated by one of these theorems. Only model-checked are the
liveness properties (`FrameIsEmptied`, `EveryTaskIsExecuted`, `CallsReturn`,
`RequestIsAnswered`, `WaitsEnd`, `LoopEnds`, `GraphEnds`): liveness under
fairness and `ENABLED` are out of the reach of the prover used here.

## What the runs found

- **Read, write, read** (`dataflow_reads`): `kaapi_task_computeready` keeps the
  first mode a scan meets for a datum, not the last; in R x, RW x, R x the third
  task is found concurrent with the first and stolen before the second. The
  passing run excludes such frames (`ReadsAgain`), and the theorem
  `ReadsAreSequential` shows all others right.
- **Positions and processors** (`foreach_split`): the mask of slices of
  `_kaapic_split_task` holds positions, and its bits are used as numbers of
  processors. The two are the same only for a loop started by the processor 0,
  which is what the passing run starts.
- **Late report** (`tasklist_report`): a context whose nodes were all stolen
  from it adds 0 to a list that its owner may have freed.

Seen in other states of the models, without a run of their own; each can be had
by adding the named definition to the configuration:

- **Flush of a frame**: `kaapi_sched_sync_` stores `sp` then `pc` after the
  check for thieves; one that enters between the two may start in the middle of
  the next tasks (`HistoryIsComplete` of `FrameStack`, which fails).
- **Store buffers**: the pop of frames is Dekker's protocol without a store-load
  fence; `NoStaleScan` fails where stores are delayed.
- **Late unlock**: the state lock of a task is released after the owner could
  reuse its slot (`StateLockIsExclusive` of `TaskSteal`); a wrong execution of a
  task is not reached.
- **Unsigned wrap**: `kaapi_workqueue_pop_ull` does not test its addition as
  `kaapi_workqueue_steal_ull` tests its subtraction (`PopGivesSomething` of
  `WorkQueue` with `MinIndex = 5`, `MaxIndex = 7`, `MaxSize = 2`, `Modulus =
  8`). This is the hypothesis `NoWrap` of the proofs.
- **Write after read**: the graph of a task list orders a write after the last
  write and not after the reads since (`ConflictsAreOrdered` of `TaskList` with
  `Programs <- WarPrograms`); the comment of
  `kaapi_thread_computeready_access.c:87` says that such a pair is serialized.
- **Task without access**: the comment of `kaapi_thread_checkdeps.c:188` says of
  a task with nothing to wait for "push the task into the ready list"; the call
  at line 190 pushes its successors, of which it has none yet. A task with an
  access waits at least for the node of its datum and is not concerned; one
  without is counted in `total_tasks` and never executed, and its frame waits
  for it forever (`<>(pc[Master] = "over")` of `TaskList` fails in the last
  frame of the run `tasklist`).
- **Count of sleeping threads**: see `first` above (`CountIsExact` without its
  condition on `spurious`).

Met in reading, and outside the models:

- `kaapi_thread_execframe_tasklist.c:150` compares `fp->sp` with
  `stack->sfp->sp` although both are the same frame there, so that tasks created
  by a body of a list are never executed; the comment at lines 74-75 says they
  are.
- `kaapi_thread_execframe_tasklist.c:131` copies the frame that holds the list,
  pointer to the list included, into the frame above.
- `kaapi_stsched_tasksetstatic.c:208` makes the stack stealable again before the
  frame shows its list: in between a thief walks its tasks as those of an
  ordinary frame.
- `kaapi_sched_stealstack.c:89` and `:96` read the pointer to the list twice.

## What is not modelled

Of the modelled parts: the CUDA and static variants of `execframe`; a
`kaapi_sched_sync_` nested in a body; by-value, stack and in-place access modes;
two parameters of one task on the same datum outside of task lists; the
`KAAPI_SCHED_LOCK_CAS` lock; the deprecated `kaapi_workqueue_set`; the
preemption of adaptive tasks (its reply is an assertion that fails,
`kaapi_adapt_reqpushtask_adapt.c:100`); bodies of loops that wait for tasks;
priorities, sites, remote lists and copies of data in task lists, and bodies in
them that create tasks. Weak memory other than x86's store buffers is not
considered, and store buffers are only where the code has no locked instruction
or lock around the stores that matter (`FrameStack`, `WorkQueue`). The depth of
frames and the size of the stack of tasks are bounds of the models; the code
checks the first by a debug assertion only.

Not modelled yet: suspended contexts and their wake-up (`SuspendQueue` in the
plan), where `TaskSteal` and `FrameStack` let the owner wait until the task is
ready.

Not modelled at all, because they are sequential or only bear on speed: start-up
and allocation, formats, hash maps, affinity, victim selection, tracing, the
interfaces. CUDA and the network layer depend on what is not in the repository.
The thread groups of the static scheduling are an older execution path, left for
last; what it shares with the task lists of a frame is in `TaskList`.

## Plan

1. (done) `TaskSteal`, `FrameStack`, `Dataflow`, `KaapiLock`, `WorkQueue`,
   `StealRequest` and their abstract specifications; proofs of all of them.
2. (done) `SuspendResume`, `Foreach`, `TaskList` and their abstract
   specifications; proofs of all three.
3. (done) `ReadsLastWrite` and `PrefixIsSequential` of `Dataflow` proved.
4. `SuspendQueue`: contexts that wait for a stolen task; each resumed once.
5. `StealRequest` with adaptive tasks that answer several requests at once, and
   with ready lists.
6. Preemption and merge of adaptive tasks with results.
