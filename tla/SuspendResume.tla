----------------------------- MODULE SuspendResume -----------------------------
(***************************************************************************)
(* The life of the kprocessors between parallel regions: the start of the  *)
(* threads (kaapi_mt_setconcurrency.c), their suspension and resumption    *)
(* (kaapi_mt_suspendresume.c, called by kaapi_begin_parallel and           *)
(* kaapi_end_parallel) and the end of the program (kaapi_mt_finalize), on  *)
(* the futex mutex and condition variable of kaapi_mt_condvar.c.           *)
(*                                                                         *)
(* A word of a mutex is its two bytes, locked and contended.  A futex wait *)
(* may return for no reason (a signal): on the mutex any number of times,  *)
(* on the condition variable MaxSpurious times.  Work of the regions is    *)
(* left out: it ends before kaapi_end_parallel posts a suspension.         *)
(***************************************************************************)
EXTENDS Integers, FiniteSets

CONSTANTS Worker,     \* the threads but the main one
          Main,       \* the thread that runs the program
          MaxRegions, \* bound on the calls of kaapi_begin_parallel
          MaxSpurious \* bound on the sleeps that end for no reason

ASSUME ConstantsAssumption ==
    /\ IsFiniteSet(Worker)
    /\ Main \notin Worker
    /\ MaxRegions \in Nat
    /\ MaxSpurious \in Nat

Thread == Worker \cup {Main}

VARIABLES
    pc,        \* where each thread is
    locked,    \* first byte of the mutex
    contended, \* second byte of the mutex
    seq,       \* sequence number of the condition variable
    used,      \* the condition variable has had a waiter (c->m is set)
    flag,      \* kaapi_suspendflag
    round,     \* kaapi_suspend_round
    count,     \* kaapi_suspendedthreads
    myround,   \* the local round of kaapi_mt_suspend_self
    myseq,     \* the local seq of kproc_condunlock_wait, NoSeq outside
    init1,     \* barrier_init
    init2,     \* barrier_init2
    term,      \* kaapi_term_barrier
    kprocs,    \* kaapi_count_kprocessors
    isterm,    \* kaapi_isterm
    depth,     \* kaapi_parallel_stack
    after,     \* where the main thread goes when a call returns
    regions,   \* ghost: calls of kaapi_begin_parallel
    booted,    \* ghost: kaapi_setconcurrency has returned
    spurious   \* ghost: sleeps that ended for no reason

mutex == <<locked, contended>>
cond == <<seq, used>>
suspension == <<flag, round, count>>
local == <<myround, myseq>>
barriers == <<init1, init2, term, kprocs, isterm>>
program == <<depth, after, regions, booted>>
vars == <<pc, mutex, cond, suspension, local, barriers, program, spurious>>

NoSeq == -1

MainLocation == {"create", "initwait", "postround", "postflag", "waitflag",
                 "waitspin", "run", "bcast", "wakeall", "setterm", "termdec",
                 "termwait", "freed", "aborted"}
WorkerLocation == {"none", "born", "registered", "init2", "idle", "testterm",
                   "bye", "dead", "cwait", "csleep", "awake"}
MutexLocation == {"lock", "xchg", "fwait", "msleep", "critical", "ufast",
                  "uslow", "uspin", "uclear", "uwake"}

Init ==
    /\ pc = [t \in Thread |-> IF t = Main THEN "create" ELSE "none"]
    /\ locked = 0 /\ contended = 0
    /\ seq = 0 /\ used = FALSE
    /\ flag = 0 /\ round = 0 /\ count = 0
    /\ myround = [w \in Worker |-> 0]
    /\ myseq = [w \in Worker |-> NoSeq]
    /\ init1 = 0 /\ init2 = 1 /\ term = 1 /\ kprocs = 1 + Cardinality(Worker)
    /\ isterm = FALSE
    /\ depth = 0 /\ after = "waitflag" /\ regions = 0 /\ booted = FALSE
    /\ spurious = 0

Goto(t, from, to) == pc[t] = from /\ pc' = [pc EXCEPT ![t] = to]

-------------------------------------------------------------------------------
(* kproc_mutex_lock and kproc_mutex_unlock.                                *)

\* A read and a compare-and-swap that succeeds, in the loop of 100 attempts.
LockSpin(t) ==
    /\ locked = 0
    /\ Goto(t, "lock", "critical")
    /\ locked' = 1
    /\ UNCHANGED <<contended, cond, suspension, local, barriers, program, spurious>>

\* The attempts are over.
LockGiveUp(t) ==
    /\ Goto(t, "lock", "xchg")
    /\ UNCHANGED <<mutex, cond, suspension, local, barriers, program, spurious>>

\* Broken on purpose: a thread that has slept takes the lock uncontended.
LockXchg_Uncontended(t) ==
    /\ Goto(t, "xchg", IF locked = 0 THEN "critical" ELSE "fwait")
    /\ locked' = 1 /\ contended' = IF locked = 0 THEN 0 ELSE 1
    /\ UNCHANGED <<cond, suspension, local, barriers, program, spurious>>

\* xchg_32(&m->st.u, 257) & 1.
LockXchg(t) ==
    /\ Goto(t, "xchg", IF locked = 0 THEN "critical" ELSE "fwait")
    /\ locked' = 1 /\ contended' = 1
    /\ UNCHANGED <<cond, suspension, local, barriers, program, spurious>>

\* The kernel compares the word with 257 before it puts the thread to sleep.
LockSleep(t) ==
    /\ Goto(t, "fwait", IF locked = 1 /\ contended = 1 THEN "msleep" ELSE "xchg")
    /\ UNCHANGED <<mutex, cond, suspension, local, barriers, program, spurious>>

LockInterrupted(t) ==
    /\ Goto(t, "msleep", "xchg")
    /\ UNCHANGED <<mutex, cond, suspension, local, barriers, program, spurious>>

\* Where a thread goes when kproc_mutex_unlock returns.
AfterUnlock(t) ==
    IF t = Main THEN after
    ELSE IF myseq[t] = NoSeq THEN "testterm" ELSE "cwait"

\* Locked and not contended: a compare-and-swap of 1 with 0.
UnlockFast(t) ==
    /\ locked = 1 /\ contended = 0
    /\ Goto(t, "ufast", AfterUnlock(t))
    /\ locked' = 0
    /\ UNCHANGED <<contended, cond, suspension, local, barriers, program, spurious>>

UnlockContended(t) ==
    /\ ~(locked = 1 /\ contended = 0)
    /\ Goto(t, "ufast", "uslow")
    /\ UNCHANGED <<mutex, cond, suspension, local, barriers, program, spurious>>

UnlockSlow(t) ==
    /\ Goto(t, "uslow", "uspin")
    /\ locked' = 0
    /\ UNCHANGED <<contended, cond, suspension, local, barriers, program, spurious>>

\* Somebody took the lock during the 200 turns of the loop.
UnlockTaken(t) ==
    /\ locked = 1
    /\ Goto(t, "uspin", AfterUnlock(t))
    /\ UNCHANGED <<mutex, cond, suspension, local, barriers, program, spurious>>

\* The loop is over and nobody was seen with the lock.
UnlockGiveUp(t) ==
    /\ locked = 0
    /\ Goto(t, "uspin", "uclear")
    /\ UNCHANGED <<mutex, cond, suspension, local, barriers, program, spurious>>

\* Broken on purpose: the word is cleared and not one byte of it.
UnlockClear_Word(t) ==
    /\ Goto(t, "uclear", "uwake")
    /\ locked' = 0 /\ contended' = 0
    /\ UNCHANGED <<cond, suspension, local, barriers, program, spurious>>

UnlockClear(t) ==
    /\ Goto(t, "uclear", "uwake")
    /\ contended' = 0
    /\ UNCHANGED <<locked, cond, suspension, local, barriers, program, spurious>>

\* Wake one of the threads that sleep on the mutex, if any.
UnlockWake(t) ==
    /\ pc[t] = "uwake"
    /\ \/ /\ \A u \in Thread : pc[u] # "msleep"
          /\ pc' = [pc EXCEPT ![t] = AfterUnlock(t)]
       \/ \E u \in Thread :
            /\ pc[u] = "msleep"
            /\ pc' = [pc EXCEPT ![t] = AfterUnlock(t), ![u] = "xchg"]
    /\ UNCHANGED <<mutex, cond, suspension, local, barriers, program, spurious>>

-------------------------------------------------------------------------------
(* kaapi_mt_suspend_self and kproc_condunlock_wait.                        *)

\* The variable first of kaapi_mt_suspend_self, which the loop never resets.
First == TRUE

\* Broken on purpose: the flag is tested before the mutex is taken, not after.
SuspendSelf_NoTest(w) ==
    /\ Goto(w, "critical", "ufast")
    /\ count' = count + 1
    /\ myround' = [myround EXCEPT ![w] = round]
    /\ myseq' = [myseq EXCEPT ![w] = seq]
    /\ used' = TRUE
    /\ UNCHANGED <<seq, mutex, flag, round, barriers, program, spurious>>

\* The turn of the loop under the mutex.
SuspendSelf(w) ==
    /\ Goto(w, "critical", "ufast")
    /\ \/ /\ flag = 0
          /\ UNCHANGED <<cond, count, local>>
       \/ /\ flag # 0
          /\ count' = IF First \/ myround[w] # round THEN count + 1 ELSE count
          /\ myround' = [myround EXCEPT ![w] = round]
          /\ myseq' = [myseq EXCEPT ![w] = seq]
          /\ used' = TRUE
          /\ UNCHANGED seq
    /\ UNCHANGED <<mutex, flag, round, barriers, program, spurious>>

\* Broken on purpose: the kernel is not told the sequence number to expect.
CondSleep_NoSeq(w) ==
    /\ Goto(w, "cwait", "csleep")
    /\ UNCHANGED <<mutex, cond, suspension, local, barriers, program, spurious>>

\* The kernel compares seq with the value read before the mutex was released.
CondSleep(w) ==
    /\ Goto(w, "cwait", IF seq = myseq[w] THEN "csleep" ELSE "awake")
    /\ myseq' = IF seq = myseq[w] THEN myseq ELSE [myseq EXCEPT ![w] = NoSeq]
    /\ UNCHANGED <<mutex, cond, suspension, myround, barriers, program, spurious>>

\* The wait on the condition variable ends with nobody having woken it.
CondInterrupted(w) ==
    /\ spurious < MaxSpurious
    /\ pc[w] \in {"cwait", "csleep"}
    /\ pc' = [pc EXCEPT ![w] = "awake"]
    /\ myseq' = [myseq EXCEPT ![w] = NoSeq]
    /\ spurious' = spurious + 1
    /\ UNCHANGED <<mutex, cond, suspension, myround, barriers, program>>

\* The test of the flag after the wait: return, or another turn.
Awake(w) ==
    /\ Goto(w, "awake", IF flag = 0 THEN "testterm" ELSE "lock")
    /\ UNCHANGED <<mutex, cond, suspension, local, barriers, program, spurious>>

-------------------------------------------------------------------------------
(* kaapi_mt_suspend_threads_post, kaapi_mt_suspend_threads_wait and        *)
(* kaapi_mt_resume_threads, in the main thread.                            *)

PostRound ==
    /\ Goto(Main, "postround", "postflag")
    /\ round' = round + 1
    /\ UNCHANGED <<mutex, cond, flag, count, local, barriers, program, spurious>>

PostFlag ==
    /\ Goto(Main, "postflag", after)
    /\ flag' = 1
    /\ UNCHANGED <<mutex, cond, round, count, local, barriers, program, spurious>>

WaitFlag ==
    /\ Goto(Main, "waitflag", "waitspin")
    /\ flag' = 2
    /\ UNCHANGED <<mutex, cond, round, count, local, barriers, program, spurious>>

\* Broken on purpose: the main thread counts itself.
WaitSpin_OneLess ==
    /\ count + 1 >= kprocs - 1
    /\ Goto(Main, "waitspin", "run")
    /\ booted' = TRUE
    /\ UNCHANGED <<mutex, cond, suspension, local, barriers, depth, after, regions,
                   spurious>>

\* The wait of kaapi_setconcurrency, which returns with it.
WaitSpin ==
    /\ count = kprocs - 1
    /\ Goto(Main, "waitspin", "run")
    /\ booted' = TRUE
    /\ UNCHANGED <<mutex, cond, suspension, local, barriers, depth, after, regions,
                   spurious>>

ResumeFlag ==
    /\ Goto(Main, "critical", "bcast")
    /\ flag' = 0
    /\ count' = 0
    /\ UNCHANGED <<mutex, cond, round, local, barriers, program, spurious>>

\* kproc_condunlock_broadcast: nobody to wake if there was never a waiter.
Broadcast ==
    /\ Goto(Main, "bcast", IF used THEN "wakeall" ELSE "ufast")
    /\ seq' = IF used THEN seq + 1 ELSE seq
    /\ UNCHANGED <<mutex, used, suspension, local, barriers, program, spurious>>

Asleep(w) == pc[w] = "csleep"

WakeAll ==
    /\ pc[Main] = "wakeall"
    /\ pc' = [t \in Thread |-> IF t = Main THEN "ufast"
                              ELSE IF Asleep(t) THEN "awake" ELSE pc[t]]
    /\ myseq' = [w \in Worker |-> IF Asleep(w) THEN NoSeq ELSE myseq[w]]
    /\ UNCHANGED <<mutex, cond, suspension, myround, barriers, program, spurious>>

-------------------------------------------------------------------------------
(* kaapi_setconcurrency and kaapi_sched_run_processor.                     *)

CreateWorker ==
    /\ pc[Main] = "create"
    /\ \E w \in Worker :
        /\ pc[w] = "none"
        /\ pc' = [pc EXCEPT ![w] = "born"]
    /\ init1' = init1 + 1
    /\ UNCHANGED <<mutex, cond, suspension, local, init2, term, kprocs, isterm,
                   program, spurious>>

\* pthread_create returns EAGAIN: the kprocessors are those created up to here, and
\* kaapi_mt_init aborts the program.  The other threads go on until that is done.
CreateFails ==
    /\ \E w \in Worker : pc[w] = "none"
    /\ Goto(Main, "create", "aborted")
    /\ kprocs' = 1 + Cardinality({w \in Worker : pc[w] # "none"})
    /\ UNCHANGED <<mutex, cond, suspension, local, init1, init2, term, isterm,
                   program, spurious>>

AllCreated ==
    /\ \A w \in Worker : pc[w] # "none"
    /\ Goto(Main, "create", "initwait")
    /\ UNCHANGED <<mutex, cond, suspension, local, barriers, program, spurious>>

\* The threads have started: they are counted, let go, and suspended.
WaitInit ==
    /\ init1 = 0
    /\ Goto(Main, "initwait", "postround")
    /\ kprocs' = term
    /\ init2' = 0
    /\ after' = "waitflag"
    /\ UNCHANGED <<mutex, cond, suspension, local, init1, term, isterm, depth,
                   regions, booted, spurious>>

Register(w) ==
    /\ Goto(w, "born", "registered")
    /\ term' = term + 1
    /\ UNCHANGED <<mutex, cond, suspension, local, init1, init2, kprocs, isterm,
                   program, spurious>>

\* kaapi_processor_allocate returned 0: the thread ends without a kprocessor.
BirthFails(w) ==
    /\ Goto(w, "born", "dead")
    /\ init1' = init1 - 1
    /\ UNCHANGED <<mutex, cond, suspension, local, init2, term, kprocs, isterm,
                   program, spurious>>

EndInit(w) ==
    /\ Goto(w, "registered", "init2")
    /\ init1' = init1 - 1
    /\ UNCHANGED <<mutex, cond, suspension, local, init2, term, kprocs, isterm,
                   program, spurious>>

WaitInit2(w) ==
    /\ init2 = 0
    /\ Goto(w, "init2", "idle")
    /\ UNCHANGED <<mutex, cond, suspension, local, barriers, program, spurious>>

\* The turn of kaapi_sched_idle: the flag, then the end of the program.
TestFlag(w) ==
    /\ Goto(w, "idle", IF flag # 0 THEN "lock" ELSE "testterm")
    /\ UNCHANGED <<mutex, cond, suspension, local, barriers, program, spurious>>

TestTerm(w) ==
    /\ Goto(w, "testterm", IF isterm THEN "bye" ELSE "idle")
    /\ UNCHANGED <<mutex, cond, suspension, local, barriers, program, spurious>>

\* The last thing a thread does with its kprocessor is behind it.
Bye(w) ==
    /\ Goto(w, "bye", "dead")
    /\ term' = term - 1
    /\ UNCHANGED <<mutex, cond, suspension, local, init1, init2, kprocs, isterm,
                   program, spurious>>

-------------------------------------------------------------------------------
(* kaapi_begin_parallel, kaapi_end_parallel and kaapi_mt_finalize.         *)

BeginParallel ==
    /\ regions < MaxRegions
    /\ Goto(Main, "run", IF depth = 0 THEN "lock" ELSE "run")
    /\ depth' = depth + 1
    /\ after' = "run"
    /\ regions' = regions + 1
    /\ UNCHANGED <<mutex, cond, suspension, local, barriers, booted, spurious>>

EndParallel ==
    /\ depth > 0
    /\ Goto(Main, "run", IF depth = 1 THEN "postround" ELSE "run")
    /\ depth' = depth - 1
    /\ after' = "run"
    /\ UNCHANGED <<mutex, cond, suspension, local, barriers, regions, booted, spurious>>

Finalize ==
    /\ depth = 0
    /\ Goto(Main, "run", IF flag # 0 THEN "lock" ELSE "setterm")
    /\ after' = "setterm"
    /\ UNCHANGED <<mutex, cond, suspension, local, barriers, depth, regions, booted,
                   spurious>>

SetTerm ==
    /\ Goto(Main, "setterm", "termdec")
    /\ isterm' = TRUE
    /\ UNCHANGED <<mutex, cond, suspension, local, init1, init2, term, kprocs,
                   program, spurious>>

TermDec ==
    /\ Goto(Main, "termdec", "termwait")
    /\ term' = term - 1
    /\ UNCHANGED <<mutex, cond, suspension, local, init1, init2, kprocs, isterm,
                   program, spurious>>

\* Broken on purpose: one thread may not have left.
Free_OneLeft ==
    /\ term <= 1
    /\ Goto(Main, "termwait", "freed")
    /\ UNCHANGED <<mutex, cond, suspension, local, barriers, program, spurious>>

\* All have left; the kprocessors are freed.
Free ==
    /\ term = 0
    /\ Goto(Main, "termwait", "freed")
    /\ UNCHANGED <<mutex, cond, suspension, local, barriers, program, spurious>>

-------------------------------------------------------------------------------
Mutex(t) ==
    \/ LockSpin(t) \/ LockGiveUp(t) \/ LockXchg(t) \/ LockSleep(t)
    \/ UnlockFast(t) \/ UnlockContended(t) \/ UnlockSlow(t) \/ UnlockTaken(t)
    \/ UnlockGiveUp(t) \/ UnlockClear(t) \/ UnlockWake(t)

Suspend(w) == SuspendSelf(w) \/ CondSleep(w) \/ Awake(w)

Live(w) ==
    \/ Register(w) \/ BirthFails(w) \/ EndInit(w) \/ WaitInit2(w)
    \/ TestFlag(w) \/ TestTerm(w) \/ Bye(w)

\* A call the main thread is in; the calls of the program are in Program.
Call ==
    \/ CreateWorker \/ CreateFails \/ AllCreated \/ WaitInit
    \/ PostRound \/ PostFlag \/ WaitFlag \/ WaitSpin
    \/ ResumeFlag \/ Broadcast \/ WakeAll
    \/ SetTerm \/ TermDec \/ Free

Program == BeginParallel \/ EndParallel \/ Finalize

Interrupted == (\E t \in Thread : LockInterrupted(t)) \/ (\E w \in Worker : CondInterrupted(w))

Next ==
    \/ \E t \in Thread : Mutex(t)
    \/ \E w \in Worker : Suspend(w) \/ Live(w)
    \/ Call \/ Program \/ Interrupted

Spec == Init /\ [][Next]_vars

\* Threads are preempted but not stopped; the program need not call anything,
\* and the kernel need not interrupt a sleep.
FairSpec ==
    /\ Spec
    /\ WF_vars(Call) /\ WF_vars(Mutex(Main))
    /\ \A w \in Worker : WF_vars(Mutex(w)) /\ WF_vars(Suspend(w)) /\ WF_vars(Live(w))

-------------------------------------------------------------------------------
(* Properties.                                                             *)

TypeOK ==
    /\ pc \in [Thread -> MainLocation \cup WorkerLocation \cup MutexLocation]
    /\ locked \in {0, 1} /\ contended \in {0, 1}
    /\ seq \in Nat /\ used \in BOOLEAN
    /\ flag \in {0, 1, 2} /\ round \in Nat /\ count \in Nat
    /\ myround \in [Worker -> Nat]
    /\ myseq \in [Worker -> Nat \cup {NoSeq}]
    /\ init1 \in Int /\ init2 \in {0, 1} /\ term \in Int /\ kprocs \in Int
    /\ isterm \in BOOLEAN
    /\ depth \in Nat /\ after \in {"waitflag", "run", "setterm"}
    /\ regions \in Nat /\ booted \in BOOLEAN /\ spurious \in Nat

\* Between the success of kproc_mutex_lock and the store that frees the mutex.
Holds(t) == pc[t] \in {"critical", "bcast", "wakeall", "ufast", "uslow"}

\* One thread at most is inside, with spinning, sleeping and late wake-ups of
\* kproc_mutex_lock and kproc_mutex_unlock, and the store of the contended byte
\* that may come after another thread has taken the lock.
MutexIsExclusive == \A t, u \in Thread : Holds(t) /\ Holds(u) => t = u

\* A thread sleeps for a round: from its count under the mutex to its wake-up.
Sleeps(w) == myseq[w] # NoSeq

\* A thread that sleeps with an older sequence number is one that the broadcast
\* of kaapi_mt_resume_threads is about to wake: no wake-up comes before a sleep.
NoLostWakeUp ==
    \A w \in Worker : Asleep(w) /\ myseq[w] # seq => pc[Main] = "wakeall"

\* While the kernel has ended no sleep by itself, kaapi_suspendedthreads is the
\* number of threads that sleep for the last round, also when some still come out
\* of the round before; so kaapi_setconcurrency returns when all others sleep.
CountIsExact ==
    spurious = 0 /\ flag # 0 =>
        /\ count = Cardinality({w \in Worker : Sleeps(w) /\ myround[w] = round})
        /\ pc[Main] \in {"run", "lock"} /\ flag = 2 =>
              \A w \in Worker : Sleeps(w) \/ pc[w] = "dead"

\* kaapi_mt_finalize frees the kprocessors when no thread uses its own any more.
FreedIsUnused == pc[Main] = "freed" => \A w \in Worker : pc[w] = "dead"

SleepOf(w) == IF Sleeps(w) THEN myround[w] ELSE 0

Abstract == INSTANCE Rounds WITH
    posted <- flag # 0, sleeps <- [w \in Worker |-> SleepOf(w)]

\* A thread is suspended for a posted round and wakes only when it was resumed.
ImplementsRounds == Abstract!Spec

\* Nothing the main thread waits for is missed: kaapi_setconcurrency returns,
\* unless a thread cannot be created or a sleep ends for no reason;
\* kaapi_mt_finalize ends with all threads gone; and a posted suspension puts
\* every thread to sleep, or is resumed before.
WaitsEnd ==
    /\ [](spurious = 0) => <>(booted \/ pc[Main] = "aborted")
    /\ pc[Main] = "setterm" ~> pc[Main] = "freed"
    /\ booted /\ flag # 0 ~>
        \/ flag = 0
        \/ \A w \in Worker : pc[w] \in {"csleep", "dead"}
===============================================================================
