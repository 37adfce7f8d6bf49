------------------------------- MODULE TaskSteal -------------------------------
(***************************************************************************)
(* The state word of a task and the protocol three parties run on it: the  *)
(* owner of the stack that executes a frame in order                       *)
(* (kaapi_stack_execframe, __kaapi_try_preempt, kaapi_sched_sync_), the    *)
(* thief that holds the lock of the stack and takes a task out of it       *)
(* (kaapi_sched_stealstack down to kaapi_sched_steal_task), and the same   *)
(* thief, later and without that lock, running the task and bringing its   *)
(* results back (kaapi_tasksteal_body, kaapi_taskwrite_body).              *)
(*                                                                         *)
(* One frame of NTask tasks, numbered in the order of their creation (the  *)
(* C stack grows down; here pc grows).  When the frame is empty its owner  *)
(* pops it and the slots are used again for new tasks, MaxRound times.     *)
(* Readiness (kaapi_task_computeready) is a free choice here; module       *)
(* Dataflow models it.  The frames above and below are in FrameStack.      *)
(***************************************************************************)
EXTENDS Naturals, FiniteSets

CONSTANTS NTask,    \* tasks in the frame
          Thief,    \* the other processors
          MaxRound, \* bound: how many times the frame is filled
          None,     \* the null pointer
          Owner     \* the processor the stack belongs to

ASSUME ConstantsAssumption ==
    /\ NTask \in Nat \ {0}
    /\ MaxRound \in Nat \ {0}
    /\ None \notin Thief
    /\ Owner \notin Thief
    /\ Owner # None

Task == 1..NTask

Bit == {"EXEC", "STEAL", "TERM", "MERGE", "SIGNALED", "LOCKED"}

\* KAAPI_TASK_EXECUTION_STATE: what kaapi_task_markexec returns.
ExecutionState == {"EXEC", "STEAL", "TERM", "MERGE"}

VARIABLES
    state,      \* the bits of u.s.state of each task of the frame
    reserved,   \* task->reserved: whose request frame holds the thief task
    fpc,        \* frame->pc as thieves read it
    pc,         \* the owner's cached pc
    opc,        \* where the owner is
    lock,       \* who holds stack.lock
    sync,       \* lock._sync: the owner waits in kaapi_atomic_waitlock
    tpc,        \* where each thief is
    cur,        \* task_top of the thief's scan
    stolen,     \* origin_task of the thief task in the request frame (0: none)
    needMerge,  \* whether war_param or cw_param is set in the thief task
    tstate,     \* the state bits of the thief task in the request frame
    by,         \* ghost: who claimed the task
    runs,       \* ghost: how many times the body of the task ran
    versions,   \* ghost: renamed results of the task not yet in its data
    round,      \* ghost: which generation of tasks occupies the slots
    seen        \* ghost: the generation a thief's scan started in

frameVars == <<state, reserved, fpc>>
ownerVars == <<pc, opc>>
lockVars  == <<lock, sync>>
thiefVars == <<tpc, cur, stolen, needMerge, tstate, seen>>
ghostVars == <<by, runs, versions, round>>
vars == <<frameVars, ownerVars, lockVars, thiefVars, ghostVars>>

OwnerPc == {"fetch", "body", "merge", "advance", "try", "check", "waitres",
            "signal", "redo", "block", "leave", "suspended", "pop",
            "waitlock", "push", "done"}
ThiefPc == {"idle", "scan", "mark", "init", "publish", "reply", "run", "body",
            "wlock", "wmark", "wunlock"}

Init ==
    /\ state = [t \in Task |-> {}]
    /\ reserved = [t \in Task |-> None]
    /\ fpc = 1
    /\ pc = 1
    /\ opc = "fetch"
    /\ lock = None
    /\ sync = FALSE
    /\ tpc = [th \in Thief |-> "idle"]
    /\ cur = [th \in Thief |-> 1]
    /\ stolen = [th \in Thief |-> 0]
    /\ needMerge = [th \in Thief |-> FALSE]
    /\ tstate = [th \in Thief |-> {}]
    /\ seen = [th \in Thief |-> 1]
    /\ by = [t \in Task |-> None]
    /\ runs = [t \in Task |-> 0]
    /\ versions = [t \in Task |-> 0]
    /\ round = 1

-------------------------------------------------------------------------------
(* The atomic operations on the state word (kaapi_task.h).                 *)

SetBit(t, b) == state' = [state EXCEPT ![t] = @ \cup {b}]
ClearBit(t, b) == state' = [state EXCEPT ![t] = @ \ {b}]

\* Broken on purpose: the mask of the execution state misses STEAL.
OldExecution_NoSteal(t) == state[t] \cap {"EXEC", "TERM", "MERGE"}

\* What kaapi_task_markexec returns.
OldExecution(t) == state[t] \cap ExecutionState

\* Broken on purpose: only EXEC keeps a thief away.
IsStealable_NotExec(t) == "EXEC" \notin state[t]

\* kaapi_task_isstealable: the whole word is INIT.
IsStealable(t) == state[t] = {}

\* Broken on purpose: a task that waits for its merge is not ready.
IsReady_NoMerge(t) == OldExecution(t) = {} \/ "TERM" \in state[t]

\* kaapi_task_isready: the condition a suspended owner waits for.
IsReady(t) ==
    \/ OldExecution(t) = {}
    \/ state[t] \cap {"TERM", "MERGE"} # {}

-------------------------------------------------------------------------------
(* The owner: the loop of kaapi_stack_execframe.                           *)

OwnerAt(from, to) == opc = from /\ opc' = to

\* markexec found the task untouched: its body will run here.
MarkExecWins ==
    /\ OwnerAt("fetch", "body")
    /\ pc \in Task
    /\ OldExecution(pc) = {}
    /\ SetBit(pc, "EXEC")
    /\ by' = [by EXCEPT ![pc] = Owner]
    /\ UNCHANGED <<reserved, fpc, pc, lockVars, thiefVars, runs, versions, round>>

\* Broken on purpose: a stolen task is over even if it has to be merged.
FallsThrough_NoMerge(t) ==
    state[t] \cap {"TERM", "MERGE"} # {} \/ OldExecution(t) = {"EXEC"}

\* No branch of the test applies: the task is over, or only EXEC was set.
FallsThrough(t) == "TERM" \in state[t] \/ OldExecution(t) = {"EXEC"}

\* markexec lost: TERM is tested before MERGE, MERGE before STEAL.
MarkExecLoses ==
    /\ opc = "fetch"
    /\ pc \in Task
    /\ \/ FallsThrough(pc) /\ opc' = "advance"
       \/ /\ "TERM" \notin state[pc]
          /\ "MERGE" \in state[pc]
          /\ opc' = "merge"
       \/ /\ state[pc] \cap {"TERM", "MERGE", "STEAL"} = {"STEAL"}
          /\ opc' = "try"
    /\ SetBit(pc, "EXEC")
    /\ UNCHANGED <<reserved, fpc, pc, lockVars, thiefVars, ghostVars>>

RunInPlace ==
    /\ OwnerAt("body", "advance")
    /\ runs' = [runs EXCEPT ![pc] = @ + 1]
    /\ UNCHANGED <<frameVars, pc, lockVars, thiefVars, by, versions, round>>

\* kaapi_aftersteal_body: the versions the thief produced go into the data.
AfterSteal ==
    /\ OwnerAt("merge", "advance")
    /\ versions' = [versions EXCEPT ![pc] = @ - 1]
    /\ UNCHANGED <<frameVars, pc, lockVars, thiefVars, by, runs, round>>

\* fp[-1].pc = pc, then the loop goes to the next task: the pc that thieves
\* read lags one task behind.
Advance ==
    /\ OwnerAt("advance", "fetch")
    /\ fpc' = pc
    /\ pc' = pc + 1
    /\ UNCHANGED <<state, reserved, lockVars, thiefVars, ghostVars>>

-------------------------------------------------------------------------------
(* __kaapi_try_preempt.                                                    *)

TryLock ==
    /\ OwnerAt("try", "waitres")
    /\ "LOCKED" \notin state[pc]
    /\ SetBit(pc, "LOCKED")
    /\ UNCHANGED <<reserved, fpc, pc, lockVars, thiefVars, ghostVars>>

TryLockFails ==
    /\ OwnerAt("try", "check")
    /\ "LOCKED" \in state[pc]
    /\ UNCHANGED <<frameVars, pc, lockVars, thiefVars, ghostVars>>

CheckState ==
    /\ opc = "check"
    /\ \/ "TERM" \in state[pc] /\ opc' = "advance"
       \/ /\ "TERM" \notin state[pc]
          /\ "MERGE" \in state[pc]
          /\ opc' = "merge"
       \/ state[pc] \cap {"TERM", "MERGE"} = {} /\ opc' = "try"
    /\ UNCHANGED <<frameVars, pc, lockVars, thiefVars, ghostVars>>

WaitReserved ==
    /\ OwnerAt("waitres", "signal")
    /\ reserved[pc] # None
    /\ UNCHANGED <<frameVars, pc, lockVars, thiefVars, ghostVars>>

\* The SIGNALED bit goes into the thief task; the word it had decides between
\* EINTR (exactly EXEC) and EWOULDBLOCK.
Signal ==
    LET slot == reserved[pc] IN
    /\ opc = "signal"
    /\ \/ tstate[slot] = {"EXEC"} /\ opc' = "redo"
       \/ tstate[slot] # {"EXEC"} /\ opc' = "block"
    /\ tstate' = [tstate EXCEPT ![slot] = @ \cup {"SIGNALED"}]
    /\ UNCHANGED <<frameVars, pc, lockVars, tpc, cur, stolen, needMerge, seen,
                   ghostVars>>

\* EINTR: the owner marks the task again.
UnlockRedo ==
    /\ OwnerAt("redo", "fetch")
    /\ ClearBit(pc, "LOCKED")
    /\ UNCHANGED <<reserved, fpc, pc, lockVars, thiefVars, ghostVars>>

UnlockBlock ==
    /\ OwnerAt("block", "leave")
    /\ ClearBit(pc, "LOCKED")
    /\ UNCHANGED <<reserved, fpc, pc, lockVars, thiefVars, ghostVars>>

\* EWOULDBLOCK: fp[-1].pc = pc and kaapi_sched_sync_ suspends the thread.
Leave ==
    /\ OwnerAt("leave", "suspended")
    /\ fpc' = pc
    /\ UNCHANGED <<state, reserved, pc, lockVars, thiefVars, ghostVars>>

\* _kaapi_condition_task_isready holds: the frame is executed again.
Resume ==
    /\ OwnerAt("suspended", "fetch")
    /\ IsReady(pc)
    /\ UNCHANGED <<frameVars, pc, lockVars, thiefVars, ghostVars>>

-------------------------------------------------------------------------------
(* The frame is empty: it is popped and its slots hold new tasks.          *)

\* fp->pc = pc, fp->sp = fp->pc.
EndOfFrame ==
    /\ pc = NTask + 1
    /\ OwnerAt("fetch", "pop")
    /\ fpc' = pc
    /\ UNCHANGED <<state, reserved, pc, lockVars, thiefVars, ghostVars>>

\* Broken on purpose: the owner does not wait for the thief in its frame.
PopFrame_NoWait ==
    /\ OwnerAt("pop", "push")
    /\ UNCHANGED <<frameVars, pc, lockVars, thiefVars, ghostVars>>

\* fp <= stack->thieffp: a thief is inside the frame.
PopFrame ==
    /\ \/ lock = None /\ OwnerAt("pop", "push") /\ UNCHANGED sync
       \/ lock # None /\ OwnerAt("pop", "waitlock") /\ sync' = TRUE
    /\ UNCHANGED <<frameVars, pc, lock, thiefVars, ghostVars>>

WaitLock ==
    /\ ~sync \/ lock = None
    /\ OwnerAt("waitlock", "push")
    /\ UNCHANGED <<frameVars, pc, lockVars, thiefVars, ghostVars>>

\* kaapi_task_init of NTask new tasks in the slots of the frame.
PushTasks ==
    /\ round < MaxRound
    /\ OwnerAt("push", "fetch")
    /\ state' = [t \in Task |-> {}]
    /\ reserved' = [t \in Task |-> None]
    /\ fpc' = 1
    /\ pc' = 1
    /\ by' = [t \in Task |-> None]
    /\ runs' = [t \in Task |-> 0]
    /\ versions' = [t \in Task |-> 0]
    /\ round' = round + 1
    /\ UNCHANGED <<lockVars, thiefVars>>

Stop ==
    /\ round = MaxRound
    /\ OwnerAt("push", "done")
    /\ UNCHANGED <<frameVars, pc, lockVars, thiefVars, ghostVars>>

-------------------------------------------------------------------------------
(* A thief inside the victim's stack, under stack.lock.                    *)

ThiefAt(th, from, to) == tpc[th] = from /\ tpc' = [tpc EXCEPT ![th] = to]

LockStack(th) ==
    /\ lock = None
    /\ ThiefAt(th, "idle", "scan")
    /\ lock' = th
    /\ cur' = [cur EXCEPT ![th] = fpc]
    /\ seen' = [seen EXCEPT ![th] = round]
    /\ UNCHANGED <<frameVars, ownerVars, sync, stolen, needMerge, tstate,
                   ghostVars>>

\* EACCES (not ready), EPERM (not stealable) or a body without format.
SkipTask(th) ==
    /\ cur[th] \in Task
    /\ ThiefAt(th, "scan", "scan")
    /\ cur' = [cur EXCEPT ![th] = @ + 1]
    /\ UNCHANGED <<frameVars, ownerVars, lockVars, stolen, needMerge, tstate,
                   seen, ghostVars>>

TestStealable(th) ==
    /\ cur[th] \in Task
    /\ IsStealable(cur[th])
    /\ ThiefAt(th, "scan", "mark")
    /\ UNCHANGED <<frameVars, ownerVars, lockVars, cur, stolen, needMerge,
                   tstate, seen, ghostVars>>

\* kaapi_task_marksteal looks at EXEC only.
MarkSteal(th) ==
    LET t == cur[th] IN
    /\ ThiefAt(th, "mark", "init")
    /\ "EXEC" \notin state[t]
    /\ SetBit(t, "STEAL")
    /\ by' = [by EXCEPT ![t] = th]
    /\ stolen' = [stolen EXCEPT ![th] = t]
    /\ \E m \in BOOLEAN :
        /\ needMerge' = [needMerge EXCEPT ![th] = m]
        /\ versions' = [versions EXCEPT ![t] = IF m THEN 1 ELSE 0]
    /\ UNCHANGED <<reserved, fpc, ownerVars, lockVars, cur, tstate, seen,
                   runs, round>>

\* EBUSY: the owner was faster; STEAL stays in the word.
MarkStealFails(th) ==
    LET t == cur[th] IN
    /\ ThiefAt(th, "mark", "scan")
    /\ "EXEC" \in state[t]
    /\ SetBit(t, "STEAL")
    /\ cur' = [cur EXCEPT ![th] = @ + 1]
    /\ UNCHANGED <<reserved, fpc, ownerVars, lockVars, stolen, needMerge,
                   tstate, seen, ghostVars>>

\* kaapi_task_init of the thief task in the request frame.
InitThiefTask(th) ==
    /\ ThiefAt(th, "init", "publish")
    /\ tstate' = [tstate EXCEPT ![th] = {}]
    /\ UNCHANGED <<frameVars, ownerVars, lockVars, cur, stolen, needMerge,
                   seen, ghostVars>>

PublishReserved(th) ==
    /\ ThiefAt(th, "publish", "reply")
    /\ reserved' = [reserved EXCEPT ![stolen[th]] = th]
    /\ UNCHANGED <<state, fpc, ownerVars, lockVars, cur, stolen, needMerge,
                   tstate, seen, ghostVars>>

\* kaapi_atomic_unlock also clears _sync.
UnlockStack == lock' = None /\ sync' = FALSE

ReplyOk(th) ==
    /\ ThiefAt(th, "reply", "run")
    /\ UnlockStack
    /\ UNCHANGED <<frameVars, ownerVars, cur, stolen, needMerge, tstate, seen,
                   ghostVars>>

NothingStolen(th) ==
    /\ cur[th] \notin Task
    /\ ThiefAt(th, "scan", "idle")
    /\ UnlockStack
    /\ UNCHANGED <<frameVars, ownerVars, cur, stolen, needMerge, tstate, seen,
                   ghostVars>>

-------------------------------------------------------------------------------
(* The thief running what it has stolen.                                   *)

\* markexec of the thief task by the thief's own kaapi_stack_execframe: the
\* SIGNALED bit is masked out of what it returns.
ThiefMarkExec(th) ==
    /\ ThiefAt(th, "run", "body")
    /\ tstate' = [tstate EXCEPT ![th] = @ \cup {"EXEC"}]
    /\ UNCHANGED <<frameVars, ownerVars, lockVars, cur, stolen, needMerge,
                   seen, ghostVars>>

ThiefRun(th) ==
    /\ ThiefAt(th, "body", "wlock")
    /\ runs' = [runs EXCEPT ![stolen[th]] = @ + 1]
    /\ UNCHANGED <<frameVars, ownerVars, lockVars, cur, stolen, needMerge,
                   tstate, seen, by, versions, round>>

WriteLock(th) ==
    /\ ThiefAt(th, "wlock", "wmark")
    /\ "LOCKED" \notin state[stolen[th]]
    /\ SetBit(stolen[th], "LOCKED")
    /\ UNCHANGED <<reserved, fpc, ownerVars, lockVars, cur, stolen, needMerge,
                   tstate, seen, ghostVars>>

\* Broken on purpose: the end of a stolen task is TERM whatever was renamed.
WriteMark_ForgetsMerge(th) ==
    /\ ThiefAt(th, "wmark", "wunlock")
    /\ SetBit(stolen[th], "TERM")
    /\ UNCHANGED <<reserved, fpc, ownerVars, lockVars, cur, stolen, needMerge,
                   tstate, seen, ghostVars>>

WriteMark(th) ==
    /\ ThiefAt(th, "wmark", "wunlock")
    /\ SetBit(stolen[th], IF needMerge[th] THEN "MERGE" ELSE "TERM")
    /\ UNCHANGED <<reserved, fpc, ownerVars, lockVars, cur, stolen, needMerge,
                   tstate, seen, ghostVars>>

WriteUnlock(th) ==
    /\ ThiefAt(th, "wunlock", "idle")
    /\ ClearBit(stolen[th], "LOCKED")
    /\ UNCHANGED <<reserved, fpc, ownerVars, lockVars, cur, stolen, needMerge,
                   tstate, seen, ghostVars>>

-------------------------------------------------------------------------------
OwnerStep ==
    \/ MarkExecWins \/ MarkExecLoses \/ RunInPlace \/ AfterSteal \/ Advance
    \/ TryLock \/ TryLockFails \/ CheckState \/ WaitReserved \/ Signal
    \/ UnlockRedo \/ UnlockBlock \/ Leave \/ Resume
    \/ EndOfFrame \/ PopFrame \/ WaitLock \/ PushTasks \/ Stop

\* Everything a thief does once it is in the stack; it may also never come.
ThiefStep(th) ==
    \/ SkipTask(th) \/ TestStealable(th) \/ MarkSteal(th) \/ MarkStealFails(th)
    \/ InitThiefTask(th) \/ PublishReserved(th) \/ ReplyOk(th)
    \/ NothingStolen(th) \/ ThiefMarkExec(th) \/ ThiefRun(th)
    \/ WriteLock(th) \/ WriteMark(th) \/ WriteUnlock(th)

Next == OwnerStep \/ \E th \in Thief : LockStack(th) \/ ThiefStep(th)

Spec == Init /\ [][Next]_vars

\* A kernel thread that can run does run; nothing forces a thief to pick this
\* victim.
FairSpec ==
    /\ Spec
    /\ WF_vars(OwnerStep)
    /\ \A th \in Thief : WF_vars(ThiefStep(th))

-------------------------------------------------------------------------------
(* Properties.                                                             *)

\* Shapes of the variables; the bits of a word are those of kaapi_task.h.
TypeOK ==
    /\ state \in [Task -> SUBSET Bit]
    /\ reserved \in [Task -> Thief \cup {None}]
    /\ fpc \in 1..(NTask + 1)
    /\ pc \in 1..(NTask + 1)
    /\ opc \in OwnerPc
    /\ lock \in Thief \cup {None}
    /\ sync \in BOOLEAN
    /\ tpc \in [Thief -> ThiefPc]
    /\ cur \in [Thief -> 1..(NTask + 1)]
    /\ stolen \in [Thief -> 0..NTask]
    /\ needMerge \in [Thief -> BOOLEAN]
    /\ tstate \in [Thief -> SUBSET Bit]
    /\ by \in [Task -> Thief \cup {Owner, None}]
    /\ runs \in [Task -> Nat]
    /\ versions \in [Task -> {0, 1}]
    /\ round \in 1..MaxRound
    /\ seen \in [Thief -> 1..MaxRound]

\* The owner's execution of a body and the thieves' exclude each other, so the
\* body of a task never runs twice (kaapi_task_markexec, kaapi_task_marksteal).
BodyAtMostOnce == \A t \in Task : runs[t] <= 1

\* The owner goes past a task only when its body has run, here or at a thief,
\* and when the versions of a thief that renamed its parameters have been
\* merged exactly once (kaapi_stack_execframe, kaapi_aftersteal_body).
PassedTaskIsComplete ==
    \A t \in Task : t < pc =>
        /\ runs[t] = 1
        /\ versions[t] = 0

\* Two thief tasks never stand for the same task, and none for a task the owner
\* has claimed: marksteal does not look at STEAL, only the scan under
\* stack.lock and the test of isstealable keep a second thief out.
ThiefTaskIsExclusive ==
    \A th \in Thief :
        tpc[th] \in {"init", "publish", "reply", "run", "body", "wlock", "wmark"}
            => by[stolen[th]] = th

\* A thief that has tested a task marks that task and not the one which took
\* its slot after a pop: the owner waits for the lock of the stack before it
\* lets a slot be reused (kaapi_atomic_waitlock at the end of execframe).
NoStaleClaim ==
    [][\A t \in Task : by'[t] # by[t] /\ by'[t] \in Thief
            => seen[by'[t]] = round]_vars

\* The owner, while it suspends on a task, and the thief that finishes the task
\* agree in the end: every frame the owner fills is emptied.
FrameIsEmptied == <>(opc = "done")

\* TaskOnce is what the caller sees.
Status(t) ==
    IF by[t] = None THEN "pending"
    ELSE IF runs[t] = 0 THEN "claimed"
    ELSE IF \/ by[t] = Owner
            \/ state[t] \cap {"TERM", "MERGE"} # {} /\ versions[t] = 0
         THEN "complete"
    ELSE "ran"

Once == INSTANCE TaskOnce WITH status <- [t \in Task |-> Status(t)],
                               front <- pc

\* The steals, renamings and preemptions of TaskSteal are invisible: what is
\* seen of the frame is a behaviour of TaskOnce.
ImplementsTaskOnce == Once!Spec

\* What kaapi_taskwrite_body says of the lock of the task: preemption and end
\* of a task exclude each other.
Holder(p) ==
    IF p = Owner THEN IF opc \in {"waitres", "signal", "redo", "block"} THEN pc ELSE 0
    ELSE IF tpc[p] = "wmark" THEN stolen[p] ELSE 0
StateLockIsExclusive ==
    \A p, q \in Thief \cup {Owner} : p # q /\ Holder(p) # 0 => Holder(p) # Holder(q)
===============================================================================
