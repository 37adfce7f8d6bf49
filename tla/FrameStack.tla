------------------------------ MODULE FrameStack ------------------------------
(***************************************************************************)
(* The stack of frames of a thread: its owner executes it with             *)
(* kaapi_stack_execframe (a frame per task that creates tasks) and pops    *)
(* frames without a lock, while thieves walk it from the bottom            *)
(* (kaapi_sched_stealstack, kaapi_sched_stealframe) under stack.lock.  The *)
(* two meet through sfp and thieffp only: a thief writes thieffp then      *)
(* reads the frame, the owner writes sfp then reads thieffp and waits for  *)
(* the lock when the thief may be in what it pops.                         *)
(*                                                                         *)
(* Positions in the stack of tasks are numbered from 1 in the order of     *)
(* creation (the C stack grows down).  A task is the number of its         *)
(* creation.  A machine delays no store (sequential consistency) or up to  *)
(* BufferSize of each processor, which the compiler-only                   *)
(* kaapi_writemem_barrier of kaapi_atomic.h leaves possible on x86.        *)
(* Stealing itself is in TaskSteal; here a task the owner finds stolen is  *)
(* one on which execframe may return EWOULDBLOCK.                          *)
(***************************************************************************)
EXTENDS Integers, Sequences, FiniteSets

CONSTANTS Thief,      \* the other processors
          MaxFrame,   \* bound: frames are 0..MaxFrame (KAAPI_MAX_RECCALL)
          NSlot,      \* bound: positions in the stack of tasks
          MaxTask,    \* bound: tasks created in a run
          BufferSize, \* bound: stores a processor may delay
          None        \* no processor

ASSUME ConstantsAssumption ==
    /\ MaxFrame \in Nat \ {0}
    /\ NSlot \in Nat \ {0}
    /\ MaxTask \in Nat \ {0}
    /\ BufferSize \in Nat
    /\ None \notin Thief

Frame == 0..MaxFrame
Slot == 1..NSlot
NoFrame == -1   \* thieffp = 0

VARIABLES
    versions,  \* what the owner has stored: thieves see the first, it sees the last
    opc,       \* where the owner is
    fp,        \* the owner's cached frame pointer
    pc, sp,    \* the owner's cached pc and sp
    lock,      \* holder of stack.lock
    sync,      \* lock._sync
    thieffp,   \* stack.thieffp as thieves have stored it: the owner sees the first
    tpc,       \* where each thief is
    top,       \* top_frame of each thief
    ttop, tsp, \* task_top and task_sp of each thief
    created,   \* ghost: number of tasks created
    delay,     \* stores a processor of this machine may delay
    finished,  \* ghost: tasks that are over, the tasks they created included
    seen       \* ghost: the tasks a thief found in the frame when it read it

ownerVars == <<opc, fp, pc, sp>>
thiefVars == <<thieffp, tpc, top, ttop, tsp, seen>>
lockVars == <<lock, sync, delay>> \* with what never changes
ghostVars == <<created, finished>>
vars == <<versions, ownerVars, thiefVars, lockVars, ghostVars>>

\* The stores of the owner, in memory and in its own eyes.
Mem == Head(versions)
Own == versions[Len(versions)]

\* What the owner sees of thieffp.
SeenThieffp == Head(thieffp)

OwnerPc == {"root", "pushed", "pushpc", "pushsp", "pushsfp", "loop", "body",
            "child", "after", "block", "leave", "suspended", "end", "pop",
            "empty", "setsfp", "check", "waitlock", "resetsp", "resetpc", "stop"}

Init ==
    /\ versions = <<[sfp |-> 0,
                     pc |-> [f \in Frame |-> 1],
                     sp |-> [f \in Frame |-> 1],
                     slot |-> [s \in Slot |-> 0]]>>
    /\ opc = "root"
    /\ fp = 0
    /\ pc = 1
    /\ sp = 1
    /\ lock = None
    /\ sync = FALSE
    /\ delay \in {0, BufferSize}
    /\ thieffp = <<NoFrame>>
    /\ tpc = [th \in Thief |-> "idle"]
    /\ top = [th \in Thief |-> 0]
    /\ ttop = [th \in Thief |-> 1]
    /\ tsp = [th \in Thief |-> 1]
    /\ seen = [th \in Thief |-> <<>>]
    /\ created = 0
    /\ finished = {}

-------------------------------------------------------------------------------
(* Stores.  A buffer is a queue of the values memory goes through: only    *)
(* the owner writes the stack, only the holder of the lock writes thieffp. *)

Store(buffer, v) ==
    IF delay = 0 THEN <<v>> ELSE Append(buffer, v)

CanStore(buffer) == delay = 0 \/ Len(buffer) <= delay

OwnerStores(v) == CanStore(versions) /\ versions' = Store(versions, v)

Drained(buffer) == Len(buffer) = 1

\* Memory catches up with the oldest delayed store.
DrainOwner ==
    /\ ~Drained(versions)
    /\ versions' = Tail(versions)
    /\ UNCHANGED <<ownerVars, thiefVars, lockVars, ghostVars>>

DrainThief ==
    /\ ~Drained(thieffp)
    /\ thieffp' = Tail(thieffp)
    /\ UNCHANGED <<versions, ownerVars, tpc, top, ttop, tsp, seen, lockVars,
                   ghostVars>>

-------------------------------------------------------------------------------
(* The owner.                                                              *)

OwnerAt(from, to) == opc = from /\ opc' = to

\* A body (the main program is the body of the bottom frame) creates a task:
\* kaapi_task_init in the free slot, then kaapi_thread_pushtask.
InitTask ==
    LET s == Own.sp[fp] IN
    /\ \/ OwnerAt("root", "pushed")
       \/ OwnerAt("body", "child") /\ fp < MaxFrame
    /\ created < MaxTask
    /\ s \in Slot
    /\ OwnerStores([Own EXCEPT !.slot[s] = created + 1])
    /\ created' = created + 1
    /\ UNCHANGED <<fp, pc, sp, thiefVars, lockVars, finished>>

PushTask ==
    /\ OwnerAt("pushed", "root") \/ OwnerAt("child", "body")
    /\ OwnerStores([Own EXCEPT !.sp[fp] = @ + 1])
    /\ UNCHANGED <<fp, pc, sp, thiefVars, lockVars, ghostVars>>

\* The program waits for its tasks: kaapi_sched_sync_, which returns at once
\* when the frame is empty.
Sync ==
    /\ OwnerAt("root", "pushpc")
    /\ Own.pc[0] # Own.sp[0]
    /\ fp' = 0
    /\ UNCHANGED <<versions, pc, sp, thiefVars, lockVars, ghostVars>>

\* push_frame: the frame above is made empty before sfp covers it.
PushFramePc ==
    /\ OwnerAt("pushpc", "pushsp")
    /\ pc' = Own.pc[fp]
    /\ sp' = Own.sp[fp]
    /\ OwnerStores([Own EXCEPT !.pc[fp + 1] = Own.sp[fp]])
    /\ UNCHANGED <<fp, thiefVars, lockVars, ghostVars>>

\* Broken on purpose: the new frame starts at the task being executed.
PushFrameSp_FromPc ==
    /\ OwnerAt("pushsp", "pushsfp")
    /\ OwnerStores([Own EXCEPT !.sp[fp + 1] = pc])
    /\ UNCHANGED <<fp, pc, sp, thiefVars, lockVars, ghostVars>>

PushFrameSp ==
    /\ OwnerAt("pushsp", "pushsfp")
    /\ OwnerStores([Own EXCEPT !.sp[fp + 1] = sp])
    /\ UNCHANGED <<fp, pc, sp, thiefVars, lockVars, ghostVars>>

PushFrameSfp ==
    /\ OwnerAt("pushsfp", "loop")
    /\ OwnerStores([Own EXCEPT !.sfp = fp + 1])
    /\ fp' = fp + 1
    /\ UNCHANGED <<pc, sp, thiefVars, lockVars, ghostVars>>

\* kaapi_task_markexec is a locked instruction: it empties the store buffer.
MarkExec ==
    /\ pc # sp
    /\ Drained(versions)
    /\ \/ Own.slot[pc] \notin finished /\ OwnerAt("loop", "body")
       \/ Own.slot[pc] \in finished /\ OwnerAt("loop", "after")
       \/ Own.slot[pc] \notin finished /\ OwnerAt("loop", "block")
    /\ UNCHANGED <<versions, fp, pc, sp, thiefVars, lockVars, ghostVars>>

\* Broken on purpose: the frame is left at the task after the one that blocks.
Block_Next ==
    /\ OwnerAt("block", "leave")
    /\ OwnerStores([Own EXCEPT !.pc[fp - 1] = pc + 1])
    /\ UNCHANGED <<fp, pc, sp, thiefVars, lockVars, ghostVars>>

\* EWOULDBLOCK: fp[-1].pc = pc.
Block ==
    /\ OwnerAt("block", "leave")
    /\ OwnerStores([Own EXCEPT !.pc[fp - 1] = pc])
    /\ UNCHANGED <<fp, pc, sp, thiefVars, lockVars, ghostVars>>

\* stack->sfp = fp - 1, without a look at thieffp.
Leave ==
    /\ OwnerAt("leave", "suspended")
    /\ OwnerStores([Own EXCEPT !.sfp = fp - 1])
    /\ UNCHANGED <<fp, pc, sp, thiefVars, lockVars, ghostVars>>

\* The stolen task has terminated: execframe is called again.
Resume ==
    /\ OwnerAt("suspended", "pushpc")
    /\ fp' = Own.sfp
    /\ finished' = finished \cup {Own.slot[pc]}
    /\ UNCHANGED <<versions, pc, sp, thiefVars, lockVars, created>>

\* fp[-1].pc = pc; a task that created tasks gets a frame to execute them.
PublishPc ==
    /\ opc \in {"body", "after"}
    /\ OwnerStores([Own EXCEPT !.pc[fp - 1] = pc])
    /\ \/ /\ Own.sp[fp] > sp
          /\ opc' = "pushpc"
          /\ UNCHANGED <<pc, finished>>
       \/ /\ Own.sp[fp] = sp
          /\ opc' = "loop"
          /\ pc' = pc + 1
          /\ finished' = finished \cup {Own.slot[pc]}
    /\ UNCHANGED <<fp, sp, thiefVars, lockVars, created>>

\* --fp; fp->pc = pc.
EndOfFrame ==
    /\ OwnerAt("loop", "end")
    /\ pc = sp
    /\ OwnerStores([Own EXCEPT !.pc[fp - 1] = pc])
    /\ fp' = fp - 1
    /\ UNCHANGED <<pc, sp, thiefVars, lockVars, ghostVars>>

\* The bottom frame is left as it is when no frame was popped on the way.
EndOrPop ==
    /\ \/ fp > 0 /\ OwnerAt("end", "pop")
       \/ fp = 0 /\ OwnerAt("end", "setsfp")
    /\ UNCHANGED <<versions, fp, pc, sp, thiefVars, lockVars, ghostVars>>

\* --fp, then the task whose children are done leaves the frame; when it was
\* the last one its frame is popped as well.
PopFrame ==
    /\ opc = "pop"
    /\ fp' = fp - 1
    /\ OwnerStores([Own EXCEPT !.pc[fp - 1] = @ + 1])
    /\ \/ Own.pc[fp - 1] + 1 < Own.sp[fp - 1] /\ opc' = "setsfp"
       \/ /\ Own.pc[fp - 1] + 1 >= Own.sp[fp - 1]
          /\ opc' = IF fp - 1 > 0 THEN "pop" ELSE "empty"
    /\ finished' = finished \cup {Own.slot[Own.pc[fp - 1]]}
    /\ UNCHANGED <<pc, sp, thiefVars, lockVars, created>>

\* fp->sp = fp->pc.
EmptyFrame ==
    /\ OwnerAt("empty", "setsfp")
    /\ OwnerStores([Own EXCEPT !.sp[fp] = Own.pc[fp]])
    /\ UNCHANGED <<fp, pc, sp, thiefVars, lockVars, ghostVars>>

SetSfp ==
    /\ OwnerAt("setsfp", "check")
    /\ OwnerStores([Own EXCEPT !.sfp = fp])
    /\ UNCHANGED <<fp, pc, sp, thiefVars, lockVars, ghostVars>>

\* Broken on purpose: a thief in the frame the owner returns to is ignored.
MustWait_Strict(f) == f < SeenThieffp

\* fp <= stack->thieffp.  A thief that walks up has its thieffp at least at the
\* frame below the one it tests: it is, or is about to be, in what was popped.
MustWait(f) == f <= SeenThieffp

\* Where the owner goes once the frames above fp are its own again.
AfterPop == IF Own.pc[fp] < Own.sp[fp] THEN "pushpc" ELSE "resetsp"

CheckThief ==
    /\ opc = "check"
    /\ \/ ~MustWait(fp) /\ opc' = AfterPop /\ UNCHANGED sync
       \/ MustWait(fp) /\ opc' = "waitlock" /\ sync' = TRUE
    /\ UNCHANGED <<versions, fp, pc, sp, thiefVars, lock, delay, ghostVars>>

\* Broken on purpose: the lock is only watched, the mark of the waiter is not.
WaitLock_NoSync ==
    /\ opc = "waitlock"
    /\ opc' = AfterPop
    /\ Drained(versions)
    /\ lock = None
    /\ UNCHANGED <<versions, fp, pc, sp, thiefVars, lockVars, ghostVars>>

\* kaapi_atomic_waitlock: a fence, then the lock is free or was released once.
WaitLock ==
    /\ opc = "waitlock"
    /\ opc' = AfterPop
    /\ Drained(versions)
    /\ ~sync \/ lock = None
    /\ UNCHANGED <<versions, fp, pc, sp, thiefVars, lockVars, ghostVars>>

\* kaapi_sched_sync_ flushes the frame: pc = sp = savepc.
ResetSp ==
    /\ OwnerAt("resetsp", "resetpc")
    /\ OwnerStores([Own EXCEPT !.sp[0] = 1])
    /\ UNCHANGED <<fp, pc, sp, thiefVars, lockVars, ghostVars>>

ResetPc ==
    /\ opc = "resetpc"
    /\ opc' = IF created < MaxTask THEN "root" ELSE "stop"
    /\ OwnerStores([Own EXCEPT !.pc[0] = 1])
    /\ UNCHANGED <<fp, pc, sp, thiefVars, lockVars, ghostVars>>

-------------------------------------------------------------------------------
(* A thief: kaapi_sched_stealstack.                                        *)

ThiefAt(th, from, to) == tpc[th] = from /\ tpc' = [tpc EXCEPT ![th] = to]

\* kaapi_atomic_lock: a locked instruction.
LockStack(th) ==
    /\ lock = None
    /\ ThiefAt(th, "idle", "test")
    /\ lock' = th
    /\ top' = [top EXCEPT ![th] = 0]
    /\ UNCHANGED <<versions, ownerVars, thieffp, ttop, tsp, seen, sync, delay,
                   ghostVars>>

\* top_frame <= stack.sfp, the requests that wait being not yet served.
TestFrame(th) ==
    /\ top[th] <= Mem.sfp
    /\ ThiefAt(th, "test", "setfp")
    /\ UNCHANGED <<versions, ownerVars, thieffp, top, ttop, tsp, seen, lockVars,
                   ghostVars>>

SetThieffp(th) ==
    /\ ThiefAt(th, "setfp", "cmp")
    /\ CanStore(thieffp)
    /\ thieffp' = Store(thieffp, top[th])
    /\ UNCHANGED <<versions, ownerVars, top, ttop, tsp, seen, lockVars, ghostVars>>

NextFrame(th) == top' = [top EXCEPT ![th] = @ + 1]

\* top_frame->pc == top_frame->sp: nothing here.
CompareFrame(th) ==
    LET f == top[th] IN
    /\ \/ ThiefAt(th, "cmp", "readpc") /\ Mem.pc[f] # Mem.sp[f] /\ UNCHANGED top
       \/ ThiefAt(th, "cmp", "test") /\ Mem.pc[f] = Mem.sp[f] /\ NextFrame(th)
    /\ UNCHANGED <<versions, ownerVars, thieffp, ttop, tsp, seen, lockVars,
                   ghostVars>>

ReadPc(th) ==
    /\ ThiefAt(th, "readpc", "readsp")
    /\ ttop' = [ttop EXCEPT ![th] = Mem.pc[top[th]]]
    /\ UNCHANGED <<versions, ownerVars, thieffp, top, tsp, seen, lockVars,
                   ghostVars>>

ReadSp(th) ==
    /\ ThiefAt(th, "readsp", "scan")
    /\ tsp' = [tsp EXCEPT ![th] = Mem.sp[top[th]]]
    /\ seen' = [seen EXCEPT ![th] = Mem.slot]
    /\ UNCHANGED <<versions, ownerVars, thieffp, top, ttop, lockVars, ghostVars>>

\* One turn of the loop of kaapi_sched_stealframe.
ScanTask(th) ==
    /\ ThiefAt(th, "scan", "scan")
    /\ ttop[th] < tsp[th]
    /\ ttop' = [ttop EXCEPT ![th] = @ + 1]
    /\ UNCHANGED <<versions, ownerVars, thieffp, top, tsp, seen, lockVars,
                   ghostVars>>

\* The frame is exhausted.
LeaveFrame(th) ==
    /\ ThiefAt(th, "scan", "test")
    /\ ttop[th] >= tsp[th]
    /\ NextFrame(th)
    /\ UNCHANGED <<versions, ownerVars, thieffp, ttop, tsp, seen, lockVars,
                   ghostVars>>

\* No frame left, or every request is served before the end of the scan.
ClearThieffp(th) ==
    /\ \/ top[th] > Mem.sfp /\ ThiefAt(th, "test", "unlock")
       \/ ThiefAt(th, "scan", "unlock")
    /\ CanStore(thieffp)
    /\ thieffp' = Store(thieffp, NoFrame)
    /\ UNCHANGED <<versions, ownerVars, top, ttop, tsp, seen, lockVars, ghostVars>>

\* kaapi_atomic_unlock: _sync is cleared, a fence, the counter is set.
UnlockStack(th) ==
    /\ ThiefAt(th, "unlock", "idle")
    /\ Drained(thieffp)
    /\ lock' = None
    /\ sync' = FALSE
    /\ UNCHANGED <<versions, ownerVars, thieffp, top, ttop, tsp, seen, delay,
                   ghostVars>>

-------------------------------------------------------------------------------
OwnerStep ==
    \/ InitTask \/ PushTask \/ Sync \/ PushFramePc \/ PushFrameSp \/ PushFrameSfp
    \/ MarkExec \/ Block \/ Leave \/ Resume \/ PublishPc
    \/ EndOfFrame \/ EndOrPop \/ PopFrame \/ EmptyFrame \/ SetSfp
    \/ CheckThief \/ WaitLock \/ ResetSp \/ ResetPc

ThiefStep(th) ==
    \/ TestFrame(th) \/ SetThieffp(th) \/ CompareFrame(th) \/ ReadPc(th)
    \/ ReadSp(th) \/ ScanTask(th) \/ LeaveFrame(th) \/ ClearThieffp(th)
    \/ UnlockStack(th)

Next ==
    \/ OwnerStep
    \/ \E th \in Thief : LockStack(th) \/ ThiefStep(th)
    \/ DrainOwner
    \/ DrainThief

Spec == Init /\ [][Next]_vars

\* Processors run and store buffers drain; a thief may or may not come.
FairSpec ==
    /\ Spec
    /\ WF_vars(OwnerStep)
    /\ WF_vars(DrainOwner)
    /\ WF_vars(DrainThief)
    /\ \A th \in Thief : WF_vars(ThiefStep(th))

-------------------------------------------------------------------------------
(* Properties.                                                             *)

ThiefPc == {"idle", "test", "setfp", "cmp", "readpc", "readsp", "scan", "unlock"}

StackView == [sfp : Frame,
              pc : [Frame -> 1..(NSlot + 1)],
              sp : [Frame -> 1..(NSlot + 1)],
              slot : [Slot -> 0..MaxTask]]

\* Shapes of the variables.
TypeOK ==
    /\ versions \in Seq(StackView) /\ Len(versions) \in 1..(delay + 1)
    /\ opc \in OwnerPc
    /\ fp \in Frame
    /\ pc \in 1..(NSlot + 1)
    /\ sp \in 1..(NSlot + 1)
    /\ lock \in Thief \cup {None}
    /\ sync \in BOOLEAN
    /\ thieffp \in Seq(Frame \cup {NoFrame})
    /\ Len(thieffp) \in 1..(delay + 1)
    /\ delay \in {0, BufferSize}
    /\ tpc \in [Thief -> ThiefPc]
    /\ top \in [Thief -> 0..(MaxFrame + 1)]
    /\ ttop \in [Thief -> 1..(NSlot + 1)]
    /\ tsp \in [Thief -> 1..(NSlot + 1)]
    /\ created \in 0..MaxTask
    /\ finished \subseteq 1..MaxTask

\* The positions a thief has still to look at hold the tasks that were there
\* when it read the frame: the owner gives no slot of a frame to a new task
\* while a thief is inside (the pop of kaapi_stack_execframe and thieffp).
NoStaleScan ==
    \A th \in Thief : tpc[th] = "scan" =>
        \A s \in ttop[th]..(tsp[th] - 1) : Mem.slot[s] = seen[th][s]

\* The first position of the tasks of frame f.
Base(f) == IF f = 0 THEN 1 ELSE Mem.sp[f - 1]

\* kaapi_sched_stealframe computes which tasks are ready from the accesses of
\* the tasks it goes through: the tasks of the frame it does not see, those
\* below the pc it read, are over with all they created.
StartsAfterFinished(frames) ==
    \A th \in Thief :
        tpc[th] = "readsp" /\ tpc'[th] = "scan" /\ ttop[th] < tsp'[th]
            /\ top[th] \in frames
        => \A s \in Base(top[th])..(ttop[th] - 1) : Mem.slot[s] \in finished

\* The pop relies on each side to see the store of the other: both hold on
\* machines that delay no store, and neither does on the others.
NoStaleScanIfOrdered == delay = 0 => NoStaleScan

\* For the frames that execframe pushed: nobody but execframe writes their pc and
\* sp, and it waits for thieves before it uses them again.
HistoryIsCompleteAbove == [][delay = 0 => StartsAfterFinished(Frame \ {0})]_vars

\* For all: not so, the flush of kaapi_sched_sync_ does not wait.
HistoryIsComplete == [][delay = 0 => StartsAfterFinished(Frame)]_vars

\* The owner gives a slot to a new task only when the task that was in it is
\* over: frames never overlap (push_frame, the pop of several frames).
NoTaskIsOverwritten ==
    [][\A s \in Slot :
        Own'.slot[s] # Own.slot[s] => Own.slot[s] \in finished \cup {0}]_vars

\* Thieves may hold the lock one after the other for ever: the owner still
\* executes every task it has created.
EveryTaskIsExecuted == <>(opc = "stop" /\ finished = 1..MaxTask)
===============================================================================
