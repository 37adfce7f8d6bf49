---------------------------- MODULE TaskStealProofs ----------------------------
(***************************************************************************)
(* Proofs about TaskSteal, for every number of tasks, set of thieves and   *)
(* number of rounds.                                                       *)
(***************************************************************************)
EXTENDS TaskSteal, TLAPS

\* The thief holds a task it has not marked as over.
Working(th) ==
    tpc[th] \in {"init", "publish", "reply", "run", "body", "wlock", "wmark"}

\* The thief is between kaapi_atomic_lock and kaapi_atomic_unlock of the stack.
InStack(th) == tpc[th] \in {"scan", "mark", "init", "publish", "reply"}

\* The thief is still looking for a task.
Scanning(th) == tpc[th] \in {"scan", "mark"}

Over(t) == "TERM" \in state[t] \/ "MERGE" \in state[t]

\* The owner has nothing more to do for t.
Settled(t) ==
    /\ by[t] # None
    /\ runs[t] = 1
    /\ versions[t] = 0
    /\ by[t] \in Thief => Over(t)

Passed(t) == t < pc \/ (t = pc /\ opc = "advance")

\* A task nobody has claimed is untouched and still in front of the owner.
UnclaimedInv ==
    \A t \in Task : by[t] = None =>
        /\ state[t] \cap ExecutionState = {}
        /\ runs[t] = 0
        /\ versions[t] = 0

\* A task the owner claimed is the one it executes, or behind it.
OwnedInv ==
    \A t \in Task : by[t] = Owner =>
        /\ "EXEC" \in state[t]
        /\ ~Over(t)
        /\ versions[t] = 0
        /\ t = pc => opc \in {"body", "advance"}
        /\ t <= pc
        /\ runs[t] = IF t = pc /\ opc = "body" THEN 0 ELSE 1

\* A task a thief claimed carries STEAL; until it is over, that thief holds it.
StolenInv ==
    \A t \in Task : by[t] \in Thief =>
        /\ "STEAL" \in state[t]
        /\ Over(t) => runs[t] = 1
        /\ ~("TERM" \in state[t] /\ "MERGE" \in state[t])
        /\ "TERM" \in state[t] => versions[t] = 0
        /\ "MERGE" \in state[t] /\ ~Passed(t) => versions[t] = 1
        /\ ~Over(t) =>
              /\ Working(by[t])
              /\ stolen[by[t]] = t
              /\ runs[t] = IF tpc[by[t]] \in {"wlock", "wmark"} THEN 1 ELSE 0
              /\ versions[t] = IF needMerge[by[t]] THEN 1 ELSE 0

\* What a thief holds it has claimed and not finished.
ThiefInv ==
    \A th \in Thief :
        /\ Working(th) => /\ stolen[th] \in Task
                          /\ by[stolen[th]] = th
                          /\ ~Over(stolen[th])
        /\ tpc[th] = "wunlock" => stolen[th] \in Task
        /\ InStack(th) => lock = th
        /\ tpc[th] = "mark" =>
              /\ cur[th] \in Task
              /\ state[cur[th]] \cap {"STEAL", "TERM", "MERGE"} = {}

\* Where the owner is tells what it knows of the task at pc.
OwnerInv ==
    /\ opc \in {"body", "advance", "merge", "try", "check", "waitres", "signal",
                "redo", "block", "leave", "suspended"} => pc \in Task
    /\ opc = "body" => by[pc] = Owner
    /\ opc = "advance" => Settled(pc)
    /\ opc \in {"merge", "try", "check", "waitres", "signal", "redo", "block",
                "leave", "suspended"} => by[pc] \in Thief
    /\ opc = "merge" => "MERGE" \in state[pc]
    /\ opc = "signal" => reserved[pc] \in Thief
    /\ opc \in {"pop", "waitlock", "push", "done"}
            => pc = NTask + 1 /\ fpc = NTask + 1
    /\ \A t \in Task : t < pc => Settled(t)

\* A thief that looks at a task looks at the generation it started in; once the
\* owner may refill the frame nobody looks at a task of it.
ScanInv ==
    /\ \A th \in Thief : Scanning(th) /\ cur[th] \in Task => seen[th] = round
    /\ opc = "push" \/ (opc = "waitlock" /\ ~sync) =>
          \A th \in Thief : Scanning(th) => cur[th] \notin Task

IndInv ==
    /\ TypeOK
    /\ UnclaimedInv
    /\ OwnedInv
    /\ StolenInv
    /\ ThiefInv
    /\ OwnerInv
    /\ ScanInv

-------------------------------------------------------------------------------
USE ConstantsAssumption
    DEF Task, Bit, ExecutionState, OwnerPc, ThiefPc, SetBit, ClearBit, OwnerAt,
        ThiefAt, UnlockStack, frameVars, ownerVars, lockVars, thiefVars, ghostVars
\* The owner claims the task at pc, which no thief holds.
LEMMA MarkExecWinsStep ==
    ASSUME IndInv, MarkExecWins
    PROVE  IndInv'
<1>1. TypeOK'
    BY DEF MarkExecWins, IndInv, TypeOK, OldExecution
<1>2. UnclaimedInv'
    BY DEF MarkExecWins, IndInv, UnclaimedInv, TypeOK, OldExecution
<1>3. OwnedInv'
    BY DEF MarkExecWins, IndInv, OwnedInv, TypeOK, UnclaimedInv, StolenInv,
           OldExecution, Over, Working, Passed
<1>4. StolenInv'
    BY DEF MarkExecWins, IndInv, StolenInv, OldExecution, Over, Working,
           Passed
<1>5. ThiefInv'
    BY DEF MarkExecWins, IndInv, ThiefInv, StolenInv, OldExecution, Over,
           Working, InStack, Passed
<1>6. OwnerInv'
    BY DEF MarkExecWins, IndInv, OwnerInv, TypeOK, OldExecution, Settled, Over
<1>7. ScanInv'
    BY DEF MarkExecWins, IndInv, ScanInv, OldExecution, Scanning
<1> QED BY <1>1, <1>2, <1>3, <1>4, <1>5, <1>6, <1>7 DEF IndInv

\* The owner finds the task at pc claimed by a thief: it goes past a task that
\* is over, to the merge, or to suspend.
LEMMA MarkExecLosesStep ==
    ASSUME IndInv, MarkExecLoses
    PROVE  IndInv'
<1>1. TypeOK'
    BY DEF MarkExecLoses, IndInv, TypeOK, OldExecution, FallsThrough
<1>2. UnclaimedInv'
  <2>1. pc \in Task /\ OldExecution(pc) # {}
    BY DEF MarkExecLoses, OldExecution, FallsThrough
  <2>2. by[pc] # None
    BY <2>1 DEF IndInv, UnclaimedInv, OldExecution
  <2> QED BY <2>1, <2>2 DEF MarkExecLoses, IndInv, TypeOK, UnclaimedInv
<1>3. OwnedInv'
    BY DEF MarkExecLoses, IndInv, OwnedInv, OldExecution, FallsThrough, Over
<1>4. StolenInv'
    BY DEF MarkExecLoses, IndInv, StolenInv, OldExecution, FallsThrough, Over,
           Working, Passed
<1>5. ThiefInv'
    BY DEF MarkExecLoses, IndInv, ThiefInv, OldExecution, FallsThrough, Over,
           Working, InStack
<1>6. OwnerInv'
  <2>1. pc \in Task /\ opc = "fetch"
    BY DEF MarkExecLoses
  <2>2. OldExecution(pc) # {}
    BY DEF MarkExecLoses, OldExecution, FallsThrough
  <2>3. by[pc] \in Thief
    BY <2>1, <2>2
       DEF IndInv, TypeOK, UnclaimedInv, OwnedInv, OldExecution
  <2>4. "STEAL" \in state[pc] /\ OldExecution(pc) # {"EXEC"}
    BY <2>1, <2>3 DEF IndInv, StolenInv, OldExecution
  <2>5. ASSUME opc' = "advance" PROVE Settled(pc)
    <3>1. "TERM" \in state[pc]
      BY <2>4, <2>5 DEF MarkExecLoses, FallsThrough
    <3> QED BY <3>1, <2>1, <2>3 DEF IndInv, StolenInv, Settled, Over
  <2>6. \A t \in Task : Settled(t) => Settled(t)'
    BY <2>1 DEF MarkExecLoses, IndInv, TypeOK, Settled, Over
  <2>7. opc' = "merge" => "MERGE" \in state'[pc]
    BY <2>1 DEF MarkExecLoses, IndInv, TypeOK
  <2>8. opc' \in {"advance", "merge", "try"} /\ pc' = pc /\ by' = by
    BY DEF MarkExecLoses
  <2>9. opc' = "advance" => Settled(pc)'
    BY <2>1, <2>5, <2>6, <2>8 DEF Settled, Over
  <2>10. \A t \in Task : t < pc => Settled(t)'
    BY <2>6 DEF IndInv, OwnerInv
  <2> QED BY <2>1, <2>3, <2>7, <2>8, <2>9, <2>10
          DEF IndInv, OwnerInv, Settled, Over
<1>7. ScanInv'
    BY DEF MarkExecLoses, IndInv, ScanInv, OldExecution, FallsThrough,
           Scanning
<1> QED BY <1>1, <1>2, <1>3, <1>4, <1>5, <1>6, <1>7 DEF IndInv

\* The owner runs the body of the task it claimed.
LEMMA RunInPlaceStep ==
    ASSUME IndInv, RunInPlace
    PROVE  IndInv'
<1>1. TypeOK'
  <2>1. pc \in Task
    BY DEF RunInPlace, IndInv, OwnerInv
  <2>2. runs' \in [Task -> Nat]
    BY <2>1, SMTT(30) DEF RunInPlace, IndInv, TypeOK
  <2> QED BY <2>1, <2>2 DEF RunInPlace, IndInv, TypeOK
<1>2. UnclaimedInv'
    BY DEF RunInPlace, IndInv, UnclaimedInv, OwnerInv, Settled, Over
<1>3. OwnedInv'
    BY DEF RunInPlace, IndInv, OwnedInv, TypeOK, Over
<1>4. StolenInv'
    BY DEF RunInPlace, IndInv, StolenInv, OwnerInv, Over, Working, Passed,
           Settled
<1>5. ThiefInv'
    BY DEF RunInPlace, IndInv, ThiefInv, Over, Working, InStack
<1>6. OwnerInv'
    BY DEF RunInPlace, IndInv, OwnerInv, TypeOK, OwnedInv, Settled, Over
<1>7. ScanInv'
    BY DEF RunInPlace, IndInv, ScanInv, Scanning
<1> QED BY <1>1, <1>2, <1>3, <1>4, <1>5, <1>6, <1>7 DEF IndInv

\* The owner merges the version a thief left, which no other does.
LEMMA AfterStealStep ==
    ASSUME IndInv, AfterSteal
    PROVE  IndInv'
<1>1. TypeOK'
  <2>1. pc \in Task /\ versions[pc] = 1
    BY DEF AfterSteal, IndInv, TypeOK, OwnerInv, StolenInv, Over, Passed
  <2>2. versions' \in [Task -> {0, 1}]
    BY <2>1 DEF AfterSteal, IndInv, TypeOK
  <2> QED BY <2>1, <2>2 DEF AfterSteal, IndInv, TypeOK
<1>2. UnclaimedInv'
    BY DEF AfterSteal, IndInv, UnclaimedInv, OwnerInv, Settled, Over
<1>3. OwnedInv'
    BY DEF AfterSteal, IndInv, OwnedInv, Over
<1>4. StolenInv'
    BY DEF AfterSteal, IndInv, StolenInv, OwnerInv, Over, Working, Passed,
           Settled
<1>5. ThiefInv'
    BY DEF AfterSteal, IndInv, ThiefInv, Over, Working, InStack
<1>6. OwnerInv'
    BY SMTT(30) DEF AfterSteal, IndInv, OwnerInv, TypeOK, StolenInv, Settled,
           Over, Working, Passed
<1>7. ScanInv'
    BY DEF AfterSteal, IndInv, ScanInv, Scanning
<1> QED BY <1>1, <1>2, <1>3, <1>4, <1>5, <1>6, <1>7 DEF IndInv

\* The owner passes a task for which nothing more is to be done.
LEMMA AdvanceStep ==
    ASSUME IndInv, Advance
    PROVE  IndInv'
<1>1. TypeOK'
    BY SMTT(30) DEF Advance, IndInv, TypeOK, OwnerInv, Settled, Over
<1>2. UnclaimedInv'
    BY DEF Advance, IndInv, UnclaimedInv
<1>3. OwnedInv'
    BY DEF Advance, IndInv, OwnedInv, TypeOK, Over
<1>4. StolenInv'
    BY DEF Advance, IndInv, StolenInv, TypeOK, Over, Working, Passed
<1>5. ThiefInv'
    BY DEF Advance, IndInv, ThiefInv, Over, Working, InStack
<1>6. OwnerInv'
    BY DEF Advance, IndInv, OwnerInv, Settled, Over
<1>7. ScanInv'
    BY DEF Advance, IndInv, ScanInv, Scanning
<1> QED BY <1>1, <1>2, <1>3, <1>4, <1>5, <1>6, <1>7 DEF IndInv

\* The owner sets LOCKED on the task it waits for.
LEMMA TryLockStep ==
    ASSUME IndInv, TryLock
    PROVE  IndInv'
<1>1. TypeOK'
    BY DEF TryLock, IndInv, TypeOK
<1>2. UnclaimedInv'
    BY DEF TryLock, IndInv, UnclaimedInv
<1>3. OwnedInv'
    BY DEF TryLock, IndInv, OwnedInv, Over
<1>4. StolenInv'
    BY DEF TryLock, IndInv, StolenInv, Over, Working, Passed
<1>5. ThiefInv'
    BY DEF TryLock, IndInv, ThiefInv, Over, Working, InStack
<1>6. OwnerInv'
    BY DEF TryLock, IndInv, OwnerInv, Settled, Over
<1>7. ScanInv'
    BY DEF TryLock, IndInv, ScanInv, Scanning
<1> QED BY <1>1, <1>2, <1>3, <1>4, <1>5, <1>6, <1>7 DEF IndInv

\* The owner finds LOCKED set by the thief.
LEMMA TryLockFailsStep ==
    ASSUME IndInv, TryLockFails
    PROVE  IndInv'
<1>1. TypeOK'
    BY DEF TryLockFails, IndInv, TypeOK
<1>2. UnclaimedInv'
    BY DEF TryLockFails, IndInv, UnclaimedInv
<1>3. OwnedInv'
    BY DEF TryLockFails, IndInv, OwnedInv, Over
<1>4. StolenInv'
    BY DEF TryLockFails, IndInv, StolenInv, Over, Working, Passed
<1>5. ThiefInv'
    BY DEF TryLockFails, IndInv, ThiefInv, Over, Working, InStack
<1>6. OwnerInv'
    BY DEF TryLockFails, IndInv, OwnerInv, Settled, Over
<1>7. ScanInv'
    BY DEF TryLockFails, IndInv, ScanInv, Scanning
<1> QED BY <1>1, <1>2, <1>3, <1>4, <1>5, <1>6, <1>7 DEF IndInv

\* The owner looks at the task again under LOCKED.
LEMMA CheckStateStep ==
    ASSUME IndInv, CheckState
    PROVE  IndInv'
<1>1. TypeOK'
    BY DEF CheckState, IndInv, TypeOK
<1>2. UnclaimedInv'
    BY DEF CheckState, IndInv, UnclaimedInv
<1>3. OwnedInv'
    BY DEF CheckState, IndInv, OwnedInv, Over
<1>4. StolenInv'
    BY DEF CheckState, IndInv, StolenInv, Over, Working, Passed
<1>5. ThiefInv'
    BY DEF CheckState, IndInv, ThiefInv, Over, Working, InStack
<1>6. OwnerInv'
    BY DEF CheckState, IndInv, OwnerInv, StolenInv, Settled, Over, Working,
           Passed
<1>7. ScanInv'
    BY DEF CheckState, IndInv, ScanInv, Scanning
<1> QED BY <1>1, <1>2, <1>3, <1>4, <1>5, <1>6, <1>7 DEF IndInv

\* The owner has seen which thief runs the task.
LEMMA WaitReservedStep ==
    ASSUME IndInv, WaitReserved
    PROVE  IndInv'
<1>1. TypeOK'
    BY DEF WaitReserved, IndInv, TypeOK
<1>2. UnclaimedInv'
    BY DEF WaitReserved, IndInv, UnclaimedInv
<1>3. OwnedInv'
    BY DEF WaitReserved, IndInv, OwnedInv, Over
<1>4. StolenInv'
    BY DEF WaitReserved, IndInv, StolenInv, Over, Working, Passed
<1>5. ThiefInv'
    BY DEF WaitReserved, IndInv, ThiefInv, Over, Working, InStack
<1>6. OwnerInv'
    BY DEF WaitReserved, IndInv, OwnerInv, TypeOK, Settled, Over
<1>7. ScanInv'
    BY DEF WaitReserved, IndInv, ScanInv, Scanning
<1> QED BY <1>1, <1>2, <1>3, <1>4, <1>5, <1>6, <1>7 DEF IndInv

\* The owner raises SIGNALED at the thief task.
LEMMA SignalStep ==
    ASSUME IndInv, Signal
    PROVE  IndInv'
<1>1. TypeOK'
  <2>1. tstate' \in [Thief -> SUBSET Bit]
    BY DEF Signal, IndInv, TypeOK
  <2>2. opc' \in OwnerPc
    BY DEF Signal, IndInv, TypeOK
  <2> QED BY <2>1, <2>2 DEF Signal, IndInv, TypeOK
<1>2. UnclaimedInv'
    BY DEF Signal, IndInv, UnclaimedInv
<1>3. OwnedInv'
    BY DEF Signal, IndInv, OwnedInv, Over
<1>4. StolenInv'
    BY DEF Signal, IndInv, StolenInv, Over, Working, Passed
<1>5. ThiefInv'
    BY DEF Signal, IndInv, ThiefInv, Over, Working, InStack
<1>6. OwnerInv'
    BY DEF Signal, IndInv, OwnerInv, Settled, Over
<1>7. ScanInv'
    BY DEF Signal, IndInv, ScanInv, Scanning
<1> QED BY <1>1, <1>2, <1>3, <1>4, <1>5, <1>6, <1>7 DEF IndInv

\* The owner lets LOCKED go, the task being over.
LEMMA UnlockRedoStep ==
    ASSUME IndInv, UnlockRedo
    PROVE  IndInv'
<1>1. TypeOK'
  <2>1. state' \in [Task -> SUBSET Bit]
    BY DEF UnlockRedo, IndInv, TypeOK
  <2> QED BY <2>1 DEF UnlockRedo, IndInv, TypeOK
<1>2. UnclaimedInv'
    BY DEF UnlockRedo, IndInv, UnclaimedInv
<1>3. OwnedInv'
    BY DEF UnlockRedo, IndInv, OwnedInv, Over
<1>4. StolenInv'
    BY DEF UnlockRedo, IndInv, StolenInv, Over, Working, Passed
<1>5. ThiefInv'
    BY DEF UnlockRedo, IndInv, ThiefInv, Over, Working, InStack
<1>6. OwnerInv'
    BY DEF UnlockRedo, IndInv, OwnerInv, Settled, Over
<1>7. ScanInv'
    BY DEF UnlockRedo, IndInv, ScanInv, Scanning
<1> QED BY <1>1, <1>2, <1>3, <1>4, <1>5, <1>6, <1>7 DEF IndInv

\* The owner lets LOCKED go and suspends.
LEMMA UnlockBlockStep ==
    ASSUME IndInv, UnlockBlock
    PROVE  IndInv'
<1>1. TypeOK'
  <2>1. state' \in [Task -> SUBSET Bit]
    BY DEF UnlockBlock, IndInv, TypeOK
  <2> QED BY <2>1 DEF UnlockBlock, IndInv, TypeOK
<1>2. UnclaimedInv'
    BY DEF UnlockBlock, IndInv, UnclaimedInv
<1>3. OwnedInv'
    BY DEF UnlockBlock, IndInv, OwnedInv, Over
<1>4. StolenInv'
    BY DEF UnlockBlock, IndInv, StolenInv, Over, Working, Passed
<1>5. ThiefInv'
    BY DEF UnlockBlock, IndInv, ThiefInv, Over, Working, InStack
<1>6. OwnerInv'
    BY DEF UnlockBlock, IndInv, OwnerInv, Settled, Over
<1>7. ScanInv'
    BY DEF UnlockBlock, IndInv, ScanInv, Scanning
<1> QED BY <1>1, <1>2, <1>3, <1>4, <1>5, <1>6, <1>7 DEF IndInv

\* The owner leaves execframe on a task that is not over.
LEMMA LeaveStep ==
    ASSUME IndInv, Leave
    PROVE  IndInv'
<1>1. TypeOK'
    BY DEF Leave, IndInv, TypeOK
<1>2. UnclaimedInv'
    BY DEF Leave, IndInv, UnclaimedInv
<1>3. OwnedInv'
    BY DEF Leave, IndInv, OwnedInv, Over
<1>4. StolenInv'
    BY DEF Leave, IndInv, StolenInv, Over, Working, Passed
<1>5. ThiefInv'
    BY DEF Leave, IndInv, ThiefInv, Over, Working, InStack
<1>6. OwnerInv'
    BY DEF Leave, IndInv, OwnerInv, Settled, Over
<1>7. ScanInv'
    BY DEF Leave, IndInv, ScanInv, Scanning
<1> QED BY <1>1, <1>2, <1>3, <1>4, <1>5, <1>6, <1>7 DEF IndInv

\* The owner comes back when the task is ready.
LEMMA ResumeStep ==
    ASSUME IndInv, Resume
    PROVE  IndInv'
<1>1. TypeOK'
    BY DEF Resume, IndInv, TypeOK, IsReady, OldExecution
<1>2. UnclaimedInv'
    BY DEF Resume, IndInv, UnclaimedInv, IsReady, OldExecution
<1>3. OwnedInv'
    BY DEF Resume, IndInv, OwnedInv, IsReady, OldExecution, Over
<1>4. StolenInv'
    BY DEF Resume, IndInv, StolenInv, IsReady, OldExecution, Over, Working,
           Passed
<1>5. ThiefInv'
    BY DEF Resume, IndInv, ThiefInv, IsReady, OldExecution, Over, Working,
           InStack
<1>6. OwnerInv'
    BY DEF Resume, IndInv, OwnerInv, IsReady, OldExecution, Settled, Over
<1>7. ScanInv'
    BY DEF Resume, IndInv, ScanInv, IsReady, OldExecution, Scanning
<1> QED BY <1>1, <1>2, <1>3, <1>4, <1>5, <1>6, <1>7 DEF IndInv

\* The owner has passed every task.
LEMMA EndOfFrameStep ==
    ASSUME IndInv, EndOfFrame
    PROVE  IndInv'
<1>1. TypeOK'
    BY DEF EndOfFrame, IndInv, TypeOK
<1>2. UnclaimedInv'
    BY DEF EndOfFrame, IndInv, UnclaimedInv
<1>3. OwnedInv'
    BY DEF EndOfFrame, IndInv, OwnedInv, Over
<1>4. StolenInv'
    BY DEF EndOfFrame, IndInv, StolenInv, Over, Working, Passed
<1>5. ThiefInv'
    BY DEF EndOfFrame, IndInv, ThiefInv, Over, Working, InStack
<1>6. OwnerInv'
    BY DEF EndOfFrame, IndInv, OwnerInv, Settled, Over
<1>7. ScanInv'
    BY DEF EndOfFrame, IndInv, ScanInv, Scanning
<1> QED BY <1>1, <1>2, <1>3, <1>4, <1>5, <1>6, <1>7 DEF IndInv

\* The owner pops the frame.
LEMMA PopFrameStep ==
    ASSUME IndInv, PopFrame
    PROVE  IndInv'
<1>1. TypeOK'
    BY DEF PopFrame, IndInv, TypeOK
<1>2. UnclaimedInv'
    BY DEF PopFrame, IndInv, UnclaimedInv
<1>3. OwnedInv'
    BY DEF PopFrame, IndInv, OwnedInv, Over
<1>4. StolenInv'
    BY DEF PopFrame, IndInv, StolenInv, Over, Working, Passed
<1>5. ThiefInv'
    BY DEF PopFrame, IndInv, ThiefInv, Over, Working, InStack
<1>6. OwnerInv'
    BY DEF PopFrame, IndInv, OwnerInv, Settled, Over
<1>7. ScanInv'
    BY DEF PopFrame, IndInv, ScanInv, ThiefInv, Scanning, Over, Working,
           InStack
<1> QED BY <1>1, <1>2, <1>3, <1>4, <1>5, <1>6, <1>7 DEF IndInv

\* The owner waits for the thieves to leave its stack.
LEMMA WaitLockStep ==
    ASSUME IndInv, WaitLock
    PROVE  IndInv'
<1>1. TypeOK'
    BY DEF WaitLock, IndInv, TypeOK
<1>2. UnclaimedInv'
    BY DEF WaitLock, IndInv, UnclaimedInv
<1>3. OwnedInv'
    BY DEF WaitLock, IndInv, OwnedInv, Over
<1>4. StolenInv'
    BY DEF WaitLock, IndInv, StolenInv, Over, Working, Passed
<1>5. ThiefInv'
    BY DEF WaitLock, IndInv, ThiefInv, Over, Working, InStack
<1>6. OwnerInv'
    BY DEF WaitLock, IndInv, OwnerInv, Settled, Over
<1>7. ScanInv'
    BY DEF WaitLock, IndInv, ScanInv, ThiefInv, Scanning, Over, Working,
           InStack
<1> QED BY <1>1, <1>2, <1>3, <1>4, <1>5, <1>6, <1>7 DEF IndInv

\* The owner refills a frame in which nobody looks any more.
LEMMA PushTasksStep ==
    ASSUME IndInv, PushTasks
    PROVE  IndInv'
<1>1. TypeOK'
    BY SMTT(30) DEF PushTasks, IndInv, TypeOK
<1>2. UnclaimedInv'
    BY DEF PushTasks, IndInv, UnclaimedInv
<1>3. OwnedInv'
    BY DEF PushTasks, IndInv, OwnedInv, Over
<1>4. StolenInv'
    BY DEF PushTasks, IndInv, StolenInv, Over, Working, Passed
<1>5. ThiefInv'
    BY SMTT(30) DEF PushTasks, IndInv, ThiefInv, OwnerInv, Over, Working,
           InStack, Settled
<1>6. OwnerInv'
    BY DEF PushTasks, IndInv, OwnerInv, Settled, Over
<1>7. ScanInv'
    BY DEF PushTasks, IndInv, ScanInv, Scanning
<1> QED BY <1>1, <1>2, <1>3, <1>4, <1>5, <1>6, <1>7 DEF IndInv

\* The owner stops.
LEMMA StopStep ==
    ASSUME IndInv, Stop
    PROVE  IndInv'
<1>1. TypeOK'
    BY DEF Stop, IndInv, TypeOK
<1>2. UnclaimedInv'
    BY DEF Stop, IndInv, UnclaimedInv
<1>3. OwnedInv'
    BY DEF Stop, IndInv, OwnedInv, Over
<1>4. StolenInv'
    BY DEF Stop, IndInv, StolenInv, Over, Working, Passed
<1>5. ThiefInv'
    BY DEF Stop, IndInv, ThiefInv, Over, Working, InStack
<1>6. OwnerInv'
    BY DEF Stop, IndInv, OwnerInv, Settled, Over
<1>7. ScanInv'
    BY DEF Stop, IndInv, ScanInv, Scanning
<1> QED BY <1>1, <1>2, <1>3, <1>4, <1>5, <1>6, <1>7 DEF IndInv

\* A thief gets the lock of the stack.
LEMMA LockStackStep ==
    ASSUME NEW th \in Thief, IndInv, LockStack(th)
    PROVE  IndInv'
<1>1. TypeOK'
    BY DEF LockStack, IndInv, TypeOK
<1>2. UnclaimedInv'
    BY DEF LockStack, IndInv, UnclaimedInv
<1>3. OwnedInv'
    BY DEF LockStack, IndInv, OwnedInv, Over
<1>4. StolenInv'
    BY DEF LockStack, IndInv, StolenInv, Over, Working, Passed
<1>5. ThiefInv'
    BY DEF LockStack, IndInv, ThiefInv, Over, Working, InStack
<1>6. OwnerInv'
    BY DEF LockStack, IndInv, OwnerInv, Settled, Over
<1>7. ScanInv'
    BY SMTT(30) DEF LockStack, IndInv, ScanInv, TypeOK, OwnerInv, Scanning,
           Settled, Over
<1> QED BY <1>1, <1>2, <1>3, <1>4, <1>5, <1>6, <1>7 DEF IndInv

\* A thief passes a task it cannot steal.
LEMMA SkipTaskStep ==
    ASSUME NEW th \in Thief, IndInv, SkipTask(th)
    PROVE  IndInv'
<1>1. TypeOK'
  <2>1. cur' \in [Thief -> 1..(NTask + 1)]
    BY SMTT(30) DEF SkipTask, IndInv, TypeOK
  <2>2. tpc' \in [Thief -> ThiefPc]
    BY SMTT(30) DEF SkipTask, IndInv, TypeOK
  <2> QED BY <2>1, <2>2 DEF SkipTask, IndInv, TypeOK
<1>2. UnclaimedInv'
    BY DEF SkipTask, IndInv, UnclaimedInv
<1>3. OwnedInv'
    BY DEF SkipTask, IndInv, OwnedInv, Over
<1>4. StolenInv'
    BY DEF SkipTask, IndInv, StolenInv, Over, Working, Passed
<1>5. ThiefInv'
    BY DEF SkipTask, IndInv, ThiefInv, Over, Working, InStack
<1>6. OwnerInv'
    BY DEF SkipTask, IndInv, OwnerInv, Settled, Over
<1>7. ScanInv'
    BY DEF SkipTask, IndInv, ScanInv, Scanning
<1> QED BY <1>1, <1>2, <1>3, <1>4, <1>5, <1>6, <1>7 DEF IndInv

\* A thief has seen a task nobody claimed.
LEMMA TestStealableStep ==
    ASSUME NEW th \in Thief, IndInv, TestStealable(th)
    PROVE  IndInv'
<1>1. TypeOK'
    BY DEF TestStealable, IndInv, TypeOK, IsStealable
<1>2. UnclaimedInv'
    BY DEF TestStealable, IndInv, UnclaimedInv, IsStealable
<1>3. OwnedInv'
    BY DEF TestStealable, IndInv, OwnedInv, IsStealable, Over
<1>4. StolenInv'
    BY DEF TestStealable, IndInv, StolenInv, IsStealable, Over, Working,
           Passed
<1>5. ThiefInv'
    BY DEF TestStealable, IndInv, ThiefInv, IsStealable, Over, Working,
           InStack
<1>6. OwnerInv'
    BY DEF TestStealable, IndInv, OwnerInv, IsStealable, Settled, Over
<1>7. ScanInv'
    BY DEF TestStealable, IndInv, ScanInv, IsStealable, Scanning
<1> QED BY <1>1, <1>2, <1>3, <1>4, <1>5, <1>6, <1>7 DEF IndInv

\* A thief claims a task: nobody had, whatever happened since it was tested.
LEMMA MarkStealStep ==
    ASSUME NEW th \in Thief, IndInv, MarkSteal(th)
    PROVE  IndInv'
<1>1. TypeOK'
    BY DEF MarkSteal, IndInv, TypeOK, ThiefInv, Over, Working, InStack
<1>2. UnclaimedInv'
    BY DEF MarkSteal, IndInv, UnclaimedInv, TypeOK
<1>3. OwnedInv'
    BY DEF MarkSteal, IndInv, OwnedInv, Over
<1>4. StolenInv'
    BY SMTT(30) DEF MarkSteal, IndInv, StolenInv, TypeOK, UnclaimedInv,
           OwnedInv, ThiefInv, Over, Working, Passed, InStack
<1>5. ThiefInv'
    BY SMTT(30) DEF MarkSteal, IndInv, ThiefInv, TypeOK, StolenInv, Over,
           Working, InStack, Passed
<1>6. OwnerInv'
    BY SMTT(30) DEF MarkSteal, IndInv, OwnerInv, TypeOK, OwnedInv, ThiefInv,
           Settled, Over, Working, InStack
<1>7. ScanInv'
    BY DEF MarkSteal, IndInv, ScanInv, Scanning
<1> QED BY <1>1, <1>2, <1>3, <1>4, <1>5, <1>6, <1>7 DEF IndInv

\* A thief finds that the owner was first.
LEMMA MarkStealFailsStep ==
    ASSUME NEW th \in Thief, IndInv, MarkStealFails(th)
    PROVE  IndInv'
<1>1. TypeOK'
  <2>1. cur[th] \in Task
    BY DEF MarkStealFails, IndInv, ThiefInv
  <2>2. cur' \in [Thief -> 1..(NTask + 1)]
    BY <2>1, SMTT(30) DEF MarkStealFails, IndInv, TypeOK
  <2>3. state' \in [Task -> SUBSET Bit]
    BY <2>1 DEF MarkStealFails, IndInv, TypeOK
  <2> QED BY <2>2, <2>3 DEF MarkStealFails, IndInv, TypeOK
<1>2. UnclaimedInv'
    BY DEF MarkStealFails, IndInv, UnclaimedInv
<1>3. OwnedInv'
    BY DEF MarkStealFails, IndInv, OwnedInv, Over
<1>4. StolenInv'
    BY DEF MarkStealFails, IndInv, StolenInv, OwnerInv, ScanInv, Over,
           Working, Passed, Settled, Scanning
<1>5. ThiefInv'
    BY SMTT(30) DEF MarkStealFails, IndInv, ThiefInv, TypeOK, Over, Working,
           InStack
<1>6. OwnerInv'
    BY DEF MarkStealFails, IndInv, OwnerInv, Settled, Over
<1>7. ScanInv'
    BY SMTT(30) DEF MarkStealFails, IndInv, ScanInv, TypeOK, OwnerInv,
           Scanning, Settled, Over
<1> QED BY <1>1, <1>2, <1>3, <1>4, <1>5, <1>6, <1>7 DEF IndInv

\* The thief builds its task.
LEMMA InitThiefTaskStep ==
    ASSUME NEW th \in Thief, IndInv, InitThiefTask(th)
    PROVE  IndInv'
<1>1. TypeOK'
    BY DEF InitThiefTask, IndInv, TypeOK
<1>2. UnclaimedInv'
    BY DEF InitThiefTask, IndInv, UnclaimedInv
<1>3. OwnedInv'
    BY DEF InitThiefTask, IndInv, OwnedInv, Over
<1>4. StolenInv'
    BY DEF InitThiefTask, IndInv, StolenInv, Over, Working, Passed
<1>5. ThiefInv'
    BY DEF InitThiefTask, IndInv, ThiefInv, Over, Working, InStack
<1>6. OwnerInv'
    BY DEF InitThiefTask, IndInv, OwnerInv, Settled, Over
<1>7. ScanInv'
    BY DEF InitThiefTask, IndInv, ScanInv, Scanning
<1> QED BY <1>1, <1>2, <1>3, <1>4, <1>5, <1>6, <1>7 DEF IndInv

\* The thief tells where its task is.
LEMMA PublishReservedStep ==
    ASSUME NEW th \in Thief, IndInv, PublishReserved(th)
    PROVE  IndInv'
<1>1. TypeOK'
    BY DEF PublishReserved, IndInv, TypeOK
<1>2. UnclaimedInv'
    BY DEF PublishReserved, IndInv, UnclaimedInv
<1>3. OwnedInv'
    BY DEF PublishReserved, IndInv, OwnedInv, Over
<1>4. StolenInv'
    BY DEF PublishReserved, IndInv, StolenInv, Over, Working, Passed
<1>5. ThiefInv'
    BY DEF PublishReserved, IndInv, ThiefInv, Over, Working, InStack
<1>6. OwnerInv'
    BY DEF PublishReserved, IndInv, OwnerInv, Settled, Over
<1>7. ScanInv'
    BY DEF PublishReserved, IndInv, ScanInv, Scanning
<1> QED BY <1>1, <1>2, <1>3, <1>4, <1>5, <1>6, <1>7 DEF IndInv

\* The thief lets the stack go with a task.
LEMMA ReplyOkStep ==
    ASSUME NEW th \in Thief, IndInv, ReplyOk(th)
    PROVE  IndInv'
<1>1. TypeOK'
    BY DEF ReplyOk, IndInv, TypeOK
<1>2. UnclaimedInv'
    BY DEF ReplyOk, IndInv, UnclaimedInv
<1>3. OwnedInv'
    BY DEF ReplyOk, IndInv, OwnedInv, Over
<1>4. StolenInv'
    BY DEF ReplyOk, IndInv, StolenInv, Over, Working, Passed
<1>5. ThiefInv'
    BY SMTT(30) DEF ReplyOk, IndInv, ThiefInv, TypeOK, Over, Working, InStack
<1>6. OwnerInv'
    BY DEF ReplyOk, IndInv, OwnerInv, Settled, Over
<1>7. ScanInv'
    BY DEF ReplyOk, IndInv, ScanInv, ThiefInv, Scanning, Over, Working,
           InStack
<1> QED BY <1>1, <1>2, <1>3, <1>4, <1>5, <1>6, <1>7 DEF IndInv

\* The thief lets the stack go with nothing.
LEMMA NothingStolenStep ==
    ASSUME NEW th \in Thief, IndInv, NothingStolen(th)
    PROVE  IndInv'
<1>1. TypeOK'
    BY DEF NothingStolen, IndInv, TypeOK
<1>2. UnclaimedInv'
    BY DEF NothingStolen, IndInv, UnclaimedInv
<1>3. OwnedInv'
    BY DEF NothingStolen, IndInv, OwnedInv, Over
<1>4. StolenInv'
    BY DEF NothingStolen, IndInv, StolenInv, Over, Working, Passed
<1>5. ThiefInv'
    BY DEF NothingStolen, IndInv, ThiefInv, TypeOK, Over, Working, InStack
<1>6. OwnerInv'
    BY DEF NothingStolen, IndInv, OwnerInv, Settled, Over
<1>7. ScanInv'
    BY DEF NothingStolen, IndInv, ScanInv, ThiefInv, Scanning, Over, Working,
           InStack
<1> QED BY <1>1, <1>2, <1>3, <1>4, <1>5, <1>6, <1>7 DEF IndInv

\* The thief marks its own task.
LEMMA ThiefMarkExecStep ==
    ASSUME NEW th \in Thief, IndInv, ThiefMarkExec(th)
    PROVE  IndInv'
<1>1. TypeOK'
    BY DEF ThiefMarkExec, IndInv, TypeOK
<1>2. UnclaimedInv'
    BY DEF ThiefMarkExec, IndInv, UnclaimedInv
<1>3. OwnedInv'
    BY DEF ThiefMarkExec, IndInv, OwnedInv, Over
<1>4. StolenInv'
    BY DEF ThiefMarkExec, IndInv, StolenInv, Over, Working, Passed
<1>5. ThiefInv'
    BY DEF ThiefMarkExec, IndInv, ThiefInv, Over, Working, InStack
<1>6. OwnerInv'
    BY DEF ThiefMarkExec, IndInv, OwnerInv, Settled, Over
<1>7. ScanInv'
    BY DEF ThiefMarkExec, IndInv, ScanInv, Scanning
<1> QED BY <1>1, <1>2, <1>3, <1>4, <1>5, <1>6, <1>7 DEF IndInv

\* The thief runs the body of the task it claimed.
LEMMA ThiefRunStep ==
    ASSUME NEW th \in Thief, IndInv, ThiefRun(th)
    PROVE  IndInv'
<1>1. TypeOK'
  <2>1. stolen[th] \in Task
    BY DEF ThiefRun, IndInv, ThiefInv, Working
  <2>2. runs' \in [Task -> Nat]
    BY <2>1, SMTT(30) DEF ThiefRun, IndInv, TypeOK
  <2>3. tpc' \in [Thief -> ThiefPc]
    BY DEF ThiefRun, IndInv, TypeOK
  <2> QED BY <2>1, <2>2, <2>3 DEF ThiefRun, IndInv, TypeOK
<1>2. UnclaimedInv'
    BY DEF ThiefRun, IndInv, UnclaimedInv, ThiefInv, Over, Working, InStack
<1>3. OwnedInv'
    BY DEF ThiefRun, IndInv, OwnedInv, ThiefInv, Over, Working, InStack
<1>4. StolenInv'
    BY SMTT(30) DEF ThiefRun, IndInv, StolenInv, TypeOK, ThiefInv, OwnerInv,
           ScanInv, Over, Working, Passed, InStack, Settled, Scanning
<1>5. ThiefInv'
    BY DEF ThiefRun, IndInv, ThiefInv, Over, Working, InStack
<1>6. OwnerInv'
    BY DEF ThiefRun, IndInv, OwnerInv, ThiefInv, Settled, Over, Working,
           InStack
<1>7. ScanInv'
    BY DEF ThiefRun, IndInv, ScanInv, Scanning
<1> QED BY <1>1, <1>2, <1>3, <1>4, <1>5, <1>6, <1>7 DEF IndInv

\* The thief sets LOCKED on the stolen task.
LEMMA WriteLockStep ==
    ASSUME NEW th \in Thief, IndInv, WriteLock(th)
    PROVE  IndInv'
<1>1. TypeOK'
  <2>1. state' \in [Task -> SUBSET Bit]
    BY DEF WriteLock, IndInv, TypeOK
  <2> QED BY <2>1 DEF WriteLock, IndInv, TypeOK
<1>2. UnclaimedInv'
    BY DEF WriteLock, IndInv, UnclaimedInv
<1>3. OwnedInv'
    BY DEF WriteLock, IndInv, OwnedInv, Over
<1>4. StolenInv'
    BY DEF WriteLock, IndInv, StolenInv, Over, Working, Passed
<1>5. ThiefInv'
    BY DEF WriteLock, IndInv, ThiefInv, Over, Working, InStack
<1>6. OwnerInv'
    BY DEF WriteLock, IndInv, OwnerInv, Settled, Over
<1>7. ScanInv'
    BY DEF WriteLock, IndInv, ScanInv, Scanning
<1> QED BY <1>1, <1>2, <1>3, <1>4, <1>5, <1>6, <1>7 DEF IndInv

\* The thief ends the stolen task, or leaves its version to be merged.
LEMMA WriteMarkStep ==
    ASSUME NEW th \in Thief, IndInv, WriteMark(th)
    PROVE  IndInv'
<1>1. TypeOK'
  <2>1. CASE needMerge[th]
    <3>1. state' = [state EXCEPT ![stolen[th]] = @ \cup {"MERGE"}]
      BY <2>1 DEF WriteMark, SetBit
    <3>2. state' \in [Task -> SUBSET Bit]
      BY <3>1 DEF IndInv, TypeOK, Bit
    <3> QED BY <3>2 DEF WriteMark, IndInv, TypeOK
  <2>2. CASE ~needMerge[th]
    <3>1. state' = [state EXCEPT ![stolen[th]] = @ \cup {"TERM"}]
      BY <2>2 DEF WriteMark, SetBit
    <3>2. state' \in [Task -> SUBSET Bit]
      BY <3>1 DEF IndInv, TypeOK, Bit
    <3> QED BY <3>2 DEF WriteMark, IndInv, TypeOK
  <2> QED BY <2>1, <2>2
<1>2. UnclaimedInv'
    BY DEF WriteMark, IndInv, UnclaimedInv, ThiefInv, Over, Working, InStack
<1>3. OwnedInv'
    BY DEF WriteMark, IndInv, OwnedInv, ThiefInv, Over, Working, InStack
<1>4. StolenInv'
    BY SMTT(30) DEF WriteMark, IndInv, StolenInv, TypeOK, ThiefInv, Over,
           Working, Passed, InStack
<1>5. ThiefInv'
    BY SMTT(30) DEF WriteMark, IndInv, ThiefInv, TypeOK, StolenInv, Over,
           Working, InStack, Passed
<1>6. OwnerInv'
    BY DEF WriteMark, IndInv, OwnerInv, Settled, Over
<1>7. ScanInv'
    BY DEF WriteMark, IndInv, ScanInv, Scanning
<1> QED BY <1>1, <1>2, <1>3, <1>4, <1>5, <1>6, <1>7 DEF IndInv

\* The thief lets LOCKED go.
LEMMA WriteUnlockStep ==
    ASSUME NEW th \in Thief, IndInv, WriteUnlock(th)
    PROVE  IndInv'
<1>1. TypeOK'
  <2>1. state' \in [Task -> SUBSET Bit]
    BY ZenonT(30) DEF WriteUnlock, IndInv, TypeOK
  <2> QED BY <2>1 DEF WriteUnlock, IndInv, TypeOK
<1>2. UnclaimedInv'
    BY DEF WriteUnlock, IndInv, UnclaimedInv
<1>3. OwnedInv'
    BY DEF WriteUnlock, IndInv, OwnedInv, Over
<1>4. StolenInv'
  <2>1. \A t \in Task : by[t] = th => Over(t)
    BY DEF WriteUnlock, IndInv, StolenInv, Working
  <2>2. \A t \in Task : \A b \in ExecutionState :
            b \in state'[t] <=> b \in state[t]
    BY SMTT(30) DEF WriteUnlock, IndInv, TypeOK, ThiefInv
  <2>3. \A t \in Task : Over(t)' <=> Over(t)
    BY <2>2 DEF Over
  <2>4. \A u \in Thief : u # th => tpc'[u] = tpc[u]
    BY DEF WriteUnlock, IndInv, TypeOK
  <2> QED BY SMTT(30), <2>1, <2>2, <2>3, <2>4
          DEF WriteUnlock, IndInv, TypeOK, StolenInv, Working, Passed
<1>5. ThiefInv'
    BY DEF WriteUnlock, IndInv, ThiefInv, Over, Working, InStack
<1>6. OwnerInv'
    BY DEF WriteUnlock, IndInv, OwnerInv, Settled, Over
<1>7. ScanInv'
    BY DEF WriteUnlock, IndInv, ScanInv, Scanning
<1> QED BY <1>1, <1>2, <1>3, <1>4, <1>5, <1>6, <1>7 DEF IndInv

-------------------------------------------------------------------------------
(* The theorems.                                                           *)

\* The frame starts with untouched tasks in front of the owner.
LEMMA InitLemma == Init => IndInv
<1> SUFFICES ASSUME Init PROVE IndInv
  OBVIOUS
<1>1. 1 \in 1..(NTask + 1) /\ 1 \in 1..MaxRound /\ 0 \in 0..NTask
  OBVIOUS
<1>2. TypeOK
  BY <1>1 DEF Init, TypeOK
<1>3. UnclaimedInv /\ OwnedInv /\ StolenInv
  BY DEF Init, UnclaimedInv, OwnedInv, StolenInv
<1>4. ThiefInv /\ OwnerInv /\ ScanInv
  BY DEF Init, ThiefInv, OwnerInv, ScanInv, Working, InStack, Scanning
<1> QED BY <1>2, <1>3, <1>4 DEF IndInv

\* Every step of the owner keeps the invariant.
LEMMA OwnerStepLemma ==
    ASSUME IndInv, OwnerStep
    PROVE  IndInv'
BY MarkExecWinsStep, MarkExecLosesStep, RunInPlaceStep, AfterStealStep,
   AdvanceStep, TryLockStep, TryLockFailsStep, CheckStateStep, WaitReservedStep,
   SignalStep, UnlockRedoStep, UnlockBlockStep, LeaveStep, ResumeStep,
   EndOfFrameStep, PopFrameStep, WaitLockStep, PushTasksStep, StopStep
   DEF OwnerStep

\* Every step of a thief keeps it, the one that gets the lock included.
LEMMA ThiefStepLemma ==
    ASSUME NEW th \in Thief, IndInv, LockStack(th) \/ ThiefStep(th)
    PROVE  IndInv'
BY LockStackStep, SkipTaskStep, TestStealableStep, MarkStealStep,
   MarkStealFailsStep, InitThiefTaskStep, PublishReservedStep, ReplyOkStep,
   NothingStolenStep, ThiefMarkExecStep, ThiefRunStep, WriteLockStep,
   WriteMarkStep, WriteUnlockStep
   DEF ThiefStep

\* A step that leaves the variables alone keeps it.
LEMMA StutterLemma == IndInv /\ UNCHANGED vars => IndInv'
<1> SUFFICES ASSUME IndInv, UNCHANGED vars PROVE IndInv'
  OBVIOUS
<1> USE DEF vars, IndInv
<1>1. TypeOK'
  BY DEF TypeOK
<1>2. UnclaimedInv' /\ OwnedInv'
  BY DEF UnclaimedInv, OwnedInv, Over
<1>3. StolenInv'
  BY DEF StolenInv, Over, Working, Passed
<1>4. ThiefInv' /\ ScanInv'
  BY DEF ThiefInv, ScanInv, Over, Working, InStack, Scanning
<1>5. OwnerInv'
  BY DEF OwnerInv, Settled, Over
<1> QED BY <1>1, <1>2, <1>3, <1>4, <1>5

\* The inductive invariant of the protocol on the state word.
THEOREM Invariance == Spec => []IndInv
<1>1. IndInv /\ [Next]_vars => IndInv'
  BY OwnerStepLemma, ThiefStepLemma, StutterLemma DEF Next
<1> QED BY InitLemma, <1>1, PTL DEF Spec

\* The bits, positions and slots of the code stay in their ranges: pc never
\* leaves the frame, and a thief's cursor goes one past its end at most.
THEOREM TypeCorrect == Spec => []TypeOK
<1>1. IndInv => TypeOK
  BY DEF IndInv
<1> QED BY Invariance, <1>1, PTL

\* kaapi_task_markexec and kaapi_task_marksteal let a body run at most once,
\* whatever the number of thieves and the interleaving.
THEOREM BodyRunsOnce == Spec => []BodyAtMostOnce
<1>1. IndInv => BodyAtMostOnce
  <2> SUFFICES ASSUME IndInv, NEW t \in Task PROVE runs[t] <= 1
    BY DEF BodyAtMostOnce
  <2>1. by[t] = None \/ by[t] = Owner \/ by[t] \in Thief
    BY DEF IndInv, TypeOK
  <2>2. CASE by[t] = None
    BY <2>2 DEF IndInv, UnclaimedInv
  <2>3. CASE by[t] = Owner
    BY <2>3 DEF IndInv, OwnedInv
  <2>4. CASE by[t] \in Thief
    BY <2>4 DEF IndInv, StolenInv
  <2> QED BY <2>1, <2>2, <2>3, <2>4
<1> QED BY Invariance, <1>1, PTL

\* kaapi_stack_execframe goes past a task only when its body has run and the
\* versions of a thief that renamed its parameters are merged.
THEOREM PassedIsComplete == Spec => []PassedTaskIsComplete
<1>1. IndInv => PassedTaskIsComplete
  BY DEF IndInv, OwnerInv, Settled, PassedTaskIsComplete
<1> QED BY Invariance, <1>1, PTL

\* A task is held by one thief task at most, and by none once its owner has
\* claimed it.
THEOREM ThiefTaskIsAlone == Spec => []ThiefTaskIsExclusive
<1>1. IndInv => ThiefTaskIsExclusive
  BY DEF IndInv, ThiefInv, Working, ThiefTaskIsExclusive
<1> QED BY Invariance, <1>1, PTL

\* What a thief marks is a task of the generation it was looking at: the wait
\* for the lock of the stack at the end of execframe is enough.
THEOREM ClaimIsFresh == Spec => NoStaleClaim
<1> DEFINE Fresh ==
      \A t \in Task : by'[t] # by[t] /\ by'[t] \in Thief
            => seen[by'[t]] = round
<1>1. IndInv /\ [Next]_vars => [Fresh]_vars
  <2> SUFFICES ASSUME IndInv, Next, NEW t \in Task,
                      by'[t] # by[t], by'[t] \in Thief
               PROVE  seen[by'[t]] = round
    BY DEF vars
  <2>1. CASE OwnerStep
    <3>1. by' = by \/ by' = [u \in Task |-> None]
                   \/ by' = [by EXCEPT ![pc] = Owner]
      BY <2>1 DEF OwnerStep, MarkExecWins, MarkExecLoses, RunInPlace,
         AfterSteal, Advance, TryLock, TryLockFails, CheckState, WaitReserved,
         Signal, UnlockRedo, UnlockBlock, Leave, Resume, EndOfFrame, PopFrame,
         WaitLock, PushTasks, Stop
    <3> QED BY <3>1 DEF IndInv, TypeOK
  <2>2. ASSUME NEW th \in Thief, LockStack(th) \/ ThiefStep(th)
        PROVE  seen[by'[t]] = round
    <3>1. CASE MarkSteal(th)
      BY <3>1 DEF MarkSteal, IndInv, TypeOK, ThiefInv, ScanInv, Scanning
    <3>2. CASE ~MarkSteal(th)
      BY <2>2, <3>2 DEF ThiefStep, LockStack, SkipTask, TestStealable,
         MarkStealFails, InitThiefTask, PublishReserved, ReplyOk,
         NothingStolen, ThiefMarkExec, ThiefRun, WriteLock, WriteMark,
         WriteUnlock
    <3> QED BY <3>1, <3>2
  <2> QED BY <2>1, <2>2 DEF Next
<1>2. Spec => [][Fresh]_vars
  BY Invariance, <1>1, PTL DEF Spec
<1> QED BY <1>2 DEF NoStaleClaim

-------------------------------------------------------------------------------
(* What is seen of the frame is a behaviour of TaskOnce.                   *)

\* A step that leaves alone what the status is read from leaves it alone.
LEMMA StatusStays ==
    ASSUME NEW t \in Task, by'[t] = by[t], runs'[t] = runs[t],
           versions'[t] = versions[t], Over(t)' <=> Over(t)
    PROVE  Status(t)' = Status(t)
BY DEF Status, Over

\* Such a step, when it also stays at pc in the same generation, is invisible.
LEMMA HiddenStep ==
    ASSUME by' = by, runs' = runs, versions' = versions, pc' = pc,
           round' = round, \A t \in Task : Over(t)' <=> Over(t)
    PROVE  UNCHANGED Once!vars
<1>1. \A t \in Task : Status(t)' = Status(t)
  BY StatusStays
<1> QED BY <1>1 DEF Once!vars

\* The steps of the owner that say nothing of what has been run.
LEMMA HiddenOwnerStep ==
    ASSUME IndInv,
           \/ MarkExecLoses \/ TryLock \/ TryLockFails \/ CheckState
           \/ WaitReserved \/ Signal \/ UnlockRedo \/ UnlockBlock \/ Leave
           \/ Resume \/ EndOfFrame \/ PopFrame \/ WaitLock \/ Stop
    PROVE  UNCHANGED Once!vars
<1>1. /\ by' = by /\ runs' = runs /\ versions' = versions
      /\ pc' = pc /\ round' = round
  BY DEF MarkExecLoses, TryLock, TryLockFails, CheckState, WaitReserved,
     Signal, UnlockRedo, UnlockBlock, Leave, Resume, EndOfFrame, PopFrame,
     WaitLock, Stop
<1>2. \A t \in Task : Over(t)' <=> Over(t)
  <2>1. state' = state
          \/ \E b \in {"EXEC", "LOCKED"} : SetBit(pc, b) \/ ClearBit(pc, b)
    BY DEF MarkExecLoses, TryLock, TryLockFails, CheckState, WaitReserved,
       Signal, UnlockRedo, UnlockBlock, Leave, Resume, EndOfFrame, PopFrame,
       WaitLock, Stop
  <2> QED BY <2>1 DEF IndInv, TypeOK, Over
<1> QED BY <1>1, <1>2, HiddenStep

\* The steps of a thief that neither claim a task nor run nor end one.
LEMMA HiddenThiefStep ==
    ASSUME IndInv, NEW th \in Thief,
           \/ LockStack(th) \/ SkipTask(th) \/ TestStealable(th)
           \/ MarkStealFails(th) \/ InitThiefTask(th) \/ PublishReserved(th)
           \/ ReplyOk(th) \/ NothingStolen(th) \/ ThiefMarkExec(th)
           \/ WriteLock(th) \/ WriteUnlock(th)
    PROVE  UNCHANGED Once!vars
<1>1. /\ by' = by /\ runs' = runs /\ versions' = versions
      /\ pc' = pc /\ round' = round
  BY DEF LockStack, SkipTask, TestStealable, MarkStealFails, InitThiefTask,
     PublishReserved, ReplyOk, NothingStolen, ThiefMarkExec, WriteLock,
     WriteUnlock
<1>2. CASE MarkStealFails(th)
  <2>1. \A t \in Task : Over(t)' <=> Over(t)
    BY <1>2 DEF MarkStealFails, IndInv, TypeOK, Over
  <2> QED BY <1>1, <2>1, HiddenStep
<1>3. CASE WriteLock(th) \/ WriteUnlock(th)
  <2>1. stolen[th] \in Task
    BY <1>3 DEF WriteLock, WriteUnlock, IndInv, ThiefInv, Working
  <2>2. \A t \in Task : \A b \in ExecutionState :
            b \in state'[t] <=> b \in state[t]
    <3>1. state' \in {[state EXCEPT ![stolen[th]] = @ \cup {"LOCKED"}],
                      [state EXCEPT ![stolen[th]] = @ \ {"LOCKED"}]}
      BY <1>3 DEF WriteLock, WriteUnlock
    <3>2. CASE state' = [state EXCEPT ![stolen[th]] = @ \cup {"LOCKED"}]
      BY <3>2, <2>1 DEF IndInv, TypeOK
    <3>3. CASE state' = [state EXCEPT ![stolen[th]] = @ \ {"LOCKED"}]
      BY <3>3, <2>1 DEF IndInv, TypeOK
    <3> QED BY <3>1, <3>2, <3>3
  <2>3. \A t \in Task : Over(t)' <=> Over(t)
    BY <2>2 DEF Over
  <2> QED BY <1>1, <2>3, HiddenStep
<1>4. CASE ~(MarkStealFails(th) \/ WriteLock(th) \/ WriteUnlock(th))
  <2>1. state' = state
    BY <1>4 DEF LockStack, SkipTask, TestStealable, InitThiefTask,
       PublishReserved, ReplyOk, NothingStolen, ThiefMarkExec
  <2> QED BY <1>1, <2>1, HiddenStep DEF Over
<1> QED BY <1>2, <1>3, <1>4

\* A task whose status changes is the only one whose status changes.
LEMMA OneStatus ==
    ASSUME NEW t \in Task, NEW s, Status(t)' = s,
           \A u \in Task \ {t} : Status(u)' = Status(u)
    PROVE  [u \in Task |-> Status(u)]'
              = [[u \in Task |-> Status(u)] EXCEPT ![t] = s]
OBVIOUS

\* markexec that wins, and marksteal that wins, are the claim of TaskOnce.
LEMMA ClaimByOwner ==
    ASSUME IndInv, MarkExecWins
    PROVE  Once!Claim(pc)
<1>1. pc \in Task /\ by[pc] = None /\ runs[pc] = 0
  BY DEF MarkExecWins, OldExecution, IndInv, TypeOK, UnclaimedInv, OwnedInv,
     StolenInv
<1>2. Status(pc) = "pending" /\ Status(pc)' = "claimed"
  BY <1>1 DEF MarkExecWins, Status, IndInv, TypeOK
<1>3. ASSUME NEW u \in Task \ {pc} PROVE Status(u)' = Status(u)
  <2>1. by'[u] = by[u] /\ runs'[u] = runs[u] /\ versions'[u] = versions[u]
    BY DEF MarkExecWins, IndInv, TypeOK
  <2>2. Over(u)' <=> Over(u)
    BY DEF MarkExecWins, IndInv, TypeOK, Over
  <2> QED BY <2>1, <2>2, StatusStays
<1>4. UNCHANGED <<pc, round>>
  BY DEF MarkExecWins
<1> QED BY <1>1, <1>2, <1>3, <1>4, OneStatus DEF Once!Claim

\* A thief claims the task its cursor is at, which nobody had claimed.
LEMMA ClaimByThief ==
    ASSUME IndInv, NEW th \in Thief, MarkSteal(th)
    PROVE  cur[th] \in Task /\ Once!Claim(cur[th])
<1>0. PICK t \in Task : t = cur[th]
  BY DEF MarkSteal, IndInv, ThiefInv
<1>1. state[t] \cap ExecutionState = {}
  <2>1. state[t] \cap {"STEAL", "TERM", "MERGE"} = {}
    BY <1>0 DEF MarkSteal, IndInv, ThiefInv
  <2>2. "EXEC" \notin state[t]
    BY <1>0 DEF MarkSteal
  <2> QED BY <2>1, <2>2 DEF ExecutionState
<1>2. by[t] = None /\ runs[t] = 0
  BY <1>1, SMTT(30) DEF IndInv, TypeOK, UnclaimedInv, OwnedInv, StolenInv
<1>3. by'[t] = th /\ runs'[t] = 0 /\ UNCHANGED <<pc, round>>
  BY <1>0, <1>2 DEF MarkSteal, IndInv, TypeOK
<1>4. Status(t) = "pending" /\ Status(t)' = "claimed"
  BY <1>2, <1>3 DEF Status
<1>5. ASSUME NEW u \in Task \ {t} PROVE Status(u)' = Status(u)
  <2>1. by'[u] = by[u] /\ runs'[u] = runs[u] /\ versions'[u] = versions[u]
    BY <1>0 DEF MarkSteal, IndInv, TypeOK
  <2>2. Over(u)' <=> Over(u)
    BY <1>0 DEF MarkSteal, IndInv, TypeOK, Over
  <2> QED BY <2>1, <2>2, StatusStays
<1> QED BY <1>0, <1>3, <1>4, <1>5, OneStatus DEF Once!Claim

\* A body run by the owner leaves its task complete at once.
LEMMA RunByOwner ==
    ASSUME IndInv, RunInPlace
    PROVE  pc \in Task /\ Once!Run(pc)
<1>1. pc \in Task /\ by[pc] = Owner /\ runs[pc] = 0
  BY DEF RunInPlace, IndInv, OwnerInv, OwnedInv
<1>2. by' = by /\ runs'[pc] = 1 /\ UNCHANGED <<pc, round>>
  BY <1>1 DEF RunInPlace, IndInv, TypeOK
<1>3. Status(pc) = "claimed" /\ Status(pc)' = "complete"
  BY <1>1, <1>2 DEF Status
<1>4. ASSUME NEW u \in Task \ {pc} PROVE Status(u)' = Status(u)
  <2>1. by'[u] = by[u] /\ runs'[u] = runs[u] /\ versions'[u] = versions[u]
    BY DEF RunInPlace, IndInv, TypeOK
  <2>2. Over(u)' <=> Over(u)
    BY DEF RunInPlace, Over
  <2> QED BY <2>1, <2>2, StatusStays
<1> QED BY <1>1, <1>2, <1>3, <1>4, OneStatus DEF Once!Run

\* A body run by a thief leaves its task to be ended.
LEMMA RunByThief ==
    ASSUME IndInv, NEW th \in Thief, ThiefRun(th)
    PROVE  stolen[th] \in Task /\ Once!Run(stolen[th])
<1>0. PICK t \in Task : t = stolen[th]
  BY DEF ThiefRun, IndInv, ThiefInv, Working
<1>1. by[t] = th /\ ~Over(t)
  BY <1>0 DEF ThiefRun, IndInv, ThiefInv, Working
<1>2. runs[t] = 0
  BY <1>0, <1>1 DEF ThiefRun, IndInv, StolenInv
<1>3. by' = by /\ runs'[t] = 1 /\ state' = state /\ UNCHANGED <<pc, round>>
  BY <1>0, <1>2 DEF ThiefRun, IndInv, TypeOK
<1>4. Status(t) = "claimed" /\ Status(t)' = "ran"
  BY <1>1, <1>2, <1>3 DEF Status, Over
<1>5. ASSUME NEW u \in Task \ {t} PROVE Status(u)' = Status(u)
  <2>1. by'[u] = by[u] /\ runs'[u] = runs[u] /\ versions'[u] = versions[u]
    BY <1>0 DEF ThiefRun, IndInv, TypeOK
  <2>2. Over(u)' <=> Over(u)
    BY DEF ThiefRun, Over
  <2> QED BY <2>1, <2>2, StatusStays
<1> QED BY <1>0, <1>3, <1>4, <1>5, OneStatus DEF Once!Run

\* The end of a stolen task completes it, or leaves it to be merged.
LEMMA EndByThief ==
    ASSUME IndInv, NEW th \in Thief, WriteMark(th)
    PROVE  stolen[th] \in Task
           /\ (Once!Complete(stolen[th]) \/ UNCHANGED Once!vars)
<1>0. PICK t \in Task : t = stolen[th]
  BY DEF WriteMark, IndInv, ThiefInv, Working
<1>1. by[t] = th /\ ~Over(t)
  BY <1>0 DEF WriteMark, IndInv, ThiefInv, Working
<1>2. runs[t] = 1 /\ versions[t] = IF needMerge[th] THEN 1 ELSE 0
  BY <1>0, <1>1 DEF WriteMark, IndInv, StolenInv
<1>3. /\ by' = by /\ runs' = runs /\ versions' = versions
      /\ UNCHANGED <<pc, round>>
  BY DEF WriteMark
<1>4. Over(t)'
  BY <1>0 DEF WriteMark, IndInv, TypeOK, Over
<1>5. Status(t) = "ran" /\ Status(t)' = IF needMerge[th] THEN "ran" ELSE "complete"
  BY <1>1, <1>2, <1>3, <1>4 DEF Status, Over
<1>6. ASSUME NEW u \in Task \ {t} PROVE Status(u)' = Status(u)
  <2>1. Over(u)' <=> Over(u)
    BY <1>0 DEF WriteMark, IndInv, TypeOK, Over
  <2> QED BY <1>3, <2>1, StatusStays
<1>7. CASE needMerge[th]
  BY <1>0, <1>3, <1>5, <1>6, <1>7 DEF Once!vars
<1>8. CASE ~needMerge[th]
  BY <1>0, <1>3, <1>5, <1>6, <1>8, OneStatus DEF Once!Complete
<1> QED BY <1>0, <1>7, <1>8

\* The merge of the versions of a thief completes the task.
LEMMA MergeByOwner ==
    ASSUME IndInv, AfterSteal
    PROVE  pc \in Task /\ Once!Complete(pc)
<1>1. pc \in Task /\ by[pc] \in Thief /\ "MERGE" \in state[pc]
  BY DEF AfterSteal, IndInv, OwnerInv
<1>2. Over(pc) /\ runs[pc] = 1
  BY <1>1 DEF IndInv, StolenInv, Over
<1>3. versions[pc] = 1
  BY <1>1 DEF AfterSteal, IndInv, StolenInv, Passed
<1>4. /\ by' = by /\ runs' = runs /\ versions'[pc] = 0 /\ state' = state
      /\ UNCHANGED <<pc, round>>
  BY <1>1, <1>3 DEF AfterSteal, IndInv, TypeOK
<1>5. Status(pc) = "ran" /\ Status(pc)' = "complete"
  BY <1>1, <1>2, <1>3, <1>4 DEF Status, Over
<1>6. ASSUME NEW u \in Task \ {pc} PROVE Status(u)' = Status(u)
  <2>1. versions'[u] = versions[u]
    BY DEF AfterSteal, IndInv, TypeOK
  <2>2. Over(u)' <=> Over(u)
    BY <1>4 DEF Over
  <2> QED BY <1>4, <2>1, <2>2, StatusStays
<1> QED BY <1>1, <1>4, <1>5, <1>6, OneStatus DEF Once!Complete

\* The next iteration of execframe passes a task that is complete.
LEMMA AdvanceIsPass ==
    ASSUME IndInv, Advance
    PROVE  Once!Pass
<1>1. pc \in Task /\ Settled(pc)
  BY DEF Advance, IndInv, OwnerInv
<1>2. Status(pc) = "complete"
  BY <1>1 DEF Settled, Status, Over, IndInv, TypeOK
<1>3. \A t \in Task : Status(t)' = Status(t)
  BY StatusStays DEF Advance, Over
<1> QED BY <1>1, <1>2, <1>3 DEF Once!Pass, Once!Task, Advance

\* New tasks are pushed only in a frame that has been emptied.
LEMMA PushIsRefill ==
    ASSUME IndInv, PushTasks
    PROVE  Once!Refill
<1>1. pc = NTask + 1
  BY DEF PushTasks, IndInv, OwnerInv
<1>2. \A t \in Task : Status(t)' = "pending"
  BY DEF PushTasks, Status
<1> QED BY <1>1, <1>2 DEF Once!Refill, Once!Task, PushTasks

\* Every step of owner or thief is a step of TaskOnce, or invisible.
LEMMA NextLemma ==
    ASSUME IndInv, Next
    PROVE  [Once!Next]_(Once!vars)
<1> USE DEF Once!Next, Once!Task
<1>1. CASE OwnerStep
  <2>1. CASE MarkExecWins
    BY <2>1, ClaimByOwner DEF MarkExecWins
  <2>2. CASE RunInPlace
    BY <2>2, RunByOwner
  <2>3. CASE AfterSteal
    BY <2>3, MergeByOwner
  <2>4. CASE Advance
    BY <2>4, AdvanceIsPass
  <2>5. CASE PushTasks
    BY <2>5, PushIsRefill
  <2> QED BY <1>1, <2>1, <2>2, <2>3, <2>4, <2>5, HiddenOwnerStep DEF OwnerStep
<1>2. ASSUME NEW th \in Thief, LockStack(th) \/ ThiefStep(th)
      PROVE  [Once!Next]_(Once!vars)
  <2>1. CASE MarkSteal(th)
    BY <2>1, ClaimByThief
  <2>2. CASE ThiefRun(th)
    BY <2>2, RunByThief
  <2>3. CASE WriteMark(th)
    BY <2>3, EndByThief
  <2> QED BY <1>2, <2>1, <2>2, <2>3, HiddenThiefStep DEF ThiefStep
<1> QED BY <1>1, <1>2 DEF Next

\* Whatever is stolen, preempted, renamed and merged, the tasks of a frame are
\* claimed once, run once, completed and passed in order, as TaskOnce says.
THEOREM TaskOnceIsImplemented == Spec => ImplementsTaskOnce
<1>1. Init => Once!Init
  <2> SUFFICES ASSUME Init PROVE Once!Init
    OBVIOUS
  <2>1. \A t \in Task : Status(t) = "pending"
    BY DEF Init, Status
  <2> QED BY <2>1 DEF Init, Once!Init, Once!Task
<1>2. IndInv /\ [Next]_vars => [Once!Next]_(Once!vars)
  <2> SUFFICES ASSUME IndInv, [Next]_vars PROVE [Once!Next]_(Once!vars)
    OBVIOUS
  <2>1. CASE Next
    BY <2>1, NextLemma
  <2>2. CASE UNCHANGED vars
    BY <2>2, HiddenStep DEF vars, Over
  <2> QED BY <2>1, <2>2
<1> QED BY <1>1, <1>2, Invariance, PTL DEF Spec, ImplementsTaskOnce, Once!Spec
===============================================================================
