-------------------------- MODULE SuspendResumeProofs --------------------------
(***************************************************************************)
(* Proofs about SuspendResume, for any threads and any number of regions.  *)
(*                                                                         *)
(* The flag is changed by the main thread only, and its place tells what   *)
(* the flag is.  A thread that sleeps with an older sequence number than   *)
(* the last belongs to a round that was resumed.                           *)
(***************************************************************************)
EXTENDS SuspendResume, FiniteSetTheorems, TLAPS

Locking == {"lock", "xchg", "fwait", "msleep", "critical"}
Unlocking == {"ufast", "uslow", "uspin", "uclear", "uwake"}
Waking == {"bcast", "wakeall"}

PlaceInv ==
    /\ pc[Main] \in MainLocation \cup MutexLocation
    /\ \A w \in Worker : pc[w] \in WorkerLocation \cup MutexLocation

\* The word of the mutex is set as long as somebody is inside.
MutexInv ==
    /\ MutexIsExclusive
    /\ \A t \in Thread : Holds(t) => locked = 1

\* The flag, the depth of the regions and what comes next, by the place of the
\* main thread.
MainInv ==
    /\ pc[Main] \in {"create", "initwait", "postround", "postflag", "waitflag", "waitspin"}
        => depth = 0
    /\ pc[Main] \in {"create", "initwait", "postround", "postflag"} \cup Unlocking \cup Waking
        => flag = 0
    /\ pc[Main] \in {"waitflag", "waitspin"} => flag # 0
    /\ pc[Main] \in Locking \cup Unlocking \cup Waking => after # "waitflag"
    /\ pc[Main] = "run" /\ depth > 0 => flag = 0

\* The first round is announced before the flag is set.
RoundInv == flag # 0 \/ pc[Main] = "postflag" => round > 0

\* A thread that sleeps was told to for a round up to the last; for the last, with
\* the last sequence number unless the round is being resumed.
SleepInv ==
    \A w \in Worker :
        /\ pc[w] \in {"cwait", "csleep"} => Sleeps(w)
        /\ Sleeps(w) =>
            /\ pc[w] \in Unlocking \cup {"cwait", "csleep"}
            /\ myround[w] \in 1 .. round
            /\ myseq[w] # seq /\ myround[w] = round => flag = 0
            /\ pc[Main] = "postflag" => myround[w] # round

IndInv ==
    /\ TypeOK /\ PlaceInv
    /\ MutexInv /\ MainInv /\ RoundInv /\ SleepInv /\ NoLostWakeUp

-------------------------------------------------------------------------------
(* The initial states, and each action, by conjunct of the invariant.      *)

LEMMA InitInv == Init => IndInv
<1> SUFFICES ASSUME Init PROVE IndInv
  OBVIOUS
<1> USE ConstantsAssumption DEF Init, Thread
<1>1. TypeOK
  <2>1. kprocs \in Int /\ init1 \in Int /\ term \in Int
    BY FS_CardinalityType
  <2> QED
    BY <2>1 DEF TypeOK, MainLocation, WorkerLocation, NoSeq
<1>2. PlaceInv /\ MutexInv /\ MainInv
  BY DEF PlaceInv, MutexInv, MutexIsExclusive, Holds, MainInv, MainLocation,
         WorkerLocation, Locking, Unlocking, Waking
<1>3. RoundInv /\ SleepInv /\ NoLostWakeUp
  BY DEF RoundInv, SleepInv, Sleeps, NoLostWakeUp, Asleep
<1> QED
  BY <1>1, <1>2, <1>3 DEF IndInv

\* Shapes.
LEMMA TypeStep ==
    ASSUME IndInv, Next
    PROVE  TypeOK'
<1> USE ConstantsAssumption DEF IndInv, TypeOK, Thread,
    mutex, cond, suspension, local, barriers, program, MainLocation, WorkerLocation, MutexLocation
<1>1. ASSUME NEW t \in Thread, Mutex(t) PROVE TypeOK'
  <2>1. CASE LockSpin(t)
    BY <2>1 DEF LockSpin, Goto
  <2>2. CASE LockGiveUp(t)
    BY <2>2 DEF LockGiveUp, Goto
  <2>3. CASE LockXchg(t)
    BY <2>3 DEF LockXchg, Goto
  <2>4. CASE LockSleep(t)
    BY <2>4 DEF LockSleep, Goto
  <2>5. CASE UnlockFast(t)
    BY <2>5 DEF UnlockFast, Goto, AfterUnlock
  <2>6. CASE UnlockContended(t)
    BY <2>6 DEF UnlockContended, Goto
  <2>7. CASE UnlockSlow(t)
    BY <2>7 DEF UnlockSlow, Goto
  <2>8. CASE UnlockTaken(t)
    BY <2>8 DEF UnlockTaken, Goto, AfterUnlock
  <2>9. CASE UnlockGiveUp(t)
    BY <2>9 DEF UnlockGiveUp, Goto
  <2>10. CASE UnlockClear(t)
    BY <2>10 DEF UnlockClear, Goto
  <2>11. CASE UnlockWake(t)
    BY <2>11 DEF UnlockWake, Goto, AfterUnlock
  <2> QED
    BY <1>1, <2>1, <2>2, <2>3, <2>4, <2>5, <2>6, <2>7, <2>8, <2>9, <2>10, <2>11 DEF Mutex
<1>2. ASSUME NEW w \in Worker, Suspend(w) \/ Live(w) PROVE TypeOK'
  <2>1. CASE SuspendSelf(w)
    <3>1. CASE flag = 0
      BY <2>1, <3>1 DEF SuspendSelf, Goto
    <3>2. CASE flag # 0
      <4>1. count' \in Nat /\ myround' \in [Worker -> Nat]
        BY <2>1, <3>2 DEF SuspendSelf
      <4>2. myseq' \in [Worker -> Nat \cup {NoSeq}] /\ used' = TRUE
        BY <2>1, <3>2 DEF SuspendSelf
      <4> QED
        BY <2>1, <3>2, <4>1, <4>2 DEF SuspendSelf, Goto
    <3> QED
      BY <3>1, <3>2
  <2>2. CASE CondSleep(w)
    BY <2>2 DEF CondSleep, Goto
  <2>3. CASE Awake(w)
    BY <2>3 DEF Awake, Goto
  <2>4. CASE Register(w)
    BY <2>4 DEF Register, Goto
  <2>5. CASE BirthFails(w)
    BY <2>5 DEF BirthFails, Goto
  <2>6. CASE EndInit(w)
    BY <2>6 DEF EndInit, Goto
  <2>7. CASE WaitInit2(w)
    BY <2>7 DEF WaitInit2, Goto
  <2>8. CASE TestFlag(w)
    BY <2>8 DEF TestFlag, Goto
  <2>9. CASE TestTerm(w)
    BY <2>9 DEF TestTerm, Goto
  <2>10. CASE Bye(w)
    BY <2>10 DEF Bye, Goto
  <2> QED
    BY <1>2, <2>1, <2>2, <2>3, <2>4, <2>5, <2>6, <2>7, <2>8, <2>9, <2>10 DEF Suspend, Live
<1>3. CASE Call
  <2>1. CASE CreateWorker
    BY <2>1 DEF CreateWorker, Goto
  <2>2. CASE AllCreated
    BY <2>2 DEF AllCreated, Goto
  <2>3. CASE WaitInit
    BY <2>3 DEF WaitInit, Goto
  <2>4. CASE PostRound
    BY <2>4 DEF PostRound, Goto
  <2>5. CASE PostFlag
    BY <2>5 DEF PostFlag, Goto
  <2>6. CASE WaitFlag
    BY <2>6 DEF WaitFlag, Goto
  <2>7. CASE WaitSpin
    BY <2>7 DEF WaitSpin, Goto
  <2>8. CASE ResumeFlag
    BY <2>8 DEF ResumeFlag, Goto
  <2>9. CASE Broadcast
    BY <2>9 DEF Broadcast, Goto
  <2>10. CASE WakeAll
    BY <2>10 DEF WakeAll, Goto, Asleep
  <2>11. CASE SetTerm
    BY <2>11 DEF SetTerm, Goto
  <2>12. CASE TermDec
    BY <2>12 DEF TermDec, Goto
  <2>13. CASE Free
    BY <2>13 DEF Free, Goto
  <2>14. CASE CreateFails
    <3>1. Cardinality({w \in Worker : pc[w] # "none"}) \in Nat
      BY FS_Subset, FS_CardinalityType
    <3> QED
      BY <2>14, <3>1 DEF CreateFails, Goto
  <2> QED
    BY <1>3, <2>1, <2>2, <2>3, <2>4, <2>5, <2>6, <2>7, <2>8, <2>9, <2>10, <2>11, <2>12, <2>13, <2>14 DEF Call
<1>4. CASE Program
  <2>1. CASE BeginParallel
    BY <2>1 DEF BeginParallel, Goto
  <2>2. CASE EndParallel
    BY <2>2 DEF EndParallel, Goto
  <2>3. CASE Finalize
    BY <2>3 DEF Finalize, Goto
  <2> QED
    BY <1>4, <2>1, <2>2, <2>3 DEF Program
<1>5. CASE Interrupted
  <2>1. ASSUME NEW t \in Thread, LockInterrupted(t) PROVE TypeOK'
    BY <2>1 DEF LockInterrupted, Goto
  <2>2. ASSUME NEW w \in Worker, CondInterrupted(w) PROVE TypeOK'
    BY <2>2 DEF CondInterrupted
  <2> QED
    BY <1>5, <2>1, <2>2 DEF Interrupted
<1> QED
  BY <1>1, <1>2, <1>3, <1>4, <1>5 DEF Next

\* Places of the main thread and of the others.
LEMMA PlaceStep ==
    ASSUME IndInv, Next
    PROVE  PlaceInv'
<1> USE ConstantsAssumption DEF IndInv, TypeOK, PlaceInv, MainInv, Thread,
    MainLocation, WorkerLocation, MutexLocation, mutex, cond, suspension, local, barriers, program,
    Locking, Unlocking, Waking
<1>1. ASSUME NEW t \in Thread, Mutex(t) PROVE PlaceInv'
  <2>1. CASE LockSpin(t)
    BY <2>1 DEF LockSpin, Goto
  <2>2. CASE LockGiveUp(t)
    BY <2>2 DEF LockGiveUp, Goto
  <2>3. CASE LockXchg(t)
    BY <2>3 DEF LockXchg, Goto
  <2>4. CASE LockSleep(t)
    BY <2>4 DEF LockSleep, Goto
  <2>5. CASE UnlockFast(t)
    BY <2>5 DEF UnlockFast, Goto, AfterUnlock
  <2>6. CASE UnlockContended(t)
    BY <2>6 DEF UnlockContended, Goto
  <2>7. CASE UnlockSlow(t)
    BY <2>7 DEF UnlockSlow, Goto
  <2>8. CASE UnlockTaken(t)
    BY <2>8 DEF UnlockTaken, Goto, AfterUnlock
  <2>9. CASE UnlockGiveUp(t)
    BY <2>9 DEF UnlockGiveUp, Goto
  <2>10. CASE UnlockClear(t)
    BY <2>10 DEF UnlockClear, Goto
  <2>11. CASE UnlockWake(t)
    BY <2>11 DEF UnlockWake, Goto, AfterUnlock
  <2> QED
    BY <1>1, <2>1, <2>2, <2>3, <2>4, <2>5, <2>6, <2>7, <2>8, <2>9, <2>10, <2>11 DEF Mutex
<1>2. ASSUME NEW w \in Worker, Suspend(w) \/ Live(w) PROVE PlaceInv'
  <2>1. CASE SuspendSelf(w)
    BY <2>1 DEF SuspendSelf, Goto, First
  <2>2. CASE CondSleep(w)
    BY <2>2 DEF CondSleep, Goto
  <2>3. CASE Awake(w)
    BY <2>3 DEF Awake, Goto
  <2>4. CASE Register(w)
    BY <2>4 DEF Register, Goto
  <2>5. CASE BirthFails(w)
    BY <2>5 DEF BirthFails, Goto
  <2>6. CASE EndInit(w)
    BY <2>6 DEF EndInit, Goto
  <2>7. CASE WaitInit2(w)
    BY <2>7 DEF WaitInit2, Goto
  <2>8. CASE TestFlag(w)
    BY <2>8 DEF TestFlag, Goto
  <2>9. CASE TestTerm(w)
    BY <2>9 DEF TestTerm, Goto
  <2>10. CASE Bye(w)
    BY <2>10 DEF Bye, Goto
  <2> QED
    BY <1>2, <2>1, <2>2, <2>3, <2>4, <2>5, <2>6, <2>7, <2>8, <2>9, <2>10 DEF Suspend, Live
<1>3. CASE Call
  <2>1. CASE CreateWorker
    BY <2>1 DEF CreateWorker, Goto
  <2>2. CASE AllCreated
    BY <2>2 DEF AllCreated, Goto
  <2>3. CASE WaitInit
    BY <2>3 DEF WaitInit, Goto
  <2>4. CASE PostRound
    BY <2>4 DEF PostRound, Goto
  <2>5. CASE PostFlag
    BY <2>5 DEF PostFlag, Goto
  <2>6. CASE WaitFlag
    BY <2>6 DEF WaitFlag, Goto
  <2>7. CASE WaitSpin
    BY <2>7 DEF WaitSpin, Goto
  <2>8. CASE ResumeFlag
    BY <2>8 DEF ResumeFlag, Goto
  <2>9. CASE Broadcast
    BY <2>9 DEF Broadcast, Goto
  <2>10. CASE WakeAll
    BY <2>10 DEF WakeAll, Goto, Asleep
  <2>11. CASE SetTerm
    BY <2>11 DEF SetTerm, Goto
  <2>12. CASE TermDec
    BY <2>12 DEF TermDec, Goto
  <2>13. CASE Free
    BY <2>13 DEF Free, Goto
  <2>14. CASE CreateFails
    BY <2>14 DEF CreateFails, Goto
  <2> QED
    BY <1>3, <2>1, <2>2, <2>3, <2>4, <2>5, <2>6, <2>7, <2>8, <2>9, <2>10, <2>11, <2>12, <2>13, <2>14 DEF Call
<1>4. CASE Program
  <2>1. CASE BeginParallel
    BY <2>1 DEF BeginParallel, Goto
  <2>2. CASE EndParallel
    BY <2>2 DEF EndParallel, Goto
  <2>3. CASE Finalize
    BY <2>3 DEF Finalize, Goto
  <2> QED
    BY <1>4, <2>1, <2>2, <2>3 DEF Program
<1>5. CASE Interrupted
  <2>1. ASSUME NEW t \in Thread, LockInterrupted(t) PROVE PlaceInv'
    BY <2>1 DEF LockInterrupted, Goto
  <2>2. ASSUME NEW w \in Worker, CondInterrupted(w) PROVE PlaceInv'
    BY <2>2 DEF CondInterrupted
  <2> QED
    BY <1>5, <2>1, <2>2 DEF Interrupted
<1> QED
  BY <1>1, <1>2, <1>3, <1>4, <1>5 DEF Next

\* The mutex.
LEMMA MutexStep ==
    ASSUME IndInv, Next
    PROVE  MutexInv'
<1> USE ConstantsAssumption DEF IndInv, TypeOK, PlaceInv, MutexInv, MutexIsExclusive,
    Holds, Thread, mutex, cond, suspension, local, barriers, program,
    MainLocation, WorkerLocation, MutexLocation
<1>1. ASSUME NEW t \in Thread, Mutex(t) PROVE MutexInv'
  <2>1. CASE LockSpin(t)
    BY <2>1 DEF LockSpin, Goto
  <2>2. CASE LockGiveUp(t)
    BY <2>2 DEF LockGiveUp, Goto
  <2>3. CASE LockXchg(t)
    BY <2>3 DEF LockXchg, Goto
  <2>4. CASE LockSleep(t)
    BY <2>4 DEF LockSleep, Goto
  <2>5. CASE UnlockFast(t)
    BY <2>5 DEF UnlockFast, Goto, AfterUnlock
  <2>6. CASE UnlockContended(t)
    BY <2>6 DEF UnlockContended, Goto
  <2>7. CASE UnlockSlow(t)
    BY <2>7 DEF UnlockSlow, Goto
  <2>8. CASE UnlockTaken(t)
    BY <2>8 DEF UnlockTaken, Goto, AfterUnlock
  <2>9. CASE UnlockGiveUp(t)
    BY <2>9 DEF UnlockGiveUp, Goto
  <2>10. CASE UnlockClear(t)
    BY <2>10 DEF UnlockClear, Goto
  <2>11. CASE UnlockWake(t)
    BY <2>11 DEF UnlockWake, Goto, AfterUnlock
  <2> QED
    BY <1>1, <2>1, <2>2, <2>3, <2>4, <2>5, <2>6, <2>7, <2>8, <2>9, <2>10, <2>11 DEF Mutex
<1>2. ASSUME NEW w \in Worker, Suspend(w) \/ Live(w) PROVE MutexInv'
  <2>1. CASE SuspendSelf(w)
    BY <2>1 DEF SuspendSelf, Goto, First
  <2>2. CASE CondSleep(w)
    BY <2>2 DEF CondSleep, Goto
  <2>3. CASE Awake(w)
    BY <2>3 DEF Awake, Goto
  <2>4. CASE Register(w)
    BY <2>4 DEF Register, Goto
  <2>5. CASE BirthFails(w)
    BY <2>5 DEF BirthFails, Goto
  <2>6. CASE EndInit(w)
    BY <2>6 DEF EndInit, Goto
  <2>7. CASE WaitInit2(w)
    BY <2>7 DEF WaitInit2, Goto
  <2>8. CASE TestFlag(w)
    BY <2>8 DEF TestFlag, Goto
  <2>9. CASE TestTerm(w)
    BY <2>9 DEF TestTerm, Goto
  <2>10. CASE Bye(w)
    BY <2>10 DEF Bye, Goto
  <2> QED
    BY <1>2, <2>1, <2>2, <2>3, <2>4, <2>5, <2>6, <2>7, <2>8, <2>9, <2>10 DEF Suspend, Live
<1>3. CASE Call
  <2>1. CASE CreateWorker
    BY <2>1 DEF CreateWorker, Goto
  <2>2. CASE AllCreated
    BY <2>2 DEF AllCreated, Goto
  <2>3. CASE WaitInit
    BY <2>3 DEF WaitInit, Goto
  <2>4. CASE PostRound
    BY <2>4 DEF PostRound, Goto
  <2>5. CASE PostFlag
    BY <2>5 DEF PostFlag, Goto
  <2>6. CASE WaitFlag
    BY <2>6 DEF WaitFlag, Goto
  <2>7. CASE WaitSpin
    BY <2>7 DEF WaitSpin, Goto
  <2>8. CASE ResumeFlag
    BY <2>8 DEF ResumeFlag, Goto
  <2>9. CASE Broadcast
    BY <2>9 DEF Broadcast, Goto
  <2>10. CASE WakeAll
    BY <2>10 DEF WakeAll, Goto, Asleep
  <2>11. CASE SetTerm
    BY <2>11 DEF SetTerm, Goto
  <2>12. CASE TermDec
    BY <2>12 DEF TermDec, Goto
  <2>13. CASE Free
    BY <2>13 DEF Free, Goto
  <2>14. CASE CreateFails
    BY <2>14 DEF CreateFails, Goto
  <2> QED
    BY <1>3, <2>1, <2>2, <2>3, <2>4, <2>5, <2>6, <2>7, <2>8, <2>9, <2>10, <2>11, <2>12, <2>13, <2>14 DEF Call
<1>4. CASE Program
  <2>1. CASE BeginParallel
    BY <2>1 DEF BeginParallel, Goto
  <2>2. CASE EndParallel
    BY <2>2 DEF EndParallel, Goto
  <2>3. CASE Finalize
    BY <2>3 DEF Finalize, Goto
  <2> QED
    BY <1>4, <2>1, <2>2, <2>3 DEF Program
<1>5. CASE Interrupted
  <2>1. ASSUME NEW t \in Thread, LockInterrupted(t) PROVE MutexInv'
    BY <2>1 DEF LockInterrupted, Goto
  <2>2. ASSUME NEW w \in Worker, CondInterrupted(w) PROVE MutexInv'
    BY <2>2 DEF CondInterrupted
  <2> QED
    BY <1>5, <2>1, <2>2 DEF Interrupted
<1> QED
  BY <1>1, <1>2, <1>3, <1>4, <1>5 DEF Next

\* The main thread.
LEMMA MainStep ==
    ASSUME IndInv, Next
    PROVE  MainInv'
<1> USE ConstantsAssumption DEF IndInv, TypeOK, PlaceInv, MainInv, Thread, mutex, cond, suspension, local, barriers, program,
    MainLocation, WorkerLocation, MutexLocation, Locking, Unlocking, Waking
<1>1. ASSUME NEW t \in Thread, Mutex(t) PROVE MainInv'
  <2>1. CASE LockSpin(t)
    BY <2>1 DEF LockSpin, Goto
  <2>2. CASE LockGiveUp(t)
    BY <2>2 DEF LockGiveUp, Goto
  <2>3. CASE LockXchg(t)
    BY <2>3 DEF LockXchg, Goto
  <2>4. CASE LockSleep(t)
    BY <2>4 DEF LockSleep, Goto
  <2>5. CASE UnlockFast(t)
    BY <2>5 DEF UnlockFast, Goto, AfterUnlock
  <2>6. CASE UnlockContended(t)
    BY <2>6 DEF UnlockContended, Goto
  <2>7. CASE UnlockSlow(t)
    BY <2>7 DEF UnlockSlow, Goto
  <2>8. CASE UnlockTaken(t)
    BY <2>8 DEF UnlockTaken, Goto, AfterUnlock
  <2>9. CASE UnlockGiveUp(t)
    BY <2>9 DEF UnlockGiveUp, Goto
  <2>10. CASE UnlockClear(t)
    BY <2>10 DEF UnlockClear, Goto
  <2>11. CASE UnlockWake(t)
    BY <2>11 DEF UnlockWake, Goto, AfterUnlock
  <2> QED
    BY <1>1, <2>1, <2>2, <2>3, <2>4, <2>5, <2>6, <2>7, <2>8, <2>9, <2>10, <2>11 DEF Mutex
<1>2. ASSUME NEW w \in Worker, Suspend(w) \/ Live(w) PROVE MainInv'
  <2>1. CASE SuspendSelf(w)
    BY <2>1 DEF SuspendSelf, Goto, First
  <2>2. CASE CondSleep(w)
    BY <2>2 DEF CondSleep, Goto
  <2>3. CASE Awake(w)
    BY <2>3 DEF Awake, Goto
  <2>4. CASE Register(w)
    BY <2>4 DEF Register, Goto
  <2>5. CASE BirthFails(w)
    BY <2>5 DEF BirthFails, Goto
  <2>6. CASE EndInit(w)
    BY <2>6 DEF EndInit, Goto
  <2>7. CASE WaitInit2(w)
    BY <2>7 DEF WaitInit2, Goto
  <2>8. CASE TestFlag(w)
    BY <2>8 DEF TestFlag, Goto
  <2>9. CASE TestTerm(w)
    BY <2>9 DEF TestTerm, Goto
  <2>10. CASE Bye(w)
    BY <2>10 DEF Bye, Goto
  <2> QED
    BY <1>2, <2>1, <2>2, <2>3, <2>4, <2>5, <2>6, <2>7, <2>8, <2>9, <2>10 DEF Suspend, Live
<1>3. CASE Call
  <2>1. CASE CreateWorker
    BY <2>1 DEF CreateWorker, Goto
  <2>2. CASE AllCreated
    BY <2>2 DEF AllCreated, Goto
  <2>3. CASE WaitInit
    BY <2>3 DEF WaitInit, Goto
  <2>4. CASE PostRound
    BY <2>4 DEF PostRound, Goto
  <2>5. CASE PostFlag
    BY <2>5 DEF PostFlag, Goto
  <2>6. CASE WaitFlag
    BY <2>6 DEF WaitFlag, Goto
  <2>7. CASE WaitSpin
    BY <2>7 DEF WaitSpin, Goto
  <2>8. CASE ResumeFlag
    BY <2>8 DEF ResumeFlag, Goto
  <2>9. CASE Broadcast
    BY <2>9 DEF Broadcast, Goto
  <2>10. CASE WakeAll
    BY <2>10 DEF WakeAll, Goto, Asleep
  <2>11. CASE SetTerm
    BY <2>11 DEF SetTerm, Goto
  <2>12. CASE TermDec
    BY <2>12 DEF TermDec, Goto
  <2>13. CASE Free
    BY <2>13 DEF Free, Goto
  <2>14. CASE CreateFails
    BY <2>14 DEF CreateFails, Goto
  <2> QED
    BY <1>3, <2>1, <2>2, <2>3, <2>4, <2>5, <2>6, <2>7, <2>8, <2>9, <2>10, <2>11, <2>12, <2>13, <2>14 DEF Call
<1>4. CASE Program
  <2>1. CASE BeginParallel
    BY <2>1 DEF BeginParallel, Goto
  <2>2. CASE EndParallel
    BY <2>2 DEF EndParallel, Goto
  <2>3. CASE Finalize
    BY <2>3 DEF Finalize, Goto
  <2> QED
    BY <1>4, <2>1, <2>2, <2>3 DEF Program
<1>5. CASE Interrupted
  <2>1. ASSUME NEW t \in Thread, LockInterrupted(t) PROVE MainInv'
    BY <2>1 DEF LockInterrupted, Goto
  <2>2. ASSUME NEW w \in Worker, CondInterrupted(w) PROVE MainInv'
    BY <2>2 DEF CondInterrupted
  <2> QED
    BY <1>5, <2>1, <2>2 DEF Interrupted
<1> QED
  BY <1>1, <1>2, <1>3, <1>4, <1>5 DEF Next

\* Rounds.
LEMMA RoundStep ==
    ASSUME IndInv, Next
    PROVE  RoundInv'
<1> USE ConstantsAssumption DEF IndInv, TypeOK, PlaceInv, MainInv, RoundInv, Thread,
    mutex, cond, suspension, local, barriers, program, Locking, Unlocking, Waking,
    MainLocation, WorkerLocation, MutexLocation
<1>1. ASSUME NEW t \in Thread, Mutex(t) PROVE RoundInv'
  <2>1. CASE LockSpin(t)
    BY <2>1 DEF LockSpin, Goto
  <2>2. CASE LockGiveUp(t)
    BY <2>2 DEF LockGiveUp, Goto
  <2>3. CASE LockXchg(t)
    BY <2>3 DEF LockXchg, Goto
  <2>4. CASE LockSleep(t)
    BY <2>4 DEF LockSleep, Goto
  <2>5. CASE UnlockFast(t)
    BY <2>5 DEF UnlockFast, Goto, AfterUnlock
  <2>6. CASE UnlockContended(t)
    BY <2>6 DEF UnlockContended, Goto
  <2>7. CASE UnlockSlow(t)
    BY <2>7 DEF UnlockSlow, Goto
  <2>8. CASE UnlockTaken(t)
    BY <2>8 DEF UnlockTaken, Goto, AfterUnlock
  <2>9. CASE UnlockGiveUp(t)
    BY <2>9 DEF UnlockGiveUp, Goto
  <2>10. CASE UnlockClear(t)
    BY <2>10 DEF UnlockClear, Goto
  <2>11. CASE UnlockWake(t)
    BY <2>11 DEF UnlockWake, Goto, AfterUnlock
  <2> QED
    BY <1>1, <2>1, <2>2, <2>3, <2>4, <2>5, <2>6, <2>7, <2>8, <2>9, <2>10, <2>11 DEF Mutex
<1>2. ASSUME NEW w \in Worker, Suspend(w) \/ Live(w) PROVE RoundInv'
  <2>1. CASE SuspendSelf(w)
    BY <2>1 DEF SuspendSelf, Goto, First
  <2>2. CASE CondSleep(w)
    BY <2>2 DEF CondSleep, Goto
  <2>3. CASE Awake(w)
    BY <2>3 DEF Awake, Goto
  <2>4. CASE Register(w)
    BY <2>4 DEF Register, Goto
  <2>5. CASE BirthFails(w)
    BY <2>5 DEF BirthFails, Goto
  <2>6. CASE EndInit(w)
    BY <2>6 DEF EndInit, Goto
  <2>7. CASE WaitInit2(w)
    BY <2>7 DEF WaitInit2, Goto
  <2>8. CASE TestFlag(w)
    BY <2>8 DEF TestFlag, Goto
  <2>9. CASE TestTerm(w)
    BY <2>9 DEF TestTerm, Goto
  <2>10. CASE Bye(w)
    BY <2>10 DEF Bye, Goto
  <2> QED
    BY <1>2, <2>1, <2>2, <2>3, <2>4, <2>5, <2>6, <2>7, <2>8, <2>9, <2>10 DEF Suspend, Live
<1>3. CASE Call
  <2>1. CASE CreateWorker
    BY <2>1 DEF CreateWorker, Goto
  <2>2. CASE AllCreated
    BY <2>2 DEF AllCreated, Goto
  <2>3. CASE WaitInit
    BY <2>3 DEF WaitInit, Goto
  <2>4. CASE PostRound
    BY <2>4 DEF PostRound, Goto
  <2>5. CASE PostFlag
    BY <2>5 DEF PostFlag, Goto
  <2>6. CASE WaitFlag
    BY <2>6 DEF WaitFlag, Goto
  <2>7. CASE WaitSpin
    BY <2>7 DEF WaitSpin, Goto
  <2>8. CASE ResumeFlag
    BY <2>8 DEF ResumeFlag, Goto
  <2>9. CASE Broadcast
    BY <2>9 DEF Broadcast, Goto
  <2>10. CASE WakeAll
    BY <2>10 DEF WakeAll, Goto, Asleep
  <2>11. CASE SetTerm
    BY <2>11 DEF SetTerm, Goto
  <2>12. CASE TermDec
    BY <2>12 DEF TermDec, Goto
  <2>13. CASE Free
    BY <2>13 DEF Free, Goto
  <2>14. CASE CreateFails
    BY <2>14 DEF CreateFails, Goto
  <2> QED
    BY <1>3, <2>1, <2>2, <2>3, <2>4, <2>5, <2>6, <2>7, <2>8, <2>9, <2>10, <2>11, <2>12, <2>13, <2>14 DEF Call
<1>4. CASE Program
  <2>1. CASE BeginParallel
    BY <2>1 DEF BeginParallel, Goto
  <2>2. CASE EndParallel
    BY <2>2 DEF EndParallel, Goto
  <2>3. CASE Finalize
    BY <2>3 DEF Finalize, Goto
  <2> QED
    BY <1>4, <2>1, <2>2, <2>3 DEF Program
<1>5. CASE Interrupted
  <2>1. ASSUME NEW t \in Thread, LockInterrupted(t) PROVE RoundInv'
    BY <2>1 DEF LockInterrupted, Goto
  <2>2. ASSUME NEW w \in Worker, CondInterrupted(w) PROVE RoundInv'
    BY <2>2 DEF CondInterrupted
  <2> QED
    BY <1>5, <2>1, <2>2 DEF Interrupted
<1> QED
  BY <1>1, <1>2, <1>3, <1>4, <1>5 DEF Next

\* Sleeps.
LEMMA SleepStep ==
    ASSUME IndInv, Next
    PROVE  SleepInv'
<1> USE ConstantsAssumption DEF IndInv, TypeOK, PlaceInv, MainInv, RoundInv, SleepInv, Sleeps, NoSeq,
    Thread, mutex, cond, suspension, local, barriers, program, Locking, Unlocking, Waking,
    MainLocation, WorkerLocation, MutexLocation
<1>1. ASSUME NEW t \in Thread, Mutex(t) PROVE SleepInv'
  <2>1. CASE LockSpin(t)
    BY <2>1 DEF LockSpin, Goto
  <2>2. CASE LockGiveUp(t)
    BY <2>2 DEF LockGiveUp, Goto
  <2>3. CASE LockXchg(t)
    BY <2>3 DEF LockXchg, Goto
  <2>4. CASE LockSleep(t)
    BY <2>4 DEF LockSleep, Goto
  <2>5. CASE UnlockFast(t)
    BY <2>5 DEF UnlockFast, Goto, AfterUnlock
  <2>6. CASE UnlockContended(t)
    BY <2>6 DEF UnlockContended, Goto
  <2>7. CASE UnlockSlow(t)
    BY <2>7 DEF UnlockSlow, Goto
  <2>8. CASE UnlockTaken(t)
    BY <2>8 DEF UnlockTaken, Goto, AfterUnlock
  <2>9. CASE UnlockGiveUp(t)
    BY <2>9 DEF UnlockGiveUp, Goto
  <2>10. CASE UnlockClear(t)
    BY <2>10 DEF UnlockClear, Goto
  <2>11. CASE UnlockWake(t)
    BY <2>11 DEF UnlockWake, Goto, AfterUnlock
  <2> QED
    BY <1>1, <2>1, <2>2, <2>3, <2>4, <2>5, <2>6, <2>7, <2>8, <2>9, <2>10, <2>11 DEF Mutex
<1>2. ASSUME NEW w \in Worker, Suspend(w) \/ Live(w) PROVE SleepInv'
  <2>1. CASE SuspendSelf(w)
    BY <2>1 DEF SuspendSelf, Goto, First
  <2>2. CASE CondSleep(w)
    BY <2>2 DEF CondSleep, Goto
  <2>3. CASE Awake(w)
    BY <2>3 DEF Awake, Goto
  <2>4. CASE Register(w)
    BY <2>4 DEF Register, Goto
  <2>5. CASE BirthFails(w)
    BY <2>5 DEF BirthFails, Goto
  <2>6. CASE EndInit(w)
    BY <2>6 DEF EndInit, Goto
  <2>7. CASE WaitInit2(w)
    BY <2>7 DEF WaitInit2, Goto
  <2>8. CASE TestFlag(w)
    BY <2>8 DEF TestFlag, Goto
  <2>9. CASE TestTerm(w)
    BY <2>9 DEF TestTerm, Goto
  <2>10. CASE Bye(w)
    BY <2>10 DEF Bye, Goto
  <2> QED
    BY <1>2, <2>1, <2>2, <2>3, <2>4, <2>5, <2>6, <2>7, <2>8, <2>9, <2>10 DEF Suspend, Live
<1>3. CASE Call
  <2>1. CASE CreateWorker
    BY <2>1 DEF CreateWorker, Goto
  <2>2. CASE AllCreated
    BY <2>2 DEF AllCreated, Goto
  <2>3. CASE WaitInit
    BY <2>3 DEF WaitInit, Goto
  <2>4. CASE PostRound
    BY <2>4 DEF PostRound, Goto
  <2>5. CASE PostFlag
    BY <2>5 DEF PostFlag, Goto
  <2>6. CASE WaitFlag
    BY <2>6 DEF WaitFlag, Goto
  <2>7. CASE WaitSpin
    BY <2>7 DEF WaitSpin, Goto
  <2>8. CASE ResumeFlag
    BY <2>8 DEF ResumeFlag, Goto
  <2>9. CASE Broadcast
    BY <2>9 DEF Broadcast, Goto
  <2>10. CASE WakeAll
    BY <2>10 DEF WakeAll, Goto, Asleep
  <2>11. CASE SetTerm
    BY <2>11 DEF SetTerm, Goto
  <2>12. CASE TermDec
    BY <2>12 DEF TermDec, Goto
  <2>13. CASE Free
    BY <2>13 DEF Free, Goto
  <2>14. CASE CreateFails
    BY <2>14 DEF CreateFails, Goto
  <2> QED
    BY <1>3, <2>1, <2>2, <2>3, <2>4, <2>5, <2>6, <2>7, <2>8, <2>9, <2>10, <2>11, <2>12, <2>13, <2>14 DEF Call
<1>4. CASE Program
  <2>1. CASE BeginParallel
    BY <2>1 DEF BeginParallel, Goto
  <2>2. CASE EndParallel
    BY <2>2 DEF EndParallel, Goto
  <2>3. CASE Finalize
    BY <2>3 DEF Finalize, Goto
  <2> QED
    BY <1>4, <2>1, <2>2, <2>3 DEF Program
<1>5. CASE Interrupted
  <2>1. ASSUME NEW t \in Thread, LockInterrupted(t) PROVE SleepInv'
    BY <2>1 DEF LockInterrupted, Goto
  <2>2. ASSUME NEW w \in Worker, CondInterrupted(w) PROVE SleepInv'
    BY <2>2 DEF CondInterrupted
  <2> QED
    BY <1>5, <2>1, <2>2 DEF Interrupted
<1> QED
  BY <1>1, <1>2, <1>3, <1>4, <1>5 DEF Next

\* Wake-ups.
LEMMA WakeStep ==
    ASSUME IndInv, Next
    PROVE  NoLostWakeUp'
<1> USE ConstantsAssumption DEF IndInv, TypeOK, PlaceInv, SleepInv, Sleeps, NoSeq, NoLostWakeUp, Asleep,
    Thread, mutex, cond, suspension, local, barriers, program, Locking, Unlocking,
    MainLocation, WorkerLocation, MutexLocation
<1>1. ASSUME NEW t \in Thread, Mutex(t) PROVE NoLostWakeUp'
  <2>1. CASE LockSpin(t)
    BY <2>1 DEF LockSpin, Goto
  <2>2. CASE LockGiveUp(t)
    BY <2>2 DEF LockGiveUp, Goto
  <2>3. CASE LockXchg(t)
    BY <2>3 DEF LockXchg, Goto
  <2>4. CASE LockSleep(t)
    BY <2>4 DEF LockSleep, Goto
  <2>5. CASE UnlockFast(t)
    BY <2>5 DEF UnlockFast, Goto, AfterUnlock
  <2>6. CASE UnlockContended(t)
    BY <2>6 DEF UnlockContended, Goto
  <2>7. CASE UnlockSlow(t)
    BY <2>7 DEF UnlockSlow, Goto
  <2>8. CASE UnlockTaken(t)
    BY <2>8 DEF UnlockTaken, Goto, AfterUnlock
  <2>9. CASE UnlockGiveUp(t)
    BY <2>9 DEF UnlockGiveUp, Goto
  <2>10. CASE UnlockClear(t)
    BY <2>10 DEF UnlockClear, Goto
  <2>11. CASE UnlockWake(t)
    BY <2>11 DEF UnlockWake, Goto, AfterUnlock
  <2> QED
    BY <1>1, <2>1, <2>2, <2>3, <2>4, <2>5, <2>6, <2>7, <2>8, <2>9, <2>10, <2>11 DEF Mutex
<1>2. ASSUME NEW w \in Worker, Suspend(w) \/ Live(w) PROVE NoLostWakeUp'
  <2>1. CASE SuspendSelf(w)
    BY <2>1 DEF SuspendSelf, Goto, First
  <2>2. CASE CondSleep(w)
    BY <2>2 DEF CondSleep, Goto
  <2>3. CASE Awake(w)
    BY <2>3 DEF Awake, Goto
  <2>4. CASE Register(w)
    BY <2>4 DEF Register, Goto
  <2>5. CASE BirthFails(w)
    BY <2>5 DEF BirthFails, Goto
  <2>6. CASE EndInit(w)
    BY <2>6 DEF EndInit, Goto
  <2>7. CASE WaitInit2(w)
    BY <2>7 DEF WaitInit2, Goto
  <2>8. CASE TestFlag(w)
    BY <2>8 DEF TestFlag, Goto
  <2>9. CASE TestTerm(w)
    BY <2>9 DEF TestTerm, Goto
  <2>10. CASE Bye(w)
    BY <2>10 DEF Bye, Goto
  <2> QED
    BY <1>2, <2>1, <2>2, <2>3, <2>4, <2>5, <2>6, <2>7, <2>8, <2>9, <2>10 DEF Suspend, Live
<1>3. CASE Call
  <2>1. CASE CreateWorker
    BY <2>1 DEF CreateWorker, Goto
  <2>2. CASE AllCreated
    BY <2>2 DEF AllCreated, Goto
  <2>3. CASE WaitInit
    BY <2>3 DEF WaitInit, Goto
  <2>4. CASE PostRound
    BY <2>4 DEF PostRound, Goto
  <2>5. CASE PostFlag
    BY <2>5 DEF PostFlag, Goto
  <2>6. CASE WaitFlag
    BY <2>6 DEF WaitFlag, Goto
  <2>7. CASE WaitSpin
    BY <2>7 DEF WaitSpin, Goto
  <2>8. CASE ResumeFlag
    BY <2>8 DEF ResumeFlag, Goto
  <2>9. CASE Broadcast
    BY <2>9 DEF Broadcast, Goto
  <2>10. CASE WakeAll
    BY <2>10 DEF WakeAll, Goto
  <2>11. CASE SetTerm
    BY <2>11 DEF SetTerm, Goto
  <2>12. CASE TermDec
    BY <2>12 DEF TermDec, Goto
  <2>13. CASE Free
    BY <2>13 DEF Free, Goto
  <2>14. CASE CreateFails
    BY <2>14 DEF CreateFails, Goto
  <2> QED
    BY <1>3, <2>1, <2>2, <2>3, <2>4, <2>5, <2>6, <2>7, <2>8, <2>9, <2>10, <2>11, <2>12, <2>13, <2>14 DEF Call
<1>4. CASE Program
  <2>1. CASE BeginParallel
    BY <2>1 DEF BeginParallel, Goto
  <2>2. CASE EndParallel
    BY <2>2 DEF EndParallel, Goto
  <2>3. CASE Finalize
    BY <2>3 DEF Finalize, Goto
  <2> QED
    BY <1>4, <2>1, <2>2, <2>3 DEF Program
<1>5. CASE Interrupted
  <2>1. ASSUME NEW t \in Thread, LockInterrupted(t) PROVE NoLostWakeUp'
    BY <2>1 DEF LockInterrupted, Goto
  <2>2. ASSUME NEW w \in Worker, CondInterrupted(w) PROVE NoLostWakeUp'
    BY <2>2 DEF CondInterrupted
  <2> QED
    BY <1>5, <2>1, <2>2 DEF Interrupted
<1> QED
  BY <1>1, <1>2, <1>3, <1>4, <1>5 DEF Next

LEMMA NextInv == IndInv /\ [Next]_vars => IndInv'
<1> SUFFICES ASSUME IndInv, [Next]_vars PROVE IndInv'
  OBVIOUS
<1>1. CASE Next
  BY <1>1, TypeStep, PlaceStep, MutexStep, MainStep, RoundStep, SleepStep, WakeStep
  DEF IndInv
<1>2. CASE UNCHANGED vars
  <2> USE <1>2 DEF vars, mutex, cond, suspension, local, barriers, program, IndInv
  <2>1. TypeOK' /\ PlaceInv' /\ MainInv' /\ RoundInv'
    BY DEF TypeOK, PlaceInv, MainInv, RoundInv
  <2>2. MutexInv' /\ SleepInv' /\ NoLostWakeUp'
    BY DEF MutexInv, MutexIsExclusive, Holds, SleepInv, Sleeps, NoLostWakeUp, Asleep
  <2> QED
    BY <2>1, <2>2
<1> QED
  BY <1>1, <1>2

LEMMA SpecInv == Spec => []IndInv
BY InitInv, NextInv, PTL DEF Spec

\* Every variable keeps its type, for any number of threads and of regions.
THEOREM TypeCorrect == Spec => []TypeOK
BY SpecInv, PTL DEF IndInv

\* kproc_mutex_lock and kproc_mutex_unlock let one thread in at a time, although
\* the contended byte is cleared after the mutex was given up.
THEOREM MutexExcludes == Spec => []MutexIsExclusive
BY SpecInv, PTL DEF IndInv, MutexInv

\* kproc_condunlock_wait and kproc_condunlock_broadcast: no thread sleeps for a
\* round that was resumed, but those that are about to be woken.
THEOREM WakeUpsAreNotLost == Spec => []NoLostWakeUp
BY SpecInv, PTL DEF IndInv

-------------------------------------------------------------------------------
(* Suspensions and wake-ups are those of Rounds.                           *)

LEMMA RoundsInit == Init => Abstract!Init
BY DEF Init, Abstract!Init, SleepOf, Sleeps, NoSeq

\* Every step is one of Rounds, or changes nothing it shows.
LEMMA RoundsStep ==
    ASSUME IndInv, Next
    PROVE  [Abstract!Next]_(Abstract!vars)
<1> USE ConstantsAssumption DEF IndInv, TypeOK, PlaceInv, Thread,
    Sleeps, SleepOf, Abstract!vars, NoSeq, mutex, cond, suspension, local, barriers, program
<1>1. ASSUME NEW t \in Thread, Mutex(t) PROVE [Abstract!Next]_(Abstract!vars)
  BY <1>1 DEF Mutex, LockSpin, LockGiveUp, LockXchg, LockSleep, UnlockFast, UnlockContended, UnlockSlow, UnlockTaken, UnlockGiveUp, UnlockClear, UnlockWake
<1>2. ASSUME NEW w \in Worker, Live(w) PROVE [Abstract!Next]_(Abstract!vars)
  BY <1>2 DEF Live, Register, BirthFails, EndInit, WaitInit2, TestFlag, TestTerm, Bye
<1>3. ASSUME NEW w \in Worker, Suspend(w) PROVE [Abstract!Next]_(Abstract!vars)
  <2>1. CASE SuspendSelf(w)
    <3>1. CASE flag = 0
      BY <2>1, <3>1 DEF SuspendSelf
    <3>2. CASE flag # 0
      <4>1. ~Sleeps(w)
        BY <2>1 DEF SuspendSelf, Goto, SleepInv, Unlocking
      <4>2. myround' = [myround EXCEPT ![w] = round] /\ myseq' = [myseq EXCEPT ![w] = seq]
            /\ UNCHANGED <<flag, round, spurious>>
        BY <2>1, <3>2 DEF SuspendSelf
      <4>3. \A v \in Worker : SleepOf(v)' = IF v = w THEN round ELSE SleepOf(v)
        BY <4>2
      <4>4. Abstract!FallAsleep(w)
        BY <3>2, <4>1, <4>2, <4>3 DEF Abstract!FallAsleep
      <4> QED
        BY <4>4 DEF Abstract!Next
    <3> QED
      BY <3>1, <3>2
  <2>2. CASE CondSleep(w)
    <3>1. CASE seq = myseq[w]
      BY <2>2, <3>1 DEF CondSleep
    <3>2. CASE seq # myseq[w]
      <4>1. Sleeps(w) /\ myround[w] # 0 /\ (myround[w] = round => flag = 0)
        BY <2>2, <3>2 DEF CondSleep, Goto, SleepInv
      <4>2. Abstract!WakeUp({w})
        BY <2>2, <3>2, <4>1 DEF CondSleep, Abstract!WakeUp
      <4> QED
        BY <4>2 DEF Abstract!Next
    <3> QED
      BY <3>1, <3>2
  <2>3. CASE Awake(w)
    BY <2>3 DEF Awake
  <2> QED
    BY <1>3, <2>1, <2>2, <2>3 DEF Suspend
<1>4. CASE Call
  <2>1. CASE PostRound
    <3>1. Abstract!Announce
      BY <2>1 DEF PostRound, Goto, MainInv, Abstract!Announce
    <3> QED
      BY <3>1 DEF Abstract!Next
  <2>2. CASE PostFlag
    <3>1. Abstract!Post
      BY <2>2 DEF PostFlag, Goto, MainInv, Abstract!Post
    <3> QED
      BY <3>1 DEF Abstract!Next
  <2>3. CASE WaitFlag
    BY <2>3 DEF WaitFlag, Goto, MainInv
  <2>4. CASE ResumeFlag
    <3>1. CASE flag = 0
      BY <2>4, <3>1 DEF ResumeFlag
    <3>2. CASE flag # 0
      <4>1. Abstract!Resume
        BY <2>4, <3>2 DEF ResumeFlag, Abstract!Resume
      <4> QED
        BY <4>1 DEF Abstract!Next
    <3> QED
      BY <3>1, <3>2
  <2>5. CASE WakeAll
    <3>1. PICK W \in SUBSET Worker : W = {w \in Worker : Asleep(w)}
      OBVIOUS
    <3>2. \A w \in W : SleepOf(w) # 0
      BY <3>1 DEF SleepInv, Asleep
    <3>3. flag = 0
      BY <2>5 DEF WakeAll, MainInv, Waking
    <3>4. \A w \in Worker : SleepOf(w)' = IF w \in W THEN 0 ELSE SleepOf(w)
      BY <2>5, <3>1 DEF WakeAll
    <3>5. Abstract!WakeUp(W)
      BY <2>5, <3>2, <3>3, <3>4 DEF WakeAll, Abstract!WakeUp
    <3> QED
      BY <3>5 DEF Abstract!Next
  <2>6. CASE CreateWorker \/ CreateFails \/ AllCreated \/ WaitInit \/ WaitSpin \/ Broadcast
              \/ SetTerm \/ TermDec \/ Free
    BY <2>6 DEF CreateWorker, CreateFails, AllCreated, WaitInit, WaitSpin, Broadcast, SetTerm,
       TermDec, Free
  <2> QED
    BY <1>4, <2>1, <2>2, <2>3, <2>4, <2>5, <2>6 DEF Call
<1>5. CASE Program
  BY <1>5 DEF Program, BeginParallel, EndParallel, Finalize
<1>6. CASE Interrupted
  <2>1. ASSUME NEW t \in Thread, LockInterrupted(t)
        PROVE  [Abstract!Next]_(Abstract!vars)
    BY <2>1 DEF LockInterrupted
  <2>2. ASSUME NEW w \in Worker, CondInterrupted(w)
        PROVE  [Abstract!Next]_(Abstract!vars)
    <3>1. SleepOf(w) # 0
      BY <2>2 DEF CondInterrupted, SleepInv
    <3>2. Abstract!WakeUpForNothing(w)
      BY <2>2, <3>1 DEF CondInterrupted, Abstract!WakeUpForNothing
    <3> QED
      BY <3>2 DEF Abstract!Next
  <2> QED
    BY <1>6, <2>1, <2>2 DEF Interrupted
<1> QED
  BY <1>1, <1>2, <1>3, <1>4, <1>5, <1>6 DEF Next

\* Mutex, condition variable, flag and counters implement the rounds of
\* suspension: a thread falls asleep for a posted round and is woken when it was
\* resumed, whatever the kernel does to the futexes.
THEOREM RoundsAreImplemented == Spec => ImplementsRounds
<1>1. IndInv /\ [Next]_vars => [Abstract!Next]_(Abstract!vars)
  <2> SUFFICES ASSUME IndInv, [Next]_vars PROVE [Abstract!Next]_(Abstract!vars)
    OBVIOUS
  <2>1. CASE UNCHANGED vars
    BY <2>1 DEF vars, suspension, local, Abstract!vars, SleepOf, Sleeps
  <2> QED
    BY <2>1, RoundsStep
<1> QED
  BY <1>1, SpecInv, RoundsInit, PTL DEF Spec, ImplementsRounds, Abstract!Spec


-------------------------------------------------------------------------------
(* What the counters count.  Each is the number of elements of a set of    *)
(* threads that a step leaves alone, or changes by one thread; the steps   *)
(* that change it otherwise are those of the main thread that start a      *)
(* count again.                                                            *)

Starting == {w \in Worker : pc[w] \in {"born", "registered"}}
Running == {w \in Worker : pc[w] \notin {"none", "born", "dead"}}
Alive == {w \in Worker : pc[w] # "dead"}
Sleeping == {w \in Worker : Sleeps(w) /\ myround[w] = round}

\* The main thread goes on only when all threads have started.
StartInv ==
    /\ pc[Main] \notin {"create", "aborted"} => \A w \in Worker : pc[w] # "none"
    /\ pc[Main] \notin {"create", "initwait", "aborted"} =>
        \A w \in Worker : pc[w] \notin {"born", "registered"}

\* No thread leaves before the end of the program.
TermInv ==
    /\ isterm => pc[Main] \in {"termdec", "termwait", "freed"}
    /\ \A w \in Worker : pc[w] = "bye" => isterm

InitCount == init1 = Cardinality(Starting)
TermCount ==
    term = Cardinality(Running) + IF pc[Main] \in {"termwait", "freed"} THEN 0 ELSE 1
AliveCount ==
    pc[Main] \notin {"create", "initwait", "aborted"} /\ ~isterm => kprocs = 1 + Cardinality(Alive)
SleepCount == spurious = 0 => count = IF flag = 0 THEN 0 ELSE Cardinality(Sleeping)

\* kaapi_setconcurrency goes on when all sleep, and nobody wakes before a resumption.
AsleepInv ==
    spurious = 0 /\ flag = 2 /\ pc[Main] \in {"run", "lock"} =>
        \A w \in Worker : w \in Sleeping \/ pc[w] = "dead"

CountInv ==
    /\ StartInv /\ TermInv
    /\ InitCount /\ TermCount /\ AliveCount /\ SleepCount
    /\ AsleepInv

\* How the number of elements of a set of threads follows the set.
LEMMA CountOfThreads ==
    ASSUME NEW S \in SUBSET Worker, NEW T \in SUBSET Worker
    PROVE  /\ Cardinality(S) \in Nat
           /\ Cardinality(S) = 0 <=> S = {}
           /\ S \subseteq T /\ Cardinality(S) = Cardinality(T) => S = T
           /\ \A w \in Worker \ S : T = S \cup {w} => Cardinality(T) = Cardinality(S) + 1
           /\ \A w \in S : T = S \ {w} => Cardinality(T) = Cardinality(S) - 1
<1>1. IsFiniteSet(S) /\ IsFiniteSet(T)
  BY ConstantsAssumption, FS_Subset
<1>2. Cardinality(S) \in Nat /\ (Cardinality(S) = 0 <=> S = {})
  BY <1>1, FS_CardinalityType, FS_EmptySet
<1>3. S \subseteq T /\ Cardinality(S) = Cardinality(T) => S = T
  BY <1>1, FS_Subset
<1>4. \A w \in Worker \ S : Cardinality(S \cup {w}) = Cardinality(S) + 1
  BY <1>1, FS_AddElement
<1>5. \A w \in S : Cardinality(S \ {w}) = Cardinality(S) - 1
  BY <1>1, FS_RemoveElement
<1> QED
  BY <1>2, <1>3, <1>4, <1>5

LEMMA CountInit == Init => CountInv
<1> SUFFICES ASSUME Init PROVE CountInv
  OBVIOUS
<1> USE ConstantsAssumption DEF Init, Thread
<1>1. StartInv /\ TermInv /\ AsleepInv
  BY DEF StartInv, TermInv, AsleepInv
<1>2. Starting = {} /\ Running = {}
  BY DEF Starting, Running
<1>3. InitCount /\ TermCount /\ AliveCount /\ SleepCount
  BY <1>2, FS_EmptySet DEF InitCount, TermCount, AliveCount, SleepCount
<1> QED
  BY <1>1, <1>3 DEF CountInv

\* The places of the threads that the counts tell apart, by action.
LEMMA StartStep ==
    ASSUME IndInv, IndInv', CountInv, Next
    PROVE  StartInv'
<1> USE ConstantsAssumption DEF IndInv, TypeOK, PlaceInv, CountInv, StartInv, Thread, Goto,
    MainLocation, WorkerLocation, MutexLocation
<1>1. ASSUME NEW t \in Thread, Mutex(t) PROVE StartInv'
  BY <1>1 DEF Mutex, LockSpin, LockGiveUp, LockXchg, LockSleep, UnlockFast, UnlockContended, UnlockSlow,
     UnlockTaken, UnlockGiveUp, UnlockClear, UnlockWake, AfterUnlock
<1>2. ASSUME NEW w \in Worker, Suspend(w) PROVE StartInv'
  BY <1>2 DEF Suspend, SuspendSelf, CondSleep, Awake
<1>3. ASSUME NEW w \in Worker, Live(w) PROVE StartInv'
  BY <1>3 DEF Live, Register, BirthFails, EndInit, WaitInit2, TestFlag, TestTerm, Bye
<1>4. CASE WaitInit
  <2>1. Cardinality(Starting) = 0
    BY <1>4 DEF WaitInit, InitCount
  <2>2. Starting = {}
    BY <2>1, CountOfThreads DEF Starting
  <2> QED
    BY <1>4, <2>2 DEF WaitInit, Starting
<1>5. CASE Call /\ ~WaitInit
  BY <1>5 DEF Call, CreateWorker, CreateFails, AllCreated, PostRound, PostFlag, WaitFlag, WaitSpin, ResumeFlag,
     Broadcast, WakeAll, Asleep, SetTerm, TermDec, Free
<1>6. CASE Program \/ Interrupted
  BY <1>6 DEF Program, BeginParallel, EndParallel, Finalize, Interrupted, LockInterrupted, CondInterrupted
<1> QED
  BY <1>1, <1>2, <1>3, <1>4, <1>5, <1>6 DEF Next

LEMMA TermStep ==
    ASSUME IndInv, IndInv', CountInv, Next
    PROVE  TermInv'
<1> USE ConstantsAssumption DEF IndInv, TypeOK, PlaceInv, CountInv, TermInv, Thread, Goto,
    MainLocation, WorkerLocation, MutexLocation, mutex, cond, suspension, local, barriers, program
<1>1. ASSUME NEW t \in Thread, Mutex(t) PROVE TermInv'
  BY <1>1 DEF Mutex, LockSpin, LockGiveUp, LockXchg, LockSleep, UnlockFast, UnlockContended, UnlockSlow,
     UnlockTaken, UnlockGiveUp, UnlockClear, UnlockWake, AfterUnlock
<1>2. ASSUME NEW w \in Worker, Suspend(w) PROVE TermInv'
  BY <1>2 DEF Suspend, SuspendSelf, CondSleep, Awake
<1>3. ASSUME NEW w \in Worker, Live(w) PROVE TermInv'
  BY <1>3 DEF Live, Register, BirthFails, EndInit, WaitInit2, TestFlag, TestTerm, Bye
<1>4. CASE Call
  BY <1>4 DEF Call, CreateWorker, CreateFails, AllCreated, WaitInit, PostRound, PostFlag, WaitFlag, WaitSpin, ResumeFlag,
     Broadcast, WakeAll, Asleep, SetTerm, TermDec, Free
<1>5. CASE Program \/ Interrupted
  BY <1>5 DEF Program, BeginParallel, EndParallel, Finalize, Interrupted, LockInterrupted, CondInterrupted
<1> QED
  BY <1>1, <1>2, <1>3, <1>4, <1>5 DEF Next

\* barrier_init is the number of threads between their creation and their start.
LEMMA InitCountStep ==
    ASSUME IndInv, IndInv', CountInv, Next
    PROVE  InitCount'
<1> USE ConstantsAssumption DEF IndInv, TypeOK, PlaceInv, CountInv, Thread, Goto,
    MainLocation, WorkerLocation, MutexLocation, mutex, cond, suspension, local, barriers, program
<1>1. PICK S \in SUBSET Worker : S = Starting
  BY DEF Starting
<1>2. PICK T \in SUBSET Worker : T = Starting'
  BY DEF Starting
<1>3. init1 = Cardinality(S) /\ init1 \in Int
  BY <1>1 DEF InitCount
<1>4. ASSUME UNCHANGED init1, T = S PROVE InitCount'
  BY <1>2, <1>3, <1>4 DEF InitCount
<1>5. ASSUME NEW w \in S, init1' = init1 - 1, T = S \ {w} PROVE InitCount'
  BY <1>2, <1>3, <1>5, CountOfThreads DEF InitCount
<1>6. ASSUME NEW t \in Thread, Mutex(t) PROVE InitCount'
  BY <1>1, <1>2, <1>4, <1>6 DEF Starting, Mutex, LockSpin, LockGiveUp, LockXchg, LockSleep, UnlockFast, UnlockContended,
     UnlockSlow, UnlockTaken, UnlockGiveUp, UnlockClear, UnlockWake, AfterUnlock
<1>7. ASSUME NEW w \in Worker, Suspend(w) PROVE InitCount'
  BY <1>1, <1>2, <1>4, <1>7 DEF Starting, Suspend, SuspendSelf, CondSleep, Awake
<1>8. ASSUME NEW w \in Worker, Live(w) PROVE InitCount'
  <2>1. CASE BirthFails(w) \/ EndInit(w)
    BY <1>1, <1>2, <1>5, <2>1 DEF Starting, BirthFails, EndInit
  <2>2. CASE Register(w) \/ WaitInit2(w) \/ TestFlag(w) \/ TestTerm(w) \/ Bye(w)
    BY <1>1, <1>2, <1>4, <2>2 DEF Starting, Register, WaitInit2, TestFlag, TestTerm, Bye
  <2> QED
    BY <1>8, <2>1, <2>2 DEF Live
<1>9. CASE CreateWorker
  <2>1. PICK w \in Worker : pc[w] = "none" /\ pc' = [pc EXCEPT ![w] = "born"]
    BY <1>9 DEF CreateWorker
  <2>2. w \notin S /\ T = S \cup {w}
    BY <1>1, <1>2, <2>1 DEF Starting
  <2>3. Cardinality(T) = Cardinality(S) + 1
    BY <2>2, CountOfThreads
  <2> QED
    BY <1>2, <1>3, <1>9, <2>3 DEF InitCount, CreateWorker
<1>10. CASE Call /\ ~CreateWorker
  BY <1>1, <1>2, <1>4, <1>10 DEF Starting, Call, CreateFails, AllCreated, WaitInit, PostRound, PostFlag,
     WaitFlag, WaitSpin, ResumeFlag, Broadcast, WakeAll, Asleep, SetTerm, TermDec, Free
<1>11. CASE Program \/ Interrupted
  BY <1>1, <1>2, <1>4, <1>11 DEF Starting, Program, BeginParallel, EndParallel, Finalize,
     Interrupted, LockInterrupted, CondInterrupted
<1> QED
  BY <1>6, <1>7, <1>8, <1>9, <1>10, <1>11 DEF Next

\* kaapi_term_barrier is the number of threads with a kprocessor.
LEMMA TermCountStep ==
    ASSUME IndInv, IndInv', CountInv, Next
    PROVE  TermCount'
<1> USE ConstantsAssumption DEF IndInv, TypeOK, PlaceInv, CountInv, Thread, Goto,
    MainLocation, WorkerLocation, MutexLocation, mutex, cond, suspension, local, barriers, program
<1>1. PICK S \in SUBSET Worker : S = Running
  BY DEF Running
<1>2. PICK T \in SUBSET Worker : T = Running'
  BY DEF Running
<1> DEFINE over == pc[Main] \in {"termwait", "freed"}
<1>3. term = Cardinality(S) + (IF over THEN 0 ELSE 1) /\ Cardinality(S) \in Nat
  BY <1>1, CountOfThreads DEF TermCount
<1>4. ASSUME UNCHANGED term, over' <=> over, T = S PROVE TermCount'
  BY <1>2, <1>3, <1>4 DEF TermCount
<1>5. ASSUME NEW t \in Thread, Mutex(t) PROVE TermCount'
  BY <1>1, <1>2, <1>4, <1>5 DEF Running, Mutex, LockSpin, LockGiveUp, LockXchg, LockSleep, UnlockFast, UnlockContended,
     UnlockSlow, UnlockTaken, UnlockGiveUp, UnlockClear, UnlockWake, AfterUnlock
<1>6. ASSUME NEW w \in Worker, Suspend(w) PROVE TermCount'
  BY <1>1, <1>2, <1>4, <1>6 DEF Running, Suspend, SuspendSelf, CondSleep, Awake
<1>7. ASSUME NEW w \in Worker, Live(w) PROVE TermCount'
  <2>1. CASE Register(w)
    <3>1. w \notin S /\ T = S \cup {w} /\ term' = term + 1 /\ (over' <=> over)
      BY <1>1, <1>2, <2>1 DEF Running, Register
    <3>2. Cardinality(T) = Cardinality(S) + 1
      BY <3>1, CountOfThreads
    <3> QED
      BY <1>2, <1>3, <3>1, <3>2 DEF TermCount
  <2>2. CASE Bye(w)
    <3>1. w \in S /\ T = S \ {w} /\ term' = term - 1 /\ (over' <=> over)
      BY <1>1, <1>2, <2>2 DEF Running, Bye
    <3>2. Cardinality(T) = Cardinality(S) - 1
      BY <3>1, CountOfThreads
    <3> QED
      BY <1>2, <1>3, <3>1, <3>2 DEF TermCount
  <2>3. CASE BirthFails(w) \/ EndInit(w) \/ WaitInit2(w) \/ TestFlag(w) \/ TestTerm(w)
    BY <1>1, <1>2, <1>4, <2>3 DEF Running, BirthFails, EndInit, WaitInit2, TestFlag, TestTerm
  <2> QED
    BY <1>7, <2>1, <2>2, <2>3 DEF Live
<1>8. CASE Call
  <2>1. CASE TermDec
    <3>1. T = S /\ term' = term - 1 /\ over' /\ ~over
      BY <1>1, <1>2, <2>1 DEF Running, TermDec
    <3> QED
      BY <1>2, <1>3, <3>1 DEF TermCount
  <2>2. CASE Call /\ ~TermDec
    BY <1>1, <1>2, <1>4, <2>2 DEF Running, Call, CreateWorker, CreateFails, AllCreated, WaitInit, PostRound,
       PostFlag, WaitFlag, WaitSpin, ResumeFlag, Broadcast, WakeAll, Asleep, SetTerm, Free
  <2> QED
    BY <1>8, <2>1, <2>2
<1>9. CASE Program \/ Interrupted
  BY <1>1, <1>2, <1>4, <1>9 DEF Running, Program, BeginParallel, EndParallel, Finalize,
     Interrupted, LockInterrupted, CondInterrupted
<1> QED
  BY <1>5, <1>6, <1>7, <1>8, <1>9 DEF Next

\* kaapi_count_kprocessors is the number of threads that have not left.
LEMMA AliveCountStep ==
    ASSUME IndInv, IndInv', CountInv, Next
    PROVE  AliveCount'
<1> USE ConstantsAssumption DEF IndInv, TypeOK, PlaceInv, CountInv, Thread, Goto,
    MainLocation, WorkerLocation, MutexLocation, mutex, cond, suspension, local, barriers, program
<1>1. PICK S \in SUBSET Worker : S = Alive
  BY DEF Alive
<1>2. PICK T \in SUBSET Worker : T = Alive'
  BY DEF Alive
<1> DEFINE counted == pc[Main] \notin {"create", "initwait", "aborted"} /\ ~isterm
<1>3. ASSUME UNCHANGED kprocs, counted' => counted, counted => T = S PROVE AliveCount'
  BY <1>1, <1>2, <1>3 DEF AliveCount
<1>4. ASSUME NEW t \in Thread, Mutex(t) PROVE AliveCount'
  BY <1>1, <1>2, <1>3, <1>4 DEF Alive, Mutex, LockSpin, LockGiveUp, LockXchg, LockSleep, UnlockFast, UnlockContended,
     UnlockSlow, UnlockTaken, UnlockGiveUp, UnlockClear, UnlockWake, AfterUnlock
<1>5. ASSUME NEW w \in Worker, Suspend(w) PROVE AliveCount'
  BY <1>1, <1>2, <1>3, <1>5 DEF Alive, Suspend, SuspendSelf, CondSleep, Awake
<1>6. ASSUME NEW w \in Worker, Live(w) PROVE AliveCount'
  BY <1>1, <1>2, <1>3, <1>6 DEF Alive, StartInv, TermInv, Live, Register, BirthFails, EndInit,
     WaitInit2, TestFlag, TestTerm, Bye
<1>7. CASE WaitInit
  <2> Cardinality(Starting) = 0
    BY <1>7 DEF WaitInit, InitCount
  <2>1. Starting = {}
    BY CountOfThreads DEF Starting
  <2>2. T = Running
    BY <1>2, <1>7, <2>1 DEF Alive, Running, Starting, WaitInit, StartInv
  <2>3. term = Cardinality(T) + 1
    BY <1>7, <2>2 DEF TermCount, WaitInit
  <2>4. Cardinality(T) \in Nat
    BY CountOfThreads
  <2> QED
    BY <1>2, <1>7, <2>3, <2>4 DEF AliveCount, WaitInit
<1>8. CASE Call /\ ~WaitInit /\ ~CreateFails
  BY <1>1, <1>2, <1>3, <1>8 DEF Alive, Call, CreateWorker, AllCreated, PostRound, PostFlag,
     WaitFlag, WaitSpin, ResumeFlag, Broadcast, WakeAll, Asleep, SetTerm, TermDec, Free
<1>9. CASE CreateFails
  BY <1>9 DEF CreateFails, AliveCount
<1>10. CASE Program \/ Interrupted
  BY <1>1, <1>2, <1>3, <1>10 DEF Alive, Program, BeginParallel, EndParallel, Finalize,
     Interrupted, LockInterrupted, CondInterrupted
<1> QED
  BY <1>4, <1>5, <1>6, <1>7, <1>8, <1>9, <1>10 DEF Next

\* kaapi_suspendedthreads is the number of threads that sleep for the last round.
LEMMA SleepCountStep ==
    ASSUME IndInv, IndInv', CountInv, Next
    PROVE  SleepCount'
<1> USE ConstantsAssumption DEF IndInv, TypeOK, PlaceInv, CountInv, Thread, Goto,
    MainLocation, WorkerLocation, MutexLocation, mutex, cond, suspension, local, barriers, program
<1> USE DEF Sleeps
<1>1. PICK S \in SUBSET Worker : S = Sleeping
  BY DEF Sleeping
<1>2. PICK T \in SUBSET Worker : T = Sleeping'
  BY DEF Sleeping
<1>3. ASSUME UNCHANGED <<count, flag>>, spurious' = 0 => spurious = 0, flag # 0 => T = S
      PROVE  SleepCount'
  BY <1>1, <1>2, <1>3 DEF SleepCount
<1>4. ASSUME NEW t \in Thread, Mutex(t) PROVE SleepCount'
  BY <1>1, <1>2, <1>3, <1>4 DEF Sleeping, Mutex, LockSpin, LockGiveUp, LockXchg, LockSleep, UnlockFast, UnlockContended,
     UnlockSlow, UnlockTaken, UnlockGiveUp, UnlockClear, UnlockWake, AfterUnlock
<1>5. ASSUME NEW w \in Worker, Suspend(w) PROVE SleepCount'
  <2>1. CASE SuspendSelf(w)
    <3>1. CASE flag = 0
      BY <1>1, <1>2, <1>3, <2>1, <3>1 DEF Sleeping, SuspendSelf
    <3>2. CASE flag # 0
      <4>1. ~Sleeps(w)
        BY <2>1 DEF SuspendSelf, SleepInv, Unlocking
      <4>2. myround' = [myround EXCEPT ![w] = round] /\ myseq' = [myseq EXCEPT ![w] = seq]
            /\ UNCHANGED <<flag, round, spurious>> /\ count' = count + 1
        BY <2>1, <3>2 DEF SuspendSelf, First
      <4>3. w \notin S /\ T = S \cup {w}
        BY <1>1, <1>2, <4>1, <4>2 DEF Sleeping, NoSeq
      <4>4. Cardinality(T) = Cardinality(S) + 1
        BY <4>3, CountOfThreads
      <4> QED
        BY <1>1, <1>2, <3>2, <4>2, <4>4 DEF SleepCount
    <3> QED
      BY <3>1, <3>2
  <2>2. CASE CondSleep(w)
    <3>1. flag # 0 /\ myround[w] = round => seq = myseq[w]
      BY <2>2 DEF CondSleep, SleepInv
    <3> QED
      BY <1>1, <1>2, <1>3, <2>2, <3>1 DEF Sleeping, CondSleep
  <2>3. CASE Awake(w)
    BY <1>1, <1>2, <1>3, <2>3 DEF Sleeping, Awake
  <2> QED
    BY <1>5, <2>1, <2>2, <2>3 DEF Suspend
<1>6. ASSUME NEW w \in Worker, Live(w) PROVE SleepCount'
  BY <1>1, <1>2, <1>3, <1>6 DEF Sleeping, Live, Register, BirthFails, EndInit,
     WaitInit2, TestFlag, TestTerm, Bye
<1>7. CASE Call
  <2>1. CASE PostFlag
    <3>1. flag = 0 /\ T = {}
      BY <1>2, <2>1 DEF Sleeping, PostFlag, MainInv, SleepInv
    <3> QED
      BY <1>2, <2>1, <3>1, FS_EmptySet DEF SleepCount, PostFlag
  <2>2. CASE WaitFlag
    <3>1. flag # 0 /\ T = S
      BY <1>1, <1>2, <2>2 DEF Sleeping, WaitFlag, MainInv
    <3> QED
      BY <1>1, <1>2, <2>2, <3>1 DEF SleepCount, WaitFlag
  <2>3. CASE ResumeFlag
    BY <2>3 DEF SleepCount, ResumeFlag
  <2>4. CASE PostRound \/ WakeAll
    <3>1. flag = 0
      BY <2>4 DEF PostRound, WakeAll, MainInv, Waking
    <3> QED
      BY <1>3, <2>4, <3>1 DEF PostRound, WakeAll
  <2>5. CASE CreateWorker \/ CreateFails \/ AllCreated \/ WaitInit \/ WaitSpin \/ Broadcast
              \/ SetTerm \/ TermDec \/ Free
    BY <1>1, <1>2, <1>3, <2>5 DEF Sleeping, CreateWorker, CreateFails, AllCreated, WaitInit, WaitSpin,
       Broadcast, SetTerm, TermDec, Free
  <2> QED
    BY <1>7, <2>1, <2>2, <2>3, <2>4, <2>5 DEF Call
<1>8. CASE Program
  BY <1>1, <1>2, <1>3, <1>8 DEF Sleeping, Program, BeginParallel, EndParallel, Finalize
<1>9. ASSUME NEW t \in Thread, LockInterrupted(t) PROVE SleepCount'
  BY <1>1, <1>2, <1>3, <1>9 DEF Sleeping, LockInterrupted
<1>10. ASSUME NEW w \in Worker, CondInterrupted(w) PROVE SleepCount'
  BY <1>10 DEF CondInterrupted, SleepCount
<1> QED
  BY <1>4, <1>5, <1>6, <1>7, <1>8, <1>9, <1>10 DEF Next, Interrupted

\* Once all sleep, they sleep until the flag is reset.
LEMMA AsleepStep ==
    ASSUME IndInv, IndInv', CountInv, Next
    PROVE  AsleepInv'
<1> USE ConstantsAssumption DEF IndInv, TypeOK, PlaceInv, CountInv, Thread, Goto,
    MainLocation, WorkerLocation, MutexLocation, mutex, cond, suspension, local, barriers, program
<1> USE DEF AsleepInv, Sleeping, Sleeps
<1>1. ASSUME NEW t \in Thread, Mutex(t) PROVE AsleepInv'
  BY <1>1 DEF Locking, Unlocking, MainInv, SleepInv, Mutex, LockSpin, LockGiveUp, LockXchg, LockSleep, UnlockFast, UnlockContended,
     UnlockSlow, UnlockTaken, UnlockGiveUp, UnlockClear, UnlockWake, AfterUnlock
<1>2. ASSUME NEW w \in Worker, Suspend(w) PROVE AsleepInv'
  BY <1>2 DEF Suspend, SuspendSelf, CondSleep, Awake, SleepInv, Unlocking
<1>3. ASSUME NEW w \in Worker, Live(w) PROVE AsleepInv'
  BY <1>3 DEF Live, Register, BirthFails, EndInit, WaitInit2, TestFlag, TestTerm, Bye, SleepInv, Unlocking
<1>4. CASE WaitSpin
  <2>1. SUFFICES ASSUME spurious = 0, flag = 2
                 PROVE  Sleeping = Alive
    BY <1>4 DEF WaitSpin, Alive
  <2>2. PICK S \in SUBSET Worker, T \in SUBSET Worker : S = Sleeping /\ T = Alive
    BY DEF Alive
  <2>3. S \subseteq T
    BY <2>2 DEF Alive, SleepInv, Unlocking
  <2>4. kprocs = 1 + Cardinality(T) /\ count = Cardinality(S) /\ count = kprocs - 1
    BY <1>4, <2>1, <2>2 DEF WaitSpin, AliveCount, SleepCount, TermInv
  <2>5. Cardinality(S) = Cardinality(T)
    BY <2>4, CountOfThreads
  <2> QED
    BY <2>2, <2>3, <2>5, CountOfThreads
<1>5. CASE Call /\ ~WaitSpin
  BY <1>5 DEF Call, CreateWorker, CreateFails, AllCreated, WaitInit, PostRound, PostFlag, WaitFlag, ResumeFlag,
     Broadcast, WakeAll, Asleep, SetTerm, TermDec, Free, MainInv, Waking
<1>6. CASE Program
  BY <1>6 DEF Program, BeginParallel, EndParallel, Finalize
<1>7. ASSUME NEW t \in Thread, LockInterrupted(t) PROVE AsleepInv'
  BY <1>7 DEF LockInterrupted, SleepInv, Unlocking
<1>8. ASSUME NEW w \in Worker, CondInterrupted(w) PROVE AsleepInv'
  BY <1>8 DEF CondInterrupted
<1> QED
  BY <1>1, <1>2, <1>3, <1>4, <1>5, <1>6, <1>7, <1>8 DEF Next, Interrupted

LEMMA SpecCount == Spec => []CountInv
<1>1. IndInv /\ IndInv' /\ CountInv /\ [Next]_vars => CountInv'
  <2> SUFFICES ASSUME IndInv, IndInv', CountInv, [Next]_vars PROVE CountInv'
    OBVIOUS
  <2>1. CASE Next
    BY <2>1, StartStep, TermStep, InitCountStep, TermCountStep, AliveCountStep, SleepCountStep, AsleepStep
    DEF CountInv
  <2>2. CASE UNCHANGED vars
    BY <2>2 DEF CountInv, StartInv, TermInv, InitCount, TermCount, AliveCount, SleepCount, AsleepInv,
       Starting, Running, Alive, Sleeping, Sleeps, vars, mutex, cond, suspension, local, barriers, program
  <2> QED
    BY <2>1, <2>2
<1> QED
  BY <1>1, CountInit, SpecInv, PTL DEF Spec

\* kaapi_suspendedthreads counts the threads that sleep for the last round, as
\* long as the kernel ends no sleep by itself, and kaapi_setconcurrency returns
\* when all others sleep.
THEOREM CountsAreExact == Spec => []CountIsExact
<1>1. IndInv /\ CountInv => CountIsExact
  BY DEF CountInv, SleepCount, AsleepInv, CountIsExact, Sleeping
<1> QED
  BY <1>1, SpecInv, SpecCount, PTL

\* When kaapi_mt_finalize frees the kprocessors, every thread has left the run
\* time, those that never got a kprocessor included.
THEOREM FreedAreUnused == Spec => []FreedIsUnused
<1>1. ASSUME IndInv, IndInv', CountInv, FreedIsUnused, Next PROVE FreedIsUnused'
  <2> USE <1>1, ConstantsAssumption DEF IndInv, TypeOK, PlaceInv, FreedIsUnused, Thread, Goto,
      MainLocation, WorkerLocation, MutexLocation, program
  <2>1. CASE Free
    <3>1. Cardinality(Running) = 0
      BY <2>1, CountOfThreads DEF Free, CountInv, TermCount, Running
    <3>2. Running = {}
      BY <3>1, CountOfThreads DEF Running
    <3> QED
      BY <2>1, <3>2 DEF Free, CountInv, StartInv, Running
  <2>2. ASSUME NEW t \in Thread, Mutex(t) PROVE FreedIsUnused'
    BY <2>2 DEF Mutex, LockSpin, LockGiveUp, LockXchg, LockSleep, UnlockFast, UnlockContended,
     UnlockSlow, UnlockTaken, UnlockGiveUp, UnlockClear, UnlockWake, AfterUnlock
  <2>3. ASSUME NEW w \in Worker, Suspend(w) \/ Live(w) PROVE FreedIsUnused'
    BY <2>3 DEF Suspend, SuspendSelf, CondSleep, Awake, Live, Register, BirthFails, EndInit,
       WaitInit2, TestFlag, TestTerm, Bye
  <2>4. CASE Call /\ ~Free
    BY <2>4 DEF Call, CreateWorker, CreateFails, AllCreated, WaitInit, PostRound, PostFlag, WaitFlag, WaitSpin,
       ResumeFlag, Broadcast, WakeAll, Asleep, SetTerm, TermDec
  <2>5. CASE Program \/ Interrupted
    BY <2>5 DEF Program, BeginParallel, EndParallel, Finalize, Interrupted, LockInterrupted,
       CondInterrupted
  <2> QED
    BY <2>1, <2>2, <2>3, <2>4, <2>5 DEF Next
<1>2. FreedIsUnused /\ UNCHANGED vars => FreedIsUnused'
  BY DEF FreedIsUnused, vars
<1>3. Init => FreedIsUnused
  BY ConstantsAssumption DEF Init, Thread, FreedIsUnused
<1> QED
  BY <1>1, <1>2, <1>3, SpecInv, SpecCount, PTL DEF Spec
================================================================================
