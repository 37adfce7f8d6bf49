-------------------------- MODULE LockAndQueueProofs --------------------------
(***************************************************************************)
(* Proofs about KaapiLock, for every set of processes, and about WorkQueue *)
(* for every range of iterations, every size asked for and both types of   *)
(* bounds, provided that beg + max_size does not wrap.  The two belong     *)
(* together in the code: a queue is initialised with the lock by which its *)
(* thieves and its slow pops exclude each other, and what WorkQueue takes  *)
(* for granted of that lock is what is proved of it here.                  *)
(***************************************************************************)
EXTENDS KaapiLock, WorkQueue, FiniteSetTheorems, SequenceTheorems, TLAPS

-------------------------------------------------------------------------------
(* The lock excludes.                                                      *)

\* Between the success of lock or trylock and the end of unlock.
Inside(p) == pc[p] \in {Critical, "clear", "write"}

Shape ==
    /\ counter \in Int
    /\ counter <= 1
    /\ sync \in BOOLEAN
    /\ pc \in [Process -> Location]
    /\ pending \in [Process -> SUBSET Process]

\* Only the unlock makes the counter positive again.
CounterInv == \A p \in Process : Inside(p) => counter <= 0

ExclusiveInv == \A p, q \in Process : Inside(p) /\ Inside(q) => p = q

\* As long as somebody a wait is for is inside, _sync is set: who clears it is
\* the only one inside, and no longer counted.
PendingInv ==
    \A p \in Waiting : \A q \in pending[p] : sync /\ pc[q] = Critical

LockIndInv == Shape /\ CounterInv /\ ExclusiveInv /\ PendingInv

USE ProcessAssumption DEF Location, Critical, Goto, Waiting

\* The lock starts free, with nobody inside and nobody waiting.
LEMMA LockInitLemma == LockInit => LockIndInv
<1> SUFFICES ASSUME LockInit PROVE LockIndInv
  OBVIOUS
<1>1. \A p \in Process : pc[p] = "out" /\ pending[p] = {}
  BY DEF LockInit
<1>2. pc \in [Process -> Location]
  BY DEF LockInit
<1>3. pending \in [Process -> SUBSET Process]
  BY DEF LockInit
<1>4. counter \in Int /\ counter <= 1
  BY DEF LockInit
<1>5. sync \in BOOLEAN
  BY DEF LockInit
<1> QED BY <1>1, <1>2, <1>3, <1>4, <1>5
        DEF Shape, LockIndInv, CounterInv, ExclusiveInv, PendingInv, Inside

\* The beginning of a call changes nothing but where its caller is; that of a
\* wait records who is inside.
LEMMA CallLemma ==
    ASSUME LockIndInv, NEW p \in Process, Call(p)
    PROVE  LockIndInv'
<1>1. CASE CallLock(p)
  BY <1>1 DEF CallLock, LockIndInv, Shape, CounterInv, ExclusiveInv, PendingInv, Inside
<1>2. CASE CallTryLock(p)
  BY <1>2 DEF CallTryLock, LockIndInv, Shape, CounterInv, ExclusiveInv, PendingInv, Inside
<1>3. CASE SetSync(p)
  BY <1>3 DEF SetSync, LockIndInv, Shape, CounterInv, ExclusiveInv, PendingInv, Inside
<1> QED BY <1>1, <1>2, <1>3 DEF Call

\* A success needs a counter of 1, so nobody is inside; the one that leaves has
\* been the only one inside.
LEMMA StepLemma ==
    ASSUME LockIndInv, NEW p \in Process, Step(p)
    PROVE  LockIndInv'
<1> USE DEF LockIndInv, Shape, CounterInv, ExclusiveInv, PendingInv, Inside
<1>1. CASE Decr(p)
  BY <1>1 DEF Decr
<1>2. CASE Spin(p)
  BY <1>2 DEF Spin
<1>3. CASE TryRead(p)
  BY <1>3 DEF TryRead
<1>4. CASE TryDecr(p)
  BY <1>4 DEF TryDecr
<1>5. CASE TestSync(p)
  BY <1>5 DEF TestSync
<1>6. CASE ClearSync(p)
  BY <1>6 DEF ClearSync
<1>7. CASE WriteCounter(p)
  BY <1>7 DEF WriteCounter
<1>8. CASE ReadSync(p)
  BY <1>8 DEF ReadSync
<1>9. CASE ReadCounter(p)
  BY <1>9 DEF ReadCounter
<1> QED BY <1>1, <1>2, <1>3, <1>4, <1>5, <1>6, <1>7, <1>8, <1>9 DEF Step

\* A step that leaves the variables alone keeps the invariant.
LEMMA StutterLemma == LockIndInv /\ UNCHANGED lockVars => LockIndInv'
BY DEF lockVars, LockIndInv, Shape, CounterInv, ExclusiveInv, PendingInv, Inside

\* The invariant the other theorems of this module rest on.
THEOREM LockInvariance == LockSpec => []LockIndInv
<1>1. LockIndInv /\ [LockNext]_lockVars => LockIndInv'
  BY CallLemma, StepLemma, StutterLemma DEF LockNext
<1> QED BY LockInitLemma, <1>1, PTL DEF LockSpec

\* kaapi_atomic_lock, kaapi_atomic_trylock and kaapi_atomic_unlock keep every
\* two processes of any number out of each other's critical section.
THEOREM LockIsExclusive == LockSpec => []MutualExclusion
<1>1. LockIndInv => MutualExclusion
  BY DEF LockIndInv, ExclusiveInv, MutualExclusion, Inside
<1> QED BY LockInvariance, <1>1, PTL

-------------------------------------------------------------------------------
(* The counter cannot drift.  Until the next unlock writes 1, a process    *)
(* that is neither spinning nor inside may decrement it once more, and one *)
(* more time if it has found it 1 in trylock.                              *)

MayDecr == {p \in Process : pc[p] \notin {"spin", "write", "clear", Critical}}
MayFail == {p \in Process : pc[p] = "trydecr"}

DriftInv ==
    counter <= 0 =>
        counter >= 2 - 2 * Cardinality(Process) + Cardinality(MayDecr) + Cardinality(MayFail)

\* How the number of elements of a set of processes follows the set.
LEMMA CountOfProcesses ==
    ASSUME NEW S \in SUBSET Process, NEW T \in SUBSET Process
    PROVE  /\ Cardinality(S) \in Nat /\ Cardinality(S) <= Cardinality(Process)
           /\ S # Process => Cardinality(S) < Cardinality(Process)
           /\ T \subseteq S => Cardinality(T) <= Cardinality(S)
           /\ \A p \in S : T = S \ {p} => Cardinality(T) = Cardinality(S) - 1
<1>1. IsFiniteSet(S) /\ IsFiniteSet(Process)
  BY FS_Subset
<1>2. /\ Cardinality(S) \in Nat /\ Cardinality(Process) \in Nat
      /\ Cardinality(S) <= Cardinality(Process)
      /\ Cardinality(S) = Cardinality(Process) => S = Process
      /\ T \subseteq S => Cardinality(T) <= Cardinality(S)
  BY <1>1, FS_CardinalityType, FS_Subset
<1>3. \A p \in S : Cardinality(S \ {p}) = Cardinality(S) - 1
  BY <1>1, FS_RemoveElement
<1> QED BY <1>2, <1>3

\* Every decrement is one its process had left.
LEMMA DriftStep ==
    ASSUME LockIndInv, LockIndInv', DriftInv, LockNext
    PROVE  DriftInv'
<1> USE DEF LockIndInv, Shape
<1>1. PICK S \in SUBSET Process, B \in SUBSET Process : S = MayDecr /\ B = MayFail
  BY DEF MayDecr, MayFail
<1>2. PICK T \in SUBSET Process, C \in SUBSET Process : T = MayDecr' /\ C = MayFail'
  BY DEF MayDecr, MayFail
<1> DEFINE N == Cardinality(Process)
<1>3. /\ Cardinality(S) \in Nat /\ Cardinality(B) \in Nat
      /\ Cardinality(T) \in Nat /\ Cardinality(C) \in Nat /\ N \in Nat
  BY CountOfProcesses
<1>4. ASSUME UNCHANGED counter, T \subseteq S, C \subseteq B PROVE DriftInv'
  <2>1. Cardinality(T) <= Cardinality(S) /\ Cardinality(C) <= Cardinality(B)
    BY <1>4, CountOfProcesses
  <2> QED BY <1>1, <1>2, <1>3, <1>4, <2>1 DEF DriftInv
<1>5. PICK p \in Process : Call(p) \/ Step(p)
  BY DEF LockNext
<1>6. CASE Call(p)
  BY <1>1, <1>2, <1>4, <1>6 DEF MayDecr, MayFail, Call, CallLock, CallTryLock, SetSync
<1>7. CASE Decr(p) \/ TryDecr(p)
  <2>1. counter' = counter - 1
    BY <1>7 DEF Decr, TryDecr
  <2>2. CASE counter = 1
    <3>1. p \notin T /\ p \notin C
      BY <1>2, <1>7, <2>2 DEF MayDecr, MayFail, Decr, TryDecr
    <3>2. Cardinality(T) < N /\ Cardinality(C) < N
      BY <3>1, CountOfProcesses
    <3> QED BY <1>2, <1>3, <2>1, <2>2, <3>2 DEF DriftInv
  <2>3. CASE counter # 1 /\ Decr(p)
    <3>1. p \in S /\ T = S \ {p} /\ C = B
      BY <1>1, <1>2, <2>3 DEF MayDecr, MayFail, Decr
    <3>2. Cardinality(T) = Cardinality(S) - 1
      BY <3>1, CountOfProcesses
    <3> QED BY <1>1, <1>2, <1>3, <2>1, <2>3, <3>1, <3>2 DEF DriftInv
  <2>4. CASE counter # 1 /\ TryDecr(p)
    <3>1. p \in B /\ C = B \ {p} /\ T = S
      BY <1>1, <1>2, <2>4 DEF MayDecr, MayFail, TryDecr
    <3>2. Cardinality(C) = Cardinality(B) - 1
      BY <3>1, CountOfProcesses
    <3> QED BY <1>1, <1>2, <1>3, <2>1, <2>4, <3>1, <3>2 DEF DriftInv
  <2> QED BY <1>7, <2>2, <2>3, <2>4
<1>8. CASE WriteCounter(p)
  BY <1>8 DEF WriteCounter, DriftInv
<1>9. CASE Spin(p)
  BY <1>9 DEF Spin, DriftInv
<1>10. CASE TryRead(p)
  <2>1. CASE counter = 1
    BY <1>10, <2>1 DEF TryRead, DriftInv
  <2>2. CASE counter # 1
    BY <1>1, <1>2, <1>4, <1>10, <2>2 DEF MayDecr, MayFail, TryRead
  <2> QED BY <2>1, <2>2
<1>11. CASE TestSync(p) \/ ClearSync(p) \/ ReadSync(p) \/ ReadCounter(p)
  BY <1>1, <1>2, <1>4, <1>11 DEF MayDecr, MayFail, TestSync, ClearSync, ReadSync, ReadCounter
<1> QED BY <1>5, <1>6, <1>7, <1>8, <1>9, <1>10, <1>11 DEF Step

\* Failed attempts of kaapi_atomic_lock and kaapi_atomic_trylock cannot make the
\* counter wrap: it stays above a bound given by the number of threads alone.
THEOREM CounterIsBounded == LockSpec => []LockTypeOK
<1>1. LockInit => DriftInv
  BY DEF LockInit, DriftInv
<1>2. LockIndInv /\ LockIndInv' /\ DriftInv /\ [LockNext]_lockVars => DriftInv'
  BY DriftStep DEF lockVars, DriftInv, MayDecr, MayFail
<1>3. LockIndInv /\ DriftInv => LockTypeOK
  <2> SUFFICES ASSUME LockIndInv, DriftInv PROVE LockTypeOK
    OBVIOUS
  <2>1. PICK S \in SUBSET Process, B \in SUBSET Process : S = MayDecr /\ B = MayFail
    BY DEF MayDecr, MayFail
  <2>2. Cardinality(S) \in Nat /\ Cardinality(B) \in Nat /\ Cardinality(Process) \in Nat
    BY CountOfProcesses
  <2> QED BY <2>1, <2>2 DEF LockIndInv, Shape, DriftInv, LockTypeOK
<1> QED BY LockInvariance, <1>1, <1>2, <1>3, PTL DEF LockSpec

\* kaapi_atomic_waitlock does not return before a process that was in the
\* critical section at its call has left it, however many others come and go.
THEOREM WaitIsLongEnough == LockSpec => WaitCoversHolder
<1> DEFINE Covered ==
      \A p \in Process :
        pc[p] \in {"rdsync", "rdcounter"} /\ pc'[p] = "out" => pending[p] = {}
<1>1. LockIndInv /\ [LockNext]_lockVars => [Covered]_lockVars
  <2> SUFFICES ASSUME LockIndInv, LockNext, NEW p \in Process,
                      pc[p] \in {"rdsync", "rdcounter"}, pc'[p] = "out"
               PROVE  pending[p] = {}
    BY DEF lockVars
  <2>1. PICK q \in Process : Call(q) \/ Step(q)
    BY DEF LockNext
  <2>2. ReadSync(p) \/ ReadCounter(p)
    BY <2>1 DEF LockIndInv, Shape, Call, CallLock, CallTryLock, SetSync, Step, Decr,
       Spin, TryRead, TryDecr, TestSync, ClearSync, WriteCounter, ReadSync,
       ReadCounter
  <2>3. CASE ReadSync(p)
    BY <2>3 DEF ReadSync, LockIndInv, Shape, PendingInv
  <2>4. CASE ReadCounter(p)
    <3>1. counter > 0
      BY <2>4 DEF ReadCounter
    <3> QED BY <3>1 DEF LockIndInv, Shape, CounterInv, PendingInv, Inside
  <2> QED BY <2>2, <2>3, <2>4
<1>2. LockSpec => [][Covered]_lockVars
  BY LockInvariance, <1>1, PTL DEF LockSpec
<1> QED BY <1>2 DEF WaitCoversHolder

-------------------------------------------------------------------------------
(* The counter and _sync implement module Lock.                            *)

Holds(location, p) == location[p] \in {Critical, "clear"}

\* HolderOf finds the one process that holds the lock.
LEMMA HolderIs ==
    ASSUME NEW location, NEW p \in Process, Holds(location, p),
           \A q \in Process : Holds(location, q) => q = p
    PROVE  HolderOf(location) = p
BY DEF HolderOf, Holds

\* Nobody holds the lock when nobody is where it is held.
LEMMA HolderIsNone ==
    ASSUME NEW location, \A q \in Process : ~Holds(location, q)
    PROVE  HolderOf(location) = None
BY DEF HolderOf, Holds

\* A step that lets the same processes hold the lock keeps its holder.
LEMMA HolderStays ==
    ASSUME NEW location, NEW other,
           \A q \in Process : Holds(location, q) <=> Holds(other, q),
           \A q, r \in Process : Holds(location, q) /\ Holds(location, r) => q = r
    PROVE  HolderOf(location) = HolderOf(other)
<1>1. CASE \E q \in Process : Holds(location, q)
  BY <1>1, HolderIs
<1>2. CASE \A q \in Process : ~Holds(location, q)
  BY <1>2, HolderIsNone
<1> QED BY <1>1, <1>2

\* The actions of module Lock, seen through the mapping.
LEMMA AcquireStep ==
    ASSUME LockIndInv, NEW p \in Process, Decr(p) \/ TryDecr(p), pc'[p] = Critical
    PROVE  Abstract!Acquire(p)
<1>1. counter > 0 /\ pc' = [pc EXCEPT ![p] = Critical]
  BY DEF Decr, TryDecr, LockIndInv, Shape
<1>2. \A q \in Process : ~Holds(pc, q)
  BY <1>1 DEF LockIndInv, Shape, CounterInv, Inside, Holds
<1>3. \A q \in Process : Holds(pc', q) <=> q = p
  BY <1>1, <1>2 DEF LockIndInv, Shape, Holds
<1>4. HolderOf(pc) = None /\ HolderOf(pc') = p
  BY <1>2, <1>3, HolderIs, HolderIsNone
<1>5. p \notin Waiting /\ Waiting' = Waiting /\ sync' = sync
  BY <1>1 DEF Decr, TryDecr, LockIndInv, Shape
<1> QED BY <1>4, <1>5 DEF Abstract!Acquire

LEMMA ReleaseStep ==
    ASSUME LockIndInv, NEW p \in Process, TestSync(p) \/ ClearSync(p), pc'[p] = "write"
    PROVE  Abstract!Release(p)
<1>1. Holds(pc, p) /\ pc' = [pc EXCEPT ![p] = "write"]
  BY DEF TestSync, ClearSync, Holds, LockIndInv, Shape
<1>2. \A q \in Process : Holds(pc, q) => q = p
  BY <1>1 DEF LockIndInv, ExclusiveInv, Inside, Holds
<1>3. \A q \in Process : ~Holds(pc', q)
  BY <1>1, <1>2 DEF LockIndInv, Shape, Holds
<1>4. HolderOf(pc) = p /\ HolderOf(pc') = None
  BY <1>1, <1>2, <1>3, HolderIs, HolderIsNone
<1>5. Waiting' = Waiting
  BY <1>1 DEF Holds, LockIndInv, Shape
<1>6. sync' = FALSE
  BY <1>1 DEF TestSync, ClearSync, LockIndInv, Shape
<1> QED BY <1>4, <1>5, <1>6 DEF Abstract!Release

\* A step between two places where the lock is not held, or both where it is.
LEMMA SameHolder ==
    ASSUME LockIndInv, LockIndInv',
           \A q \in Process : Holds(pc', q) <=> Holds(pc, q)
    PROVE  HolderOf(pc') = HolderOf(pc)
<1>1. \A q, r \in Process : Holds(pc', q) /\ Holds(pc', r) => q = r
  BY DEF LockIndInv, ExclusiveInv, Inside, Holds
<1> QED BY <1>1, HolderStays

LEMMA BeginWaitStep ==
    ASSUME LockIndInv, LockIndInv', NEW p \in Process, SetSync(p)
    PROVE  p \in Waiter /\ Abstract!BeginWait(p)
<1>1. \A q \in Process : Holds(pc', q) <=> Holds(pc, q)
  BY DEF SetSync, LockIndInv, Shape, Holds
<1>2. HolderOf(pc') = HolderOf(pc)
  BY <1>1, SameHolder
<1>3. p \notin Waiting /\ Waiting' = Waiting \cup {p}
  BY DEF SetSync, LockIndInv, Shape
<1> QED BY <1>2, <1>3 DEF SetSync, Abstract!BeginWait

LEMMA EndWaitStep ==
    ASSUME LockIndInv, LockIndInv', NEW p \in Process,
           ReadSync(p) \/ ReadCounter(p), pc'[p] = "out"
    PROVE  p \in Waiter => Abstract!EndWait(p)
<1>1. \A q \in Process : Holds(pc', q) <=> Holds(pc, q)
  BY DEF ReadSync, ReadCounter, LockIndInv, Shape, Holds
<1>2. HolderOf(pc') = HolderOf(pc)
  BY <1>1, SameHolder
<1>3. p \in Waiting /\ Waiting' = Waiting \ {p}
  BY DEF ReadSync, ReadCounter, LockIndInv, Shape
<1>4. ASSUME sync PROVE HolderOf(pc) = None
  <2>1. counter > 0
    BY <1>4 DEF ReadSync, ReadCounter, LockIndInv, Shape
  <2>2. \A q \in Process : ~Holds(pc, q)
    BY <2>1 DEF LockIndInv, Shape, CounterInv, Inside, Holds
  <2> QED BY <2>2, HolderIsNone
<1>5. sync' = sync
  BY DEF ReadSync, ReadCounter
<1> QED BY <1>2, <1>3, <1>4, <1>5 DEF Abstract!EndWait

\* Every other step is invisible.
LEMMA HiddenStep ==
    ASSUME LockIndInv, LockIndInv', sync' = sync, Waiting' = Waiting,
           \A q \in Process : Holds(pc', q) <=> Holds(pc, q)
    PROVE  UNCHANGED Abstract!vars
BY SameHolder DEF Abstract!vars

\* Only those that may wait are in a wait.
WaiterInv == Waiting \subseteq Waiter

\* kaapi_atomic_waitlock is the only way into a wait.
LEMMA WaiterLemma == LockSpec => []WaiterInv
<1>1. LockInit => WaiterInv
  BY DEF LockInit, WaiterInv
<1>2. LockIndInv /\ WaiterInv /\ [LockNext]_lockVars => WaiterInv'
  <2> SUFFICES ASSUME LockIndInv, WaiterInv, [LockNext]_lockVars PROVE WaiterInv'
    OBVIOUS
  <2>1. CASE UNCHANGED lockVars
    BY <2>1 DEF lockVars, WaiterInv
  <2>2. CASE LockNext
    BY <2>2 DEF WaiterInv, LockIndInv, Shape, LockNext, Call, CallLock, CallTryLock,
       SetSync, Step, Decr, Spin, TryRead, TryDecr, TestSync, ClearSync,
       WriteCounter, ReadSync, ReadCounter
  <2> QED BY <2>1, <2>2
<1> QED BY LockInvariance, <1>1, <1>2, PTL DEF LockSpec

\* Each step of the code is one of module Lock, or changes nothing there.
LEMMA LockStepLemma ==
    ASSUME LockIndInv, LockIndInv', WaiterInv, LockNext
    PROVE  [Abstract!Next]_(Abstract!vars)
<1>1. PICK p \in Process : Call(p) \/ Step(p)
  BY DEF LockNext
<1> USE DEF LockIndInv, Shape
<1>2. CASE CallLock(p) \/ CallTryLock(p) \/ Spin(p) \/ TryRead(p) \/ WriteCounter(p)
  BY <1>2, HiddenStep
     DEF CallLock, CallTryLock, Spin, TryRead, WriteCounter, Holds
<1>3. CASE SetSync(p)
  BY <1>3, BeginWaitStep DEF Abstract!Next
<1>4. CASE Decr(p) \/ TryDecr(p)
  <2>1. CASE pc'[p] = Critical
    BY <1>4, <2>1, AcquireStep DEF Abstract!Next
  <2>2. CASE pc'[p] # Critical
    BY <1>4, <2>2, HiddenStep DEF Decr, TryDecr, Holds
  <2> QED BY <2>1, <2>2
<1>5. CASE TestSync(p) \/ ClearSync(p)
  <2>1. CASE pc'[p] = "write"
    BY <1>5, <2>1, ReleaseStep DEF Abstract!Next
  <2>2. CASE pc'[p] # "write"
    BY <1>5, <2>2, HiddenStep DEF TestSync, ClearSync, Holds
  <2> QED BY <2>1, <2>2
<1>6. CASE ReadSync(p) \/ ReadCounter(p)
  <2>1. p \in Waiter
    BY <1>6 DEF ReadSync, ReadCounter, WaiterInv
  <2>2. CASE pc'[p] = "out"
    BY <1>6, <2>1, <2>2, EndWaitStep DEF Abstract!Next
  <2>3. CASE pc'[p] # "out"
    BY <1>6, <2>3, HiddenStep DEF ReadSync, ReadCounter, Holds
  <2> QED BY <2>2, <2>3
<1> QED BY <1>1, <1>2, <1>3, <1>4, <1>5, <1>6 DEF Call, Step

\* The counter, _sync and the loops of kaapi_atomic.h implement the lock with a
\* wait that module Lock describes and the models of the stack rely on.
THEOREM LockIsImplemented == LockSpec => ImplementsLock
<1>1. LockInit => Abstract!Init
  <2> SUFFICES ASSUME LockInit PROVE Abstract!Init
    OBVIOUS
  <2>1. \A p \in Process : pc[p] = "out"
    BY DEF LockInit
  <2>2. HolderOf(pc) = None
    BY <2>1, HolderIsNone DEF Holds
  <2>3. Waiting = {}
    BY <2>1
  <2> QED BY <2>2, <2>3 DEF LockInit, Abstract!Init
<1>2. LockIndInv /\ LockIndInv' /\ WaiterInv /\ [LockNext]_lockVars => [Abstract!Next]_(Abstract!vars)
  <2> SUFFICES ASSUME LockIndInv, LockIndInv', WaiterInv, [LockNext]_lockVars
               PROVE  [Abstract!Next]_(Abstract!vars)
    OBVIOUS
  <2>1. CASE LockNext
    BY <2>1, LockStepLemma
  <2>2. CASE UNCHANGED lockVars
    BY <2>2 DEF lockVars, Abstract!vars
  <2> QED BY <2>1, <2>2
<1> QED BY <1>1, <1>2, LockInvariance, WaiterLemma, PTL
        DEF LockSpec, ImplementsLock, Abstract!Spec

HIDE ProcessAssumption DEF Location, Critical, Goto, Waiting

-------------------------------------------------------------------------------
(* The work queue.                                                         *)

\* No pop adds its size past the largest kaapi_workqueue_index_ull_t.
NoWrap == MaxIndex + MaxSize < Modulus

\* The bounds of what is left form an interval within the iterations.
RangeInv == Low \in Bound /\ High \in Bound /\ Low <= High

\* Every value of beg a thief may see is at or above Low: the owner only ever
\* shows too little.
BegInv ==
    /\ beg >= Low
    /\ \A k \in 1..Len(begBuf) : begBuf[k] >= Low
    /\ opc # "check" => Len(begBuf) <= 1
    /\ opc = "check" => Beg = oinit + osize
    /\ opc = "slow" => Beg = oinit

\* Every value of end the owner may see is at or below High.
EndInv ==
    /\ end <= High
    /\ tpc = "idle" => endBuf = <<>>
    /\ tpc = "check" => End = tinit - tsize
    /\ tpc = "restored" => End = tinit

IndInv ==
    /\ TypeOK
    /\ RangeInv
    /\ BegInv
    /\ EndInv
    /\ EachIterationOnce

-------------------------------------------------------------------------------
USE ConstantsAssumption DEF Iteration, Bound, Size, ownerVars, thiefVars

\* What Give does to the count of every iteration.
LEMMA GiveLemma ==
    ASSUME TypeOK, NEW w \in {"owner", "thief"}, NEW b \in Int, NEW e \in Int,
           Give(w, b, e)
    PROVE  /\ times' \in [Iteration -> Nat]
           /\ got' \in {"none", "owner", "thief", "empty"} \X Int \X Int
           /\ \A i \in Iteration :
                 times'[i] = IF b <= i /\ i < e THEN times[i] + 1 ELSE times[i]
<1>1. times \in [Iteration -> Nat]
  BY DEF TypeOK
<1>2. times' = [i \in Iteration |->
                    IF b <= i /\ i < e THEN times[i] + 1 ELSE times[i]]
  BY DEF Give
<1>3. \A i \in Iteration : times[i] + 1 \in Nat
  BY <1>1
<1>4. got' = <<w, b, e>>
  BY DEF Give
<1> QED BY <1>1, <1>2, <1>3, <1>4

\* What a store buffer is once its oldest store has left it.
LEMMA DrainLemma ==
    ASSUME NEW s \in Seq(Int), s # <<>>
    PROVE  /\ Len(s) \in Nat /\ Len(s) >= 1
           /\ Head(s) = s[1] /\ s[1] \in Int /\ s[Len(s)] \in Int
           /\ Tail(s) \in Seq(Int)
           /\ Len(Tail(s)) = Len(s) - 1
           /\ \A k \in 1..Len(Tail(s)) : Tail(s)[k] = s[k + 1]
           /\ Tail(s) = <<>> <=> Len(s) = 1
<1>1. Len(s) \in Nat /\ Len(s) # 0
  BY EmptySeq
<1>2. /\ Head(s) = s[1] /\ Tail(s) \in Seq(Int) /\ Len(Tail(s)) = Len(s) - 1
      /\ \A k \in 1..Len(Tail(s)) : Tail(s)[k] = s[k + 1]
  BY HeadTailProperties
<1>3. Tail(s) = <<>> <=> Len(Tail(s)) = 0
  BY <1>2, EmptySeq
<1> QED BY <1>1, <1>2, <1>3

\* A pop stores its bound and has taken nothing yet.
LEMMA PopStoreStep ==
    ASSUME NEW n \in Size, NoWrap, IndInv, PopStore(n)
    PROVE  IndInv' /\ [Queue!Next]_(Queue!vars)
<1>1. Beg \in Bound /\ Beg = Low /\ begBuf \in Seq(Int) /\ Len(begBuf) <= 1
  BY DEF PopStore, IndInv, TypeOK, RangeInv, BegInv, Low
<1>2. Add(Beg, n) = Beg + n /\ Beg + n \in Int
  BY <1>1 DEF NoWrap, Add
<1> DEFINE s == Append(begBuf, Beg + n)
<1>3. /\ s \in Seq(Int) /\ s # <<>> /\ Len(s) = Len(begBuf) + 1
      /\ Len(s) \in 1..2
      /\ \A k \in 1..Len(begBuf) : s[k] = begBuf[k]
      /\ s[Len(s)] = Beg + n
  BY <1>1, <1>2, AppendProperties, LenProperties
<1>4. /\ opc' = "check" /\ oinit' = Beg /\ osize' = n /\ begBuf' = s
      /\ Low' = Beg /\ High' = High /\ End' = End /\ Beg' = Beg + n
      /\ UNCHANGED <<ull, beg, end, endBuf, tpc, tinit, tsize, times, got>>
  BY <1>2, <1>3 DEF PopStore, Low, High, End, Beg
<1> HIDE DEF s
<1>5. TypeOK'
  <2>1. begBuf' \in Seq(Int) /\ Len(begBuf') <= 2
    BY <1>3, <1>4
  <2>2. oinit' \in Bound /\ osize' \in Size
    BY <1>1, <1>4
  <2>3. TypeOK
    BY DEF IndInv
  <2> QED BY <1>4, <2>1, <2>2, <2>3, Zenon DEF TypeOK
<1>6. RangeInv' /\ EndInv'
  <2>1. RangeInv'
    BY <1>1, <1>4 DEF IndInv, RangeInv
  <2>2. EndInv'
    BY <1>4 DEF IndInv, EndInv
  <2> QED BY <2>1, <2>2
<1>7. BegInv'
  <2>1. beg >= Beg
    BY <1>1 DEF IndInv, BegInv
  <2>2. \A k \in 1..Len(begBuf) : s[k] >= Beg
    BY <1>1, <1>3 DEF IndInv, BegInv
  <2>3. \A k \in 1..Len(s) : s[k] >= Beg
    BY <1>1, <1>3, <2>2
  <2> QED BY <1>4, <2>1, <2>3 DEF BegInv
<1>8. EachIterationOnce'
  BY <1>1, <1>4 DEF IndInv, EachIterationOnce
<1>9. [Queue!Next]_(Queue!vars)
  <2>1. Low' = Low /\ High' = High /\ got' = got
    BY <1>1, <1>4
  <2> QED BY <2>1 DEF Queue!vars
<1> QED BY <1>5, <1>6, <1>7, <1>8, <1>9 DEF IndInv

\* A pop without conflict takes what is below the bound it stored.
LEMMA PopFastStep ==
    ASSUME NoWrap, IndInv, PopFast
    PROVE  IndInv' /\ [Queue!Next]_(Queue!vars)
<1>1. Beg = oinit + osize /\ Low = oinit /\ oinit \in Bound /\ osize \in Size
  BY DEF PopFast, IndInv, TypeOK, BegInv, Low
<1>2. Sub(Beg, osize) = oinit
  BY <1>1 DEF Sub
<1>3. begBuf = <<>> /\ beg = Beg /\ beg < end /\ end <= High /\ High \in Bound
      /\ end \in Int /\ beg \in Int
  BY DEF PopFast, Fenced, Beg, IndInv, TypeOK, EndInv, RangeInv
<1>4. /\ Give("owner", oinit, Beg)
      /\ opc' = "idle" /\ UNCHANGED <<ull, beg, begBuf, end, endBuf, oinit, osize,
                                      tpc, tinit, tsize>>
      /\ Beg' = Beg /\ Low' = Beg /\ High' = High /\ End' = End
  BY <1>2 DEF PopFast, Beg, Low, High, End
<1>5. /\ times' \in [Iteration -> Nat]
      /\ got' \in {"none", "owner", "thief", "empty"} \X Int \X Int
      /\ \A i \in Iteration :
            times'[i] = IF oinit <= i /\ i < Beg THEN times[i] + 1 ELSE times[i]
  BY <1>1, <1>3, <1>4, GiveLemma DEF IndInv
<1>6. TypeOK'
  BY <1>4, <1>5 DEF IndInv, TypeOK
<1>7. RangeInv' /\ EndInv'
  BY <1>1, <1>3, <1>4 DEF IndInv, RangeInv, EndInv
<1>8. BegInv'
  BY <1>1, <1>3, <1>4 DEF IndInv, BegInv, Low
<1>9. EachIterationOnce'
  <2> SUFFICES ASSUME NEW i \in Iteration
               PROVE  times'[i] = IF Low' <= i /\ i < High' THEN 0 ELSE 1
    BY DEF EachIterationOnce
  <2>1. times[i] = IF Low <= i /\ i < High THEN 0 ELSE 1
    BY DEF IndInv, EachIterationOnce
  <2>2. times'[i] = IF oinit <= i /\ i < Beg THEN times[i] + 1 ELSE times[i]
    BY <1>5
  <2>3. Low = oinit /\ Low' = Beg /\ High' = High
    BY <1>1, <1>4
  <2>4. oinit \in Int /\ Beg \in Int /\ High \in Int /\ i \in Int /\ oinit <= Beg /\ Beg <= High
    BY <1>1, <1>3
  <2> QED BY <2>1, <2>2, <2>3, <2>4
<1>10. [Queue!Next]_(Queue!vars)
  <2>1. Beg \in Low + 1 .. High
    BY <1>1, <1>3
  <2>2. got' = <<"owner", Low, Beg>>
    BY <1>1, <1>4 DEF Give
  <2> QED BY <1>4, <2>1, <2>2 DEF Queue!Next, Queue!Pop
<1> QED BY <1>6, <1>7, <1>8, <1>9, <1>10 DEF IndInv

\* A pop that meets a thief takes its bound back.
LEMMA PopConflictStep ==
    ASSUME NoWrap, IndInv, PopConflict
    PROVE  IndInv' /\ [Queue!Next]_(Queue!vars)
<1> USE DEF NoWrap, IndInv, PopConflict
<1>1. TypeOK'
  BY DEF TypeOK
<1>2. RangeInv'
  BY DEF RangeInv, Beg, Low, High
<1>3. BegInv'
  BY DEF TypeOK, BegInv, Beg, Low
<1>4. EndInv'
  BY DEF EndInv, End, High
<1>5. EachIterationOnce'
  BY DEF EachIterationOnce, Beg, Low, High
<1>6. [Queue!Next]_(Queue!vars)
  <2>1. Low' = Low /\ High' = High /\ got' = got
    BY DEF TypeOK, RangeInv, BegInv, EndInv, Beg, End, Low, High, Fenced,
           ThiefFenced
  <2> QED BY <2>1 DEF Queue!vars
<1> QED BY <1>1, <1>2, <1>3, <1>4, <1>5, <1>6

\* A pop under the lock takes what is left, up to its size.
LEMMA SlowPopStep ==
    ASSUME NoWrap, IndInv, SlowPop
    PROVE  IndInv' /\ [Queue!Next]_(Queue!vars)
<1>1. /\ Beg = Low /\ end = High /\ Low \in Bound /\ High \in Bound
      /\ Low <= High /\ endBuf = <<>> /\ osize \in Size /\ tpc = "idle"
  BY DEF SlowPop, OwnerLocks, IndInv, TypeOK, RangeInv, BegInv, EndInv, Low, High
<1>2. Low < High
  BY <1>1 DEF SlowPop
<1>3. PICK e \in Bound : /\ Low < e /\ e <= High
                        /\ beg' = e /\ Give("owner", Low, e)
  <2>1. CASE High - Low > osize
    BY <1>1, <2>1 DEF SlowPop
  <2>2. CASE ~(High - Low > osize)
    BY <1>1, <1>2, <2>2 DEF SlowPop
  <2> QED BY <2>1, <2>2
<1>4. /\ opc' = "idle" /\ begBuf' = <<>>
      /\ UNCHANGED <<ull, end, endBuf, oinit, osize, tpc, tinit, tsize>>
      /\ Beg' = e /\ Low' = e /\ High' = High /\ End' = End
  BY <1>3 DEF SlowPop, OwnerLocks, Beg, Low, High, End
<1>5. /\ times' \in [Iteration -> Nat]
      /\ got' \in {"none", "owner", "thief", "empty"} \X Int \X Int
      /\ \A i \in Iteration :
            times'[i] = IF Low <= i /\ i < e THEN times[i] + 1 ELSE times[i]
  <2>1. TypeOK /\ Low \in Int /\ e \in Int /\ Give("owner", Low, e)
    BY <1>1, <1>3 DEF IndInv
  <2> QED BY <2>1, GiveLemma
<1>6. TypeOK'
  BY <1>3, <1>4, <1>5, EmptySeq DEF IndInv, TypeOK
<1>7. RangeInv' /\ EndInv'
  BY <1>1, <1>3, <1>4 DEF IndInv, RangeInv, EndInv
<1>8. BegInv'
  BY <1>3, <1>4, EmptySeq DEF BegInv
<1>9. EachIterationOnce'
  <2> SUFFICES ASSUME NEW i \in Iteration
               PROVE  times'[i] = IF Low' <= i /\ i < High' THEN 0 ELSE 1
    BY DEF EachIterationOnce
  <2>1. times[i] = IF Low <= i /\ i < High THEN 0 ELSE 1
    BY DEF IndInv, EachIterationOnce
  <2> QED BY <2>1, <1>1, <1>3, <1>4, <1>5
<1>10. [Queue!Next]_(Queue!vars)
  <2>1. e \in Low + 1 .. High
    BY <1>1, <1>3
  <2>2. got' = <<"owner", Low, e>>
    BY <1>3 DEF Give
  <2> QED BY <1>4, <2>1, <2>2 DEF Queue!Next, Queue!Pop
<1> QED BY <1>6, <1>7, <1>8, <1>9, <1>10 DEF IndInv

\* A pop under the lock finds nothing left.
LEMMA SlowPopEmptyStep ==
    ASSUME NoWrap, IndInv, SlowPopEmpty
    PROVE  IndInv' /\ [Queue!Next]_(Queue!vars)
<1> USE DEF NoWrap, IndInv, SlowPopEmpty
<1>1. TypeOK'
  BY DEF TypeOK, RangeInv, BegInv, Beg, OwnerLocks
<1>2. RangeInv'
  BY DEF RangeInv, Beg, Low, High, OwnerLocks
<1>3. BegInv'
  BY DEF BegInv, Beg, Low, OwnerLocks
<1>4. EndInv'
  BY DEF EndInv, End, High
<1>5. EachIterationOnce'
  BY DEF EachIterationOnce, Beg, Low, High, OwnerLocks
<1>6. [Queue!Next]_(Queue!vars)
  <2>1. /\ Low = High /\ Low' = Low /\ High' = High
        /\ got' = <<"empty", Low, High>>
    BY DEF TypeOK, RangeInv, BegInv, EndInv, Beg, Low, High, Fenced, OwnerLocks
  <2> QED BY <2>1 DEF Queue!Next, Queue!PopEmpty
<1> QED BY <1>1, <1>2, <1>3, <1>4, <1>5, <1>6

\* A push puts iterations back in front.
LEMMA PushStep ==
    ASSUME NEW b \in Bound, NoWrap, IndInv, Push(b)
    PROVE  IndInv' /\ [Queue!Next]_(Queue!vars)
<1> USE DEF NoWrap, IndInv, Push
<1>1. TypeOK'
  BY DEF TypeOK, EachIterationOnce, PutIn, Fenced
<1>2. RangeInv'
  BY DEF RangeInv, Beg, Low, High, Fenced
<1>3. BegInv'
  BY DEF TypeOK, BegInv, Beg, Low
<1>4. EndInv'
  BY DEF EndInv, End, High
<1>5. EachIterationOnce'
  BY DEF RangeInv, EachIterationOnce, Beg, Low, High, PutIn, Fenced
<1>6. [Queue!Next]_(Queue!vars)
  <2>1. Low' \in Int /\ Low' < Low /\ High' = High /\ got' = got
    BY DEF TypeOK, RangeInv, BegInv, EndInv, Beg, Low, High, Fenced, OwnerLocks
  <2> QED BY <2>1 DEF Queue!Next, Queue!Extend
<1> QED BY <1>1, <1>2, <1>3, <1>4, <1>5, <1>6

\* A push at the back, under the lock.
LEMMA RPushStep ==
    ASSUME NEW e \in Bound, NoWrap, IndInv, RPush(e)
    PROVE  IndInv' /\ [Queue!Next]_(Queue!vars)
<1> USE DEF NoWrap, IndInv, RPush
<1>1. TypeOK'
  BY DEF TypeOK, BegInv, EndInv, EachIterationOnce, Beg, End, Low, PutIn,
         OwnerLocks
<1>2. RangeInv'
  BY DEF RangeInv, Beg, Low, High, PutIn, OwnerLocks
<1>3. BegInv'
  BY DEF BegInv, Beg, Low, OwnerLocks
<1>4. EndInv'
  BY DEF EndInv, High, OwnerLocks
<1>5. EachIterationOnce'
  BY DEF RangeInv, BegInv, EachIterationOnce, Beg, Low, High, PutIn,
         OwnerLocks
<1>6. [Queue!Next]_(Queue!vars)
  <2>1. High' \in Int /\ High' > High /\ Low' = Low /\ got' = got
    BY DEF TypeOK, RangeInv, BegInv, EndInv, Beg, Low, High, Fenced, OwnerLocks
  <2> QED BY <2>1 DEF Queue!Next, Queue!Extend
<1> QED BY <1>1, <1>2, <1>3, <1>4, <1>5, <1>6

\* New bounds for an empty queue, under the lock.
LEMMA ResetStep ==
    ASSUME NEW b \in Bound, NEW e \in Bound, NoWrap, IndInv, Reset(b, e)
    PROVE  IndInv' /\ [Queue!Next]_(Queue!vars)
<1> USE DEF NoWrap, IndInv, Reset
<1>1. TypeOK'
  BY DEF TypeOK, Beg, PutIn, OwnerLocks
<1>2. RangeInv'
  BY DEF RangeInv, Beg, Low, High, OwnerLocks
<1>3. BegInv'
  BY DEF BegInv, Beg, Low, OwnerLocks
<1>4. EndInv'
  BY DEF EndInv, High, OwnerLocks
<1>5. EachIterationOnce'
  BY DEF TypeOK, EachIterationOnce, Beg, Low, High, PutIn, OwnerLocks
<1>6. [Queue!Next]_(Queue!vars)
  <2>1. /\ Low = High /\ Low' \in Int /\ High' \in Int /\ Low' <= High'
        /\ got' = got
    BY DEF TypeOK, RangeInv, BegInv, EndInv, Beg, Low, High, Fenced, OwnerLocks
  <2> QED BY <2>1 DEF Queue!Next, Queue!Extend
<1> QED BY <1>1, <1>2, <1>3, <1>4, <1>5, <1>6

\* A steal stores its bound and has taken nothing yet.
LEMMA StealStoreStep ==
    ASSUME NEW n \in Size, NoWrap, IndInv, StealStore(n)
    PROVE  IndInv' /\ [Queue!Next]_(Queue!vars)
<1> USE DEF NoWrap, IndInv, StealStore
<1>1. TypeOK'
  BY DEF TypeOK, RangeInv, High, Sub
<1>2. RangeInv'
  BY DEF RangeInv, Beg, Low, High
<1>3. BegInv'
  BY DEF BegInv, Beg, Low
<1>4. EndInv'
  BY DEF EndInv, End, High, Sub, Underflows
<1>5. EachIterationOnce'
  BY DEF EachIterationOnce, Beg, Low, High
<1>6. [Queue!Next]_(Queue!vars)
  <2>1. Low' = Low /\ High' = High /\ got' = got
    BY DEF TypeOK, RangeInv, BegInv, EndInv, Beg, End, Low, High, Fenced,
           ThiefFenced
  <2> QED BY <2>1 DEF Queue!vars
<1> QED BY <1>1, <1>2, <1>3, <1>4, <1>5, <1>6

\* A steal that stays above every beg it may see takes its size.
LEMMA StealOkStep ==
    ASSUME NoWrap, IndInv, StealOk
    PROVE  IndInv' /\ [Queue!Next]_(Queue!vars)
<1>1. /\ endBuf = <<>> /\ end = tinit - tsize /\ End = end /\ High = tinit
      /\ tinit \in Bound /\ tsize \in Size /\ end \in Int /\ beg \in Int
  BY DEF StealOk, ThiefFenced, IndInv, TypeOK, EndInv, High, End
<1>2. beg >= Low /\ end >= beg /\ Low \in Bound
  BY <1>1 DEF StealOk, IndInv, BegInv, RangeInv
<1>3. Add(End, tsize) = tinit
  BY <1>1, <1>2 DEF Add
<1>4. /\ Give("thief", end, tinit)
      /\ tpc' = "idle" /\ UNCHANGED <<ull, beg, begBuf, end, endBuf, oinit, osize,
                                      opc, tinit, tsize>>
      /\ Beg' = Beg /\ Low' = Low /\ High' = end /\ End' = End
  BY <1>1, <1>3 DEF StealOk, Beg, Low, High, End, ownerVars
<1>5. /\ times' \in [Iteration -> Nat]
      /\ got' \in {"none", "owner", "thief", "empty"} \X Int \X Int
      /\ \A i \in Iteration :
            times'[i] = IF end <= i /\ i < tinit THEN times[i] + 1 ELSE times[i]
  <2>1. TypeOK /\ end \in Int /\ tinit \in Int /\ Give("thief", end, tinit)
    BY <1>1, <1>4 DEF IndInv
  <2> QED BY <2>1, GiveLemma
<1>6. TypeOK'
  BY <1>4, <1>5 DEF IndInv, TypeOK
<1>7. RangeInv' /\ EndInv'
  BY <1>1, <1>2, <1>4 DEF IndInv, RangeInv, EndInv
<1>8. BegInv'
  BY <1>4 DEF IndInv, BegInv
<1>9. EachIterationOnce'
  <2> SUFFICES ASSUME NEW i \in Iteration
               PROVE  times'[i] = IF Low' <= i /\ i < High' THEN 0 ELSE 1
    BY DEF EachIterationOnce
  <2>1. times[i] = IF Low <= i /\ i < High THEN 0 ELSE 1
    BY DEF IndInv, EachIterationOnce
  <2> QED BY <2>1, <1>1, <1>2, <1>4, <1>5
<1>10. [Queue!Next]_(Queue!vars)
  <2>1. end \in Low .. High - 1
    BY <1>1, <1>2
  <2>2. got' = <<"thief", end, High>>
    BY <1>1, <1>4 DEF Give
  <2> QED BY <1>4, <2>1, <2>2 DEF Queue!Next, Queue!Steal
<1> QED BY <1>6, <1>7, <1>8, <1>9, <1>10 DEF IndInv

\* A steal that meets the owner takes its bound back.
LEMMA StealFailsStep ==
    ASSUME NoWrap, IndInv, StealFails
    PROVE  IndInv' /\ [Queue!Next]_(Queue!vars)
<1> USE DEF NoWrap, IndInv, StealFails
<1>1. TypeOK'
  BY DEF TypeOK
<1>2. RangeInv'
  BY DEF RangeInv, Beg, Low, High
<1>3. BegInv'
  BY DEF BegInv, Beg, Low
<1>4. EndInv'
  BY DEF EndInv, End, High
<1>5. EachIterationOnce'
  BY DEF EachIterationOnce, Beg, Low, High
<1>6. [Queue!Next]_(Queue!vars)
  <2>1. Low' = Low /\ High' = High /\ got' = got
    BY DEF TypeOK, RangeInv, BegInv, EndInv, Beg, End, Low, High, Fenced,
           ThiefFenced
  <2> QED BY <2>1 DEF Queue!vars
<1> QED BY <1>1, <1>2, <1>3, <1>4, <1>5, <1>6

\* The bound is back in memory when the lock is released.
LEMMA StealUnlockStep ==
    ASSUME NoWrap, IndInv, StealUnlock
    PROVE  IndInv' /\ [Queue!Next]_(Queue!vars)
<1> USE DEF NoWrap, IndInv, StealUnlock
<1>1. TypeOK'
  BY DEF TypeOK
<1>2. RangeInv'
  BY DEF RangeInv, EndInv, Beg, End, Low, High, ThiefFenced
<1>3. BegInv'
  BY DEF BegInv, Beg, Low
<1>4. EndInv'
  BY DEF TypeOK, EndInv, High, ThiefFenced
<1>5. EachIterationOnce'
  BY DEF EndInv, EachIterationOnce, Beg, End, Low, High, ThiefFenced
<1>6. [Queue!Next]_(Queue!vars)
  <2>1. Low' = Low /\ High' = High /\ got' = got
    BY DEF TypeOK, RangeInv, BegInv, EndInv, Beg, End, Low, High, Fenced,
           ThiefFenced
  <2> QED BY <2>1 DEF Queue!vars
<1> QED BY <1>1, <1>2, <1>3, <1>4, <1>5, <1>6

\* A store of the owner reaches memory.
LEMMA DrainBegStep ==
    ASSUME NoWrap, IndInv, DrainBeg
    PROVE  IndInv' /\ [Queue!Next]_(Queue!vars)
<1>1. begBuf \in Seq(Int) /\ begBuf # <<>> /\ Len(begBuf) <= 2
  BY DEF DrainBeg, IndInv, TypeOK
<1>2. /\ beg' = begBuf[1] /\ begBuf[1] \in Int /\ begBuf' \in Seq(Int)
      /\ Len(begBuf) \in 1..2 /\ Len(begBuf') = Len(begBuf) - 1
      /\ \A k \in 1..Len(begBuf') : begBuf'[k] = begBuf[k + 1]
      /\ begBuf' = <<>> <=> Len(begBuf) = 1
  <2>1. beg' = Head(begBuf) /\ begBuf' = Tail(begBuf)
    BY DEF DrainBeg
  <2>2. /\ Len(begBuf) \in Nat /\ Len(begBuf) >= 1
        /\ Head(begBuf) = begBuf[1] /\ begBuf[1] \in Int
        /\ Tail(begBuf) \in Seq(Int)
        /\ Len(Tail(begBuf)) = Len(begBuf) - 1
        /\ \A k \in 1..Len(Tail(begBuf)) : Tail(begBuf)[k] = begBuf[k + 1]
        /\ Tail(begBuf) = <<>> <=> Len(begBuf) = 1
    BY <1>1, DrainLemma
  <2> QED BY <1>1, <2>1, <2>2
<1>3. UNCHANGED <<ull, end, endBuf, opc, oinit, osize, tpc, tinit, tsize, times, got>>
  BY DEF DrainBeg, ownerVars
<1>4. Beg' = Beg
  <2>1. CASE Len(begBuf) = 1
    BY <1>1, <1>2, <2>1 DEF Beg
  <2>2. CASE Len(begBuf) = 2
    BY <1>1, <1>2, <2>2 DEF Beg
  <2> QED BY <1>2, <2>1, <2>2
<1>5. Low' = Low /\ High' = High /\ End' = End
  BY <1>3, <1>4 DEF Low, High, End
<1>6. TypeOK'
  <2>1. beg' \in Int /\ begBuf' \in Seq(Int) /\ Len(begBuf') <= 2
    BY <1>1, <1>2
  <2>2. TypeOK
    BY DEF IndInv
  <2> QED BY <1>3, <2>1, <2>2, Zenon DEF TypeOK
<1>7. RangeInv' /\ EndInv' /\ EachIterationOnce'
  BY <1>3, <1>5 DEF IndInv, RangeInv, EndInv, EachIterationOnce
<1>8. BegInv'
  <2>1. \A k \in 1..Len(begBuf) : begBuf[k] >= Low
    BY DEF IndInv, BegInv
  <2>2. beg' >= Low'
    BY <1>2, <1>5, <2>1
  <2>3. \A k \in 1..Len(begBuf') : k + 1 \in 1..Len(begBuf)
    BY <1>2
  <2>4. \A k \in 1..Len(begBuf') : begBuf'[k] >= Low'
    BY <1>2, <1>5, <2>1, <2>3
  <2> QED BY <1>2, <1>3, <1>4, <2>2, <2>4 DEF IndInv, BegInv
<1>9. [Queue!Next]_(Queue!vars)
  BY <1>3, <1>5 DEF Queue!vars
<1> QED BY <1>6, <1>7, <1>8, <1>9 DEF IndInv

\* A store of the thief reaches memory.
LEMMA DrainEndStep ==
    ASSUME NoWrap, IndInv, DrainEnd
    PROVE  IndInv' /\ [Queue!Next]_(Queue!vars)
<1> USE DEF NoWrap, IndInv, DrainEnd
<1>1. TypeOK'
  BY DEF TypeOK, EachIterationOnce
<1>2. RangeInv'
  BY DEF RangeInv, EndInv, Beg, Low, High
<1>3. BegInv'
  BY DEF BegInv, Beg, Low
<1>4. EndInv'
  BY DEF TypeOK, EndInv, End, High
<1>5. EachIterationOnce'
  BY DEF EndInv, EachIterationOnce, Beg, Low, High
<1>6. [Queue!Next]_(Queue!vars)
  <2>1. Low' = Low /\ High' = High /\ got' = got
    BY DEF TypeOK, RangeInv, BegInv, EndInv, Beg, End, Low, High, Fenced,
           ThiefFenced
  <2> QED BY <2>1 DEF Queue!vars
<1> QED BY <1>1, <1>2, <1>3, <1>4, <1>5, <1>6

-------------------------------------------------------------------------------
(* The theorems.                                                           *)

\* kaapi_workqueue_init leaves nothing in flight.
LEMMA InitLemma == Init => IndInv /\ Queue!Init
<1> SUFFICES ASSUME Init PROVE IndInv /\ Queue!Init
  OBVIOUS
<1>1. Beg = beg /\ End = end /\ Low = beg /\ High = end
  BY DEF Init, Beg, End, Low, High
<1>2. TypeOK
  BY EmptySeq DEF Init, TypeOK
<1>3. RangeInv /\ BegInv /\ EndInv /\ EachIterationOnce
  BY <1>1, EmptySeq DEF Init, RangeInv, BegInv, EndInv, EachIterationOnce
<1>4. Queue!Init
  BY <1>1 DEF Init, Queue!Init
<1> QED BY <1>2, <1>3, <1>4 DEF IndInv

\* Every step keeps the invariant and is a step of the interval, or invisible.
LEMMA NextLemma ==
    ASSUME NoWrap, IndInv, [Next]_vars
    PROVE  IndInv' /\ [Queue!Next]_(Queue!vars)
<1>1. CASE Next
  BY <1>1, PopStoreStep, PopFastStep, PopConflictStep, SlowPopStep,
     SlowPopEmptyStep, PushStep, RPushStep, ResetStep, StealStoreStep,
     StealOkStep, StealFailsStep, StealUnlockStep, DrainBegStep, DrainEndStep
     DEF Next
<1>2. CASE UNCHANGED vars
  <2>1. Beg' = Beg /\ End' = End
    BY <1>2 DEF vars, Beg, End
  <2>2. Low' = Low /\ High' = High
    BY <1>2, <2>1 DEF vars, ownerVars, thiefVars, Low, High
  <2>3. TypeOK'
    BY <1>2 DEF vars, ownerVars, thiefVars, IndInv, TypeOK
  <2>4. RangeInv' /\ BegInv' /\ EndInv' /\ EachIterationOnce'
    BY <1>2, <2>1, <2>2 DEF vars, ownerVars, thiefVars, IndInv, RangeInv,
       BegInv, EndInv, EachIterationOnce
  <2> QED BY <1>2, <2>2, <2>3, <2>4 DEF IndInv, vars, Queue!vars
<1> QED BY <1>1, <1>2

\* The inductive invariant of the queue.
THEOREM Invariance ==
    ASSUME NoWrap
    PROVE  Spec => []IndInv
<1>1. IndInv /\ [Next]_vars => IndInv'
  BY NextLemma
<1> QED BY InitLemma, <1>1, PTL DEF Spec

\* The bounds keep their range; at most two stores of beg and one of end are ever
\* in flight.
THEOREM TypeCorrect ==
    ASSUME NoWrap
    PROVE  Spec => []TypeOK
<1>1. IndInv => TypeOK
  BY DEF IndInv
<1> QED BY Invariance, <1>1, PTL

\* Owner and thieves that race through kaapi_workqueue_pop, _slowpop and _steal
\* give every iteration once.
THEOREM IterationsAreGivenOnce ==
    ASSUME NoWrap
    PROVE  Spec => []EachIterationOnce
<1>1. IndInv => EachIterationOnce
  BY DEF IndInv
<1> QED BY Invariance, <1>1, PTL

\* The queue is an interval taken from at both ends.
THEOREM QueueIsImplemented ==
    ASSUME NoWrap
    PROVE  Spec => ImplementsRangeQueue
<1>1. Init => Queue!Init
  BY InitLemma
<1>2. IndInv /\ [Next]_vars => [Queue!Next]_(Queue!vars)
  BY NextLemma
<1> QED BY <1>1, <1>2, Invariance, PTL DEF Spec, ImplementsRangeQueue, Queue!Spec

\* Unless beg + max_size wraps, kaapi_workqueue_pop never answers with an empty
\* interval.
THEOREM PopIsNeverEmpty ==
    ASSUME NoWrap
    PROVE  Spec => []PopGivesSomething
<1>1. Init => PopGivesSomething
  BY DEF Init, PopGivesSomething
<1>2. IndInv /\ PopGivesSomething /\ [Next]_vars => PopGivesSomething'
  <2> SUFFICES ASSUME IndInv, PopGivesSomething, [Next]_vars
               PROVE  PopGivesSomething'
    OBVIOUS
  <2>1. [Queue!Next]_(Queue!vars) /\ Low \in Int
    BY NextLemma DEF IndInv, RangeInv
  <2>2. CASE Queue!Pop
    BY <2>1, <2>2 DEF Queue!Pop, PopGivesSomething
  <2>3. CASE Queue!PopEmpty \/ Queue!Steal
    BY <2>3 DEF Queue!PopEmpty, Queue!Steal, PopGivesSomething
  <2>4. CASE Queue!Extend \/ UNCHANGED Queue!vars
    BY <2>4 DEF Queue!Extend, Queue!vars, PopGivesSomething
  <2> QED BY <2>1, <2>2, <2>3, <2>4 DEF Queue!Next
<1> QED BY <1>1, <1>2, Invariance, PTL DEF Spec
===============================================================================
