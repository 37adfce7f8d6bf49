------------------------------- MODULE KaapiLock -------------------------------
(***************************************************************************)
(* kaapi_lock_t in its default form (kaapi_atomic.h, KAAPI_SCHED_LOCK_CAS  *)
(* not defined): a counter that is 1 when the lock is free, decremented by *)
(* whoever wants it, and _sync, by which kaapi_atomic_waitlock waits for   *)
(* one release.  The lock is that of a stack, of a processor and of a      *)
(* steal context; TaskSteal and FrameStack use what module Lock says of    *)
(* it.  Its names carry a prefix, as a module may extend it and one of its *)
(* users.                                                                  *)
(***************************************************************************)
EXTENDS Integers, FiniteSets

CONSTANTS Process, \* kernel threads
          Waiter,  \* those that call kaapi_atomic_waitlock
          None     \* no process

ASSUME ProcessAssumption ==
    /\ IsFiniteSet(Process)
    /\ Waiter \subseteq Process /\ None \notin Process

VARIABLES
    counter, \* lock._counter
    sync,    \* lock._sync
    pc,      \* where each process is
    pending  \* ghost: who was inside when a wait began and still is

lockVars == <<counter, sync, pc, pending>>

\* Between the success of lock or trylock and the call of unlock.
Critical == "critical"

Location == {"out", "decr", "spin", "try", "trydecr", Critical, "clear",
             "write", "rdsync", "rdcounter"}

LockInit ==
    /\ counter = 1
    /\ sync = FALSE
    /\ pc = [p \in Process |-> "out"]
    /\ pending = [p \in Process |-> {}]

Goto(p, from, to) == pc[p] = from /\ pc' = [pc EXCEPT ![p] = to]

-------------------------------------------------------------------------------
(* kaapi_atomic_lock and kaapi_atomic_trylock.                             *)

CallLock(p) ==
    /\ Goto(p, "out", "decr")
    /\ UNCHANGED <<counter, sync, pending>>

\* Broken on purpose: the value before the decrement is tested.
Decr_OldValue(p) ==
    /\ Goto(p, "decr", IF counter = 0 THEN Critical ELSE "spin")
    /\ counter' = counter - 1
    /\ UNCHANGED <<sync, pending>>

Decr(p) ==
    /\ Goto(p, "decr", IF counter - 1 = 0 THEN Critical ELSE "spin")
    /\ counter' = counter - 1
    /\ UNCHANGED <<sync, pending>>

\* Broken on purpose: the loop decrements without looking first.
Spin_NoTest(p) ==
    /\ Goto(p, "spin", "decr")
    /\ UNCHANGED <<counter, sync, pending>>

Spin(p) ==
    /\ counter > 0
    /\ Goto(p, "spin", "decr")
    /\ UNCHANGED <<counter, sync, pending>>

CallTryLock(p) ==
    /\ Goto(p, "out", "try")
    /\ UNCHANGED <<counter, sync, pending>>

TryRead(p) ==
    /\ Goto(p, "try", IF counter = 1 THEN "trydecr" ELSE "out")
    /\ UNCHANGED <<counter, sync, pending>>

TryDecr(p) ==
    /\ Goto(p, "trydecr", IF counter - 1 = 0 THEN Critical ELSE "out")
    /\ counter' = counter - 1
    /\ UNCHANGED <<sync, pending>>

-------------------------------------------------------------------------------
(* kaapi_atomic_unlock.                                                    *)

\* Broken on purpose: _sync is left as it is.
TestSync_Keep(p) ==
    /\ Goto(p, Critical, "write")
    /\ pending' = [q \in Process |-> pending[q] \ {p}]
    /\ UNCHANGED <<counter, sync>>

\* lock->_sync != 0.
TestSync(p) ==
    /\ Goto(p, Critical, IF sync THEN "clear" ELSE "write")
    /\ pending' = [q \in Process |-> pending[q] \ {p}]
    /\ UNCHANGED <<counter, sync>>

ClearSync(p) ==
    /\ Goto(p, "clear", "write")
    /\ sync' = FALSE
    /\ UNCHANGED <<counter, pending>>

WriteCounter(p) ==
    /\ Goto(p, "write", "out")
    /\ counter' = 1
    /\ UNCHANGED <<sync, pending>>

-------------------------------------------------------------------------------
(* kaapi_atomic_waitlock.                                                  *)

SetSync(p) ==
    /\ p \in Waiter
    /\ Goto(p, "out", "rdsync")
    /\ sync' = TRUE
    /\ pending' = [pending EXCEPT ![p] = {q \in Process : pc[q] = Critical}]
    /\ UNCHANGED counter

ReadSync(p) ==
    /\ Goto(p, "rdsync", IF sync THEN "rdcounter" ELSE "out")
    /\ UNCHANGED <<counter, sync, pending>>

\* Broken on purpose: a lock nobody else waits for is taken for free.
ReadCounter_OffByOne(p) ==
    /\ Goto(p, "rdcounter", IF counter >= 0 THEN "out" ELSE "rdsync")
    /\ UNCHANGED <<counter, sync, pending>>

ReadCounter(p) ==
    /\ Goto(p, "rdcounter", IF counter > 0 THEN "out" ELSE "rdsync")
    /\ UNCHANGED <<counter, sync, pending>>

-------------------------------------------------------------------------------
Call(p) == CallLock(p) \/ CallTryLock(p) \/ SetSync(p)

\* The rest of a call, and of a critical section.
Step(p) ==
    \/ Decr(p) \/ Spin(p) \/ TryRead(p) \/ TryDecr(p)
    \/ TestSync(p) \/ ClearSync(p) \/ WriteCounter(p)
    \/ ReadSync(p) \/ ReadCounter(p)

LockNext == \E p \in Process : Call(p) \/ Step(p)

LockSpec == LockInit /\ [][LockNext]_lockVars

\* A kernel thread that is inside a call goes on; nobody has to call.
LockFairSpec == LockSpec /\ \A p \in Process : WF_lockVars(Step(p))

-------------------------------------------------------------------------------
(* Properties.                                                             *)

\* Shapes of the variables; a failed attempt leaves the counter one lower, twice
\* at most per process until the next unlock, so it cannot drift and wrap.
LockTypeOK ==
    /\ counter \in Int
    /\ counter <= 1 /\ counter >= -2 * Cardinality(Process)
    /\ sync \in BOOLEAN
    /\ pc \in [Process -> Location]
    /\ pending \in [Process -> SUBSET Process]

\* Whatever mix of lock, trylock and unlock is running, one process at most is
\* between a success and its unlock (kaapi_atomic_lock, kaapi_atomic_trylock).
MutualExclusion ==
    \A p, q \in Process : pc[p] = Critical /\ pc[q] = Critical => p = q

\* kaapi_atomic_waitlock returns only when who was in the critical section at
\* its call has called unlock, also when others took the lock in between.
WaitCoversHolder ==
    [][\A p \in Process :
        pc[p] \in {"rdsync", "rdcounter"} /\ pc'[p] = "out" => pending[p] = {}]_lockVars

\* The lock is free as soon as its holder has found _sync clear, or cleared it.
HolderOf(location) ==
    IF \E p \in Process : location[p] \in {Critical, "clear"}
    THEN CHOOSE p \in Process : location[p] \in {Critical, "clear"}
    ELSE None

Waiting == {p \in Process : pc[p] \in {"rdsync", "rdcounter"}}

Abstract == INSTANCE Lock WITH
    holder <- HolderOf(pc), waiting <- Waiting

\* Counter and _sync implement the lock that TaskSteal and FrameStack assume.
ImplementsLock == Abstract!Spec

\* Whoever waits for a release gets out, although the lock may be taken again and
\* again (the use of _sync in kaapi_atomic_unlock), and calls of
\* kaapi_atomic_lock cannot all spin for ever.
CallsReturn ==
    /\ \A p \in Waiter : pc[p] = "rdsync" ~> pc[p] = "out"
    /\ (\E p \in Process : pc[p] = "spin") ~> (\E p \in Process : pc[p] = Critical)
===============================================================================
