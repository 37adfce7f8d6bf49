------------------------------- MODULE WorkQueue -------------------------------
(***************************************************************************)
(* The work queue of adaptive tasks and parallel loops: an interval        *)
(* [beg, end) that its owner pops from the low end without the lock and    *)
(* thieves steal from the high end under it (kaapi.h, kaapi_wq_slowpop.c). *)
(*                                                                         *)
(* Owner and thief each store their own bound, then look at the other's.   *)
(* A store sits in the store buffer of its processor until a fence or a    *)
(* locked instruction; it may leave the buffer earlier.  Thieves take      *)
(* turns through the lock, so at most one is between its store and its     *)
(* unlock, and one thief stands for all of them.  What is done under the   *)
(* lock by the owner is one step: whoever could see the middle of it needs *)
(* the lock first.                                                         *)
(***************************************************************************)
EXTENDS Integers, Sequences

CONSTANTS
    MinIndex, MaxIndex, \* the iterations are MinIndex .. MaxIndex - 1
    MaxSize,            \* the largest number of iterations asked for at once
    Modulus             \* one more than the largest kaapi_workqueue_index_ull_t

ASSUME ConstantsAssumption ==
    /\ MinIndex \in Nat
    /\ MaxIndex \in Nat
    /\ MinIndex <= MaxIndex
    /\ MaxSize \in Nat \ {0}
    /\ Modulus \in Nat
    /\ MaxIndex < Modulus

Iteration == MinIndex .. MaxIndex - 1
Bound == MinIndex .. MaxIndex
Size == 1 .. MaxSize

VARIABLES
    ull,        \* whether the queue is used through the _ull functions
    beg,        \* kwq->rep.beg in memory
    begBuf,     \* stores to beg in the owner's store buffer, oldest first
    end,        \* kwq->rep.end in memory
    endBuf,     \* stores to end in the thief's store buffer
    opc,        \* where the owner is
    oinit,      \* its loc_init
    osize,      \* its max_size
    tpc,        \* where the thief with the lock is; "idle" if there is none
    tinit,      \* its loc_init
    tsize,      \* its size
    times,      \* how often an iteration was given since it was last put in
    got         \* the last answer

ownerVars == <<opc, oinit, osize>>
thiefVars == <<tpc, tinit, tsize>>
vars == <<ull, beg, begBuf, end, endBuf, ownerVars, thiefVars, times, got>>

-------------------------------------------------------------------------------
\* What the owner reads in beg, the thief in end: their own last store.
Beg == IF begBuf = <<>> THEN beg ELSE begBuf[Len(begBuf)]
End == IF endBuf = <<>> THEN end ELSE endBuf[1]

\* Arithmetic on kaapi_workqueue_index_t, which does not overflow here, and on
\* kaapi_workqueue_index_ull_t, which wraps.
Add(x, n) == IF ull /\ x + n >= Modulus THEN x + n - Modulus ELSE x + n
Sub(x, n) == IF ull /\ x < n THEN x - n + Modulus ELSE x - n

\* The iterations b .. e - 1 are given to who.
Give(who, b, e) ==
    /\ times' = [i \in Iteration |->
                    IF b <= i /\ i < e THEN times[i] + 1 ELSE times[i]]
    /\ got' = <<who, b, e>>

\* The iterations b .. e - 1 are put in.
PutIn(b, e) ==
    times' = [i \in Iteration |-> IF b <= i /\ i < e THEN 0 ELSE times[i]]

\* kaapi_workqueue_init_with_lock: nothing in flight.
Init ==
    /\ ull \in BOOLEAN
    /\ beg \in Bound /\ end \in Bound /\ beg <= end
    /\ begBuf = <<>> /\ endBuf = <<>>
    /\ opc = "idle" /\ oinit = beg /\ osize = 1
    /\ tpc = "idle" /\ tinit = end /\ tsize = 1
    /\ times = [i \in Iteration |-> IF beg <= i /\ i < end THEN 0 ELSE 1]
    /\ got = <<"none", 0, 0>>

-------------------------------------------------------------------------------
(* kaapi_workqueue_pop.                                                    *)

\* loc_beg += max_size; kwq->beg = loc_beg.
PopStore(n) ==
    /\ opc = "idle"
    /\ opc' = "check"
    /\ oinit' = Beg
    /\ osize' = n
    /\ begBuf' = Append(begBuf, Add(Beg, n))
    /\ UNCHANGED <<ull, beg, end, endBuf, thiefVars, times, got>>

\* Broken on purpose: no kaapi_mem_barrier.
Fenced_NoBarrier == TRUE

\* kaapi_mem_barrier returns when the store buffer is empty.
Fenced == begBuf = <<>>

\* No conflict: what was stored is below end.
PopFast ==
    /\ opc = "check" /\ Fenced
    /\ Beg < end
    /\ opc' = "idle"
    /\ Give("owner", Sub(Beg, osize), Beg)
    /\ UNCHANGED <<ull, beg, begBuf, end, endBuf, oinit, osize, thiefVars>>

\* Broken on purpose: beg is not restored.
PopConflict_KeepsBeg ==
    /\ opc = "check" /\ Fenced
    /\ Beg >= end
    /\ opc' = "slow"
    /\ UNCHANGED <<ull, beg, begBuf, end, endBuf, oinit, osize, thiefVars,
                   times, got>>

\* Conflict: beg is restored; kaapi_workqueue_slowpop is called.
PopConflict ==
    /\ opc = "check" /\ Fenced
    /\ Beg >= end
    /\ opc' = "slow"
    /\ begBuf' = <<oinit>>
    /\ UNCHANGED <<ull, beg, end, endBuf, oinit, osize, thiefVars, times, got>>

\* The owner has the lock: no thief is inside, and the locked instruction has
\* emptied the store buffer.
OwnerLocks == tpc = "idle" /\ begBuf' = <<>>

\* kaapi_workqueue_slowpop finds something left.  A queue that was initialised has
\* a lock (kaapi_workqueue_init sets it, kaapi_workqueue_init_with_lock asserts it),
\* so that the answer ESRCH does not come.
SlowPop ==
    /\ opc = "slow" /\ OwnerLocks
    /\ IF ull THEN Beg < end ELSE Beg # end
    /\ LET size == end - Beg
           n == IF size > osize THEN osize ELSE size IN
        /\ beg' = Beg + n
        /\ Give("owner", Beg, Beg + n)
    /\ opc' = "idle"
    /\ UNCHANGED <<ull, end, endBuf, oinit, osize, thiefVars>>

\* kaapi_workqueue_slowpop returns EBUSY.
SlowPopEmpty ==
    /\ opc = "slow" /\ OwnerLocks
    /\ IF ull THEN Beg >= end ELSE Beg = end
    /\ beg' = Beg
    /\ opc' = "idle"
    /\ got' = <<"empty", Beg, end>>
    /\ UNCHANGED <<ull, end, endBuf, oinit, osize, thiefVars, times>>

-------------------------------------------------------------------------------
(* What else the owner does.                                               *)

\* kaapi_workqueue_push: the fence comes before the store.
Push(b) ==
    /\ opc = "idle" /\ Fenced
    /\ Beg > b
    /\ begBuf' = <<b>>
    /\ PutIn(b, Beg)
    /\ UNCHANGED <<ull, beg, end, endBuf, ownerVars, thiefVars, got>>

\* kaapi_workqueue_rpush, under the lock as its comment asks.
RPush(e) ==
    /\ opc = "idle" /\ OwnerLocks
    /\ e > end
    /\ beg' = Beg
    /\ end' = e
    /\ PutIn(end, e)
    /\ UNCHANGED <<ull, endBuf, ownerVars, thiefVars, got>>

\* kaapi_workqueue_reset, under the lock, of a queue that was emptied.
Reset(b, e) ==
    /\ opc = "idle" /\ OwnerLocks
    /\ Beg = end
    /\ b <= e
    /\ beg' = b
    /\ end' = e
    /\ PutIn(b, e)
    /\ UNCHANGED <<ull, endBuf, ownerVars, thiefVars, got>>

-------------------------------------------------------------------------------
(* kaapi_workqueue_steal, called between lock and unlock.                  *)

\* loc_end -= size; kwq->end = loc_end.  The _ull form returns at once when the
\* subtraction would wrap.
Underflows(n) == ull /\ end < n

StealStore(n) ==
    /\ tpc = "idle"
    /\ ~Underflows(n)
    /\ tpc' = "check"
    /\ tinit' = end
    /\ tsize' = n
    /\ endBuf' = <<Sub(end, n)>>
    /\ UNCHANGED <<ull, beg, begBuf, end, ownerVars, times, got>>

ThiefFenced == endBuf = <<>>

\* Enough is left; the lock is released.
StealOk ==
    /\ tpc = "check" /\ ThiefFenced
    /\ End >= beg
    /\ tpc' = "idle"
    /\ Give("thief", End, Add(End, tsize))
    /\ UNCHANGED <<ull, beg, begBuf, end, endBuf, tinit, tsize, ownerVars>>

\* Not enough is left, or the owner is popping it.
StealFails ==
    /\ tpc = "check" /\ ThiefFenced
    /\ End < beg
    /\ tpc' = "restored"
    /\ endBuf' = <<tinit>>
    /\ UNCHANGED <<ull, beg, begBuf, end, tinit, tsize, ownerVars, times, got>>

\* The unlock is a fence.
StealUnlock ==
    /\ tpc = "restored" /\ ThiefFenced
    /\ tpc' = "idle"
    /\ UNCHANGED <<ull, beg, begBuf, end, endBuf, tinit, tsize, ownerVars,
                   times, got>>

-------------------------------------------------------------------------------
(* Stores reach memory.                                                    *)

DrainBeg ==
    /\ begBuf # <<>>
    /\ beg' = Head(begBuf)
    /\ begBuf' = Tail(begBuf)
    /\ UNCHANGED <<ull, end, endBuf, ownerVars, thiefVars, times, got>>

DrainEnd ==
    /\ endBuf # <<>>
    /\ end' = endBuf[1]
    /\ endBuf' = <<>>
    /\ UNCHANGED <<ull, beg, begBuf, ownerVars, thiefVars, times, got>>

Next ==
    \/ \E n \in Size : PopStore(n) \/ StealStore(n)
    \/ PopFast \/ PopConflict \/ SlowPop \/ SlowPopEmpty
    \/ \E b \in Bound : Push(b) \/ RPush(b)
    \/ \E b, e \in Bound : Reset(b, e)
    \/ StealOk \/ StealFails \/ StealUnlock
    \/ DrainBeg \/ DrainEnd

Spec == Init /\ [][Next]_vars

-------------------------------------------------------------------------------
(* Properties.                                                             *)

\* The bounds of what is left: a bound that may still be restored does not count.
Low == IF opc = "check" THEN oinit ELSE Beg
High == IF tpc = "idle" THEN end ELSE tinit

\* The stores in flight and the bounds stay in range.
TypeOK ==
    /\ ull \in BOOLEAN
    /\ beg \in Int /\ end \in Int
    /\ begBuf \in Seq(Int) /\ Len(begBuf) <= 2
    /\ endBuf \in Seq(Int) /\ Len(endBuf) <= 1
    /\ opc \in {"idle", "check", "slow"}
    /\ tpc \in {"idle", "check", "restored"}
    /\ oinit \in Bound /\ tinit \in Bound
    /\ osize \in Size /\ tsize \in Size
    /\ times \in [Iteration -> Nat]
    /\ got \in {"none", "owner", "thief", "empty"} \X Int \X Int

\* Whatever the owner and the thieves are in the middle of, an iteration was
\* given once if it is out of [Low, High), and not at all if it is inside: none is
\* executed twice, none is lost (kaapi_workqueue_pop, _slowpop and _steal).
EachIterationOnce ==
    \A i \in Iteration : times[i] = IF Low <= i /\ i < High THEN 0 ELSE 1

Queue == INSTANCE RangeQueue WITH lo <- Low, hi <- High

\* The queue is the interval its comments describe: the owner takes from the
\* front, a thief from the back, EBUSY is answered only when it is empty, and a
\* bound that is stored and taken back never shows in an answer.
ImplementsRangeQueue == Queue!Spec

\* A pop that succeeds gives something: the assertion of its callers
\* (kaapi_assert_debug( i < j ) in api/kaapic/kaapic_work_ull.c).
PopGivesSomething == got[1] = "owner" => got[2] < got[3]
===============================================================================
