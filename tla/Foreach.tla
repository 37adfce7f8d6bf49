-------------------------------- MODULE Foreach --------------------------------
(***************************************************************************)
(* A parallel loop of kaapic (kaapic_work.c): the slices reserved for the  *)
(* threads, the local queues, the three ways to get work (a slice, the     *)
(* queue of another, a reply of the splitter) and the end of the loop,     *)
(* with the adaptive task that carries it.                                 *)
(*                                                                         *)
(* A pop or a steal of a local queue is one step, as WorkQueue shows that  *)
(* it is a RangeQueue.  A request of a thief is what StealRequest models:  *)
(* here the thief that holds the lock of a victim takes some of the idle   *)
(* processors with it to the splitter, and they wait for its end or for a  *)
(* reply.  The processors are numbered as kid does.                        *)
(***************************************************************************)
EXTENDS Integers, FiniteSets, FiniteSetsExt

CONSTANTS NProc,    \* kaapi_getconcurrency()
          Starter,  \* the kid of the processor that calls kaapic_foreach
          MaxIter,  \* bound on the number of iterations of the loop
          ParGrain, \* par_grain of the attributes
          SeqGrain, \* seq_grain of the attributes
          MaxPosts  \* bound on the requests a thief posts in vain

ASSUME ConstantsAssumption ==
    /\ NProc \in Nat \ {0} /\ Starter \in 0 .. NProc - 1
    /\ MaxIter \in Nat \ {0} /\ MaxPosts \in Nat
    /\ ParGrain \in Nat \ {0} /\ SeqGrain \in Nat \ {0}

Proc == 0 .. NProc - 1
Iterations(i, j) == i .. j - 1

VARIABLES
    total,      \* last - first, the first iteration being 0
    nthreads,   \* attr->nthreads
    map,        \* gwork->wa.map
    workremain, \* gwork->workremain
    workerdone, \* gwork->workerdone
    init,       \* lwork->init
    queue,      \* lwork->cr, as the bounds <<beg, end>>
    workdone,   \* lwork->workdone
    piece,      \* the bounds first, last a processor holds in its locals
    aim,        \* local: the slice to take, or the victim and the unit_size
    splittable, \* the flag of the adaptive task of the processor
    thieves,    \* sc->thieves.count of the master
    split,      \* the splitter running on the task of the processor
    pc,         \* where each processor is
    posts,      \* ghost: requests that were not replied to
    started     \* ghost: iterations given to a call of the body

shape == <<total, nthreads>>
global == <<map, workremain, workerdone>>
lwork == <<init, queue, workdone>>
locals == <<piece, aim>>
adaptive == <<splittable, thieves>>
vars == <<shape, global, lwork, locals, adaptive, split, pc, posts, started>>

-------------------------------------------------------------------------------
(* _kaapic_foreach_initwa.                                                 *)

\* The number of slices: of the threads asked for, or less if the range is short.
Slices == Min({nthreads, total})

\* Position of the slice of each processor: that of the starter first, if it is
\* one of those that have a slice, then by number.
tid2pos ==
    [p \in Proc |->
        IF p >= Slices THEN -1
        ELSE IF p = Starter THEN 0
        ELSE IF p < Starter /\ Starter < Slices THEN p + 1 ELSE p]

\* Bounds of the slices; the first one gets what does not divide.
startindex ==
    [pos \in 0 .. NProc |->
        IF pos = 0 THEN 0
        ELSE Min({total, (total % Slices) + pos * (total \div Slices)})]

Slice(pos) == <<startindex[pos], startindex[pos + 1]>>

-------------------------------------------------------------------------------
Empty == <<0, 0>>
Size(bounds) == bounds[2] - bounds[1]

NoAim == <<0, 0>>
NoSplit == [at |-> "none"]

\* A processor in the loop, from the first test of its queue to its last
\* decrement; the others have nothing to do and may post requests.
Enrolled(p) == pc[p] \notin {"idle", "posted", "over"}

\* The slice the starter takes.  It has none of its own if its number is beyond
\* the slices: its tid2pos is then a byte nobody has written, the position of a
\* slice or not, and any slice will do if not.  That position is not in the map
\* any more, so that tid2pos may be -1 for those who read it later.
StarterSlice == IF Starter < Slices THEN {tid2pos[Starter]} ELSE 0 .. Slices - 1

\* kaapic_foreach_workinit: the slices, one of which the starter takes; then its
\* adaptive task is visible.
Init ==
    /\ total \in 1 .. MaxIter
    /\ nthreads \in 1 .. NProc
    /\ \E pos \in StarterSlice :
        /\ map = (0 .. Slices - 1) \ {pos}
        /\ queue = [p \in Proc |-> IF p = Starter THEN Slice(pos) ELSE Empty]
    /\ workremain = total
    /\ workerdone = 0
    /\ init = [p \in Proc |-> p = Starter]
    /\ workdone = [p \in Proc |-> 0]
    /\ piece = [p \in Proc |-> Empty]
    /\ aim = [p \in Proc |-> NoAim]
    /\ splittable = [p \in Proc |-> p = Starter]
    /\ thieves = 0
    /\ split = [p \in Proc |-> NoSplit]
    /\ pc = [p \in Proc |-> IF p = Starter THEN "test" ELSE "idle"]
    /\ posts = [p \in Proc |-> 0]
    /\ started = {}

Goto(p, from, to) == pc[p] = from /\ pc' = [pc EXCEPT ![p] = to]

-------------------------------------------------------------------------------
(* kaapic_foreach_worknext.                                                *)

TestRemain(p) ==
    /\ Goto(p, "test", IF workremain = 0 THEN "leave" ELSE "pop")
    /\ UNCHANGED <<shape, global, lwork, locals, adaptive, split, posts, started>>

\* The body is called with the bounds b.
CallBody(p, b) ==
    /\ pc' = [pc EXCEPT ![p] = "body"]
    /\ piece' = [piece EXCEPT ![p] = b]
    /\ workdone' = [workdone EXCEPT ![p] = @ + Size(b)]
    /\ started' = started \cup Iterations(b[1], b[2])

Pop(p) ==
    /\ pc[p] = "pop"
    /\ Size(queue[p]) > 0
    /\ LET next == Min({queue[p][1] + SeqGrain, queue[p][2]})
       IN  /\ CallBody(p, <<queue[p][1], next>>)
           /\ queue' = [queue EXCEPT ![p][1] = next]
    /\ UNCHANGED <<shape, global, init, aim, adaptive, split, posts>>

PopEmpty(p) ==
    /\ Size(queue[p]) <= 0
    /\ Goto(p, "pop", "sub")
    /\ init' = [init EXCEPT ![p] = FALSE]
    /\ UNCHANGED <<shape, global, queue, workdone, locals, adaptive, split, posts, started>>

BodyEnds(p) ==
    /\ Goto(p, "body", "test")
    /\ piece' = [piece EXCEPT ![p] = Empty]
    /\ UNCHANGED <<shape, global, lwork, aim, adaptive, split, posts, started>>

\* What was done is taken out of the global count.
SubRemain(p) ==
    /\ Goto(p, "sub", "next")
    /\ workremain' = workremain - workdone[p]
    /\ workdone' = [workdone EXCEPT ![p] = 0]
    /\ UNCHANGED <<shape, map, workerdone, init, queue, locals, adaptive, split, posts, started>>

-------------------------------------------------------------------------------
(* kaapic_foreach_globalwork_next, kaapic_global_work_steal and            *)
(* kaapic_global_work_pop.                                                 *)

NextWork(p) ==
    /\ Goto(p, "next", IF workremain = 0 THEN "leave" ELSE "first1")
    /\ UNCHANGED <<shape, global, lwork, locals, adaptive, split, posts, started>>

\* A slice that is still in the map: its position is taken for a thread.
FindSlice(p) ==
    /\ Goto(p, "first1", IF map = {} THEN "select" ELSE "unset")
    /\ aim' = [aim EXCEPT ![p] = IF map = {} THEN NoAim ELSE <<Min(map), 0>>]
    /\ UNCHANGED <<shape, global, lwork, piece, adaptive, split, posts, started>>

\* The slice of a position, once its bit is cleared.
TakeSlice(p, pos, to) ==
    /\ map' = map \ {pos}
    /\ piece' = [piece EXCEPT ![p] = Slice(pos)]
    /\ pc' = [pc EXCEPT ![p] = to]

\* Broken on purpose: the bit was read, it is not looked at again.
PopSlice_NoTest(p) ==
    /\ pc[p] = "unset"
    /\ tid2pos[aim[p][1]] # -1
    /\ TakeSlice(p, tid2pos[aim[p][1]], "recheck")
    /\ aim' = [aim EXCEPT ![p] = NoAim]
    /\ UNCHANGED <<shape, workremain, workerdone, lwork, adaptive, split, posts, started>>

\* The bit of the slice is cleared by an atomic operation that tells whether
\* it was set; otherwise any slice will do.
PopSlice(p) ==
    /\ pc[p] = "unset"
    /\ LET pos == tid2pos[aim[p][1]]
       IN  \/ pos \in map /\ TakeSlice(p, pos, "recheck")
           \/ pos \notin map /\ pc' = [pc EXCEPT ![p] = "popany"]
                             /\ UNCHANGED <<map, piece>>
    /\ aim' = [aim EXCEPT ![p] = NoAim]
    /\ UNCHANGED <<shape, workremain, workerdone, lwork, adaptive, split, posts, started>>

\* "Because work may have been finished": the slice is then forgotten.
CheckSlice(p) ==
    /\ Goto(p, "recheck", IF workremain = 0 THEN "select" ELSE "got")
    /\ piece' = IF workremain = 0 THEN [piece EXCEPT ![p] = Empty] ELSE piece
    /\ UNCHANGED <<shape, global, lwork, aim, adaptive, split, posts, started>>

PopAny(p) ==
    /\ pc[p] = "popany"
    /\ \/ map # {} /\ TakeSlice(p, Min(map), "got")
       \/ map = {} /\ pc' = [pc EXCEPT ![p] = "select"] /\ UNCHANGED <<map, piece>>
    /\ UNCHANGED <<shape, workremain, workerdone, lwork, aim, adaptive, split, posts, started>>

NoneRemains(p) ==
    /\ workremain = 0
    /\ Goto(p, "select", "next")
    /\ UNCHANGED <<shape, global, lwork, locals, adaptive, split, posts, started>>

\* A victim whose queue is published and longer than par_grain.
Select(p) ==
    /\ workremain # 0
    /\ Goto(p, "select", "steal")
    /\ \E v \in Proc \ {p} :
        /\ init[v]
        /\ Size(queue[v]) > ParGrain
        /\ aim' = [aim EXCEPT ![p] = <<v, Size(queue[v]) \div 2>>]
    /\ UNCHANGED <<shape, global, lwork, piece, adaptive, split, posts, started>>

\* The lock of the processor v, which is the lock of its queue.
LockIsFree(v) == split[v] = NoSplit

\* Broken on purpose: a steal that failed is tried again.
Steal_Retry(p) ==
    /\ pc[p] = "steal"
    /\ LET v == aim[p][1]  unit == aim[p][2]
       IN  /\ LockIsFree(v)
           /\ Size(queue[v]) >= unit
           /\ queue' = [queue EXCEPT ![v][2] = @ - unit]
           /\ piece' = [piece EXCEPT ![p] = <<queue[v][2] - unit, queue[v][2]>>]
           /\ pc' = [pc EXCEPT ![p] = "got"]
    /\ aim' = [aim EXCEPT ![p] = NoAim]
    /\ UNCHANGED <<shape, global, init, workdone, adaptive, split, posts, started>>

\* kaapi_workqueue_steal: all of the size or nothing.
Steal(p) ==
    /\ pc[p] = "steal"
    /\ LET v == aim[p][1]  unit == aim[p][2]
       IN  /\ LockIsFree(v)
           /\ \/ /\ Size(queue[v]) >= unit
                 /\ queue' = [queue EXCEPT ![v][2] = @ - unit]
                 /\ piece' = [piece EXCEPT ![p] = <<queue[v][2] - unit, queue[v][2]>>]
                 /\ pc' = [pc EXCEPT ![p] = "got"]
              \/ /\ Size(queue[v]) < unit
                 /\ pc' = [pc EXCEPT ![p] = "select"]
                 /\ UNCHANGED <<queue, piece>>
    /\ aim' = [aim EXCEPT ![p] = NoAim]
    /\ UNCHANGED <<shape, global, init, workdone, adaptive, split, posts, started>>

RunPiece(p) ==
    /\ pc[p] = "got"
    /\ Size(piece[p]) <= SeqGrain
    /\ CallBody(p, piece[p])
    /\ UNCHANGED <<shape, global, init, queue, aim, adaptive, split, posts>>

\* Broken on purpose: what is executed at once is not counted.
Refill_NotCounted(p) ==
    /\ pc[p] = "got"
    /\ Size(piece[p]) > SeqGrain
    /\ LockIsFree(p)
    /\ LET middle == piece[p][1] + SeqGrain
       IN  /\ queue' = [queue EXCEPT ![p] = <<middle, piece[p][2]>>]
           /\ piece' = [piece EXCEPT ![p] = <<piece[p][1], middle>>]
           /\ started' = started \cup Iterations(piece[p][1], middle)
    /\ init' = [init EXCEPT ![p] = TRUE]
    /\ pc' = [pc EXCEPT ![p] = "body"]
    /\ UNCHANGED <<shape, global, workdone, aim, adaptive, split, posts>>

\* The first seq_grain iterations are executed, the others put in the queue.
Refill(p) ==
    /\ pc[p] = "got"
    /\ Size(piece[p]) > SeqGrain
    /\ LockIsFree(p)
    /\ LET middle == piece[p][1] + SeqGrain
       IN  /\ queue' = [queue EXCEPT ![p] = <<middle, piece[p][2]>>]
           /\ init' = [init EXCEPT ![p] = TRUE]
           /\ CallBody(p, <<piece[p][1], middle>>)
    /\ UNCHANGED <<shape, global, aim, adaptive, split, posts>>

-------------------------------------------------------------------------------
(* The end of a participant: _kaapic_thief_entrypoint, kaapi_taskadapt_body *)
(* and kaapi_taskadaptmerge_body for a thief; kaapic_foreach_common,        *)
(* kaapic_foreach_workend and the merge task for the starter.               *)

Leave(p) ==
    /\ Goto(p, "leave", IF workremain - workdone[p] = 0 THEN "return" ELSE "next")
    /\ workremain' = workremain - workdone[p]
    /\ workdone' = [workdone EXCEPT ![p] = 0]
    /\ init' = IF workremain - workdone[p] = 0 THEN [init EXCEPT ![p] = FALSE] ELSE init
    /\ UNCHANGED <<shape, map, workerdone, queue, locals, adaptive, split, posts, started>>

\* kaapi_task_unset_splittable: no new splitter on this task.
UnsetSplittable(p) ==
    /\ Goto(p, "return", "sync")
    /\ splittable' = [splittable EXCEPT ![p] = FALSE]
    /\ UNCHANGED <<shape, global, lwork, locals, thieves, split, posts, started>>

\* kaapi_synchronize_steal_thread: the splitter that holds the lock is waited for.
Synchronize(p) ==
    /\ LockIsFree(p)
    /\ Goto(p, "sync", IF p = Starter THEN "waitthieves" ELSE "decrdone")
    /\ UNCHANGED <<shape, global, lwork, locals, adaptive, split, posts, started>>

DecrDone(p) ==
    /\ Goto(p, "decrdone", "merge")
    /\ workerdone' = workerdone - 1
    /\ UNCHANGED <<shape, map, workremain, lwork, locals, adaptive, split, posts, started>>

\* The merge task of a thief: the last access to the frame of the starter.
Merge(p) ==
    /\ Goto(p, "merge", "idle")
    /\ thieves' = thieves - 1
    /\ UNCHANGED <<shape, global, lwork, locals, splittable, split, posts, started>>

\* Broken on purpose: only workerdone is waited for.
WaitThieves_Not ==
    /\ Goto(Starter, "waitthieves", "waitdone")
    /\ UNCHANGED <<shape, global, lwork, locals, adaptive, split, posts, started>>

WaitThieves ==
    /\ thieves = 0
    /\ Goto(Starter, "waitthieves", "waitdone")
    /\ UNCHANGED <<shape, global, lwork, locals, adaptive, split, posts, started>>

\* The frame is popped: global and local work disappear.
WaitDone ==
    /\ workerdone <= 0
    /\ Goto(Starter, "waitdone", "over")
    /\ UNCHANGED <<shape, global, lwork, locals, adaptive, split, posts, started>>

-------------------------------------------------------------------------------
(* _kaapic_split_task, run by a thief under the lock of the victim.        *)

\* Some of the idle processors have posted requests to v, and one of them has
\* its lock and found its task splittable; requests is the list of requests.
BeginSplit(v) ==
    /\ LockIsFree(v)
    /\ splittable[v]
    /\ \E R \in SUBSET {p \in Proc : pc[p] = "idle" /\ posts[p] < MaxPosts} :
        /\ R # {}
        /\ pc' = [p \in Proc |-> IF p \in R THEN "posted" ELSE pc[p]]
        /\ split' = [split EXCEPT ![v] =
             [at |-> "enter", requests |-> R, reply |-> {}, given |-> {},
              nreq |-> 0, unit |-> 0, last |-> 0]]
    /\ UNCHANGED <<shape, global, lwork, locals, adaptive, posts, started>>

\* The positions of those who ask.
Mask(R) == {tid2pos[r] : r \in R} \ {-1}

\* The tests on entry, and of the mask against the map.
EnterSplit(v) ==
    /\ split[v].at = "enter"
    /\ split' = [split EXCEPT ![v].at =
         IF workremain = 0 THEN "end"
         ELSE IF Mask(split[v].requests) \cap map = {} THEN "local" ELSE "and"]
    /\ UNCHANGED <<shape, global, lwork, locals, adaptive, pc, posts, started>>

\* Broken on purpose: kaapi_bitmap_and is thought to give the map it leaves.
ClearSlices_NewMap(v) ==
    /\ split[v].at = "and"
    /\ split' = [split EXCEPT ![v].at = "slices", ![v].reply = {}]
    /\ map' = map \ Mask(split[v].requests)
    /\ UNCHANGED <<shape, workremain, workerdone, lwork, locals, adaptive, pc, posts, started>>

\* kaapi_bitmap_and gives the map before it and clears the bits of those who ask.
ClearSlices(v) ==
    /\ split[v].at = "and"
    /\ split' = [split EXCEPT ![v].at = "slices",
                              ![v].reply = map \cap Mask(split[v].requests)]
    /\ map' = map \ Mask(split[v].requests)
    /\ UNCHANGED <<shape, workremain, workerdone, lwork, locals, adaptive, pc, posts, started>>

\* kaapic_foreach_local_workinit of a thief and the task that is pushed in the
\* frame of its request by kaapi_request_pushtask_adaptive.  It starts at once,
\* unless it runs this splitter, in which case it starts when the splitter ends.
Reply(v, r, bounds) ==
    /\ queue' = [queue EXCEPT ![r] = bounds]
    /\ init' = [init EXCEPT ![r] = TRUE]
    /\ thieves' = thieves + 1
    /\ splittable' = [splittable EXCEPT ![r] = TRUE]

\* A bit of the mask, used as a number of processor.
ReplySlice(v) ==
    /\ split[v].at = "slices"
    /\ split[v].reply # {}
    /\ LET tid == Min(split[v].reply)
           pos == tid2pos[tid]
       IN  /\ split' = [split EXCEPT ![v].reply = @ \ {tid},
                                     ![v].requests = @ \ {tid},
                                     ![v].given = @ \cup {tid}]
           /\ workerdone' = workerdone + 1
           /\ Reply(v, tid, Slice(pos))
    /\ UNCHANGED <<shape, map, workremain, workdone, locals, pc, posts, started>>

\* Those who got no slice are left.
SlicesReplied(v) ==
    /\ split[v].at = "slices"
    /\ split[v].reply = {}
    /\ split' = [split EXCEPT ![v].at = IF split[v].requests = {} THEN "end" ELSE "local"]
    /\ UNCHANGED <<shape, global, lwork, locals, adaptive, pc, posts, started>>

\* How many pieces of the local queue, and how long.
Share(n, size) ==
    IF size \div (n + 1) < ParGrain
    THEN <<(size \div ParGrain) - 1, ParGrain>>
    ELSE <<n, size \div (n + 1)>>

SizeLocal(v) ==
    /\ split[v].at = "local"
    /\ LET size == Size(queue[v])
           share == Share(Cardinality(split[v].requests), size)
       IN  split' = [split EXCEPT
             ![v].at = IF ~init[v] \/ size <= ParGrain \/ share[1] = 0 THEN "end" ELSE "take",
             ![v].nreq = share[1], ![v].unit = share[2]]
    /\ UNCHANGED <<shape, global, lwork, locals, adaptive, pc, posts, started>>

\* One steal for all; the owner may have popped since the size was read.
TakeLocal(v) ==
    /\ split[v].at = "take"
    /\ LET amount == split[v].nreq * split[v].unit
           enough == Size(queue[v]) >= amount
       IN  /\ queue' = [queue EXCEPT ![v][2] = IF enough THEN @ - amount ELSE @]
           /\ split' = [split EXCEPT ![v].at = IF enough THEN "pieces" ELSE "end",
                                     ![v].last = queue[v][2]]
    /\ UNCHANGED <<shape, global, init, workdone, locals, adaptive, pc, posts, started>>

\* Pieces are given from the high end; workerdone is left alone.
ReplyPiece(v) ==
    /\ split[v].at = "pieces"
    /\ split[v].nreq > 0
    /\ LET r == Min(split[v].requests)
           last == split[v].last
           unit == split[v].unit
       IN  /\ split' = [split EXCEPT ![v].requests = @ \ {r}, ![v].given = @ \cup {r},
                                     ![v].nreq = @ - 1, ![v].last = last - unit]
           /\ Reply(v, r, <<last - unit, last>>)
    /\ UNCHANGED <<shape, global, workdone, locals, pc, posts, started>>

\* A reply starts its task; only one of those replied to, that which runs the
\* splitter, has to wait for its end, so any one of them may wait.
StartThief(v, r) ==
    /\ ~LockIsFree(v)
    /\ r \in split[v].given
    /\ pc' = [pc EXCEPT ![r] = "test"]
    /\ split' = [split EXCEPT ![v].given = @ \ {r}]
    /\ UNCHANGED <<shape, global, lwork, locals, adaptive, posts, started>>

\* The lock is released; those who got nothing are idle again.
EndSplit(v) ==
    /\ split[v].at \in {"end", "pieces"}
    /\ split[v].at = "pieces" => split[v].nreq = 0
    /\ pc' = [p \in Proc |-> IF p \in split[v].given THEN "test"
                             ELSE IF p \in split[v].requests THEN "idle" ELSE pc[p]]
    /\ posts' = [p \in Proc |-> IF p \in split[v].requests THEN posts[p] + 1 ELSE posts[p]]
    /\ split' = [split EXCEPT ![v] = NoSplit]
    /\ UNCHANGED <<shape, global, lwork, locals, adaptive, started>>

-------------------------------------------------------------------------------
Work(p) ==
    \/ TestRemain(p) \/ Pop(p) \/ PopEmpty(p) \/ BodyEnds(p) \/ SubRemain(p)
    \/ NextWork(p) \/ FindSlice(p) \/ PopSlice(p) \/ CheckSlice(p) \/ PopAny(p)
    \/ NoneRemains(p) \/ Select(p) \/ Steal(p) \/ RunPiece(p) \/ Refill(p)

Finish(p) ==
    \/ Leave(p) \/ UnsetSplittable(p) \/ Synchronize(p) \/ DecrDone(p) \/ Merge(p)

Splitter(v) ==
    \/ EnterSplit(v) \/ ClearSlices(v) \/ ReplySlice(v) \/ SlicesReplied(v)
    \/ SizeLocal(v) \/ TakeLocal(v) \/ ReplyPiece(v) \/ EndSplit(v)

Participant(p) ==
    Work(p) \/ Finish(p) \/ (p = Starter /\ (WaitThieves \/ WaitDone))

Next ==
    \/ \E p \in Proc : Participant(p)
    \/ \E v \in Proc : BeginSplit(v) \/ Splitter(v) \/ (\E r \in Proc : StartThief(v, r))

Spec == Init /\ [][Next]_vars

\* A processor that is in the loop goes on, and so does some splitter if there
\* is one; nobody has to post a request.
FairSpec ==
    /\ Spec
    /\ \A p \in Proc : WF_vars(Participant(p))
    /\ WF_vars(\E v \in Proc : Splitter(v))

-------------------------------------------------------------------------------
(* Properties.                                                             *)

Bounds == Int \X Int

TypeOK ==
    /\ total \in 1 .. MaxIter /\ nthreads \in 1 .. NProc
    /\ map \subseteq 0 .. NProc - 1
    /\ workremain \in Nat
    /\ workerdone \in Int
    /\ init \in [Proc -> BOOLEAN]
    /\ queue \in [Proc -> Bounds]
    /\ workdone \in [Proc -> Nat]
    /\ piece \in [Proc -> Bounds]
    /\ aim \in [Proc -> Bounds]
    /\ splittable \in [Proc -> BOOLEAN]
    /\ thieves \in Nat
    /\ DOMAIN split = Proc
    /\ pc \in [Proc -> {"test", "pop", "body", "sub", "next", "first1", "unset",
                        "recheck", "popany", "select", "steal", "got", "leave",
                        "return", "sync", "decrdone", "merge", "waitthieves", "waitdone",
                        "idle", "posted", "over"}]
    /\ posts \in [Proc -> 0 .. MaxPosts]
    /\ started \subseteq Iterations(0, total)

\* The sets of iterations that wait: slices nobody took, slices about to be
\* replied, local queues, pieces between two queues, pieces about to be replied.
Waiting ==
    {<<"slice", pos, Slice(pos)>> : pos \in map}
    \cup (UNION {{<<"slice", pos, Slice(pos)>> : pos \in split[v].reply} :
                   v \in {v \in Proc : ~LockIsFree(v)}})
    \cup {<<"queue", p, queue[p]>> : p \in Proc}
    \cup {<<"piece", p, piece[p]>> : p \in {p \in Proc : pc[p] \in {"recheck", "got"}}}
    \cup {<<"split", v, <<split[v].last - split[v].nreq * split[v].unit, split[v].last>> >> :
            v \in {v \in Proc : split[v].at = "pieces"}}

\* Whatever the owner, the thieves that steal directly and the splitter do at
\* once, an iteration is in one place until it is given to a call of the body.
NothingLost ==
    \A i \in Iterations(0, total) :
        Cardinality({w \in Waiting : i \in Iterations(w[3][1], w[3][2])}) =
            IF i \in started THEN 0 ELSE 1

\* The iterations done or in hand that their processors have not reported.
NotReported == UNION {{p} \X (1 .. workdone[p]) : p \in Proc}

\* workremain, which is decremented late and by everybody, counts the iterations
\* that wait and those done or in hand but not reported; it is 0 only at the end.
RemainIsExact ==
    workremain =
        Cardinality(Iterations(0, total) \ started) + Cardinality(NotReported)

\* When kaapic_foreach_workend pops the frame that holds the global work, no
\* processor is in the loop, in the splitter or about to be given a part of it.
FrameIsUnused ==
    pc[Starter] = "over" =>
        \A p \in Proc : LockIsFree(p) /\ (p # Starter => pc[p] = "idle")

Doing(p) == IF pc[p] = "body" THEN Iterations(piece[p][1], piece[p][2]) ELSE {}

Abstract == INSTANCE ParallelLoop WITH
    todo <- Iterations(0, total) \ started,
    doing <- [p \in Proc |-> Doing(p)],
    over <- pc[Starter] = "over"

\* Every iteration is executed once, and the loop returns after the last one.
ImplementsParallelLoop == Abstract!Spec

\* The loop returns.
LoopEnds == <>(pc[Starter] = "over")

\* The comment at the head of kaapic_work.c: a thread is given its own slice.
RepliesOwnSlice ==
    [][\A v \in Proc : ReplySlice(v) =>
        \A r \in Proc : split'[v].given \ split[v].given = {r} =>
            r \in split[v].requests]_vars
===============================================================================
