--------------------------- MODULE StealRequestProofs ---------------------------
(***************************************************************************)
(* Proofs about StealRequest, for any processors, victims and tasks.       *)
(*                                                                         *)
(* A request that waits for its answer is in the bitmap of its victim or   *)
(* in the hands of one combiner, the holder of the lock of that victim.    *)
(* Its caller, while it is there, has not got past the loop in which it    *)
(* waits, or is that combiner.                                             *)
(***************************************************************************)
EXTENDS StealRequest, TLAPS

\* Who has the lock of its victim, from the trylock to the unlock.
Combining(p) == pc[p] \in {"swap", "steal", "fail", "write", "unlock"}
Answering(p) == pc[p] \in {"steal", "fail", "write"}

LockInv == \A p \in Proc : Combining(p) => lock[victim[p]] = p

\* A request is filled before it is shown.
FilledInv == \A p \in Proc : pc[p] = "bit" => status[p] = "posted" /\ pointer[p]

\* A request that is in a bitmap waits for somebody to take it.
BitmapInv ==
    \A v, r \in Proc : r \in bitmap[v] =>
        /\ victim[r] = v
        /\ status[r] = "posted" /\ pointer[r]
        /\ pc[r] \in {"lock", "test", "swap"}

\* A request that was taken and is not answered: its caller waits without the lock,
\* or is the combiner.
IterInv ==
    \A p, r \in Proc : r \in iter[p] =>
        /\ Answering(p)
        /\ victim[r] = victim[p]
        /\ r \notin bitmap[victim[p]]
        /\ status[r] = "posted"
        /\ pointer[r] \/ (pc[p] = "write" /\ target[p] = r)
        /\ p # r => pc[r] \in {"lock", "test"}

TargetInv == \A p \in Proc : pc[p] = "write" => target[p] \in iter[p]

\* A request without an answer is somewhere.
PostedInv ==
    \A r \in Proc : status[r] = "posted" =>
        \/ pc[r] = "bit"
        \/ r \in bitmap[victim[r]]
        \/ \E p \in Proc : r \in iter[p]

\* A task is in the frame of a request only with a positive answer.
FrameInv ==
    \A r \in Proc : InCall(r) /\ frame[r] # None =>
        \/ status[r] = "ok"
        \/ \E p \in Proc : pc[p] = "write" /\ target[p] = r /\ answer[p] = "ok"

\* Who looks for work has none.
ExecInv == \A p \in Proc : pc[p] # "idle" => exec[p] = None

\* EachTaskOnePlace, place by place.
OnePlace ==
    \A p, q \in Proc :
        /\ ready[p] \cap done = {}
        /\ p # q => ready[p] \cap ready[q] = {}
        /\ exec[p] # None => exec[p] \notin ready[q] /\ exec[p] \notin done
        /\ p # q /\ exec[p] # None => exec[p] # exec[q]
        /\ InCall(p) /\ frame[p] # None =>
              /\ frame[p] \notin ready[q] /\ frame[p] \notin done
              /\ frame[p] # exec[q]
              /\ p # q /\ InCall(q) => frame[p] # frame[q]

RequestInv == LockInv /\ FilledInv /\ BitmapInv /\ IterInv /\ TargetInv /\ PostedInv

IndInv == TypeOK /\ RequestInv /\ FrameInv /\ ExecInv /\ OnePlace

-------------------------------------------------------------------------------
(* Each action preserves the invariant.                                    *)

\* Creating, executing and ending tasks leaves requests alone.
LEMMA TasksApart ==
    ASSUME RequestInv, FrameInv, UNCHANGED <<pc, victim, requestVars, combineVars>>
    PROVE  RequestInv' /\ FrameInv'
<1> USE DEF requestVars, combineVars
<1>1. LockInv' /\ FilledInv' /\ BitmapInv' /\ TargetInv'
  BY DEF RequestInv, LockInv, FilledInv, BitmapInv, TargetInv, Combining
<1>2. IterInv' /\ PostedInv'
  BY DEF RequestInv, IterInv, PostedInv, Answering
<1>3. FrameInv'
  BY DEF FrameInv, InCall
<1> QED
  BY <1>1, <1>2, <1>3 DEF RequestInv

LEMMA CreateStep ==
    ASSUME IndInv, NEW p \in Proc, NEW t \in Task, Create(p, t)
    PROVE  IndInv'
<1> USE ConstantsAssumption DEF IndInv
<1>1. TypeOK'
  BY DEF TypeOK, Create, requestVars, combineVars
<1>2. RequestInv' /\ FrameInv'
  BY TasksApart DEF Create
<1>3. ExecInv'
  BY DEF ExecInv, Create, requestVars, combineVars
<1>4. OnePlace'
  BY DEF OnePlace, Waiting, Executing, InFlight, InCall, Create, requestVars
<1> QED
  BY <1>1, <1>2, <1>3, <1>4

LEMMA ExecuteStep ==
    ASSUME IndInv, NEW p \in Proc, NEW t \in Task, Execute(p, t)
    PROVE  IndInv'
<1> USE ConstantsAssumption DEF IndInv
<1>1. TypeOK'
  BY DEF TypeOK, Execute, requestVars, combineVars
<1>2. RequestInv' /\ FrameInv'
  BY TasksApart DEF Execute
<1>3. ExecInv'
  BY DEF ExecInv, Execute, requestVars, combineVars
<1>4. OnePlace'
  BY DEF OnePlace, InCall, TypeOK, Execute, requestVars
<1> QED
  BY <1>1, <1>2, <1>3, <1>4

LEMMA FinishStep ==
    ASSUME IndInv, NEW p \in Proc, Finish(p)
    PROVE  IndInv'
<1> USE ConstantsAssumption DEF IndInv
<1>1. TypeOK'
  BY DEF TypeOK, Finish, requestVars, combineVars
<1>2. RequestInv' /\ FrameInv'
  BY TasksApart DEF Finish
<1>3. ExecInv'
  BY DEF ExecInv, Finish, requestVars, combineVars
<1>4. OnePlace'
  BY DEF OnePlace, InCall, TypeOK, Finish, requestVars
<1> QED
  BY <1>1, <1>2, <1>3, <1>4

LEMMA IdleStep ==
    ASSUME IndInv, NEW p \in Proc, Idle(p)
    PROVE  IndInv'
<1> USE ConstantsAssumption DEF IndInv, RequestInv
<1>0. /\ \A q \in Proc : q # p => pc'[q] = pc[q]
      /\ InCall(p)' = InCall(p)
      /\ UNCHANGED <<victim, requestVars, iter, target, answer, taskVars, isterm>>
  BY DEF TypeOK, Idle, Goto, InCall, combineVars
<1>1. TypeOK'
  BY DEF TypeOK, Location, Idle, Goto, requestVars, combineVars, taskVars
<1>2. LockInv'
  BY DEF LockInv, Combining, TypeOK, Location, Idle, Goto, requestVars,
         combineVars, taskVars
<1>3. FilledInv'
  BY DEF FilledInv, TargetInv, Answering, TypeOK, Idle, Goto, requestVars,
         combineVars
<1>4. BitmapInv'
  <2> SUFFICES ASSUME NEW v \in Proc, NEW r \in Proc, r \in bitmap'[v]
               PROVE  /\ victim'[r] = v
                      /\ status'[r] = "posted" /\ pointer'[r]
                      /\ pc'[r] \in {"lock", "test", "swap"}
    BY DEF BitmapInv
  <2>1. r # p BY DEF TypeOK, BitmapInv, Idle, Goto, requestVars
  <2> QED
    BY <1>0, <2>1 DEF BitmapInv, requestVars
<1>5. IterInv'
  BY DEF IterInv, Answering, TypeOK, Idle, Goto, requestVars, combineVars, taskVars
<1>6. TargetInv'
  BY DEF TargetInv, Answering, TypeOK, Idle, Goto, requestVars, combineVars
<1>7. PostedInv'
  BY DEF PostedInv, IterInv, TypeOK, Location, Idle, Goto, requestVars, combineVars
<1>8. FrameInv'
  <2>1. \A q \in Proc : pc[q] = "write" => pc'[q] = "write"
    BY <1>0 DEF Idle, Goto
  <2>2. \A q \in Proc : InCall(q)' = InCall(q)
    BY <1>0 DEF InCall
  <2> QED
    BY <1>0, <2>1, <2>2 DEF FrameInv, requestVars
<1>9. ExecInv'
  BY DEF ExecInv, TypeOK, Idle, Goto, combineVars, taskVars
<1>10. OnePlace'
  BY <1>0 DEF OnePlace, InCall, requestVars, taskVars
<1> QED
  BY <1>1, <1>2, <1>3, <1>4, <1>5, <1>6, <1>7, <1>8, <1>9, <1>10

LEMMA FillRequestStep ==
    ASSUME IndInv, NEW p \in Proc, NEW v \in Victim, FillRequest(p, v)
    PROVE  IndInv'
<1> USE ConstantsAssumption DEF IndInv, RequestInv
<1>1. TypeOK'
  BY DEF TypeOK, Location, FillRequest, Goto, combineVars, taskVars
<1>2. LockInv'
  BY DEF LockInv, Combining, TypeOK, Location, FillRequest, Goto, combineVars,
         taskVars
<1>3. FilledInv'
  BY DEF FilledInv, TargetInv, Answering, TypeOK, FillRequest, Goto, combineVars
<1>4. BitmapInv'
  BY DEF BitmapInv, FillRequest, Goto
<1>5. IterInv'
  BY DEF IterInv, Answering, FillRequest, Goto, combineVars
<1>6. TargetInv'
  BY DEF TargetInv, Answering, FillRequest, Goto, combineVars
<1>7. PostedInv'
  BY DEF PostedInv, IterInv, TypeOK, FillRequest, Goto, combineVars
<1>8. FrameInv'
  BY DEF FrameInv, InCall, TypeOK, FillRequest, Goto, combineVars
<1>9. ExecInv'
  BY DEF ExecInv, TypeOK, FillRequest, Goto, combineVars, taskVars
<1>10. OnePlace'
  BY DEF OnePlace, InCall, TypeOK, FillRequest, Goto, taskVars
<1> QED
  BY <1>1, <1>2, <1>3, <1>4, <1>5, <1>6, <1>7, <1>8, <1>9, <1>10

LEMMA SetBitStep ==
    ASSUME IndInv, NEW p \in Proc, SetBit(p)
    PROVE  IndInv'
<1> USE ConstantsAssumption DEF IndInv, RequestInv
<1>1. TypeOK'
  BY DEF TypeOK, Location, SetBit, Goto, combineVars, taskVars
<1>2. LockInv'
  BY DEF LockInv, Combining, TypeOK, Location, SetBit, Goto, combineVars, taskVars
<1>3. FilledInv'
  BY DEF FilledInv, TargetInv, Answering, SetBit, Goto, combineVars
<1>4. BitmapInv'
  <2> SUFFICES ASSUME NEW v \in Proc, NEW r \in Proc, r \in bitmap'[v]
               PROVE  /\ victim'[r] = v
                      /\ status'[r] = "posted" /\ pointer'[r]
                      /\ pc'[r] \in {"lock", "test", "swap"}
    BY DEF BitmapInv
  <2>1. CASE r \in bitmap[v]
    BY <2>1 DEF BitmapInv, SetBit, Goto
  <2>2. CASE r \notin bitmap[v]
    <3>1. v = victim[p] /\ r = p
      BY <2>2 DEF SetBit
    <3> QED BY <3>1 DEF FilledInv, TypeOK, SetBit, Goto
  <2> QED
    BY <2>1, <2>2
<1>5. IterInv'
  BY DEF IterInv, Answering, SetBit, Goto, combineVars
<1>6. TargetInv'
  BY DEF TargetInv, Answering, SetBit, Goto, combineVars
<1>7. PostedInv'
  BY DEF PostedInv, IterInv, TypeOK, SetBit, Goto, combineVars
<1>8. FrameInv'
  BY DEF FrameInv, InCall, TypeOK, SetBit, Goto, combineVars
<1>9. ExecInv'
  BY DEF ExecInv, SetBit, Goto, combineVars, taskVars
<1>10. OnePlace'
  BY DEF OnePlace, InCall, SetBit, Goto, taskVars
<1> QED
  BY <1>1, <1>2, <1>3, <1>4, <1>5, <1>6, <1>7, <1>8, <1>9, <1>10

LEMMA TryLockStep ==
    ASSUME IndInv, NEW p \in Proc, TryLock(p)
    PROVE  IndInv'
<1> USE ConstantsAssumption DEF IndInv, RequestInv
<1>0. /\ \A q \in Proc : q # p => pc'[q] = pc[q]
      /\ InCall(p)' = InCall(p)
      /\ UNCHANGED <<victim, requestVars, iter, target, answer, taskVars, isterm>>
  BY DEF TypeOK, TryLock, Goto, InCall
<1>1. TypeOK'
  <2>1. pc' \in [Proc -> Location] /\ lock' \in [Proc -> Proc \cup {None}]
    BY DEF TypeOK, Location, TryLock, Goto
  <2> QED
    BY <1>0, <2>1 DEF TypeOK, requestVars, taskVars
<1>2. LockInv'
  BY DEF LockInv, Combining, TypeOK, TryLock, Goto, requestVars, combineVars,
         taskVars
<1>3. FilledInv'
  BY DEF FilledInv, TargetInv, Answering, TypeOK, TryLock, Goto, requestVars
<1>4. BitmapInv'
  BY DEF BitmapInv, IterInv, TypeOK, TryLock, Goto, requestVars
<1>5. IterInv'
  BY DEF LockInv, IterInv, TargetInv, Combining, Answering, TypeOK, TryLock, Goto,
         requestVars
<1>6. TargetInv'
  BY DEF TargetInv, IterInv, Answering, TypeOK, TryLock, Goto, requestVars
<1>7. PostedInv'
  BY DEF PostedInv, IterInv, TargetInv, Answering, TypeOK, TryLock, Goto,
         requestVars, taskVars
<1>8. FrameInv'
  <2>1. \A q \in Proc : pc[q] = "write" => pc'[q] = "write"
    BY <1>0 DEF TryLock, Goto
  <2>2. \A q \in Proc : InCall(q)' = InCall(q)
    BY <1>0 DEF InCall
  <2> QED
    BY <1>0, <2>1, <2>2 DEF FrameInv, requestVars
<1>9. ExecInv'
  BY DEF ExecInv, TypeOK, TryLock, Goto, combineVars, taskVars
<1>10. OnePlace'
  BY <1>0 DEF OnePlace, InCall, requestVars, taskVars
<1> QED
  BY <1>1, <1>2, <1>3, <1>4, <1>5, <1>6, <1>7, <1>8, <1>9, <1>10

LEMMA TestStatusStep ==
    ASSUME IndInv, NEW p \in Proc, TestStatus(p)
    PROVE  IndInv'
<1> USE ConstantsAssumption DEF IndInv, RequestInv
<1>0. /\ \A q \in Proc : q # p => pc'[q] = pc[q]
      /\ InCall(p)' = InCall(p)
      /\ UNCHANGED <<victim, requestVars, iter, target, answer, taskVars, isterm>>
  BY DEF TypeOK, TestStatus, Goto, InCall, combineVars
<1>1. TypeOK'
  BY DEF TypeOK, Location, TestStatus, Goto, requestVars, combineVars, taskVars
<1>2. LockInv'
  BY DEF LockInv, Combining, TypeOK, Location, TestStatus, Goto, requestVars,
         combineVars, taskVars
<1>3. FilledInv'
  BY DEF FilledInv, TargetInv, Answering, TypeOK, TestStatus, Goto, requestVars,
         combineVars
<1>4. BitmapInv'
  BY DEF BitmapInv, TypeOK, Location, TestStatus, Goto, requestVars
<1>5. IterInv'
  BY DEF IterInv, Answering, TypeOK, Location, TestStatus, Goto, requestVars,
         combineVars
<1>6. TargetInv'
  BY DEF TargetInv, Answering, TypeOK, TestStatus, Goto, requestVars, combineVars
<1>7. PostedInv'
  BY DEF PostedInv, BitmapInv, IterInv, Answering, TypeOK, TestStatus, Goto,
         requestVars, combineVars, taskVars
<1>8. FrameInv'
  <2>1. \A q \in Proc : pc[q] = "write" => pc'[q] = "write"
    BY <1>0 DEF TestStatus, Goto
  <2>2. \A q \in Proc : InCall(q)' = InCall(q)
    BY <1>0 DEF InCall
  <2> QED
    BY <1>0, <2>1, <2>2 DEF FrameInv, requestVars
<1>9. ExecInv'
  BY DEF ExecInv, TypeOK, TestStatus, Goto, combineVars, taskVars
<1>10. OnePlace'
  BY <1>0 DEF OnePlace, InCall, requestVars, taskVars
<1> QED
  BY <1>1, <1>2, <1>3, <1>4, <1>5, <1>6, <1>7, <1>8, <1>9, <1>10

LEMMA TakeRequestsStep ==
    ASSUME IndInv, NEW p \in Proc, TakeRequests(p)
    PROVE  IndInv'
<1> USE ConstantsAssumption DEF IndInv, RequestInv
<1>1. TypeOK'
  BY DEF TypeOK, Location, TakeRequests, Goto, taskVars
<1>2. LockInv'
  BY DEF LockInv, Combining, TypeOK, Location, TakeRequests, Goto, taskVars
<1>3. FilledInv'
  BY DEF FilledInv, TargetInv, Answering, TakeRequests, Goto
<1>4. BitmapInv'
  BY DEF BitmapInv, TypeOK, TakeRequests, Goto
<1>5. IterInv'
  BY DEF LockInv, BitmapInv, IterInv, Combining, Answering, TypeOK, TakeRequests,
         Goto
<1>6. TargetInv'
  BY DEF TargetInv, IterInv, Answering, TypeOK, TakeRequests, Goto
<1>7. PostedInv'
  <2>0. /\ UNCHANGED <<status, victim>>
        /\ \A r \in Proc : pc[r] = "bit" => pc'[r] = "bit"
    BY DEF TakeRequests, Goto
  <2> SUFFICES ASSUME NEW r \in Proc, status[r] = "posted", pc[r] # "bit"
               PROVE  r \in bitmap'[victim[r]] \/ \E q \in Proc : r \in iter'[q]
    BY <2>0 DEF PostedInv
  <2>1. CASE r \in bitmap[victim[p]]
    BY <2>1 DEF TypeOK, TakeRequests
  <2>2. CASE r \in bitmap[victim[r]] /\ victim[r] # victim[p]
    BY <2>2 DEF TypeOK, TakeRequests
  <2>3. ASSUME NEW q \in Proc, r \in iter[q]
        PROVE  r \in iter'[q]
    <3>1. q # p
      BY <2>3 DEF IterInv, Answering, TakeRequests, Goto
    <3> QED
      BY <2>3, <3>1 DEF TypeOK, TakeRequests
  <2> QED
    BY <2>1, <2>2, <2>3 DEF PostedInv
<1>8. FrameInv'
  BY DEF FrameInv, InCall, TakeRequests, Goto, taskVars
<1>9. ExecInv'
  BY DEF ExecInv, TakeRequests, Goto, taskVars
<1>10. OnePlace'
  BY DEF OnePlace, InCall, TakeRequests, Goto, taskVars
<1> QED
  BY <1>1, <1>2, <1>3, <1>4, <1>5, <1>6, <1>7, <1>8, <1>9, <1>10

LEMMA StealTaskStep ==
    ASSUME IndInv, NEW p \in Proc, NEW r \in Proc, NEW t \in Task, StealTask(p, r, t)
    PROVE  IndInv'
<1> USE ConstantsAssumption DEF IndInv, RequestInv
<1>1. TypeOK'
  BY DEF TypeOK, Location, StealTask, Goto, BeginReply
<1>2. LockInv'
  BY DEF LockInv, Combining, TypeOK, Location, StealTask, Goto, BeginReply
<1>3. FilledInv'
  BY DEF FilledInv, IterInv, TargetInv, Answering, Location, StealTask, Goto,
         BeginReply
<1>4. BitmapInv'
  BY DEF BitmapInv, IterInv, StealTask, Goto, BeginReply
<1>5. IterInv'
  BY DEF LockInv, IterInv, TargetInv, Combining, Answering, TypeOK, StealTask,
         Goto, BeginReply
<1>6. TargetInv'
  BY DEF TargetInv, IterInv, Answering, TypeOK, StealTask, Goto, BeginReply
<1>7. PostedInv'
  BY DEF PostedInv, IterInv, TypeOK, StealTask, Goto, BeginReply
<1>8. FrameInv'
  BY DEF FrameInv, InCall, TypeOK, StealTask, Goto, BeginReply
<1>9. ExecInv'
  BY DEF ExecInv, TypeOK, StealTask, Goto, BeginReply
<1>10. OnePlace'
  BY DEF OnePlace, InCall, TypeOK, StealTask, Goto
<1> QED
  BY <1>1, <1>2, <1>3, <1>4, <1>5, <1>6, <1>7, <1>8, <1>9, <1>10

LEMMA EndOfStealStep ==
    ASSUME IndInv, NEW p \in Proc, EndOfSteal(p)
    PROVE  IndInv'
<1> USE ConstantsAssumption DEF IndInv, RequestInv
<1>1. TypeOK'
  BY DEF TypeOK, Location, EndOfSteal, Goto, requestVars, combineVars, taskVars
<1>2. LockInv'
  BY DEF LockInv, Combining, TypeOK, Location, EndOfSteal, Goto, requestVars,
         combineVars, taskVars
<1>3. FilledInv'
  BY DEF FilledInv, TargetInv, Answering, EndOfSteal, Goto, requestVars, combineVars
<1>4. BitmapInv'
  BY DEF BitmapInv, EndOfSteal, Goto, requestVars
<1>5. IterInv'
  BY DEF IterInv, Answering, EndOfSteal, Goto, requestVars, combineVars
<1>6. TargetInv'
  BY DEF TargetInv, Answering, EndOfSteal, Goto, requestVars, combineVars
<1>7. PostedInv'
  BY DEF PostedInv, IterInv, EndOfSteal, Goto, requestVars, combineVars
<1>8. FrameInv'
  BY DEF FrameInv, InCall, EndOfSteal, Goto, requestVars, combineVars
<1>9. ExecInv'
  BY DEF ExecInv, EndOfSteal, Goto, requestVars, combineVars, taskVars
<1>10. OnePlace'
  BY DEF OnePlace, InCall, EndOfSteal, Goto, requestVars, taskVars
<1> QED
  BY <1>1, <1>2, <1>3, <1>4, <1>5, <1>6, <1>7, <1>8, <1>9, <1>10

LEMMA FailRequestStep ==
    ASSUME IndInv, NEW p \in Proc, NEW r \in Proc, FailRequest(p, r)
    PROVE  IndInv'
<1> USE ConstantsAssumption DEF IndInv, RequestInv
<1>1. TypeOK'
  BY DEF TypeOK, Location, FailRequest, Goto, BeginReply, taskVars
<1>2. LockInv'
  BY DEF LockInv, Combining, TypeOK, Location, FailRequest, Goto, BeginReply,
         taskVars
<1>3. FilledInv'
  <2>1. pc[r] # "bit" /\ pc[p] # "bit"
    BY DEF IterInv, FailRequest, Goto, BeginReply
  <2>2. \A q \in Proc : pc'[q] = "bit" => pc[q] = "bit" /\ q # r
    BY <2>1 DEF TypeOK, FailRequest, Goto
  <2>3. \A q \in Proc : q # r => status'[q] = status[q] /\ pointer'[q] = pointer[q]
    BY DEF FailRequest, BeginReply
  <2> QED
    BY <2>2, <2>3 DEF FilledInv
<1>4. BitmapInv'
  BY DEF BitmapInv, IterInv, FailRequest, Goto, BeginReply
<1>5. IterInv'
  BY DEF LockInv, IterInv, TargetInv, Combining, Answering, TypeOK, FailRequest,
         Goto, BeginReply
<1>6. TargetInv'
  BY DEF TargetInv, IterInv, Answering, TypeOK, FailRequest, Goto, BeginReply
<1>7. PostedInv'
  BY DEF PostedInv, IterInv, TypeOK, FailRequest, Goto, BeginReply
<1>8. FrameInv'
  BY DEF FrameInv, InCall, FailRequest, Goto, BeginReply
<1>9. ExecInv'
  BY DEF ExecInv, FailRequest, Goto, BeginReply, taskVars
<1>10. OnePlace'
  BY DEF OnePlace, InCall, FailRequest, Goto, taskVars
<1> QED
  BY <1>1, <1>2, <1>3, <1>4, <1>5, <1>6, <1>7, <1>8, <1>9, <1>10

LEMMA EndOfFailStep ==
    ASSUME IndInv, NEW p \in Proc, EndOfFail(p)
    PROVE  IndInv'
<1> USE ConstantsAssumption DEF IndInv, RequestInv
<1>1. TypeOK'
  BY DEF TypeOK, Location, EndOfFail, Goto, requestVars, combineVars, taskVars
<1>2. LockInv'
  BY DEF LockInv, Combining, TypeOK, Location, EndOfFail, Goto, requestVars,
         combineVars, taskVars
<1>3. FilledInv'
  BY DEF FilledInv, TargetInv, Answering, EndOfFail, Goto, requestVars, combineVars
<1>4. BitmapInv'
  BY DEF BitmapInv, EndOfFail, Goto, requestVars
<1>5. IterInv'
  BY DEF IterInv, Answering, EndOfFail, Goto, requestVars, combineVars
<1>6. TargetInv'
  BY DEF TargetInv, Answering, EndOfFail, Goto, requestVars, combineVars
<1>7. PostedInv'
  BY DEF PostedInv, IterInv, EndOfFail, Goto, requestVars, combineVars
<1>8. FrameInv'
  BY DEF FrameInv, InCall, EndOfFail, Goto, requestVars, combineVars
<1>9. ExecInv'
  BY DEF ExecInv, EndOfFail, Goto, requestVars, combineVars, taskVars
<1>10. OnePlace'
  BY DEF OnePlace, InCall, EndOfFail, Goto, requestVars, taskVars
<1> QED
  BY <1>1, <1>2, <1>3, <1>4, <1>5, <1>6, <1>7, <1>8, <1>9, <1>10

LEMMA WriteStatusStep ==
    ASSUME IndInv, NEW p \in Proc, WriteStatus(p)
    PROVE  IndInv'
<1> USE ConstantsAssumption DEF IndInv, RequestInv
<1>1. TypeOK'
  BY DEF TypeOK, Location, WriteStatus, Goto, taskVars
<1>2. LockInv'
  BY DEF LockInv, Combining, TypeOK, Location, WriteStatus, Goto, taskVars
<1>3. FilledInv'
  BY DEF FilledInv, IterInv, TargetInv, Answering, WriteStatus, Goto
<1>4. BitmapInv'
  BY DEF BitmapInv, IterInv, TargetInv, WriteStatus, Goto
<1>5. IterInv'
  BY DEF LockInv, IterInv, TargetInv, Combining, Answering, TypeOK, WriteStatus,
         Goto
<1>6. TargetInv'
  BY DEF TargetInv, IterInv, Answering, TypeOK, WriteStatus, Goto
<1>7. PostedInv'
  BY DEF PostedInv, IterInv, TypeOK, WriteStatus, Goto
<1>8. FrameInv'
  BY DEF FrameInv, InCall, TargetInv, IterInv, TypeOK, WriteStatus, Goto
<1>9. ExecInv'
  BY DEF ExecInv, TypeOK, WriteStatus, Goto, taskVars
<1>10. OnePlace'
  BY DEF OnePlace, InCall, WriteStatus, Goto, taskVars
<1> QED
  BY <1>1, <1>2, <1>3, <1>4, <1>5, <1>6, <1>7, <1>8, <1>9, <1>10

LEMMA UnlockStep ==
    ASSUME IndInv, NEW p \in Proc, Unlock(p)
    PROVE  IndInv'
<1> USE ConstantsAssumption DEF IndInv, RequestInv
<1>1. TypeOK'
  BY DEF TypeOK, Location, Unlock, Goto, requestVars, taskVars
<1>2. LockInv'
  BY DEF LockInv, Combining, TypeOK, Location, Unlock, Goto, requestVars, taskVars
<1>3. FilledInv'
  BY DEF FilledInv, TargetInv, Answering, TypeOK, Unlock, Goto, requestVars
<1>4. BitmapInv'
  BY DEF BitmapInv, Unlock, Goto, requestVars
<1>5. IterInv'
  BY DEF IterInv, Answering, Unlock, Goto, requestVars
<1>6. TargetInv'
  BY DEF TargetInv, Answering, Unlock, Goto, requestVars
<1>7. PostedInv'
  BY DEF PostedInv, IterInv, Unlock, Goto, requestVars
<1>8. FrameInv'
  BY DEF FrameInv, InCall, Unlock, Goto, requestVars
<1>9. ExecInv'
  BY DEF ExecInv, Unlock, Goto, requestVars, taskVars
<1>10. OnePlace'
  BY DEF OnePlace, InCall, Unlock, Goto, requestVars, taskVars
<1> QED
  BY <1>1, <1>2, <1>3, <1>4, <1>5, <1>6, <1>7, <1>8, <1>9, <1>10

LEMMA AfterStep ==
    ASSUME IndInv, NEW p \in Proc, After(p)
    PROVE  IndInv'
<1> USE ConstantsAssumption DEF IndInv, RequestInv
<1>1. TypeOK'
  BY DEF TypeOK, Location, After, Goto, requestVars, combineVars, taskVars
<1>2. LockInv'
  BY DEF LockInv, Combining, TypeOK, Location, After, Goto, requestVars,
         combineVars, taskVars
<1>3. FilledInv'
  BY DEF FilledInv, TargetInv, Answering, After, Goto, requestVars, combineVars
<1>4. BitmapInv'
  BY DEF BitmapInv, After, Goto, requestVars
<1>5. IterInv'
  BY DEF IterInv, Answering, After, Goto, requestVars, combineVars
<1>6. TargetInv'
  BY DEF TargetInv, Answering, After, Goto, requestVars, combineVars
<1>7. PostedInv'
  BY DEF PostedInv, IterInv, After, Goto, requestVars, combineVars
<1>8. FrameInv'
  BY DEF FrameInv, InCall, After, Goto, requestVars, combineVars
<1>9. ExecInv'
  BY DEF ExecInv, After, Goto, requestVars, combineVars, taskVars
<1>10. OnePlace'
  BY DEF OnePlace, InCall, After, Goto, requestVars, taskVars
<1> QED
  BY <1>1, <1>2, <1>3, <1>4, <1>5, <1>6, <1>7, <1>8, <1>9, <1>10

LEMMA ReturnStep ==
    ASSUME IndInv, NEW p \in Proc, Return(p)
    PROVE  IndInv'
<1> USE ConstantsAssumption DEF IndInv, RequestInv
<1>1. TypeOK'
  BY DEF TypeOK, Location, Return, Goto, combineVars
<1>2. LockInv'
  BY DEF LockInv, Combining, TypeOK, Location, Return, Goto, combineVars
<1>3. FilledInv'
  BY DEF FilledInv, TargetInv, Answering, Return, Goto, combineVars
<1>4. BitmapInv'
  BY DEF BitmapInv, Return, Goto
<1>5. IterInv'
  BY DEF IterInv, Answering, Return, Goto, combineVars
<1>6. TargetInv'
  BY DEF TargetInv, Answering, Return, Goto, combineVars
<1>7. PostedInv'
  BY DEF PostedInv, IterInv, TypeOK, Return, Goto, combineVars
<1>8. FrameInv'
  BY DEF FrameInv, InCall, TypeOK, Return, Goto, combineVars
<1>9. ExecInv'
  BY DEF ExecInv, TypeOK, Return, Goto, combineVars
<1>10. OnePlace'
  BY DEF OnePlace, InCall, TypeOK, Return, Goto
<1> QED
  BY <1>1, <1>2, <1>3, <1>4, <1>5, <1>6, <1>7, <1>8, <1>9, <1>10

-------------------------------------------------------------------------------
LEMMA InitStep ==
    ASSUME Init
    PROVE  IndInv
<1>1. PICK root \in Task, main \in Proc :
          ready = [p \in Proc |-> IF p = main THEN {root} ELSE {}]
  BY DEF Init
<1>2. TypeOK
  BY <1>1, ConstantsAssumption DEF Init, TypeOK, Location
<1>3. RequestInv
  BY DEF Init, RequestInv, LockInv, FilledInv, BitmapInv, IterInv, TargetInv,
         PostedInv,
         Combining
<1>4. FrameInv /\ ExecInv
  BY DEF Init, FrameInv, ExecInv, InCall
<1>5. OnePlace
  BY <1>1 DEF Init, OnePlace, InCall
<1> QED BY <1>2, <1>3, <1>4, <1>5 DEF IndInv

LEMMA TerminateStep ==
    ASSUME IndInv, Terminate
    PROVE  IndInv'
<1> QED
  BY DEF Terminate, requestVars, combineVars, taskVars, IndInv, RequestInv,
         TypeOK, LockInv,
         FilledInv, BitmapInv, IterInv, TargetInv, PostedInv, FrameInv, ExecInv, OnePlace,
         Combining, Answering, InCall

LEMMA StutterStep ==
    ASSUME IndInv, UNCHANGED vars
    PROVE  IndInv'
<1> QED
  BY DEF vars, requestVars, combineVars, taskVars, IndInv, RequestInv, TypeOK,
         LockInv,
         FilledInv, BitmapInv, IterInv, TargetInv, PostedInv, FrameInv, ExecInv, OnePlace,
         Combining, Answering, InCall

LEMMA NextStep ==
    ASSUME IndInv, [Next]_vars
    PROVE  IndInv'
<1>1. CASE Terminate
  BY <1>1, TerminateStep
<1>2. ASSUME NEW p \in Proc, NEW t \in Task, Create(p, t) \/ Execute(p, t)
      PROVE  IndInv'
  BY <1>2, CreateStep, ExecuteStep
<1>3. ASSUME NEW p \in Proc, Finish(p) \/ Idle(p)
      PROVE  IndInv'
  BY <1>3, FinishStep, IdleStep
<1>4. ASSUME NEW p \in Proc, EmitStep(p)
      PROVE  IndInv'
  <2>1. ASSUME NEW v \in Victim, FillRequest(p, v)
        PROVE  IndInv'
    BY <2>1, FillRequestStep
  <2>2. CASE SetBit(p) \/ TryLock(p) \/ TestStatus(p) \/ TakeRequests(p)
    BY <2>2, SetBitStep, TryLockStep, TestStatusStep, TakeRequestsStep
  <2>3. CASE EndOfSteal(p) \/ EndOfFail(p)
    BY <2>3, EndOfStealStep, EndOfFailStep
  <2>4. ASSUME NEW r \in Proc, FailRequest(p, r)
        PROVE  IndInv'
    BY <2>4, FailRequestStep
  <2>5. ASSUME NEW r \in Proc, NEW t \in Task, StealTask(p, r, t)
        PROVE  IndInv'
    BY <2>5, StealTaskStep
  <2>6. CASE WriteStatus(p) \/ Unlock(p) \/ After(p) \/ Return(p)
    BY <2>6, WriteStatusStep, UnlockStep, AfterStep, ReturnStep
  <2> QED
    BY <1>4, <2>1, <2>2, <2>3, <2>4, <2>5, <2>6 DEF EmitStep
<1>5. CASE UNCHANGED vars
  BY <1>5, StutterStep
<1> QED
  BY <1>1, <1>2, <1>3, <1>4, <1>5 DEF Next, Step

\* The invariant holds in every state of every run.
THEOREM Invariance == Spec => []IndInv
<1>1. Init => IndInv
  BY InitStep
<1>2. IndInv /\ [Next]_vars => IndInv'
  BY NextStep
<1> QED
  BY <1>1, <1>2, PTL DEF Spec

-------------------------------------------------------------------------------
\* Shapes: the combiner never answers a request that does not exist.
THEOREM TypeCorrect == Spec => []TypeOK
<1>1. IndInv => TypeOK
  BY DEF IndInv
<1> QED
  BY <1>1, Invariance, PTL

\* kaapi_request_replytask writes the status of a call that still waits for it.
THEOREM RepliesFindRequests == Spec => []ReplyFindsRequest
<1>1. IndInv => ReplyFindsRequest
  <2> SUFFICES ASSUME IndInv, NEW p \in Proc, NEW r \in iter[p]
               PROVE  /\ status[r] = "posted"
                      /\ pc[p] # "write" \/ target[p] # r => pointer[r]
                      /\ pc[r] \in {"lock", "test", "swap", "steal", "fail", "write"}
    BY DEF ReplyFindsRequest
  <2>1. r \in Proc
    BY DEF IndInv, TypeOK
  <2> QED
    BY <2>1 DEF IndInv, RequestInv, IterInv, Answering
<1> QED
  BY <1>1, Invariance, PTL

\* The loop that withdraws a request at termination is never entered.
THEOREM CombinerIsAnswered == Spec => []OwnRequestIsAnswered
<1>1. IndInv => OwnRequestIsAnswered
  <2> SUFFICES ASSUME IndInv, NEW p \in Proc, pc[p] = "after", status[p] = "posted"
               PROVE  FALSE
    BY DEF OwnRequestIsAnswered
  <2>1. victim[p] \in Proc
    BY DEF IndInv, TypeOK
  <2>2. p \notin bitmap[victim[p]]
    BY <2>1 DEF IndInv, RequestInv, BitmapInv
  <2>3. \A q \in Proc : p \notin iter[q]
    BY DEF IndInv, RequestInv, IterInv, Answering
  <2> QED
    BY <2>2, <2>3 DEF IndInv, RequestInv, PostedInv
<1> QED
  BY <1>1, Invariance, PTL

\* Replies neither double a task nor give it to two processors.
THEOREM TasksHaveOnePlace == Spec => []EachTaskOnePlace
<1>1. IndInv => EachTaskOnePlace
  BY DEF IndInv, OnePlace, EachTaskOnePlace, Waiting, Executing, InFlight
<1> QED
  BY <1>1, Invariance, PTL

-------------------------------------------------------------------------------
(* StealRequest implements TaskPlace.                                      *)

\* p has been given t: it executes it, or is about to.
Given(p, t) == exec[p] = t \/ (InCall(p) /\ frame[p] = t)

PlaceFacts(p, t) ==
    /\ t \in ready[p] => Place(t) = <<"ready", p>>
    /\ Given(p, t) <=> Place(t) = <<"given", p>>

\* A task that is nowhere is new.
EndFacts(t) ==
    /\ t \in done => Place(t) = <<"done">>
    /\ t \notin done /\ (\A p \in Proc : t \notin ready[p] /\ ~Given(p, t))
          => Place(t) = <<"new">>

LEMMA PlaceOfTask ==
    TypeOK /\ OnePlace => \A t \in Task : EndFacts(t) /\ \A p \in Proc : PlaceFacts(p, t)
<1> SUFFICES ASSUME TypeOK, OnePlace, NEW t \in Task
             PROVE  EndFacts(t) /\ \A p \in Proc : PlaceFacts(p, t)
  OBVIOUS
<1>1. t # None
  BY ConstantsAssumption
<1>2. \A p, q \in Proc : t \in ready[p] /\ t \in ready[q] => p = q
  BY DEF OnePlace
<1>3. \A p, q \in Proc : Given(p, t) /\ Given(q, t) => p = q
  BY <1>1 DEF OnePlace, Given
<1>4. \A p, q \in Proc : Given(p, t) => t \notin done /\ t \notin ready[q]
  BY <1>1 DEF OnePlace, Given
<1>5. t \in Waiting <=> \E p \in Proc : t \in ready[p]
  BY DEF Waiting
<1>6. \A p \in Proc : t \in ready[p] => t \notin done
  BY DEF OnePlace
<1>7. CASE t \in done
  <2>1. Place(t) = <<"done">>
    BY <1>7 DEF Place
  <2> QED
    BY <1>4, <1>6, <1>7, <2>1 DEF EndFacts, PlaceFacts
<1>8. ASSUME NEW p \in Proc, t \in ready[p]
      PROVE  EndFacts(t) /\ \A q \in Proc : PlaceFacts(q, t)
  <2>1. (CHOOSE q \in Proc : t \in ready[q]) = p
    BY <1>2, <1>8
  <2>2. Place(t) = <<"ready", p>>
    BY <1>5, <1>6, <1>8, <2>1 DEF Place
  <2> QED
    BY <1>2, <1>4, <1>6, <1>8, <2>2 DEF EndFacts, PlaceFacts
<1>9. ASSUME NEW p \in Proc, Given(p, t)
      PROVE  EndFacts(t) /\ \A q \in Proc : PlaceFacts(q, t)
  <2>1. (CHOOSE q \in Proc : exec[q] = t \/ (InCall(q) /\ frame[q] = t)) = p
    BY <1>3, <1>9 DEF Given
  <2>2. Place(t) = <<"given", p>>
    BY <1>4, <1>5, <1>9, <2>1 DEF Place, Given
  <2> QED
    BY <1>3, <1>4, <1>9, <2>2 DEF EndFacts, PlaceFacts
<1>10. CASE t \notin done /\ \A p \in Proc : t \notin ready[p] /\ ~Given(p, t)
  <2>1. Place(t) = <<"new">>
    BY <1>5, <1>10 DEF Place, Given
  <2> QED
    BY <1>10, <2>1 DEF EndFacts, PlaceFacts
<1> QED
  BY <1>7, <1>8, <1>9, <1>10

\* The same before and after a step that preserves the invariant.
PlaceInv == \A t \in Task : EndFacts(t) /\ \A p \in Proc : PlaceFacts(p, t)

LEMMA PlaceOfTaskPrime == IndInv' => PlaceInv'
<1>1. IndInv => PlaceInv
  BY PlaceOfTask DEF IndInv, PlaceInv
<1> QED
  BY <1>1, PTL

\* A task of which nothing changes stays where it is.
LEMMA SamePlace ==
    ASSUME PlaceInv, PlaceInv', NEW t \in Task,
           t \in done' <=> t \in done,
           \A p \in Proc : t \in ready'[p] <=> t \in ready[p],
           \A p \in Proc : Given(p, t)' <=> Given(p, t)
    PROVE  Place(t)' = Place(t)
<1>1. CASE t \in done
  BY <1>1 DEF PlaceInv, EndFacts
<1>2. ASSUME NEW p \in Proc, t \in ready[p]
      PROVE  Place(t)' = Place(t)
  BY <1>2 DEF PlaceInv, PlaceFacts
<1>3. ASSUME NEW p \in Proc, Given(p, t)
      PROVE  Place(t)' = Place(t)
  BY <1>3 DEF PlaceInv, PlaceFacts
<1>4. CASE t \notin done /\ \A p \in Proc : t \notin ready[p] /\ ~Given(p, t)
  BY <1>4 DEF PlaceInv, EndFacts
<1> QED
  BY <1>1, <1>2, <1>3, <1>4

LEMMA InitPlace ==
    ASSUME Init
    PROVE  Places!Init
<1>1. PICK root \in Task, main \in Proc :
          ready = [p \in Proc |-> IF p = main THEN {root} ELSE {}]
  BY DEF Init
<1>2. PlaceInv
  BY InitStep, PlaceOfTask DEF IndInv, PlaceInv
<1>3. Place(root) = <<"ready", main>>
  BY <1>1, <1>2 DEF PlaceInv, PlaceFacts
<1>4. \A t \in Task : t # root => Place(t) = <<"new">>
  BY <1>1, <1>2, ConstantsAssumption DEF Init, PlaceInv, EndFacts, Given, InCall
<1>5. [t \in Task |-> Place(t)] =
          [t \in Task |-> IF t = root THEN <<"ready", main>> ELSE <<"new">>]
  BY <1>3, <1>4
<1> QED
  BY <1>5 DEF Places!Init

LEMMA CreatePlace ==
    ASSUME PlaceInv, PlaceInv', TypeOK, TypeOK', NEW p \in Proc, NEW t \in Task, Create(p, t)
    PROVE  Places!Create(p, t)
<1>1. exec[p] \in Task /\ Place(exec[p]) = <<"given", p>>
  BY DEF TypeOK, Create, PlaceInv, PlaceFacts, Given
<1>2. Place(t) = <<"new">>
  <2>1. t # None
    BY ConstantsAssumption
  <2> QED
    BY <2>1 DEF Create, Waiting, Executing, InFlight, Given, PlaceInv, EndFacts
<1>3. Place(t)' = <<"ready", p>>
  BY DEF TypeOK, Create, PlaceInv, PlaceFacts
<1>4. ASSUME NEW u \in Task, u # t
      PROVE  Place(u)' = Place(u)
  <2>1. \A q \in Proc : Given(q, u)' <=> Given(q, u)
    BY DEF Create, Given, InCall, requestVars
  <2>2. \A q \in Proc : u \in ready'[q] <=> u \in ready[q]
    BY <1>4 DEF TypeOK, Create
  <2> QED
    BY <2>1, <2>2, SamePlace DEF Create
<1> QED
  BY <1>1, <1>2, <1>3, <1>4 DEF Places!Create, Places!Busy

LEMMA GivePlace ==
    ASSUME PlaceInv, PlaceInv', NEW p \in Proc, NEW q \in Proc, NEW t \in Task,
           \A u \in Task : ~Given(q, u),
           t \in ready[p], Given(q, t)', UNCHANGED done,
           \A u \in Task \ {t} : \A s \in Proc :
               (u \in ready'[s] <=> u \in ready[s]) /\ (Given(s, u)' <=> Given(s, u))
    PROVE  Places!Give(p, q, t)
<1>1. \A u \in Task : Place(u) # <<"given", q>>
  BY DEF PlaceInv, PlaceFacts
<1>2. Place(t) = <<"ready", p>>
  BY DEF PlaceInv, PlaceFacts
<1>3. Place(t)' = <<"given", q>>
  BY DEF PlaceInv, PlaceFacts
<1>4. \A u \in Task \ {t} : Place(u)' = Place(u)
  BY SamePlace
<1> QED
  BY <1>1, <1>2, <1>3, <1>4 DEF Places!Give, Places!Busy

LEMMA ExecutePlace ==
    ASSUME PlaceInv, PlaceInv', TypeOK, NEW p \in Proc, NEW t \in Task, Execute(p, t)
    PROVE  Places!Give(p, p, t)
<1>1. \A u \in Task : ~Given(p, u)
  BY ConstantsAssumption DEF Execute, Given, InCall
<1>2. Given(p, t)'
  BY DEF TypeOK, Execute, Given
<1>3. ASSUME NEW u \in Task \ {t}, NEW s \in Proc
      PROVE  (u \in ready'[s] <=> u \in ready[s]) /\ (Given(s, u)' <=> Given(s, u))
  BY <1>1 DEF TypeOK, Execute, Given, InCall, requestVars
<1> QED
  BY <1>1, <1>2, <1>3, GivePlace DEF Execute

LEMMA FinishPlace ==
    ASSUME PlaceInv, PlaceInv', TypeOK, NEW p \in Proc, Finish(p)
    PROVE  \E t \in Task : Places!Finish(p, t)
<1>1. PICK t \in Task : exec[p] = t /\ t # None
  BY DEF TypeOK, Finish
<1>2. Place(t) = <<"given", p>>
  BY <1>1 DEF PlaceInv, PlaceFacts, Given
<1>3. Place(t)' = <<"done">>
  BY <1>1 DEF Finish, PlaceInv, EndFacts
<1>4. ASSUME NEW u \in Task, u # t
      PROVE  Place(u)' = Place(u)
  <2>1. \A q \in Proc : Given(q, u)' <=> Given(q, u)
    BY <1>1, <1>4, ConstantsAssumption DEF TypeOK, Finish, Given, InCall,
           requestVars
  <2> QED
    BY <1>1, <1>4, <2>1, SamePlace DEF Finish
<1> QED
  BY <1>2, <1>3, <1>4 DEF Places!Finish

LEMMA StealTaskPlace ==
    ASSUME IndInv, PlaceInv, PlaceInv', NEW p \in Proc, NEW r \in Proc, NEW t \in Task,
           StealTask(p, r, t)
    PROVE  Places!Give(victim[p], r, t)
<1> USE DEF IndInv
<1>1. InCall(r) /\ pc[r] # "idle" /\ status[r] = "posted"
  BY DEF RequestInv, IterInv, StealTask, Goto, BeginReply, InCall, Answering
<1>2. exec[r] = None
  BY <1>1 DEF ExecInv
<1>3. frame[r] = None
  <2>1. \A q \in Proc : r \in iter[q] => q = p
    BY DEF RequestInv, IterInv, LockInv, Combining, Answering, StealTask, Goto,
           BeginReply
  <2>2. ~\E q \in Proc : pc[q] = "write" /\ target[q] = r
    BY <2>1 DEF RequestInv, TargetInv, StealTask, Goto
  <2> QED
    BY <1>1, <2>2 DEF FrameInv
<1>4. \A u \in Task : ~Given(r, u)
  BY <1>2, <1>3, ConstantsAssumption DEF Given
<1>5. \A q \in Proc : InCall(q)' = InCall(q)
  BY DEF TypeOK, StealTask, Goto, InCall
<1>6. Given(r, t)'
  BY <1>1, <1>5 DEF TypeOK, StealTask, Given
<1>7. ASSUME NEW u \in Task \ {t}, NEW s \in Proc
      PROVE  (u \in ready'[s] <=> u \in ready[s]) /\ (Given(s, u)' <=> Given(s, u))
  <2>1. u \in ready'[s] <=> u \in ready[s]
    BY DEF TypeOK, StealTask
  <2>2. exec' = exec /\ (s # r => frame'[s] = frame[s]) /\ frame'[r] = t
    BY DEF TypeOK, StealTask
  <2> QED
    BY <1>2, <1>4, <1>5, <2>1, <2>2, ConstantsAssumption DEF Given
<1>8. victim[p] \in Proc /\ t \in ready[victim[p]] /\ UNCHANGED done
  BY DEF TypeOK, StealTask
<1> QED
  BY <1>4, <1>6, <1>7, <1>8, GivePlace

LEMMA ReturnPlace ==
    ASSUME IndInv, PlaceInv, PlaceInv', NEW p \in Proc, Return(p), NEW t \in Task
    PROVE  Place(t)' = Place(t)
<1> USE DEF IndInv
<1>1. status[p] # "ok" => frame[p] = None
  <2>1. ~\E q \in Proc : pc[q] = "write" /\ target[q] = p
    BY DEF RequestInv, IterInv, TargetInv, Return, Goto
  <2> QED
    BY <2>1 DEF FrameInv, InCall, Return, Goto
<1>2. exec[p] = None /\ InCall(p) /\ ~InCall(p)'
  BY DEF ExecInv, InCall, TypeOK, Return, Goto
<1>3. \A q \in Proc : q # p => InCall(q)' = InCall(q) /\ exec'[q] = exec[q]
  BY DEF InCall, TypeOK, Return, Goto
<1>4. exec'[p] = frame[p] /\ UNCHANGED <<frame, ready, done>>
  BY <1>1 DEF TypeOK, Return
<1>5. \A q \in Proc : Given(q, t)' <=> Given(q, t)
  BY <1>2, <1>3, <1>4, ConstantsAssumption DEF Given
<1> QED
  BY <1>4, <1>5, SamePlace

\* The other steps move no task.
LEMMA FillRequestPlace ==
    ASSUME TypeOK, PlaceInv, PlaceInv', NEW p \in Proc, NEW v \in Victim, FillRequest(p, v),
           NEW t \in Task
    PROVE  Place(t)' = Place(t)
<1>1. frame'[p] = None /\ ~InCall(p)
  BY DEF TypeOK, FillRequest, Goto, InCall
<1>2. \A q \in Proc : q # p => InCall(q)' = InCall(q) /\ frame'[q] = frame[q]
  BY DEF TypeOK, FillRequest, Goto, InCall
<1>3. UNCHANGED <<exec, ready, done>>
  BY DEF FillRequest, taskVars
<1>4. \A q \in Proc : Given(q, t)' <=> Given(q, t)
  BY <1>1, <1>2, <1>3, ConstantsAssumption DEF Given
<1> QED
  BY <1>3, <1>4, SamePlace

\* What leaves tasks and replies alone moves none either.
Still ==
    /\ UNCHANGED <<frame, taskVars>>
    /\ \A p \in Proc : InCall(p)' = InCall(p)

LEMMA StillPlace ==
    ASSUME PlaceInv, PlaceInv', Still, NEW t \in Task
    PROVE  Place(t)' = Place(t)
<1>1. \A q \in Proc : Given(q, t)' <=> Given(q, t)
  BY DEF Still, Given, taskVars
<1> QED
  BY <1>1, SamePlace DEF Still, taskVars

LEMMA StillStep ==
    ASSUME TypeOK, NEW p \in Proc,
           \/ Idle(p)
           \/ SetBit(p) \/ TryLock(p) \/ TestStatus(p) \/ TakeRequests(p)
           \/ EndOfSteal(p) \/ EndOfFail(p)
           \/ (\E r \in Proc : FailRequest(p, r))
           \/ WriteStatus(p) \/ Unlock(p) \/ After(p)
    PROVE  Still
<1> USE DEF TypeOK, Still, InCall, requestVars, combineVars, taskVars
<1>1. CASE Idle(p)
  BY <1>1 DEF Idle, Goto
<1>2. CASE SetBit(p) \/ TakeRequests(p) \/ EndOfSteal(p) \/ EndOfFail(p)
  BY <1>2 DEF SetBit, TakeRequests, EndOfSteal, EndOfFail, Goto
<1>3. CASE TryLock(p)
  BY <1>3 DEF TryLock, Goto
<1>4. CASE TestStatus(p)
  BY <1>4 DEF TestStatus, Goto
<1>5. CASE \E r \in Proc : FailRequest(p, r)
  BY <1>5 DEF FailRequest, Goto
<1>6. CASE WriteStatus(p)
  BY <1>6 DEF WriteStatus, Goto
<1>7. CASE Unlock(p) \/ After(p)
  BY <1>7 DEF Unlock, After, Goto
<1> QED
  BY <1>1, <1>2, <1>3, <1>4, <1>5, <1>6, <1>7

LEMMA NextPlace ==
    ASSUME IndInv, IndInv', [Next]_vars
    PROVE  [Places!Next]_[t \in Task |-> Place(t)]
<1> DEFINE Same == \A t \in Task : Place(t)' = Place(t)
<1>1. PlaceInv /\ PlaceInv'
  BY PlaceOfTask, PlaceOfTaskPrime DEF IndInv, PlaceInv
<1>2. TypeOK /\ TypeOK'
  BY DEF IndInv
<1>3. Same => UNCHANGED [t \in Task |-> Place(t)]
  OBVIOUS
<1>4. CASE Terminate \/ UNCHANGED vars
  <2>1. Still
    BY <1>4 DEF Still, Terminate, vars, requestVars, combineVars, taskVars, InCall
  <2> QED
    BY <1>1, <1>3, <2>1, StillPlace
<1>5. ASSUME NEW p \in Proc, NEW t \in Task, Create(p, t) \/ Execute(p, t)
      PROVE  Places!Next
  BY <1>1, <1>2, <1>5, CreatePlace, ExecutePlace DEF Places!Next
<1>6. ASSUME NEW p \in Proc, Finish(p)
      PROVE  Places!Next
  BY <1>1, <1>2, <1>6, FinishPlace DEF Places!Next
<1>7. ASSUME NEW p \in Proc, NEW r \in Proc, NEW t \in Task, StealTask(p, r, t)
      PROVE  Places!Next
  <2>1. victim[p] \in Proc
    BY <1>2 DEF TypeOK
  <2> QED
    BY <1>1, <1>7, <2>1, StealTaskPlace DEF Places!Next
<1>8. ASSUME NEW p \in Proc, Return(p) \/ \E v \in Victim : FillRequest(p, v)
      PROVE  Same
  BY <1>1, <1>2, <1>8, ReturnPlace, FillRequestPlace
<1>9. ASSUME NEW p \in Proc,
             \/ Idle(p)
             \/ SetBit(p) \/ TryLock(p) \/ TestStatus(p) \/ TakeRequests(p)
             \/ EndOfSteal(p) \/ EndOfFail(p)
             \/ (\E r \in Proc : FailRequest(p, r))
             \/ WriteStatus(p) \/ Unlock(p) \/ After(p)
      PROVE  Same
  BY <1>1, <1>2, <1>9, StillStep, StillPlace
<1> QED
  BY <1>3, <1>4, <1>5, <1>6, <1>7, <1>8, <1>9 DEF Next, Step, EmitStep

\* Requests, combiners and replies implement the abstract moves of tasks.
THEOREM TaskPlaceIsImplemented == Spec => ImplementsTaskPlace
<1>1. Init => Places!Init
  BY InitPlace
<1>2. IndInv /\ IndInv' /\ [Next]_vars => [Places!Next]_[t \in Task |-> Place(t)]
  BY NextPlace
<1> QED
  BY <1>1, <1>2, Invariance, PTL DEF Spec, ImplementsTaskPlace, Places!Spec
===============================================================================
