------------------------------ MODULE StealRequest ------------------------------
(***************************************************************************)
(* Steal requests (machine/mt/kaapi_mt_sched_emitsteal.c, with request     *)
(* aggregation): a processor with nothing to do posts a request in the     *)
(* bitmap of a victim, then tries to lock the victim.  Who gets the lock   *)
(* takes all the requests posted so far, answers some of them with tasks   *)
(* of the victim and the others negatively; who does not get it watches    *)
(* the status of its request.                                              *)
(*                                                                         *)
(* How a task is found and claimed in the stacks of the victim             *)
(* (kaapi_sched_stealprocessor) is one step here: TaskSteal, FrameStack    *)
(* and Dataflow model it.  A processor executes one task at a time; tasks  *)
(* it created, those of its suspended contexts included, wait in its       *)
(* stacks, where everybody finds them.  The stores of a reply and of a     *)
(* request reach memory in program order (x86), a bit of the bitmap is set *)
(* by a locked instruction.                                                *)
(***************************************************************************)
EXTENDS FiniteSets, Naturals

CONSTANTS Proc,   \* the kprocessors
          Victim, \* those that fnc_select may choose
          Task,   \* bound: the tasks a program may create
          None    \* the null pointer

ASSUME ConstantsAssumption ==
    /\ Victim \subseteq Proc
    /\ None \notin Proc
    /\ None \notin Task

VARIABLES
    pc,      \* where each processor is in kaapi_sched_idle and emitsteal
    victim,  \* victim.kproc of its request
    status,  \* the status word on the stack of emitsteal
    pointer, \* whether request->status points to that word
    frame,   \* the task pushed in request->frame
    bitmap,  \* the requests posted to each processor
    lock,    \* who holds the lock of each processor
    iter,    \* the requests a combiner has taken and not answered yet
    target,  \* the request it is answering
    answer,  \* with what
    ready,   \* the tasks in the stacks of each processor
    exec,    \* the task it executes
    done,    \* the tasks that are over
    isterm   \* kaapi_isterm

requestVars == <<status, pointer, frame, bitmap>>
combineVars == <<lock, iter, target, answer>>
taskVars == <<ready, exec, done>>
vars == <<pc, victim, requestVars, combineVars, taskVars, isterm>>

Location == {"idle", "post", "bit", "lock", "test", "swap", "steal", "fail",
             "write", "unlock", "after", "return", "out"}

\* The tasks that exist and are not over.
Waiting == UNION {ready[p] : p \in Proc}
Executing == {exec[p] : p \in Proc} \ {None}

\* A request from its first to its last step.
InCall(p) == pc[p] \notin {"idle", "post", "out"}

\* Tasks in the hands of a reply.
InFlight == {frame[p] : p \in {q \in Proc : InCall(q)}} \ {None}

Init ==
    /\ pc = [p \in Proc |-> "idle"]
    /\ victim = [p \in Proc |-> p]
    /\ status = [p \in Proc |-> "init"]
    /\ pointer = [p \in Proc |-> FALSE]
    /\ frame = [p \in Proc |-> None]
    /\ bitmap = [p \in Proc |-> {}]
    /\ lock = [p \in Proc |-> None]
    /\ iter = [p \in Proc |-> {}]
    /\ target = [p \in Proc |-> p]
    /\ answer = [p \in Proc |-> "nok"]
    /\ \E root \in Task, main \in Proc :
           ready = [p \in Proc |-> IF p = main THEN {root} ELSE {}]
    /\ exec = [p \in Proc |-> None]
    /\ done = {}
    /\ isterm = FALSE

Goto(p, from, to) == pc[p] = from /\ pc' = [pc EXCEPT ![p] = to]

-------------------------------------------------------------------------------
(* Executing tasks: what happens outside emitsteal.                        *)

Create(p, t) ==
    /\ pc[p] = "idle" /\ exec[p] # None
    /\ t \notin Waiting \cup Executing \cup InFlight \cup done
    /\ ready' = [ready EXCEPT ![p] = @ \cup {t}]
    /\ UNCHANGED <<pc, victim, requestVars, combineVars, exec, done, isterm>>

Execute(p, t) ==
    /\ pc[p] = "idle" /\ exec[p] = None
    /\ t \in ready[p]
    /\ ready' = [ready EXCEPT ![p] = @ \ {t}]
    /\ exec' = [exec EXCEPT ![p] = t]
    /\ UNCHANGED <<pc, victim, requestVars, combineVars, done, isterm>>

Finish(p) ==
    /\ pc[p] = "idle" /\ exec[p] # None
    /\ done' = done \cup {exec[p]}
    /\ exec' = [exec EXCEPT ![p] = None]
    /\ UNCHANGED <<pc, victim, requestVars, combineVars, ready, isterm>>

\* kaapi_finalize, once the program has waited for its tasks.
Terminate ==
    /\ ~isterm
    /\ Waiting \cup Executing \cup InFlight = {}
    /\ isterm' = TRUE
    /\ UNCHANGED <<pc, victim, requestVars, combineVars, taskVars>>

\* The loop of kaapi_sched_idle: termination is tested before each request.
Idle(p) ==
    /\ exec[p] = None
    /\ \/ ~isterm /\ Goto(p, "idle", "post")
       \/ isterm /\ Goto(p, "idle", "out")
    /\ UNCHANGED <<victim, requestVars, combineVars, taskVars, isterm>>

-------------------------------------------------------------------------------
(* Posting a request.                                                      *)

\* kaapi_request_post: the request is filled ...  The random choice of the victim
\* does not exclude the processor itself.
FillRequest(p, v) ==
    /\ Goto(p, "post", "bit")
    /\ victim' = [victim EXCEPT ![p] = v]
    /\ frame' = [frame EXCEPT ![p] = None]
    /\ status' = [status EXCEPT ![p] = "posted"]
    /\ pointer' = [pointer EXCEPT ![p] = TRUE]
    /\ UNCHANGED <<bitmap, combineVars, taskVars, isterm>>

\* ... and then shown.
SetBit(p) ==
    /\ Goto(p, "bit", "lock")
    /\ bitmap' = [bitmap EXCEPT ![victim[p]] = @ \cup {p}]
    /\ UNCHANGED <<victim, status, pointer, frame, combineVars, taskVars, isterm>>

TryLock(p) ==
    /\ \/ /\ lock[victim[p]] = None
          /\ Goto(p, "lock", "swap")
          /\ lock' = [lock EXCEPT ![victim[p]] = p]
       \/ /\ lock[victim[p]] # None
          /\ Goto(p, "lock", "test")
          /\ UNCHANGED lock
    /\ UNCHANGED <<victim, requestVars, iter, target, answer, taskVars, isterm>>

\* Broken on purpose: only the lock is waited for.
TestStatus_No(p) ==
    /\ Goto(p, "test", "lock")
    /\ UNCHANGED <<victim, requestVars, combineVars, taskVars, isterm>>

TestStatus(p) ==
    /\ \/ status[p] # "posted" /\ Goto(p, "test", "return")
       \/ status[p] = "posted" /\ Goto(p, "test", "lock")
    /\ UNCHANGED <<victim, requestVars, combineVars, taskVars, isterm>>

-------------------------------------------------------------------------------
(* Combining: the holder of the lock answers the requests of all.          *)

\* Broken on purpose: the bitmap is read and not reset.
TakeRequests_NoReset(p) ==
    /\ Goto(p, "swap", "steal")
    /\ iter' = [iter EXCEPT ![p] = bitmap[victim[p]]]
    /\ UNCHANGED <<victim, requestVars, lock, target, answer, taskVars, isterm>>

\* kaapi_listrequest_iterator_init: the bitmap is exchanged with 0.
TakeRequests(p) ==
    /\ Goto(p, "swap", "steal")
    /\ iter' = [iter EXCEPT ![p] = bitmap[victim[p]]]
    /\ bitmap' = [bitmap EXCEPT ![victim[p]] = {}]
    /\ UNCHANGED <<victim, status, pointer, frame, lock, target, answer, taskVars,
                   isterm>>

\* kaapi_request_replytask: request->status is reset while the requester still
\* waits, which it does until its status is written.
BeginReply(p, r, a) ==
    /\ r \in iter[p]
    /\ target' = [target EXCEPT ![p] = r]
    /\ answer' = [answer EXCEPT ![p] = a]
    /\ pointer' = [pointer EXCEPT ![r] = FALSE]

\* Broken on purpose: the task stays where it is found.
StealTask_NoMark(p, r, t) ==
    /\ Goto(p, "steal", "write")
    /\ t \in ready[victim[p]]
    /\ frame' = [frame EXCEPT ![r] = t]
    /\ BeginReply(p, r, "ok")
    /\ UNCHANGED <<victim, status, bitmap, lock, iter, taskVars, isterm>>

\* kaapi_sched_stealprocessor: a task of the victim for one of the requests.
StealTask(p, r, t) ==
    /\ Goto(p, "steal", "write")
    /\ t \in ready[victim[p]]
    /\ ready' = [ready EXCEPT ![victim[p]] = @ \ {t}]
    /\ frame' = [frame EXCEPT ![r] = t]
    /\ BeginReply(p, r, "ok")
    /\ UNCHANGED <<victim, status, bitmap, lock, iter, exec, done, isterm>>

\* Broken on purpose: the requests left without a task are forgotten.
EndOfSteal_Forgets(p) ==
    /\ Goto(p, "steal", "unlock")
    /\ UNCHANGED <<victim, requestVars, combineVars, taskVars, isterm>>

\* No task, no request, or none that fits.
EndOfSteal(p) ==
    /\ Goto(p, "steal", "fail")
    /\ UNCHANGED <<victim, requestVars, combineVars, taskVars, isterm>>

\* Reply failed for all others requests.
FailRequest(p, r) ==
    /\ Goto(p, "fail", "write")
    /\ BeginReply(p, r, "nok")
    /\ UNCHANGED <<victim, status, frame, bitmap, lock, iter, taskVars, isterm>>

EndOfFail(p) ==
    /\ Goto(p, "fail", "unlock")
    /\ iter[p] = {}
    /\ UNCHANGED <<victim, requestVars, combineVars, taskVars, isterm>>

\* The answer is seen; kaapi_listrequest_iterator_next.
WriteStatus(p) ==
    /\ Goto(p, "write", IF answer[p] = "ok" THEN "steal" ELSE "fail")
    /\ status' = [status EXCEPT ![target[p]] = answer[p]]
    /\ iter' = [iter EXCEPT ![p] = @ \ {target[p]}]
    /\ target' = [target EXCEPT ![p] = p]
    /\ answer' = [answer EXCEPT ![p] = "nok"]
    /\ UNCHANGED <<victim, pointer, frame, bitmap, lock, taskVars, isterm>>

Unlock(p) ==
    /\ Goto(p, "unlock", "after")
    /\ lock' = [lock EXCEPT ![victim[p]] = None]
    /\ UNCHANGED <<victim, requestVars, iter, target, answer, taskVars, isterm>>

\* The loop that waits here for a reply, and cancels the request at the end of
\* the program, is never entered (OwnRequestIsAnswered).
After(p) ==
    /\ status[p] # "posted"
    /\ Goto(p, "after", "return")
    /\ UNCHANGED <<victim, requestVars, combineVars, taskVars, isterm>>

\* Broken on purpose: the tasks of the request frame are not installed.
Return_DropsFrame(p) ==
    /\ Goto(p, "return", "idle")
    /\ UNCHANGED <<victim, requestVars, combineVars, taskVars, isterm>>

\* The frame of the request becomes the frame of the processor; the locals of
\* emitsteal die.
Return(p) ==
    /\ Goto(p, "return", "idle")
    /\ exec' = [exec EXCEPT ![p] = IF status[p] = "ok" THEN frame[p] ELSE None]
    /\ victim' = [victim EXCEPT ![p] = p]
    /\ status' = [status EXCEPT ![p] = "init"]
    /\ UNCHANGED <<pointer, frame, bitmap, combineVars, ready, done, isterm>>

-------------------------------------------------------------------------------
EmitStep(p) ==
    \/ \E v \in Victim : FillRequest(p, v)
    \/ SetBit(p) \/ TryLock(p) \/ TestStatus(p) \/ TakeRequests(p)
    \/ EndOfSteal(p) \/ EndOfFail(p)
    \/ \E r \in Proc : FailRequest(p, r) \/ \E t \in Task : StealTask(p, r, t)
    \/ WriteStatus(p) \/ Unlock(p) \/ After(p) \/ Return(p)

Step(p) ==
    \/ \E t \in Task : Create(p, t) \/ Execute(p, t)
    \/ Finish(p) \/ Idle(p) \/ EmitStep(p)

Next == Terminate \/ \E p \in Proc : Step(p)

Spec == Init /\ [][Next]_vars

\* A processor that is inside emitsteal goes on.
FairSpec == Spec /\ \A p \in Proc : WF_vars(EmitStep(p))

-------------------------------------------------------------------------------
(* Properties.                                                             *)

\* Shapes of the variables.
TypeOK ==
    /\ pc \in [Proc -> Location]
    /\ victim \in [Proc -> Proc]
    /\ status \in [Proc -> {"init", "posted", "ok", "nok"}]
    /\ pointer \in [Proc -> BOOLEAN]
    /\ frame \in [Proc -> Task \cup {None}]
    /\ bitmap \in [Proc -> SUBSET Proc]
    /\ lock \in [Proc -> Proc \cup {None}]
    /\ iter \in [Proc -> SUBSET Proc]
    /\ target \in [Proc -> Proc]
    /\ answer \in [Proc -> {"ok", "nok"}]
    /\ ready \in [Proc -> SUBSET Task]
    /\ exec \in [Proc -> Task \cup {None}]
    /\ done \in SUBSET Task
    /\ isterm \in BOOLEAN

\* A combiner holds requests that wait for their first answer: it goes through a
\* pointer that is not null to the status of a call that has not returned
\* (kaapi_request_replytask writes on the stack of another processor).
ReplyFindsRequest ==
    \A p \in Proc : \A r \in iter[p] :
        /\ status[r] = "posted"
        /\ pc[p] # "write" \/ target[p] # r => pointer[r]
        /\ pc[r] \in {"lock", "test", "swap", "steal", "fail", "write"}

\* Who has combined finds its own request answered, by itself or by the combiner
\* before it: nobody waits without the lock, at termination or not (the last
\* loop of kaapi_sched_flat_emitsteal).
OwnRequestIsAnswered == \A p \in Proc : pc[p] = "after" => status[p] # "posted"

\* A task that was created is over, or in one place: no reply is lost and none
\* overwrites another one.
EachTaskOnePlace ==
    /\ \A p, q \in Proc :
          /\ p # q => ready[p] \cap ready[q] = {}
          /\ p # q /\ exec[p] = exec[q] => exec[p] = None
          /\ p # q /\ InCall(p) /\ InCall(q) /\ frame[p] = frame[q]
                => frame[p] = None
    /\ Waiting \cap (Executing \cup InFlight \cup done) = {}
    /\ Executing \cap (InFlight \cup done) = {}
    /\ InFlight \cap done = {}

Place(t) ==
    IF t \in done THEN <<"done">>
    ELSE IF t \in Waiting THEN <<"ready", CHOOSE p \in Proc : t \in ready[p]>>
    ELSE IF \E p \in Proc : exec[p] = t \/ (InCall(p) /\ frame[p] = t)
         THEN <<"given", CHOOSE p \in Proc :
                             exec[p] = t \/ (InCall(p) /\ frame[p] = t)>>
    ELSE <<"new">>

Places == INSTANCE TaskPlace WITH place <- [t \in Task |-> Place(t)]

\* Requests, combiners and replies move tasks from the processor that created
\* them to one that had none, one at a time, and nothing else.
ImplementsTaskPlace == Places!Spec

\* A request is answered although the lock may always be taken by others: who
\* takes it after the request was posted answers it.
RequestIsAnswered == \A p \in Proc : pc[p] = "lock" ~> pc[p] = "idle"
===============================================================================
