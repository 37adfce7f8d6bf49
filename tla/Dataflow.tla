------------------------------- MODULE Dataflow -------------------------------
(***************************************************************************)
(* What makes the tasks of a frame run in an order equivalent to the order *)
(* of their creation: kaapi_task_computeready, by which a thief that walks *)
(* the frame from frame->pc tells from the access modes it meets whether a *)
(* task may run now; the renaming of the parameters of a stolen task       *)
(* (kaapi_tasksteal_body, war_param and cw_param); and the merge of the    *)
(* renamed results when the owner reaches the task                         *)
(* (kaapi_aftersteal_body).                                                *)
(*                                                                         *)
(* A task is a function from data to access modes, "VOID" when it has no   *)
(* such parameter.  The content of a datum is the set of tasks whose       *)
(* writes are in it: W replaces it, RW and CW add to it.  Claims are       *)
(* atomic: TaskSteal shows that the state word makes them so.  Modes V, S  *)
(* (copied, never shared) and the in-place variant of CW are left out.     *)
(***************************************************************************)
EXTENDS Naturals, FiniteSets

CONSTANTS NTask,   \* tasks in the frame
          Datum,   \* the data of the program
          Program, \* the frames to execute
          NWorker  \* processors that may hold a stolen task

Task == 1..NTask
Mode == {"R", "W", "RW", "CW"}

ASSUME ConstantsAssumption ==
    /\ NTask \in Nat \ {0}
    /\ NWorker \in Nat
    /\ Program \subseteq [Task -> [Datum -> Mode \cup {"VOID"}]]

VARIABLES
    prog,      \* access modes of the tasks of the frame
    status,    \* what the state word of each task says
    pc, fpc,   \* the owner's pc and the one thieves read
    opc,       \* where the owner is
    tpc,       \* where the thief that holds stack.lock is
    cur,       \* task_top of its scan
    lastMode,  \* gd->last_mode of each datum in its map
    war,       \* data whose bit is set in war_param or cw_param of task cur
    renamed,   \* the same, kept in the thief task
    version,   \* content of the copies of a stolen task
    data       \* content of the data

scanVars == <<tpc, cur, lastMode, war>>
ownerVars == <<pc, fpc, opc>>
dataVars == <<renamed, version, data>>
vars == <<prog, status, ownerVars, scanVars, dataVars>>

Empty == [d \in Datum |-> {}]

Init ==
    /\ prog \in Program
    /\ status = [t \in Task |-> "init"]
    /\ pc = 1
    /\ fpc = 1
    /\ opc = "fetch"
    /\ tpc = "idle"
    /\ cur = 1
    /\ lastMode = [d \in Datum |-> "VOID"]
    /\ war = {}
    /\ renamed = [t \in Task |-> {}]
    /\ version = [t \in Task |-> Empty]
    /\ data = Empty

-------------------------------------------------------------------------------
(* Access modes (kaapi.h) and readiness.                                   *)

IsOnlyWrite(m) == m = "W"
IsCumulWrite(m) == m = "CW"
IsRead(m) == m \in {"R", "RW"}
IsConcurrent(a, b) == a = b /\ a \in {"R", "CW"}

Params(t) == {d \in Datum : prog[t][d] # "VOID"}

\* The parameters of t that do not wait.
ReadyParams(t) ==
    {d \in Params(t) : \/ IsOnlyWrite(prog[t][d])
                       \/ lastMode[d] = "VOID"
                       \/ IsConcurrent(prog[t][d], lastMode[d])}

\* The test that came before: only a read in the history asks for a copy.
WarParams_OnlyRead(t) ==
    {d \in Params(t) : IsOnlyWrite(prog[t][d]) /\ IsRead(lastMode[d])}

\* war_param: an access comes before this write in the history.
WarParams(t) ==
    {d \in Params(t) :
        \/ IsOnlyWrite(prog[t][d]) /\ lastMode[d] # "VOID"
        \/ IsCumulWrite(prog[t][d]) /\ IsConcurrent(prog[t][d], lastMode[d])}

CwParams(t) == {d \in ReadyParams(t) : IsCumulWrite(prog[t][d])}

\* The map keeps the first mode it meets for a datum.
Visit(t) ==
    lastMode' = [d \in Datum |-> IF lastMode[d] = "VOID" THEN prog[t][d]
                                                        ELSE lastMode[d]]

\* What the body of t makes of the content it finds in d.
Effect(t, d, content) ==
    CASE prog[t][d] \in {"VOID", "R"} -> content
      [] prog[t][d] = "W" -> {t}
      [] prog[t][d] \in {"RW", "CW"} -> content \cup {t}

-------------------------------------------------------------------------------
(* The thief that holds the lock of the stack.                             *)

BeginScan ==
    /\ tpc = "idle"
    /\ tpc' = "scan"
    /\ cur' = fpc
    /\ lastMode' = [d \in Datum |-> "VOID"]
    /\ war' = {}
    /\ UNCHANGED <<prog, status, ownerVars, dataVars>>

\* A request is still without a reply.
RequestPending ==
    Cardinality({t \in Task : status[t] \in {"stolen", "running"}}) < NWorker

\* Broken on purpose: the accesses of a task that is not stealable are skipped.
VisitTask_OnlyStealable ==
    /\ tpc = "scan"
    /\ cur \in Task
    /\ RequestPending
    /\ \/ /\ ReadyParams(cur) = Params(cur)
          /\ status[cur] = "init"
          /\ tpc' = "mark"
          /\ war' = WarParams(cur) \cup CwParams(cur)
          /\ Visit(cur)
          /\ UNCHANGED cur
       \/ /\ status[cur] = "init" => ReadyParams(cur) # Params(cur)
          /\ cur' = cur + 1
          /\ IF status[cur] = "init" THEN Visit(cur) ELSE UNCHANGED lastMode
          /\ UNCHANGED <<tpc, war>>
    /\ UNCHANGED <<prog, status, ownerVars, dataVars>>

\* computeready, then isstealable: EACCES and EPERM go to the next task.
VisitTask ==
    /\ tpc = "scan"
    /\ cur \in Task
    /\ RequestPending
    /\ Visit(cur)
    /\ \/ /\ ReadyParams(cur) = Params(cur)
          /\ status[cur] = "init"
          /\ tpc' = "mark"
          /\ war' = WarParams(cur) \cup CwParams(cur)
          /\ UNCHANGED cur
       \/ /\ status[cur] = "init" => ReadyParams(cur) # Params(cur)
          /\ cur' = cur + 1
          /\ UNCHANGED <<tpc, war>>
    /\ UNCHANGED <<prog, status, ownerVars, dataVars>>

\* marksteal: EBUSY when the owner has claimed the task since.
MarkSteal ==
    /\ tpc = "mark"
    /\ tpc' = "scan"
    /\ cur' = cur + 1
    /\ \/ /\ status[cur] = "init"
          /\ status' = [status EXCEPT ![cur] = "stolen"]
          /\ renamed' = [renamed EXCEPT ![cur] = war]
       \/ /\ status[cur] # "init"
          /\ UNCHANGED <<status, renamed>>
    /\ UNCHANGED <<prog, ownerVars, lastMode, war, version, data>>

EndScan ==
    /\ tpc = "scan"
    /\ cur \notin Task \/ ~RequestPending
    /\ tpc' = "idle"
    /\ UNCHANGED <<prog, status, ownerVars, cur, lastMode, war, dataVars>>

-------------------------------------------------------------------------------
(* A stolen task: kaapi_tasksteal_body, then kaapi_taskwrite_body.         *)

\* Copies are fresh, the neutral element for a reduction.
StartStolen(t) ==
    /\ status[t] = "stolen"
    /\ status' = [status EXCEPT ![t] = "running"]
    /\ version' = [version EXCEPT ![t] = Empty]
    /\ UNCHANGED <<prog, ownerVars, scanVars, renamed, data>>

FinishStolen(t) ==
    /\ status[t] = "running"
    /\ status' = [status EXCEPT ![t] = IF renamed[t] = {} THEN "term" ELSE "merge"]
    /\ version' = [version EXCEPT ![t] =
          [d \in Datum |-> IF d \in renamed[t] THEN Effect(t, d, @[d]) ELSE @[d]]]
    /\ data' = [d \in Datum |->
          IF d \in renamed[t] THEN data[d] ELSE Effect(t, d, data[d])]
    /\ UNCHANGED <<prog, ownerVars, scanVars, renamed>>

-------------------------------------------------------------------------------
(* The owner.                                                              *)

OwnerAt(from, to) == opc = from /\ opc' = to

StartHere ==
    /\ OwnerAt("fetch", "body")
    /\ pc \in Task
    /\ status[pc] = "init"
    /\ status' = [status EXCEPT ![pc] = "exec"]
    /\ UNCHANGED <<prog, pc, fpc, scanVars, dataVars>>

FinishHere ==
    /\ OwnerAt("body", "after")
    /\ data' = [d \in Datum |-> Effect(pc, d, data[d])]
    /\ UNCHANGED <<prog, status, pc, fpc, scanVars, renamed, version>>

PassTerm ==
    /\ OwnerAt("fetch", "after")
    /\ pc \in Task
    /\ status[pc] = "term"
    /\ UNCHANGED <<prog, status, pc, fpc, scanVars, dataVars>>

\* A copy is assigned for W, reduced into the data for CW.
AfterSteal ==
    /\ OwnerAt("fetch", "after")
    /\ pc \in Task
    /\ status[pc] = "merge"
    /\ data' = [d \in Datum |->
          CASE d \notin renamed[pc] -> data[d]
            [] d \in renamed[pc] /\ IsCumulWrite(prog[pc][d])
                 -> data[d] \cup version[pc][d]
            [] OTHER -> version[pc][d]]
    /\ UNCHANGED <<prog, status, pc, fpc, scanVars, renamed, version>>

\* EWOULDBLOCK: thieves see the pc of the task the owner waits for.
Block ==
    /\ OwnerAt("fetch", "suspended")
    /\ pc \in Task
    /\ status[pc] \in {"stolen", "running"}
    /\ fpc' = pc
    /\ UNCHANGED <<prog, status, pc, scanVars, dataVars>>

Resume ==
    /\ OwnerAt("suspended", "fetch")
    /\ status[pc] \in {"term", "merge"}
    /\ UNCHANGED <<prog, status, pc, fpc, scanVars, dataVars>>

Advance ==
    /\ OwnerAt("after", "fetch")
    /\ fpc' = pc
    /\ pc' = pc + 1
    /\ UNCHANGED <<prog, status, scanVars, dataVars>>

-------------------------------------------------------------------------------
OwnerStep ==
    \/ StartHere \/ FinishHere \/ PassTerm \/ AfterSteal \/ Block \/ Resume
    \/ Advance

WorkerStep(t) == StartStolen(t) \/ FinishStolen(t)

ScanStep == VisitTask \/ MarkSteal \/ EndScan

Next ==
    \/ OwnerStep
    \/ BeginScan
    \/ ScanStep
    \/ \E t \in Task : WorkerStep(t)

Spec == Init /\ [][Next]_vars

-------------------------------------------------------------------------------
(* Properties.                                                             *)

\* Shapes of the variables.
TypeOK ==
    /\ prog \in Program
    /\ status \in [Task -> {"init", "exec", "stolen", "running", "term", "merge"}]
    /\ pc \in 1..(NTask + 1)
    /\ fpc \in 1..(NTask + 1)
    /\ opc \in {"fetch", "body", "after", "suspended"}
    /\ tpc \in {"idle", "scan", "mark"}
    /\ cur \in 1..(NTask + 1)
    /\ lastMode \in [Datum -> Mode \cup {"VOID"}]
    /\ war \subseteq Datum
    /\ renamed \in [Task -> SUBSET Datum]
    /\ version \in [Task -> [Datum -> SUBSET Task]]
    /\ data \in [Datum -> SUBSET Task]

\* The content of the data when tasks 1..t have run one after the other.
Sequential ==
    LET after[t \in 0..NTask] ==
            IF t = 0 THEN Empty
            ELSE [d \in Datum |-> Effect(t, d, after[t - 1][d])]
    IN after

\* Some task reads a datum, a later one changes it, a third one reads it again: the
\* map then still says "read" and the third may be found ready.
ReadsAgain(p) ==
    \E i, j, k \in Task, d \in Datum :
        /\ i < j /\ j < k
        /\ p[i][d] = "R" /\ p[k][d] = "R"
        /\ p[j][d] \in {"W", "RW", "CW"}

Running(t) == status[t] = "running" \/ (t = pc /\ opc = "body")

\* From its start to its end a task that reads a datum finds in it what the
\* writes before it, in the order of creation, have left there: the result of
\* the frame is the one of its sequential execution.
ReadsLastWrite ==
    \A t \in Task : Running(t) =>
        \A d \in Datum : IsRead(prog[t][d]) => data[d] = Sequential[t - 1][d]

\* Tasks at or after pc that write d itself, ahead of the owner.
WrittenAhead(d) ==
    \E t \in pc..NTask :
        /\ status[t] \in {"running", "term", "merge"}
        /\ d \notin renamed[t]
        /\ prog[t][d] \in {"W", "RW", "CW"}

\* Behind the owner a datum holds what the sequential execution gives it,
\* copies merged and each reduced once, unless a thief is already writing it for
\* a later task that was ready (kaapi_aftersteal_body).
PrefixIsSequential ==
    opc = "fetch" =>
        \A d \in Datum : ~WrittenAhead(d) => data[d] = Sequential[pc - 1][d]
===============================================================================
