-------------------------------- MODULE TaskList --------------------------------
(***************************************************************************)
(* The execution of a frame by its list of ready tasks: the graph computed *)
(* from the accesses of its tasks (kaapi_thread_computereadylist), the     *)
(* loop of the context that owns the frame and of those that stole a task  *)
(* (kaapi_thread_execframe_tasklist), the thefts (kaapi_sched_stealstack,  *)
(* kaapi_sched_stealtasklist) and the end of the frame.                    *)
(*                                                                         *)
(* A node of the graph is the number of a task, or a datum: it stands for  *)
(* the internal task that moves or allocates the datum before its first    *)
(* access.  Contexts are stacks, each with its thread; which processor     *)
(* runs them, and how a request reaches a victim (StealRequest), is left   *)
(* out, as are priorities, sites, GPUs and the copies of data.  Bodies     *)
(* create no tasks.                                                        *)
(***************************************************************************)
EXTENDS Integers, FiniteSets, SequencesExt

CONSTANTS Context,  \* the stacks
          Master,   \* that of the frame
          Datum,    \* what tasks access
          Programs, \* the frames that are tried
          MaxThefts, \* bound on the times a thief locks a stack
          None      \* null

Mode == {"R", "W", "RW"}

ASSUME ConstantsAssumption ==
    /\ Master \in Context
    /\ IsFiniteSet(Context)
    /\ \A n \in Datum \cup {None} : n \notin Nat
    /\ None \notin Context \cup Datum
    /\ MaxThefts \in Nat
    /\ \A p \in Programs : p \in Seq(Seq([datum : Datum, mode : Mode]))

VARIABLES
    program, \* the tasks of the frame, in the order of their creation
    graph,   \* successors, predecessors to wait for (wc) and number of nodes
    counter, \* td->counter of each node
    pc,      \* where each context is
    list,    \* its list of ready nodes, the head first
    cnt,     \* cnt_tasks of this list
    listed,  \* frame->tasklist is set
    alive,   \* the list is allocated
    boss,    \* tasklist->master, None for the master's own
    cur,     \* the node it executes
    links,   \* what is left of the successors it activates
    local,   \* the nodes executed since the last report
    exec,    \* cnt_exec of its list
    lock,    \* stack.lock is taken, by a theft
    waits,   \* it waits for the release of the lock (_sync)
    theft,   \* where a thief is in this stack
    serve,   \* the contexts whose requests this thief answers
    stolen,  \* the node it has taken
    done,    \* ghost: nodes executed
    thefts   \* ghost: times a thief has locked a stack

listVars == <<list, cnt>>
frameVars == <<listed, alive, boss>>
loopVars == <<cur, links, local, exec>>
theftVars == <<lock, waits, theft, serve, stolen>>
ghosts == <<done, thefts>>
graphVars == <<program, graph, counter>>
vars == <<graphVars, pc, listVars, frameVars, loopVars, theftVars, ghosts>>

Loop == {"test", "pop", "decr", "body", "activate", "link", "count", "report", "check",
         "suspended"}
Location == Loop \cup
    {"idle", "asking", "start", "detach", "end", "await", "over"}
Theft == {"none", "read", "take", "reply"}

-------------------------------------------------------------------------------
(* The graph.                                                              *)

Writes(m) == m \in {"W", "RW"}

\* kaapi_tasklist_push_successor.
Link(g, u, t) ==
    [g EXCEPT !.succ[u] = Append(@, t), !.wc[t] = @ + 1]

\* kaapi_version_findinsert and kaapi_version_add_initialaccess.
FindVersion(g, d) ==
    IF g.writer[d] # None THEN g
    ELSE [g EXCEPT !.writer[d] = d, !.ready = Append(@, d), !.total = @ + 1]

\* Broken on purpose: the version keeps the task that made it.
AddAccess_FirstWriter(g, t, a) ==
    LET h == FindVersion(g, a.datum)
        u == h.writer[a.datum]
    IN  IF u = t THEN h ELSE Link(h, u, t)

\* kaapi_thread_computeready_access: wait for the last writer, readers are not
\* remembered.
AddAccess(g, t, a) ==
    LET h == FindVersion(g, a.datum)
        u == h.writer[a.datum]
        l == IF u = t THEN h ELSE Link(h, u, t)
    IN  IF Writes(a.mode) THEN [l EXCEPT !.writer[a.datum] = t] ELSE l

\* kaapi_thread_computedep_task.  A task that accesses no datum is counted in
\* total_tasks, and no list gets it: kaapi_readytasklist_pushactivated pushes the
\* successors of the task it is given, which has none.
AddTask(p, g, t) ==
    LET after[i \in 0 .. Len(p[t])] ==
            IF i = 0 THEN g ELSE AddAccess(after[i - 1], t, p[t][i])
    IN  after[Len(p[t])]

Nodes(p) == DOMAIN p \cup Datum

NoGraph(p) ==
    [writer |-> [d \in Datum |-> None],
     succ |-> [n \in Nodes(p) |-> <<>>],
     wc |-> [n \in Nodes(p) |-> 0],
     ready |-> <<>>,
     total |-> Len(p)]

\* kaapi_thread_computereadylist: the tasks of the frame in order.
Graph(p) ==
    LET after[t \in 0 .. Len(p)] ==
            IF t = 0 THEN NoGraph(p) ELSE AddTask(p, after[t - 1], t)
    IN  after[Len(p)]

-------------------------------------------------------------------------------
\* The list is filled with the initial tasks, in the order of first accesses, and
\* the frame shows it before it can be stolen from.
Init ==
    /\ program \in Programs
    /\ LET g == Graph(program) IN
        /\ graph = [succ |-> g.succ, wc |-> g.wc, total |-> g.total]
        /\ list = [c \in Context |-> IF c = Master THEN g.ready ELSE <<>>]
        /\ cnt = [c \in Context |-> IF c = Master THEN Len(g.ready) ELSE 0]
    /\ counter = [n \in Nodes(program) |-> 0]
    /\ pc = [c \in Context |-> IF c = Master THEN "test" ELSE "idle"]
    /\ listed = [c \in Context |-> c = Master]
    /\ alive = [c \in Context |-> c = Master]
    /\ boss = [c \in Context |-> None]
    /\ cur = [c \in Context |-> None]
    /\ links = [c \in Context |-> <<>>]
    /\ local = [c \in Context |-> 0]
    /\ exec = [c \in Context |-> 0]
    /\ lock = [c \in Context |-> FALSE]
    /\ waits = [c \in Context |-> FALSE]
    /\ theft = [c \in Context |-> "none"]
    /\ serve = [c \in Context |-> {}]
    /\ stolen = [c \in Context |-> None]
    /\ done = {}
    /\ thefts = 0

Goto(c, from, to) == pc[c] = from /\ pc' = [pc EXCEPT ![c] = to]
TheftGoto(v, from, to) == theft[v] = from /\ theft' = [theft EXCEPT ![v] = to]

-------------------------------------------------------------------------------
(* kaapi_thread_execframe_tasklist.                                        *)

TestList(c) ==
    /\ Goto(c, "test", IF cnt[c] = 0 THEN "report" ELSE "pop")
    /\ UNCHANGED <<graphVars, listVars, frameVars, loopVars, theftVars, ghosts>>

\* kaapi_readylist_pop, with the test that the list is not empty under its lock.
Pop(c) ==
    /\ Goto(c, "pop", IF list[c] = <<>> THEN "test" ELSE "decr")
    /\ IF list[c] = <<>> THEN UNCHANGED <<list, cur>>
       ELSE /\ cur' = [cur EXCEPT ![c] = Head(list[c])]
            /\ list' = [list EXCEPT ![c] = Tail(@)]
    /\ UNCHANGED <<graphVars, cnt, frameVars, links, local, exec, theftVars, ghosts>>

DecrAndBegin(c) ==
    /\ Goto(c, "decr", "body")
    /\ cnt' = [cnt EXCEPT ![c] = @ - 1]
    /\ UNCHANGED <<graphVars, list, frameVars, loopVars, theftVars, ghosts>>

\* A list of successors that is empty is not walked.
Walk(l) == IF l = <<>> THEN "test" ELSE "activate"

EndBody(c) ==
    /\ Goto(c, "body", Walk(graph.succ[cur[c]]))
    /\ done' = done \cup {cur[c]}
    /\ local' = [local EXCEPT ![c] = @ + 1]
    /\ links' = [links EXCEPT ![c] = graph.succ[cur[c]]]
    /\ UNCHANGED <<graphVars, listVars, frameVars, cur, exec, theftVars, thefts>>

\* Broken on purpose: the value before the increment is compared.
Activated_OldValue(n) == counter[n] = graph.wc[n]

\* kaapi_taskdescr_activated.
Activated(n) == (counter[n] + 1) % graph.wc[n] = 0

\* The loop of kaapi_readytasklist_push_from_activationlist.
Activate(c) ==
    /\ pc[c] = "activate"
    /\ LET n == Head(links[c])
           rest == Tail(links[c])
       IN  /\ counter' = [counter EXCEPT ![n] = @ + 1]
           /\ links' = [links EXCEPT ![c] = IF Activated(n) THEN @ ELSE rest]
           /\ Goto(c, "activate", IF Activated(n) THEN "link" ELSE Walk(rest))
    /\ UNCHANGED <<program, graph, listVars, frameVars, cur, local, exec,
                   theftVars, ghosts>>

\* kaapi_onereadytasklist_push.
LinkReady(c) ==
    /\ Goto(c, "link", "count")
    /\ list' = [list EXCEPT ![c] = <<Head(links[c])>> \o @]
    /\ UNCHANGED <<graphVars, cnt, frameVars, loopVars, theftVars, ghosts>>

CountReady(c) ==
    /\ Goto(c, "count", Walk(Tail(links[c])))
    /\ cnt' = [cnt EXCEPT ![c] = @ + 1]
    /\ links' = [links EXCEPT ![c] = Tail(@)]
    /\ UNCHANGED <<graphVars, list, frameVars, cur, local, exec, theftVars, ghosts>>

\* Broken on purpose: the next call of the loop reports the same nodes again.
Report_NoReset(c) ==
    /\ Goto(c, "report", IF c = Master THEN "check" ELSE "detach")
    /\ exec' = [exec EXCEPT ![c] = @ + local[c]]
    /\ UNCHANGED <<graphVars, listVars, frameVars, cur, links, local, theftVars, ghosts>>

\* Of the contexts that return, the master has to look at the others.
Report(c) ==
    /\ Goto(c, "report", IF c = Master THEN "check" ELSE "detach")
    /\ exec' = [exec EXCEPT ![c] = @ + local[c]]
    /\ local' = [local EXCEPT ![c] = 0]
    /\ UNCHANGED <<graphVars, listVars, frameVars, cur, links, theftVars, ghosts>>

AllExecuted == exec[Master] = graph.total

Check ==
    /\ Goto(Master, "check", IF AllExecuted THEN "end" ELSE "suspended")
    /\ UNCHANGED <<graphVars, listVars, frameVars, loopVars, theftVars, ghosts>>

\* kaapi_sched_sync_ and kaapi_stack_isready: the loop is called again.
WakeUp ==
    /\ AllExecuted
    /\ Goto(Master, "suspended", "test")
    /\ UNCHANGED <<graphVars, listVars, frameVars, loopVars, theftVars, ghosts>>

-------------------------------------------------------------------------------
(* kaapi_taskstealready_body, around the loop, in a context that stole.    *)

\* Nobody sees the list before the frame shows it.
Start(c) ==
    /\ Goto(c, "start", "test")
    /\ alive' = [alive EXCEPT ![c] = TRUE]
    /\ list' = [list EXCEPT ![c] = <<cur[c]>>]
    /\ cnt' = [cnt EXCEPT ![c] = 1]
    /\ exec' = [exec EXCEPT ![c] = 0]
    /\ local' = [local EXCEPT ![c] = 0]
    /\ listed' = [listed EXCEPT ![c] = TRUE]
    /\ UNCHANGED <<graphVars, boss, cur, links, theftVars, ghosts>>

\* Under the lock of the stack: no thief is inside.  The list is freed.
Detach(c) ==
    /\ ~lock[c]
    /\ Goto(c, "detach", "idle")
    /\ listed' = [listed EXCEPT ![c] = FALSE]
    /\ exec' = [exec EXCEPT ![boss[c]] = @ + exec[c], ![c] = 0]
    /\ alive' = [alive EXCEPT ![c] = FALSE]
    /\ cur' = [cur EXCEPT ![c] = None]
    /\ boss' = [boss EXCEPT ![c] = None]
    /\ UNCHANGED <<graphVars, listVars, links, local, theftVars, ghosts>>

-------------------------------------------------------------------------------
(* The end of the frame, in QUARK_Barrier and kaapi_staticschedtask_body.  *)

\* The pointer is reset and the frame popped; then the wait for the lock begins.
Unlist ==
    /\ Goto(Master, "end", "await")
    /\ listed' = [listed EXCEPT ![Master] = FALSE]
    /\ waits' = [waits EXCEPT ![Master] = lock[Master]]
    /\ UNCHANGED <<graphVars, listVars, alive, boss, loopVars, lock, theft, serve,
                   stolen, ghosts>>

\* Broken on purpose: the frame is popped without the wait.
Destroy_NoWait ==
    /\ Goto(Master, "await", "over")
    /\ alive' = [alive EXCEPT ![Master] = FALSE]
    /\ UNCHANGED <<graphVars, listVars, listed, boss, loopVars, theftVars, ghosts>>

\* The lock is free, or has been since the wait began (kaapi_thread_pop_frame_);
\* kaapi_frame_tasklist_destroy frees the list and all the nodes.
Destroy ==
    /\ lock[Master] => ~waits[Master]
    /\ Goto(Master, "await", "over")
    /\ alive' = [alive EXCEPT ![Master] = FALSE]
    /\ UNCHANGED <<graphVars, listVars, listed, boss, loopVars, theftVars, ghosts>>

-------------------------------------------------------------------------------
(* A theft in the stack v, for the requests of the contexts R.             *)

\* kaapi_sched_stealstack: the stack is locked and shows a list.
LockStack(v, R) ==
    /\ thefts < MaxThefts
    /\ R # {} /\ \A r \in R : pc[r] = "idle"
    /\ ~lock[v] /\ listed[v]
    /\ TheftGoto(v, "none", "read")
    /\ lock' = [lock EXCEPT ![v] = TRUE]
    /\ serve' = [serve EXCEPT ![v] = R]
    /\ pc' = [c \in Context |-> IF c \in R THEN "asking" ELSE pc[c]]
    /\ thefts' = thefts + 1
    /\ UNCHANGED <<graphVars, listVars, frameVars, loopVars, waits, stolen, done>>

\* The thief leaves; the requests it could not answer find nothing here.
UnlockStack(v) ==
    /\ theft' = [theft EXCEPT ![v] = "none"]
    /\ lock' = [lock EXCEPT ![v] = FALSE]
    /\ waits' = [waits EXCEPT ![v] = FALSE]
    /\ pc' = [c \in Context |-> IF c \in serve[v] THEN "idle" ELSE pc[c]]
    /\ serve' = [serve EXCEPT ![v] = {}]

\* kaapi_readylist_steal: no list lock is taken for an empty list.
ReadCount(v) ==
    /\ theft[v] = "read"
    /\ IF serve[v] # {} /\ cnt[v] # 0
       THEN TheftGoto(v, "read", "take") /\ UNCHANGED <<pc, lock, waits, serve>>
       ELSE UnlockStack(v)
    /\ UNCHANGED <<graphVars, listVars, frameVars, loopVars, stolen, ghosts>>

\* kaapi_onereadytasklist_steal, with the default choice of the tail.
TakeTail(v) ==
    /\ list[v] # <<>>
    /\ TheftGoto(v, "take", "reply")
    /\ stolen' = [stolen EXCEPT ![v] = Last(list[v])]
    /\ list' = [list EXCEPT ![v] = Front(@)]
    /\ UNCHANGED <<graphVars, pc, cnt, frameVars, loopVars, lock, waits, serve, ghosts>>

\* Broken on purpose: what was counted is thought to have been taken.
TakeNothing_Count(v) ==
    /\ theft[v] = "take" /\ list[v] = <<>>
    /\ UnlockStack(v)
    /\ cnt' = [cnt EXCEPT ![v] = @ - 1]
    /\ UNCHANGED <<graphVars, list, frameVars, loopVars, stolen, ghosts>>

\* The owner was faster.
TakeNothing(v) ==
    /\ theft[v] = "take" /\ list[v] = <<>>
    /\ UnlockStack(v)
    /\ UNCHANGED <<graphVars, listVars, frameVars, loopVars, stolen, ghosts>>

MasterOf(v) == IF boss[v] = None THEN v ELSE boss[v]

\* The node is not counted any more; kaapi_sched_stealtasklist replies with it to
\* one of the requests.
Reply(v) ==
    /\ TheftGoto(v, "reply", "read")
    /\ cnt' = [cnt EXCEPT ![v] = @ - 1]
    /\ \E r \in serve[v] :
        /\ pc' = [pc EXCEPT ![r] = "start"]
        /\ cur' = [cur EXCEPT ![r] = stolen[v]]
        /\ boss' = [boss EXCEPT ![r] = MasterOf(v)]
        /\ serve' = [serve EXCEPT ![v] = @ \ {r}]
    /\ stolen' = [stolen EXCEPT ![v] = None]
    /\ UNCHANGED <<graphVars, list, listed, alive, links, local, exec, lock, waits,
                   ghosts>>

-------------------------------------------------------------------------------
ExecFrame(c) ==
    \/ TestList(c) \/ Pop(c) \/ DecrAndBegin(c) \/ EndBody(c)
    \/ Activate(c) \/ LinkReady(c) \/ CountReady(c)
    \/ Report(c)

StealReady(c) == Start(c) \/ Detach(c)

Leave == Check \/ WakeUp \/ Unlist \/ Destroy

Steal(v) == ReadCount(v) \/ TakeTail(v) \/ TakeNothing(v) \/ Reply(v)

Next ==
    \/ \E c \in Context :
        \/ ExecFrame(c) \/ StealReady(c) \/ Steal(c)
        \/ \E R \in SUBSET Context : LockStack(c, R)
    \/ Leave

Spec == Init /\ [][Next]_vars

\* A thread inside the loop or inside a theft goes on; nobody has to steal.
FairSpec ==
    /\ Spec
    /\ WF_vars(Leave)
    /\ \A c \in Context :
        WF_vars(ExecFrame(c)) /\ WF_vars(StealReady(c)) /\ WF_vars(Steal(c))

-------------------------------------------------------------------------------
(* Properties.                                                             *)

\* The tasks of the program among the nodes.
TaskOf(n) == IF n \in DOMAIN program THEN n ELSE None

Abstract == INSTANCE TaskGraph WITH
    doing <- [c \in Context |-> IF pc[c] = "body" THEN TaskOf(cur[c]) ELSE None],
    done <- done \cap DOMAIN program,
    over <- pc[Master] = "over"

\* A write waits for the last write only, and not for the reads since: the order
\* of a frame is kept where a task that writes what an earlier one accesses finds
\* that it wrote it as well.
NoWriteAfterRead(p) ==
    \A t \in DOMAIN p : \A u \in 1 .. t - 1 : \A i \in DOMAIN p[u], j \in DOMAIN p[t] :
        p[u][i].datum = p[t][j].datum /\ Writes(p[t][j].mode) =>
            \E k \in DOMAIN p[u] : p[u][k].datum = p[u][i].datum /\ Writes(p[u][k].mode)

\* With reads and writes that form no write after read, every task runs once,
\* after those it conflicts with, and the frame is left when all have run.
ImplementsTaskGraph == Abstract!Spec

\* A task begins only when the earlier tasks it conflicts with have run.
ConflictsAreOrdered ==
    \A c \in Context :
        pc[c] = "body" /\ cur[c] \in DOMAIN program =>
            Abstract!Earlier(program, cur[c]) \subseteq done

\* The assertion at the end of kaapi_thread_execframe_tasklist: a context that
\* leaves the loop leaves no node, counted or not, behind.
NothingLeft ==
    \A c \in Context : pc[c] \in {"check", "detach", "end"} =>
        cnt[c] = 0 /\ list[c] = <<>>

\* A context with a node of the graph that is not reported as executed.
HasWork(c) ==
    \/ pc[c] \in {"start", "decr", "body", "activate", "link", "count"}
    \/ list[c] # <<>> \/ local[c] + exec[c] > 0

\* Lists are freed by their owner while others look at them or report to them:
\* no thief is inside a freed list, and the list of the master and its nodes live
\* as long as a context or a thief has some of them, or executions to report.
ListIsAlive ==
    /\ \A v \in Context : theft[v] # "none" => alive[v]
    /\ \A c \in Context :
        boss[c] # None /\ (HasWork(c) \/ theft[c] = "reply")
            => alive[boss[c]]

\* The list that kaapi_taskstealready_body reports to is still there.
MasterIsAlive == \A c \in Context : pc[c] = "detach" => alive[boss[c]]

\* What the contexts have executed and not reported to the master yet.
Unreported(c) == local[c] + IF c = Master THEN 0 ELSE exec[c]

\* The number the master waits for is reached when all has been executed, neither
\* before nor never: nothing is reported twice or lost, whoever stole from whom.
ReportsAreExact ==
    exec[Master] + Cardinality(UNION {{c} \X (1 .. Unreported(c)) : c \in Context})
        = Cardinality(done)

\* A task without access is in no list, so that its frame waits for it forever.
Unlisted == {t \in DOMAIN program : program[t] = <<>>}

\* Every frame ends, however its tasks were stolen and stolen again; but one with
\* tasks that no list gets, which executes all the others.
GraphEnds ==
    <>(\/ pc[Master] = "over"
       \/ /\ Unlisted # {} /\ pc[Master] = "suspended"
          /\ done \cap DOMAIN program = DOMAIN program \ Unlisted)
===============================================================================
