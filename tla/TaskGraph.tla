------------------------------- MODULE TaskGraph -------------------------------
(***************************************************************************)
(* What the static scheduling of a frame promises: each task of the frame  *)
(* runs once, after the earlier tasks it conflicts with, and the frame is  *)
(* left when all of them have run.                                         *)
(***************************************************************************)
EXTENDS Naturals, Sequences

CONSTANTS Context,  \* the stacks that execute tasks
          Programs, \* frames: sequences of tasks, each a sequence of accesses
          None      \* no task

VARIABLES program, \* the frame
          doing,   \* the task each context runs
          done,    \* the tasks that have run
          over     \* the frame has been left

vars == <<program, doing, done, over>>

Writes(a) == a.mode \in {"W", "RW"}

\* Two tasks of which one writes what the other accesses.
Conflict(p, t, u) ==
    \E i \in DOMAIN p[t], j \in DOMAIN p[u] :
        /\ p[t][i].datum = p[u][j].datum
        /\ Writes(p[t][i]) \/ Writes(p[u][j])

Earlier(p, t) == {u \in 1 .. t - 1 : Conflict(p, t, u)}

Init ==
    /\ program \in Programs
    /\ doing = [c \in Context |-> None]
    /\ done = {}
    /\ over = FALSE

Begin(c, t) ==
    /\ doing[c] = None
    /\ t \notin done /\ \A e \in Context : doing[e] # t
    /\ Earlier(program, t) \subseteq done
    /\ doing' = [doing EXCEPT ![c] = t]
    /\ UNCHANGED <<program, done, over>>

End(c) ==
    /\ doing[c] # None
    /\ done' = done \cup {doing[c]}
    /\ doing' = [doing EXCEPT ![c] = None]
    /\ UNCHANGED <<program, over>>

Leave ==
    /\ ~over
    /\ done = DOMAIN program
    /\ over' = TRUE
    /\ UNCHANGED <<program, doing, done>>

Next ==
    \/ \E c \in Context : End(c) \/ \E t \in DOMAIN program : Begin(c, t)
    \/ Leave

Spec == Init /\ [][Next]_vars
===============================================================================
