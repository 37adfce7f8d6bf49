------------------------------- MODULE TaskPlace -------------------------------
(***************************************************************************)
(* What stealing promises about the tasks of a program, with no requests,  *)
(* replies or locks: a task is created in the stack of a processor, is     *)
(* taken out of it once, by that processor or by one that had nothing to   *)
(* do, is executed there, and ends.                                        *)
(***************************************************************************)
CONSTANTS Proc, \* the processors
          Task  \* the tasks a program may create

VARIABLE place \* where each task is

Places == {<<"new">>, <<"done">>} \cup ({"ready", "given"} \X Proc)

\* p has a task to execute.
Busy(p) == \E t \in Task : place[t] = <<"given", p>>

Init ==
    \E root \in Task, p \in Proc :
        place = [t \in Task |-> IF t = root THEN <<"ready", p>> ELSE <<"new">>]

Create(p, t) ==
    /\ Busy(p)
    /\ place[t] = <<"new">>
    /\ place' = [place EXCEPT ![t] = <<"ready", p>>]

\* q may be p, which takes one of its own tasks.
Give(p, q, t) ==
    /\ ~Busy(q)
    /\ place[t] = <<"ready", p>>
    /\ place' = [place EXCEPT ![t] = <<"given", q>>]

Finish(p, t) ==
    /\ place[t] = <<"given", p>>
    /\ place' = [place EXCEPT ![t] = <<"done">>]

Next ==
    \E p \in Proc, t \in Task :
        \/ Create(p, t)
        \/ \E q \in Proc : Give(p, q, t)
        \/ Finish(p, t)

Spec == Init /\ [][Next]_place
===============================================================================
