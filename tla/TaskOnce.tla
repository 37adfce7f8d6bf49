------------------------------- MODULE TaskOnce -------------------------------
(***************************************************************************)
(* What the stack of tasks of a thread promises to the program that pushed *)
(* the tasks, whoever runs them: every task of the frame is claimed once,  *)
(* its body runs once, its results are in place before the owner of the    *)
(* frame goes past it, and the frame is emptied in the order of creation.  *)
(* A frame that has been emptied is filled with new tasks.  TaskSteal      *)
(* implements this specification.                                          *)
(***************************************************************************)
EXTENDS Naturals

CONSTANTS NTask,    \* tasks in a frame
          MaxRound  \* number of times the frame is filled

VARIABLES status,   \* progress of each task
          front,    \* first task the owner has not gone past
          round     \* how many times the frame has been filled again

vars == <<status, front, round>>

Task == 1..NTask

Init ==
    /\ status = [t \in Task |-> "pending"]
    /\ front = 1
    /\ round = 1

Claim(t) ==
    /\ status[t] = "pending"
    /\ status' = [status EXCEPT ![t] = "claimed"]
    /\ UNCHANGED <<front, round>>

\* A body that runs in place leaves nothing to bring back.
Run(t) ==
    /\ status[t] = "claimed"
    /\ \E s \in {"ran", "complete"} : status' = [status EXCEPT ![t] = s]
    /\ UNCHANGED <<front, round>>

Complete(t) ==
    /\ status[t] = "ran"
    /\ status' = [status EXCEPT ![t] = "complete"]
    /\ UNCHANGED <<front, round>>

Pass ==
    /\ front \in Task
    /\ status[front] = "complete"
    /\ front' = front + 1
    /\ UNCHANGED <<status, round>>

Refill ==
    /\ front = NTask + 1
    /\ round < MaxRound
    /\ round' = round + 1
    /\ front' = 1
    /\ status' = [t \in Task |-> "pending"]

Next ==
    \/ \E t \in Task : Claim(t) \/ Run(t) \/ Complete(t)
    \/ Pass
    \/ Refill

Spec == Init /\ [][Next]_vars
===============================================================================
