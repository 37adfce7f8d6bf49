-------------------------------- MODULE Rounds --------------------------------
(***************************************************************************)
(* What the suspension of kprocessors promises between parallel regions,   *)
(* with no mutex, no condition variable and no counter: a thread falls     *)
(* asleep only for the round of suspension that is posted, and wakes up    *)
(* only when the round it sleeps for has been resumed, or because the      *)
(* kernel ended its sleep without a reason.                                *)
(***************************************************************************)
EXTENDS Naturals

CONSTANTS Worker \* the threads that can be suspended

VARIABLES round,   \* rounds of suspension posted up to now
          posted,  \* the last one was not resumed yet
          sleeps,  \* the round each thread sleeps for, 0 if it is awake
          spurious \* sleeps that the kernel ended

vars == <<round, posted, sleeps, spurious>>

Init ==
    /\ round = 0
    /\ posted = FALSE
    /\ sleeps = [w \in Worker |-> 0]
    /\ spurious = 0

Announce ==
    /\ ~posted
    /\ round' = round + 1
    /\ UNCHANGED <<posted, sleeps, spurious>>

Post ==
    /\ ~posted
    /\ posted' = TRUE
    /\ UNCHANGED <<round, sleeps, spurious>>

Resume ==
    /\ posted
    /\ posted' = FALSE
    /\ UNCHANGED <<round, sleeps, spurious>>

FallAsleep(w) ==
    /\ posted
    /\ sleeps[w] = 0
    /\ sleeps' = [sleeps EXCEPT ![w] = round]
    /\ UNCHANGED <<round, posted, spurious>>

\* Threads of rounds that are over wake up, one by one or together.
WakeUp(W) ==
    /\ \A w \in W : sleeps[w] # 0 /\ (sleeps[w] = round => ~posted)
    /\ sleeps' = [w \in Worker |-> IF w \in W THEN 0 ELSE sleeps[w]]
    /\ UNCHANGED <<round, posted, spurious>>

WakeUpForNothing(w) ==
    /\ sleeps[w] # 0
    /\ sleeps' = [sleeps EXCEPT ![w] = 0]
    /\ spurious' = spurious + 1
    /\ UNCHANGED <<round, posted>>

Next ==
    \/ Announce \/ Post \/ Resume
    \/ \E w \in Worker : FallAsleep(w) \/ WakeUpForNothing(w)
    \/ \E W \in SUBSET Worker : WakeUp(W)

Spec == Init /\ [][Next]_vars
===============================================================================
