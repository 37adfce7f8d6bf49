----------------------------- MODULE ParallelLoop -----------------------------
(***************************************************************************)
(* What kaapic_foreach promises: every iteration is given once to a call   *)
(* of the body, and the loop is over only when all of them have returned.  *)
(***************************************************************************)
EXTENDS Naturals

CONSTANTS Proc,   \* the processors
          MaxIter \* bound on the number of iterations

VARIABLES todo,  \* iterations not given to a call of the body yet
          doing, \* the iterations of the call each processor is in
          over   \* the loop has returned

vars == <<todo, doing, over>>

Init ==
    /\ \E n \in 1 .. MaxIter : todo = 0 .. n - 1
    /\ doing = [p \in Proc |-> {}]
    /\ over = FALSE

Begin(p) ==
    /\ doing[p] = {}
    /\ \E S \in SUBSET todo :
        /\ S # {}
        /\ doing' = [doing EXCEPT ![p] = S]
        /\ todo' = todo \ S
    /\ UNCHANGED over

End(p) ==
    /\ doing[p] # {}
    /\ doing' = [doing EXCEPT ![p] = {}]
    /\ UNCHANGED <<todo, over>>

Return ==
    /\ todo = {}
    /\ \A p \in Proc : doing[p] = {}
    /\ ~over
    /\ over' = TRUE
    /\ UNCHANGED <<todo, doing>>

Next == (\E p \in Proc : Begin(p) \/ End(p)) \/ Return

Spec == Init /\ [][Next]_vars
===============================================================================
