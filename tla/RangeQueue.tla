------------------------------ MODULE RangeQueue ------------------------------
(***************************************************************************)
(* What a work queue promises: it holds an interval [lo, hi); its owner    *)
(* takes from the low end, thieves from the high end, and whoever takes is *)
(* told exactly what it took.                                              *)
(***************************************************************************)
EXTENDS Integers

VARIABLES
    lo,         \* the first iteration left
    hi,         \* one past the last iteration left
    got         \* who took last, and the bounds it was told

vars == <<lo, hi, got>>

Init == lo \in Int /\ hi \in Int /\ lo <= hi /\ got = <<"none", 0, 0>>

\* The owner takes the first iterations.
Pop ==
    \E n \in lo + 1 .. hi :
        /\ lo' = n
        /\ got' = <<"owner", lo, n>>
        /\ UNCHANGED hi

\* The owner is told that the queue is empty, and it is.
PopEmpty == lo = hi /\ got' = <<"empty", lo, hi>> /\ UNCHANGED <<lo, hi>>

\* A thief takes the last iterations.
Steal ==
    \E n \in lo .. hi - 1 :
        /\ hi' = n
        /\ got' = <<"thief", n, hi>>
        /\ UNCHANGED lo

\* Iterations are added at either end, or put in an empty queue.
Extend ==
    /\ \/ lo' \in Int /\ lo' < lo /\ UNCHANGED hi
       \/ hi' \in Int /\ hi' > hi /\ UNCHANGED lo
       \/ lo = hi /\ lo' \in Int /\ hi' \in Int /\ lo' <= hi'
    /\ UNCHANGED got

Next == Pop \/ PopEmpty \/ Steal \/ Extend

Spec == Init /\ [][Next]_vars
===============================================================================
