--------------------------------- MODULE Lock ---------------------------------
(***************************************************************************)
(* What the users of kaapi_lock_t rely on: at most one holder, and a wait  *)
(* (kaapi_atomic_waitlock) that takes no lock and ends when the lock is    *)
(* free or has been released since the wait began.                         *)
(***************************************************************************)
CONSTANTS Process, Waiter, None

VARIABLES holder,  \* who holds the lock
          sync,    \* a wait began after the last release
          waiting  \* the processes in a wait

vars == <<holder, sync, waiting>>

Init ==
    /\ holder = None
    /\ sync = FALSE
    /\ waiting = {}

Acquire(p) ==
    /\ holder = None
    /\ p \notin waiting
    /\ holder' = p
    /\ UNCHANGED <<sync, waiting>>

Release(p) ==
    /\ holder = p
    /\ holder' = None
    /\ sync' = FALSE
    /\ UNCHANGED waiting

BeginWait(p) ==
    /\ p \notin waiting
    /\ waiting' = waiting \cup {p}
    /\ sync' = TRUE
    /\ UNCHANGED holder

EndWait(p) ==
    /\ p \in waiting
    /\ ~sync \/ holder = None
    /\ waiting' = waiting \ {p}
    /\ UNCHANGED <<holder, sync>>

Next ==
    \/ \E p \in Process : Acquire(p) \/ Release(p)
    \/ \E p \in Waiter : BeginWait(p) \/ EndWait(p)

Spec == Init /\ [][Next]_vars
===============================================================================
