------------------------------- MODULE MCTaskList -------------------------------
(***************************************************************************)
(* Instances of TaskList: the frames that are tried.                       *)
(***************************************************************************)
EXTENDS TaskList

CONSTANTS x, y

R(d) == [datum |-> d, mode |-> "R"]
W(d) == [datum |-> d, mode |-> "W"]
RW(d) == [datum |-> d, mode |-> "RW"]

\* Frames where no task writes what an earlier one only reads.
SafePrograms == {
    \* two readers of one writer
    << <<RW(x)>>, <<R(x)>>, <<R(x)>> >>,
    \* a task that waits twice for another, and once for its datum
    << <<W(x), RW(y)>>, <<R(x), RW(y)>> >>,
    \* a task that accesses its datum three times
    << <<R(x), W(x), R(x)>>, <<R(x)>> >>,
    \* a task that accesses nothing
    << <<W(x)>>, <<>> >>}

ASSUME SafeProgramsAreSafe == \A p \in SafePrograms : NoWriteAfterRead(p)

\* A read, and the write that must come after it.
WarPrograms == { << <<W(x)>>, <<R(x)>>, <<W(x)>> >> }
===============================================================================
