------------------------------ MODULE MCDataflow ------------------------------
(***************************************************************************)
(* Instances of Dataflow: the frames that are tried.                       *)
(***************************************************************************)
EXTENDS Dataflow, TLC

CONSTANTS x, y

Access == Mode \cup {"VOID"}

Frames(modes) == [1..NTask -> [Datum -> modes]]

\* The data are interchangeable.
Symmetry == Permutations(Datum)

\* Every frame over the data.
AllFrames == Frames(Access)

\* Frames on one of the data, whichever it is.
OneDatumFrames ==
    {p \in Frames(Access) : \E d \in Datum : \A t \in 1..NTask, e \in Datum \ {d} :
        p[t][e] = "VOID"}

\* Frames whose last task is empty and whose second task alone uses both data,
\* in two modes.
TwoDataFrames ==
    {p \in Frames({"VOID", "R", "W", "CW"}) :
        /\ \A d \in Datum : p[NTask][d] = "VOID"
        /\ \A d, e \in Datum : d # e => p[2][d] \notin {"VOID", p[2][e]}
        /\ \A t \in 1..(NTask - 1) \ {2} : \E d \in Datum :
               p[t][d] # "VOID" /\ \A e \in Datum \ {d} : p[t][e] = "VOID"}

\* The frames of both kinds in which no datum is read, changed and read again.
FramesReadOnce == {p \in OneDatumFrames \cup TwoDataFrames : ~ReadsAgain(p)}
===============================================================================
