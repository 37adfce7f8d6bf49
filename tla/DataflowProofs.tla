---------------------------- MODULE DataflowProofs ----------------------------
(***************************************************************************)
(* Proofs about Dataflow, for any frame, any data and any number of        *)
(* processors that hold a stolen task.  The invariant says what a task     *)
(* that was stolen leaves untouched between the owner and itself, because  *)
(* of what the scan remembered of the tasks it walked over.                *)
(***************************************************************************)
EXTENDS Dataflow, WellFoundedInduction, TLAPS

-------------------------------------------------------------------------------
(* The invariant.                                                          *)

\* The tasks the owner has done with: their writes are in the data, but those that
\* a later task has replaced.
Passed == IF opc = "after" THEN pc ELSE pc - 1

\* No task from the owner's to t, excluded, accesses d, or all only read it.
Untouched(d, t) == \A u \in (Passed + 1) .. (t - 1) : prog[u][d] = "VOID"
OnlyRead(d, t) == \A u \in (Passed + 1) .. (t - 1) : prog[u][d] \in {"VOID", "R"}

\* A task takes copies of what it writes without reading it.
CopiesOf(t, r) == \A d \in r : prog[t][d] \in {"W", "CW"}

\* The task t may be run ahead of the owner with copies of r: what it uses in place
\* nobody uses before it, or both only read.
MayWrite(t, r) ==
    /\ CopiesOf(t, r)
    /\ \A d \in Datum \ r :
        /\ prog[t][d] # "CW"
        /\ prog[t][d] \in {"W", "RW"} => Untouched(d, t)

MayRead(t, r) == \A d \in Datum \ r : prog[t][d] = "R" => OnlyRead(d, t)

Stolen == {"stolen", "running", "term", "merge"}

\* What the owner and the word of a task say of each other.
OwnerInv ==
    /\ fpc <= pc
    /\ opc # "fetch" => pc \in Task
    /\ \A t \in Task :
        /\ t <= Passed => status[t] \in {"exec", "term", "merge"}
        /\ t > Passed => (status[t] = "exec" <=> t = pc /\ opc = "body")
        /\ status[t] = "term" => renamed[t] = {}

\* Some task before t reads d, and no access ahead of the owner comes before it.
FirstReader(d, t) ==
    \E i \in Task :
        /\ i < t /\ prog[i][d] = "R"
        /\ \A u \in (Passed + 1) .. (t - 1) : prog[u][d] # "VOID" => i <= u

\* The map of a scan that has walked over the tasks before t: it tells which data
\* they access, and keeps a first mode that no access of theirs comes before.
MapInv(t) ==
    \A d \in Datum :
        /\ lastMode[d] = "VOID" => Untouched(d, t)
        /\ lastMode[d] = "R" => FirstReader(d, t)

\* A task is marked with the copies that let it run ahead.
ScanInv ==
    /\ tpc = "scan" => MapInv(cur)
    /\ tpc = "mark" => cur \in Task /\ MapInv(cur + 1) /\ MayWrite(cur, war)

\* It keeps them until the owner has passed it.
StolenInv ==
    \A t \in Task : t > Passed /\ status[t] \in Stolen => MayWrite(t, renamed[t])

\* A task ahead of the owner has written d itself.
WroteAhead(t, d) ==
    /\ t > Passed /\ status[t] \in {"term", "merge"}
    /\ d \notin renamed[t]
    /\ prog[t][d] \in {"W", "RW", "CW"}

\* A datum is as the tasks passed leave it, or as the one that has written it ahead
\* does; a copy holds nothing of a task that runs, and of one that waits for its
\* merge what it has written.
DataInv ==
    /\ \A d \in Datum :
        /\ (\A t \in Task : ~WroteAhead(t, d)) => data[d] = Sequential[Passed][d]
        /\ \A t \in Task : WroteAhead(t, d) => data[d] = Sequential[t][d]
    /\ \A t \in Task : \A d \in renamed[t] :
        /\ status[t] = "running" => version[t][d] = {}
        /\ status[t] = "merge" => version[t][d] = {t}

IndInv == TypeOK /\ OwnerInv /\ ScanInv /\ StolenInv /\ DataInv

\* The same for what is read, in frames that do not read a datum again.
ReadInv ==
    /\ tpc = "mark" => MayRead(cur, war)
    /\ \A t \in Task : t > Passed /\ status[t] \in Stolen => MayRead(t, renamed[t])

-------------------------------------------------------------------------------
(* What the tasks do one after the other.                                  *)

\* A set of numbers has a least element: what fails has a first failure.
LEMMA LeastCounterexample ==
    ASSUME NEW T, T \subseteq Nat, T # {}
    PROVE  \E k \in T : \A j \in T : k <= j
<1>1. PICK k \in T : \A j \in T : ~(<<j, k>> \in OpToRel(<, Nat))
  BY NatLessThanWellFounded, WFMin
<1>2. SUFFICES ASSUME NEW j \in T PROVE k <= j
  OBVIOUS
<1>3. ~(j < k)
  BY <1>1 DEF OpToRel
<1>4. QED
  BY <1>3

\* The access modes of the frame, and what the body of a task leaves in a datum.
LEMMA Modes ==
    ASSUME TypeOK
    PROVE  \A t \in Task : \A d \in Datum :
             /\ prog[t][d] \in {"R", "W", "RW", "CW", "VOID"}
             /\ \A s \in SUBSET Task : Effect(t, d, s) \in SUBSET Task
<1>1. prog \in [Task -> [Datum -> Mode \cup {"VOID"}]]
  BY ConstantsAssumption DEF TypeOK
<1>2. SUFFICES ASSUME NEW t \in Task, NEW d \in Datum
               PROVE  /\ prog[t][d] \in {"R", "W", "RW", "CW", "VOID"}
                      /\ \A s \in SUBSET Task : Effect(t, d, s) \in SUBSET Task
  OBVIOUS
<1>3. prog[t][d] \in {"R", "W", "RW", "CW", "VOID"}
  BY <1>1 DEF Mode
<1>4. QED
  BY <1>3 DEF Effect

\* There is a function that gives the content after each number of tasks: it is
\* built task by task, as far as there is no first task it could not pass.
LEMMA SequentialExists ==
    ASSUME TypeOK
    PROVE  \E f \in [0 .. NTask -> [Datum -> SUBSET Task]] :
             f = [t \in 0 .. NTask |-> IF t = 0 THEN Empty
                                       ELSE [d \in Datum |-> Effect(t, d, f[t - 1][d])]]
<1> DEFINE Content == [Datum -> SUBSET Task]
           Step(t, h) == [d \in Datum |-> Effect(t, d, h[d])]
           Good(k) == \E f \in [0 .. k -> Content] :
                        \A t \in 0 .. k : f[t] = IF t = 0 THEN Empty ELSE Step(t, f[t - 1])
           T == {k \in 0 .. NTask : ~Good(k)}
<1>1. NTask \in Nat /\ Empty \in Content
  BY ConstantsAssumption DEF Empty
<1>2. \A t \in Task : \A h \in Content : Step(t, h) \in Content
  BY Modes
<1> HIDE DEF Content, Step
<1>3. Good(0)
  <2>1. [i \in 0 .. 0 |-> Empty] \in [0 .. 0 -> Content]
    BY <1>1
  <2> DEFINE f == [i \in 0 .. 0 |-> Empty]
  <2>2. \A t \in 0 .. 0 : f[t] = IF t = 0 THEN Empty ELSE Step(t, f[t - 1])
    OBVIOUS
  <2> HIDE DEF f
  <2>3. QED
    BY <2>1, <2>2 DEF f
<1>4. ASSUME NEW k \in Task, Good(k - 1)
      PROVE  Good(k)
  <2>1. k \in Nat \ {0}
    BY <1>1 DEF Task
  <2>2. PICK f \in [0 .. k - 1 -> Content] :
               \A t \in 0 .. k - 1 : f[t] = IF t = 0 THEN Empty ELSE Step(t, f[t - 1])
    BY <1>4
  <2> DEFINE g == [t \in 0 .. k |-> IF t = k THEN Step(k, f[k - 1]) ELSE f[t]]
  <2>3. k - 1 \in 0 .. k - 1 /\ Step(k, f[k - 1]) \in Content
    BY <1>2, <2>1
  <2>4. g \in [0 .. k -> Content]
    BY <2>1, <2>3
  <2>5. ASSUME NEW t \in 0 .. k
        PROVE  g[t] = IF t = 0 THEN Empty ELSE Step(t, g[t - 1])
    <3>1. CASE t = k
      <4>1. g[t - 1] = f[k - 1] /\ t # 0
        BY <2>1, <3>1
      <4>2. g[t] = Step(k, f[k - 1])
        BY <3>1
      <4>3. QED
        BY <3>1, <4>1, <4>2
    <3>2. CASE t # k
      <4>1. t \in 0 .. k - 1 /\ g[t] = f[t]
        BY <2>1, <3>2
      <4>2. t # 0 => t - 1 \in 0 .. k /\ t - 1 # k
        BY <2>1, <4>1
      <4>3. t # 0 => g[t - 1] = f[t - 1]
        BY <4>2
      <4>4. QED
        BY <2>2, <4>1, <4>3
    <3>3. QED
      BY <3>1, <3>2
  <2> HIDE DEF g
  <2>6. QED
    BY <2>4, <2>5
<1>5. T = {}
  <2> SUFFICES ASSUME T # {} PROVE FALSE
    OBVIOUS
  <2>1. T \subseteq Nat
    BY <1>1
  <2>2. PICK k \in T : \A j \in T : k <= j
    <3> HIDE DEF T
    <3>1. QED
      BY <2>1, LeastCounterexample
  <2>3. k \in 0 .. NTask /\ ~Good(k)
    OBVIOUS
  <2>4. k # 0
    <3> HIDE DEF Good
    <3>1. QED
      BY <1>3, <2>3
  <2>5. k \in Task /\ k - 1 \in 0 .. NTask /\ ~(k <= k - 1)
    BY <1>1, <2>3, <2>4 DEF Task
  <2>6. Good(k - 1)
    BY <2>2, <2>5
  <2>7. QED
    <3> HIDE DEF Good
    <3>1. QED
      BY <1>4, <2>3, <2>5, <2>6
<1>6. Good(NTask)
  <2>1. NTask \in 0 .. NTask
    BY <1>1
  <2> HIDE DEF Good
  <2>2. QED
    BY <1>5, <2>1
<1>7. PICK f \in [0 .. NTask -> Content] :
             \A t \in 0 .. NTask : f[t] = IF t = 0 THEN Empty ELSE Step(t, f[t - 1])
  BY <1>6
<1>8. f = [t \in 0 .. NTask |-> IF t = 0 THEN Empty ELSE Step(t, f[t - 1])]
  BY <1>7
<1>9. QED
  BY <1>7, <1>8 DEF Content, Step

\* The content after each task is what its body makes of the content before it.
LEMMA SequentialFacts ==
    ASSUME TypeOK
    PROVE  /\ Sequential \in [0 .. NTask -> [Datum -> SUBSET Task]]
           /\ Sequential[0] = Empty
           /\ \A t \in Task : \A d \in Datum :
                Sequential[t][d] = Effect(t, d, Sequential[t - 1][d])
<1> DEFINE IsAfter(f) ==
             f = [t \in 0 .. NTask |-> IF t = 0 THEN Empty
                                       ELSE [d \in Datum |-> Effect(t, d, f[t - 1][d])]]
           after == CHOOSE f : IsAfter(f)
<1>1. PICK f \in [0 .. NTask -> [Datum -> SUBSET Task]] : IsAfter(f)
  BY SequentialExists
<1>2. IsAfter(after)
  BY <1>1, Zenon
<1>3. Sequential = after
  BY DEF Sequential
<1> HIDE DEF after
<1>4. IsAfter(Sequential)
  BY <1>2, <1>3, Zenon
<1> HIDE DEF IsAfter
<1>5. \A t \in 0 .. NTask : Sequential[t] = IF t = 0 THEN Empty
                           ELSE [d \in Datum |-> Effect(t, d, Sequential[t - 1][d])]
  BY <1>4 DEF IsAfter
<1>6. NTask \in Nat
  BY ConstantsAssumption
<1>7. Sequential[0] = Empty
  <2>1. 0 \in 0 .. NTask
    BY <1>6
  <2>2. QED
    BY <1>5, <2>1, Zenon
<1>8. ASSUME NEW t \in Task
      PROVE  /\ t - 1 \in 0 .. NTask
             /\ Sequential[t] = [d \in Datum |-> Effect(t, d, Sequential[t - 1][d])]
  <2>1. t \in 0 .. NTask /\ t # 0 /\ t - 1 \in 0 .. NTask
    BY <1>6 DEF Task
  <2>2. QED
    BY <1>5, <2>1
<1>9. \A t \in 0 .. NTask : Sequential[t] \in [Datum -> SUBSET Task]
  <2> DEFINE T == {t \in 0 .. NTask : Sequential[t] \notin [Datum -> SUBSET Task]}
  <2>1. SUFFICES ASSUME T # {} PROVE FALSE
    OBVIOUS
  <2>2. T \subseteq Nat
    BY <1>6
  <2>3. PICK k \in T : \A j \in T : k <= j
    <3> HIDE DEF T
    <3>1. QED
      BY <2>1, <2>2, LeastCounterexample
  <2>4. k \in 0 .. NTask /\ Sequential[k] \notin [Datum -> SUBSET Task]
    OBVIOUS
  <2>5. k # 0
    BY <1>7, <2>4 DEF Empty
  <2>6. k \in Task /\ k - 1 \in 0 .. NTask /\ ~(k <= k - 1)
    BY <1>6, <2>4, <2>5 DEF Task
  <2>7. Sequential[k - 1] \in [Datum -> SUBSET Task]
    BY <2>3, <2>6
  <2>8. Sequential[k] = [d \in Datum |-> Effect(k, d, Sequential[k - 1][d])]
    BY <1>8, <2>6
  <2>9. \A d \in Datum : Effect(k, d, Sequential[k - 1][d]) \in SUBSET Task
    BY <2>6, <2>7, Modes
  <2>10. QED
    BY <2>4, <2>8, <2>9
<1>10. Sequential \in [0 .. NTask -> [Datum -> SUBSET Task]]
  <2>1. Sequential = [t \in 0 .. NTask |-> IF t = 0 THEN Empty
                      ELSE [d \in Datum |-> Effect(t, d, Sequential[t - 1][d])]]
    BY <1>4, Zenon DEF IsAfter
  <2>2. Sequential = [t \in 0 .. NTask |-> Sequential[t]]
    BY <1>5, <2>1
  <2>3. QED
    BY <1>9, <2>2
<1>11. QED
  BY <1>7, <1>8, <1>10

\* A datum that tasks a + 1 to b at most read is after b what it is after a.
LEMMA SequentialStays ==
    ASSUME TypeOK, NEW d \in Datum, NEW a \in 0 .. NTask, NEW b \in 0 .. NTask, a <= b,
           \A u \in (a + 1) .. b : prog[u][d] \in {"VOID", "R"}
    PROVE  Sequential[b][d] = Sequential[a][d]
<1> DEFINE T == {k \in a .. b : Sequential[k][d] # Sequential[a][d]}
<1>1. NTask \in Nat
  BY ConstantsAssumption
<1>2. SUFFICES ASSUME T # {} PROVE FALSE
  BY <1>1
<1>3. T \subseteq Nat
  BY <1>1
<1>4. PICK k \in T : \A j \in T : k <= j
  <2> HIDE DEF T
  <2>1. QED
    BY <1>2, <1>3, LeastCounterexample
<1>5. k \in a .. b /\ Sequential[k][d] # Sequential[a][d]
  OBVIOUS
<1>6. k # a
  BY <1>5
<1>7. k \in Task /\ k \in (a + 1) .. b /\ k - 1 \in a .. b /\ ~(k <= k - 1)
  BY <1>1, <1>5, <1>6 DEF Task
<1>8. Sequential[k - 1][d] = Sequential[a][d]
  BY <1>4, <1>7
<1>9. Sequential[k][d] = Effect(k, d, Sequential[k - 1][d])
  BY <1>7, SequentialFacts
<1>10. Effect(k, d, Sequential[k - 1][d]) = Sequential[k - 1][d]
  BY <1>7 DEF Effect
<1>11. QED
  BY <1>5, <1>8, <1>9, <1>10

-------------------------------------------------------------------------------
(* Who may have written a datum ahead of the owner.                        *)

\* How many tasks the owner has passed, by where it is.
LEMMA PassedFacts ==
    ASSUME TypeOK, OwnerInv
    PROVE  /\ NTask \in Nat \ {0} /\ pc \in 1 .. (NTask + 1) /\ Passed \in 0 .. NTask
           /\ opc = "after" => Passed = pc /\ pc \in Task
           /\ opc # "after" => Passed = pc - 1
  BY ConstantsAssumption DEF TypeOK, OwnerInv, Passed, Task

\* Who has written ahead of the owner was alone to access the datum so far.
LEMMA NobodyBefore ==
    ASSUME TypeOK, OwnerInv, StolenInv, NEW d \in Datum,
           NEW u \in Task, WroteAhead(u, d), NEW t \in Task, t > Passed, t < u
    PROVE  prog[t][d] = "VOID"
<1>1. MayWrite(u, renamed[u])
  BY DEF StolenInv, WroteAhead, Stolen
<1>2. prog[u][d] \in {"W", "RW"} /\ Untouched(d, u)
  BY <1>1 DEF MayWrite, WroteAhead
<1>3. t \in (Passed + 1) .. (u - 1)
  BY PassedFacts DEF Task
<1>4. QED
  BY <1>2, <1>3 DEF Untouched

\* When the tasks ahead of the owner and before t do not write d, and t, which
\* accesses it, has not written it either, nobody has: it is as t must find it.
LEMMA NotYetWritten ==
    ASSUME TypeOK, OwnerInv, StolenInv, DataInv, NEW d \in Datum,
           NEW t \in Task, t > Passed, OnlyRead(d, t), prog[t][d] # "VOID",
           ~WroteAhead(t, d)
    PROVE  /\ \A u \in Task : ~WroteAhead(u, d)
           /\ data[d] = Sequential[t - 1][d]
<1>1. ASSUME NEW u \in Task, WroteAhead(u, d) PROVE FALSE
  <2>1. u > Passed /\ prog[u][d] \in {"W", "RW", "CW"}
    BY <1>1 DEF WroteAhead
  <2>2. CASE u < t
    <3>1. u \in (Passed + 1) .. (t - 1)
      BY <2>1, <2>2, PassedFacts DEF Task
    <3>2. QED
      BY <2>1, <3>1 DEF OnlyRead
  <2>3. CASE u > t
    <3>1. t < u
      BY <2>3, PassedFacts DEF Task
    <3>2. QED
      BY <1>1, <3>1, NobodyBefore
  <2>4. CASE u = t
    BY <1>1, <2>4
  <2>5. QED
    BY <2>2, <2>3, <2>4, PassedFacts DEF Task
<1>2. data[d] = Sequential[Passed][d]
  BY <1>1 DEF DataInv
<1>3. Passed \in 0 .. NTask /\ t - 1 \in 0 .. NTask /\ Passed <= t - 1
  BY PassedFacts DEF Task
<1>4. \A u \in (Passed + 1) .. (t - 1) : prog[u][d] \in {"VOID", "R"}
  BY DEF OnlyRead
<1>5. Sequential[t - 1][d] = Sequential[Passed][d]
  BY <1>3, <1>4, SequentialStays
<1>6. QED
  BY <1>1, <1>2, <1>5

\* Who finds nobody before it finds no writer before it.
LEMMA UntouchedIsOnlyRead ==
    ASSUME NEW d, NEW t, Untouched(d, t)
    PROVE  OnlyRead(d, t)
  BY DEF Untouched, OnlyRead

\* Nothing stands between the owner and the task it is at.
LEMMA NothingBeforeOwner ==
    ASSUME TypeOK, OwnerInv, opc # "after", NEW d
    PROVE  Untouched(d, pc)
<1>1. (Passed + 1) .. (pc - 1) = {}
  BY PassedFacts
<1>2. QED
  BY <1>1 DEF Untouched

-------------------------------------------------------------------------------
(* What every step keeps.                                                  *)

\* The initial states are well typed.
LEMMA InitType == Init => TypeOK
<1>1. NTask \in Nat \ {0}
  BY ConstantsAssumption
<1>2. QED
  BY <1>1 DEF Init, TypeOK, Empty, Mode

\* Every step keeps the types: a scan stays within the frame.
LEMMA TypeStays ==
    ASSUME TypeOK, OwnerInv, ScanInv, [Next]_vars
    PROVE  TypeOK'
<1>1. NTask \in Nat \ {0}
  BY ConstantsAssumption
<1>2. CASE UNCHANGED vars
  BY <1>2 DEF TypeOK, vars, ownerVars, scanVars, dataVars
<1>3. CASE StartHere \/ PassTerm \/ Block \/ Resume \/ Advance
  <2>1. CASE StartHere \/ PassTerm \/ Block \/ Resume
    BY <1>1, <2>1 DEF TypeOK, StartHere, PassTerm, Block, Resume, OwnerAt, Task, scanVars, dataVars
  <2>2. CASE Advance
    <3>1. pc' \in 1 .. (NTask + 1)
      BY <1>1, <2>2 DEF OwnerInv, Advance, OwnerAt, Task
    <3>2. QED
      BY <2>2, <3>1 DEF TypeOK, Advance, OwnerAt, scanVars, dataVars
  <2>3. QED
    BY <1>3, <2>1, <2>2
<1>4. CASE FinishHere
  <2>1. pc \in Task
    BY <1>4 DEF OwnerInv, FinishHere, OwnerAt
  <2>2. \A d \in Datum : data[d] \in SUBSET Task
    BY DEF TypeOK
  <2>3. \A d \in Datum : Effect(pc, d, data[d]) \in SUBSET Task
    BY <2>1, <2>2, Modes
  <2>4. data' \in [Datum -> SUBSET Task]
    BY <1>4, <2>3 DEF FinishHere
  <2>5. QED
    BY <1>4, <2>4 DEF TypeOK, FinishHere, OwnerAt, scanVars
<1>5. CASE AfterSteal
  <2>1. \A d \in Datum : data[d] \in SUBSET Task /\ version[pc][d] \in SUBSET Task
    BY <1>5 DEF TypeOK, AfterSteal
  <2>2. data' \in [Datum -> SUBSET Task]
    BY <1>5, <2>1 DEF AfterSteal
  <2>3. QED
    BY <1>5, <2>2 DEF TypeOK, AfterSteal, OwnerAt, scanVars
<1>6. CASE BeginScan \/ EndScan
  BY <1>6 DEF TypeOK, BeginScan, EndScan, ownerVars, dataVars, Mode
<1>7. CASE VisitTask
  <2>1. cur \in Task /\ cur' \in 1 .. (NTask + 1) /\ tpc' \in {"idle", "scan", "mark"}
    BY <1>1, <1>7 DEF VisitTask, TypeOK, Task
  <2>2. \A d \in Datum : prog[cur][d] \in Mode \cup {"VOID"}
    BY <2>1, Modes DEF Mode
  <2>3. lastMode' \in [Datum -> Mode \cup {"VOID"}]
    BY <1>7, <2>2 DEF TypeOK, VisitTask, Visit
  <2>4. war' \subseteq Datum
    BY <1>7 DEF TypeOK, VisitTask, WarParams, CwParams, ReadyParams, Params
  <2>5. QED
    BY <1>7, <2>1, <2>3, <2>4 DEF TypeOK, VisitTask, ownerVars, dataVars
<1>8. CASE MarkSteal
  <2>1. cur' \in 1 .. (NTask + 1)
    BY <1>1, <1>8 DEF MarkSteal, ScanInv, Task
  <2>2. QED
    BY <1>8, <2>1 DEF MarkSteal, TypeOK, ownerVars
<1>9. ASSUME NEW t \in Task, StartStolen(t)
      PROVE  TypeOK'
  <2>1. version' \in [Task -> [Datum -> SUBSET Task]]
    BY <1>9 DEF StartStolen, TypeOK, Empty
  <2>2. QED
    BY <1>9, <2>1 DEF StartStolen, TypeOK, ownerVars, scanVars
<1>10. ASSUME NEW t \in Task, FinishStolen(t)
       PROVE  TypeOK'
  <2>1. \A d \in Datum : data[d] \in SUBSET Task /\ version[t][d] \in SUBSET Task
    BY DEF TypeOK
  <2>2. \A d \in Datum : /\ Effect(t, d, data[d]) \in SUBSET Task
                         /\ Effect(t, d, version[t][d]) \in SUBSET Task
    BY <2>1, Modes
  <2>3. data' \in [Datum -> SUBSET Task]
    BY <1>10, <2>1, <2>2 DEF FinishStolen
  <2>4. [d \in Datum |-> IF d \in renamed[t] THEN Effect(t, d, version[t][d]) ELSE version[t][d]]
          \in [Datum -> SUBSET Task]
    BY <2>1, <2>2
  <2>5. version' \in [Task -> [Datum -> SUBSET Task]]
    BY <1>10, <2>4 DEF FinishStolen, TypeOK
  <2>6. QED
    BY <1>10, <2>3, <2>5 DEF FinishStolen, TypeOK, ownerVars, scanVars
<1>11. QED
  BY <1>2, <1>3, <1>4, <1>5, <1>6, <1>7, <1>8, <1>9, <1>10
     DEF Next, OwnerStep, ScanStep, WorkerStep

\* The frame does not change, and the owner does not go back.
StepFacts ==
    /\ prog' = prog
    /\ Sequential' = Sequential
    /\ Passed \in Nat /\ Passed' \in Nat
    /\ Passed <= Passed'

\* The task before the owner's has a number.
LEMMA PassedBehind == \A m \in Nat : m >= 1 => m - 1 \in Nat
  OBVIOUS

\* The same as Sequential, of a given frame.
EffectOf(p, t, d, content) ==
    CASE p[t][d] \in {"VOID", "R"} -> content
      [] p[t][d] = "W" -> {t}
      [] p[t][d] \in {"RW", "CW"} -> content \cup {t}

SequentialOf(p) ==
    LET after[t \in 0..NTask] ==
            IF t = 0 THEN Empty
            ELSE [d \in Datum |-> EffectOf(p, t, d, after[t - 1][d])]
    IN after

\* No step changes the frame or takes the owner back.
LEMMA StepIsForward ==
    ASSUME TypeOK, OwnerInv, ScanInv, [Next]_vars
    PROVE  StepFacts
<1>1. prog' = prog
  BY DEF Next, OwnerStep, ScanStep, WorkerStep, vars, StartHere, FinishHere, PassTerm, AfterSteal,
         Block, Resume, Advance, BeginScan, VisitTask, MarkSteal, EndScan, StartStolen, FinishStolen
<1>2. Sequential' = Sequential
  <2>1. Sequential = SequentialOf(prog) /\ Sequential' = SequentialOf(prog')
    BY Zenon DEF Sequential, SequentialOf, Effect, EffectOf, Empty
  <2>2. QED
    BY <1>1, <2>1
<1>3. TypeOK'
  BY TypeStays
<1>4. Passed' \in Nat
  <2>1. pc' \in Nat /\ pc' >= 1
    BY <1>3, ConstantsAssumption DEF TypeOK
  <2>2. CASE opc' = "after"
    BY <2>1, <2>2 DEF Passed
  <2>3. CASE opc' # "after"
    <3>1. Passed' = pc' - 1
      BY <2>3 DEF Passed
    <3>2. PICK m \in Nat : m = pc' /\ m >= 1
      BY <2>1
    <3>3. m - 1 \in Nat
      BY <3>2, PassedBehind
    <3>4. QED
      BY <3>1, <3>2, <3>3, Zenon
  <2>4. QED
    BY <2>2, <2>3
<1>5. Passed <= Passed'
  <2>1. \/ pc' = pc /\ opc' = opc
        \/ pc' = pc /\ opc # "after"
        \/ pc' = pc + 1 /\ opc = "after"
    BY DEF Next, OwnerStep, ScanStep, WorkerStep, vars, StartHere, FinishHere, PassTerm, AfterSteal,
           Block, Resume, Advance, BeginScan, VisitTask, MarkSteal, EndScan, StartStolen,
           FinishStolen, OwnerAt, ownerVars
  <2>2. pc \in Nat
    BY DEF TypeOK
  <2>3. QED
    BY <2>1, <2>2 DEF Passed
<1>6. QED
  BY <1>1, <1>2, <1>4, <1>5, PassedFacts DEF StepFacts

\* Fewer tasks are ahead of an owner that is farther.
LEMMA SubRange ==
    ASSUME NEW m \in Nat, NEW n \in Nat, NEW t \in Nat, m <= n
    PROVE  (n + 1) .. (t - 1) \subseteq (m + 1) .. (t - 1)
  OBVIOUS

\* The same, of the owner.
LEMMA AheadShrinks ==
    ASSUME StepFacts, NEW t \in Nat
    PROVE  \A u \in (Passed' + 1) .. (t - 1) : u \in (Passed + 1) .. (t - 1)
<1>1. PICK m \in Nat, n \in Nat : m = Passed /\ n = Passed' /\ m <= n
  BY DEF StepFacts
<1>2. (n + 1) .. (t - 1) \subseteq (m + 1) .. (t - 1)
  BY <1>1, SubRange
<1>3. QED
  BY <1>1, <1>2, Zenon

\* What nobody accesses, or writes, ahead of the owner stays so as the owner goes on.
LEMMA UntouchedStays ==
    ASSUME StepFacts, NEW d, NEW t \in Nat
    PROVE  /\ Untouched(d, t) => Untouched(d, t)'
           /\ OnlyRead(d, t) => OnlyRead(d, t)'
<1>1. prog' = prog
  BY DEF StepFacts
<1>2. QED
  BY <1>1, AheadShrinks DEF Untouched, OnlyRead

\* What lets a task run ahead holds until the owner is there.
LEMMA MayStays ==
    ASSUME StepFacts, NEW t \in Nat, NEW r
    PROVE  /\ MayWrite(t, r) => MayWrite(t, r)'
           /\ MayRead(t, r) => MayRead(t, r)'
<1>1. prog' = prog
  BY DEF StepFacts
<1>2. QED
  BY <1>1, UntouchedStays DEF MayWrite, CopiesOf, MayRead

\* The first reader of the map stays the first.
LEMMA FirstReaderStays ==
    ASSUME StepFacts, NEW d, NEW t \in Nat, FirstReader(d, t)
    PROVE  FirstReader(d, t)'
<1>1. prog' = prog
  BY DEF StepFacts
<1>2. \A u \in (Passed' + 1) .. (t - 1) : u \in (Passed + 1) .. (t - 1)
  BY AheadShrinks
<1>3. QED
  BY <1>1, <1>2 DEF FirstReader

\* The map stays true as the owner goes on.
LEMMA MapStays ==
    ASSUME StepFacts, lastMode' = lastMode, NEW t \in Nat, MapInv(t)
    PROVE  MapInv(t)'
  BY UntouchedStays, FirstReaderStays DEF MapInv

\* The owner's side.
LEMMA InitOwner == Init => OwnerInv
<1>1. NTask \in Nat \ {0}
  BY ConstantsAssumption
<1>2. QED
  BY <1>1 DEF Init, OwnerInv, Passed, Task

\* A task is the owner's or a thief's, and its word says which.
LEMMA OwnerStays ==
    ASSUME TypeOK, OwnerInv, ScanInv, [Next]_vars
    PROVE  OwnerInv'
<1>1. /\ NTask \in Nat \ {0} /\ pc \in 1 .. (NTask + 1) /\ fpc \in 1 .. (NTask + 1)
      /\ status \in [Task -> {"init", "exec", "stolen", "running", "term", "merge"}]
      /\ renamed \in [Task -> SUBSET Datum]
  BY ConstantsAssumption DEF TypeOK
<1> USE <1>1 DEF OwnerInv, Passed
<1>2. CASE UNCHANGED vars
  BY <1>2 DEF vars, ownerVars, dataVars
<1>3. CASE BeginScan \/ EndScan \/ VisitTask
  BY <1>3 DEF BeginScan, EndScan, VisitTask, ownerVars, dataVars
<1>4. CASE StartHere
  BY <1>4 DEF StartHere, OwnerAt, Task, dataVars
<1>5. CASE FinishHere \/ PassTerm \/ AfterSteal
  BY <1>5 DEF FinishHere, PassTerm, AfterSteal, OwnerAt, Task, dataVars
<1>6. CASE Block \/ Resume \/ Advance
  BY <1>6 DEF Block, Resume, Advance, OwnerAt, Task, dataVars
<1>7. CASE MarkSteal
  <2>1. cur \in Task
    BY <1>7 DEF MarkSteal, ScanInv
  <2>2. QED
    BY <1>7, <2>1 DEF MarkSteal, Task, ownerVars
<1>8. ASSUME NEW t \in Task, StartStolen(t) \/ FinishStolen(t)
      PROVE  OwnerInv'
  BY <1>8 DEF StartStolen, FinishStolen, Task, ownerVars
<1>9. QED
  BY <1>2, <1>3, <1>4, <1>5, <1>6, <1>7, <1>8 DEF Next, OwnerStep, ScanStep, WorkerStep

-------------------------------------------------------------------------------
(* What the scan of a thief knows of the tasks it has walked over.         *)

\* The access modes of the task that is visited enter the map where it is empty.
LEMMA VisitKeepsMap ==
    ASSUME TypeOK, OwnerInv, StepFacts, Passed' = Passed, NEW t \in Task, MapInv(t), Visit(t)
    PROVE  MapInv(t + 1)'
<1>1. t \in Nat /\ Passed \in Nat /\ prog' = prog
  BY ConstantsAssumption DEF TypeOK, StepFacts, Task
<1>2. \A u \in (Passed' + 1) .. (t + 1 - 1) : u \in (Passed + 1) .. (t - 1) \/ u = t
  <2>1. \A u \in (Passed + 1) .. (t + 1 - 1) : u \in (Passed + 1) .. (t - 1) \/ u = t
    BY <1>1
  <2>2. QED
    BY <2>1
<1>3. SUFFICES ASSUME NEW d \in Datum
               PROVE  /\ lastMode'[d] = "VOID" => Untouched(d, t + 1)'
                      /\ lastMode'[d] = "R" => FirstReader(d, t + 1)'
  BY DEF MapInv
<1>4. lastMode'[d] = IF lastMode[d] = "VOID" THEN prog[t][d] ELSE lastMode[d]
  BY DEF Visit
<1>5. /\ lastMode[d] = "VOID" => Untouched(d, t)
      /\ lastMode[d] = "R" => FirstReader(d, t)
  BY DEF MapInv
<1>6. CASE lastMode[d] = "VOID"
  <2>1. \A u \in (Passed + 1) .. (t - 1) : prog[u][d] = "VOID"
    BY <1>5, <1>6 DEF Untouched
  <2>2. \A u \in (Passed' + 1) .. (t + 1 - 1) : prog'[u][d] # "VOID" => u = t
    BY <1>1, <1>2, <2>1
  <2>3. t < t + 1 /\ t <= t
    BY <1>1
  <2>4. prog[t][d] = "VOID" => Untouched(d, t + 1)'
    BY <1>1, <2>2 DEF Untouched
  <2>5. prog[t][d] = "R" => FirstReader(d, t + 1)'
    BY <1>1, <2>2, <2>3 DEF FirstReader
  <2>6. QED
    BY <1>4, <1>6, <2>4, <2>5
<1>7. CASE lastMode[d] # "VOID"
  <2>1. SUFFICES ASSUME FirstReader(d, t) PROVE FirstReader(d, t + 1)'
    BY <1>4, <1>5, <1>7
  <2>2. PICK i \in Task : /\ i < t /\ prog[i][d] = "R"
                          /\ \A u \in (Passed + 1) .. (t - 1) : prog[u][d] # "VOID" => i <= u
    BY <2>1 DEF FirstReader
  <2>3. i < t + 1 /\ i <= t
    BY <1>1, <2>2 DEF Task
  <2>4. \A u \in (Passed' + 1) .. (t + 1 - 1) : prog'[u][d] # "VOID" => i <= u
    BY <1>1, <1>2, <2>2, <2>3
  <2>5. QED
    BY <1>1, <2>2, <2>3, <2>4 DEF FirstReader
<1>8. QED
  BY <1>6, <1>7

\* A task whose parameters are all ready, and that gets copies of those that the
\* scan has put in its war_param and cw_param, may run ahead of the owner.
LEMMA ReadyMayWrite ==
    ASSUME TypeOK, NEW t \in Task, MapInv(t), ReadyParams(t) = Params(t)
    PROVE  MayWrite(t, WarParams(t) \cup CwParams(t))
<1> DEFINE r == WarParams(t) \cup CwParams(t)
<1>1. \A d \in Datum : prog[t][d] \in {"R", "W", "RW", "CW", "VOID"}
  BY Modes
<1>2. CopiesOf(t, r)
  BY DEF CopiesOf, WarParams, CwParams, ReadyParams, IsOnlyWrite, IsCumulWrite
<1>3. ASSUME NEW d \in Datum \ r
      PROVE  prog[t][d] # "CW" /\ (prog[t][d] \in {"W", "RW"} => Untouched(d, t))
  <2>1. prog[t][d] # "VOID" => d \in ReadyParams(t)
    BY DEF Params
  <2>2. prog[t][d] # "CW"
    BY <1>3, <2>1 DEF CwParams, IsCumulWrite
  <2>3. ASSUME prog[t][d] \in {"W", "RW"} PROVE lastMode[d] = "VOID"
    BY <1>3, <2>1, <2>3 DEF WarParams, ReadyParams, Params, IsOnlyWrite, IsConcurrent
  <2>4. QED
    BY <2>2, <2>3 DEF MapInv
<1>4. QED
  BY <1>2, <1>3 DEF MayWrite

\* What the scan knows stays true, and covers the task it has just visited.
LEMMA ScanStays ==
    ASSUME TypeOK, OwnerInv, ScanInv, [Next]_vars
    PROVE  ScanInv'
<1>1. StepFacts
  BY StepIsForward
<1>2. cur \in Nat /\ fpc \in Nat /\ pc \in Nat
  BY DEF TypeOK
<1>3. CASE UNCHANGED <<scanVars, prog>> \/ \E t \in Task : StartStolen(t) \/ FinishStolen(t)
  <2>1. tpc' = tpc /\ cur' = cur /\ lastMode' = lastMode /\ war' = war
    BY <1>3 DEF StartStolen, FinishStolen, scanVars
  <2>2. PICK c \in Nat : c = cur /\ c + 1 \in Nat
    BY <1>2
  <2>3. tpc = "scan" => MapInv(c)'
    BY <1>1, <2>1, <2>2, MapStays DEF ScanInv
  <2>4. tpc = "mark" => MapInv(c + 1)' /\ MayWrite(c, war)'
    BY <1>1, <2>1, <2>2, MapStays, MayStays DEF ScanInv
  <2>5. MapInv(c)' => MapInv(cur)'
    BY <2>1, <2>2 DEF MapInv, Untouched, FirstReader
  <2>6. MapInv(c + 1)' => MapInv(cur + 1)'
    BY <2>1, <2>2 DEF MapInv, Untouched, FirstReader
  <2>7. MayWrite(c, war)' => MayWrite(cur, war)'
    BY <2>1, <2>2 DEF MayWrite, CopiesOf, Untouched
  <2>8. QED
    BY <2>1, <2>3, <2>4, <2>5, <2>6, <2>7 DEF ScanInv
<1>4. CASE BeginScan
  <2>1. tpc' = "scan" /\ Passed' = Passed /\ lastMode' = [d \in Datum |-> "VOID"] /\ cur' = fpc
    BY <1>4 DEF BeginScan, Passed, ownerVars
  <2>2. (Passed + 1) .. (fpc - 1) = {}
    BY <1>2, PassedFacts DEF OwnerInv
  <2>3. MapInv(cur)'
    BY <2>1, <2>2 DEF MapInv, Untouched, FirstReader
  <2>4. QED
    BY <2>1, <2>3 DEF ScanInv
<1>5. CASE EndScan
  BY <1>5 DEF EndScan, ScanInv
<1>6. CASE VisitTask
  <2>1. /\ cur \in Task /\ MapInv(cur) /\ Visit(cur) /\ Passed' = Passed
    BY <1>6 DEF VisitTask, ScanInv, Passed, ownerVars
  <2>2. PICK c \in Task : c = cur
    BY <2>1
  <2>3. MapInv(c + 1)'
    BY <1>1, <2>1, <2>2, VisitKeepsMap
  <2>4. CASE tpc' = "mark" /\ cur' = cur /\ ReadyParams(cur) = Params(cur)
             /\ war' = WarParams(cur) \cup CwParams(cur)
    <3>1. PICK r : r = war'
      OBVIOUS
    <3>2. MayWrite(c, r)
      BY <2>1, <2>2, <2>4, <3>1, ReadyMayWrite
    <3>3. c \in Nat
      BY <1>2, <2>2
    <3>4. MayWrite(c, r)'
      BY <1>1, <3>2, <3>3, MayStays
    <3>5. MayWrite(cur, war)'
      BY <2>2, <2>4, <3>1, <3>4 DEF MayWrite, CopiesOf, Untouched
    <3>6. MapInv(cur + 1)'
      BY <2>2, <2>3, <2>4 DEF MapInv, Untouched, FirstReader
    <3>7. QED
      BY <2>1, <2>2, <2>4, <3>5, <3>6 DEF ScanInv
  <2>5. CASE tpc' = "scan" /\ cur' = cur + 1
    <3>1. MapInv(cur)'
      BY <2>2, <2>3, <2>5 DEF MapInv, Untouched, FirstReader
    <3>2. QED
      BY <2>5, <3>1 DEF ScanInv
  <2>6. QED
    BY <1>6, <2>4, <2>5 DEF VisitTask
<1>7. CASE MarkSteal
  <2>1. /\ cur \in Task /\ MapInv(cur + 1) /\ tpc' = "scan" /\ cur' = cur + 1
        /\ lastMode' = lastMode /\ Passed' = Passed /\ prog' = prog
    BY <1>7 DEF MarkSteal, ScanInv, Passed, ownerVars
  <2>2. MapInv(cur)'
    BY <2>1 DEF MapInv, Untouched, FirstReader
  <2>3. QED
    BY <2>1, <2>2 DEF ScanInv
<1>8. QED
  <2>1. OwnerStep \/ UNCHANGED vars => UNCHANGED <<scanVars, prog>>
    BY DEF OwnerStep, StartHere, FinishHere, PassTerm, AfterSteal, Block, Resume, Advance, vars
  <2>2. QED
    BY <1>3, <1>4, <1>5, <1>6, <1>7, <2>1 DEF Next, ScanStep, WorkerStep

-------------------------------------------------------------------------------
(* What a stolen task may do ahead of the owner.                           *)

\* The copies of a task are those of the scan that has marked it.
LEMMA CopiesStay ==
    ASSUME TypeOK, [Next]_vars, NEW t \in Task, status'[t] \in Stolen
    PROVE  \/ status[t] \in Stolen /\ renamed'[t] = renamed[t]
           \/ MarkSteal /\ t = cur /\ renamed'[t] = war
<1>1. CASE MarkSteal
  BY <1>1 DEF MarkSteal, TypeOK
<1>2. CASE ~MarkSteal
  BY <1>2 DEF Next, OwnerStep, ScanStep, WorkerStep, vars, StartHere, FinishHere, PassTerm,
         AfterSteal, Block, Resume, Advance, BeginScan, VisitTask, EndScan, StartStolen,
         FinishStolen, dataVars, TypeOK, Stolen
<1>3. QED
  BY <1>1, <1>2

\* Who was stolen because it may run ahead still may.
LEMMA StolenStays ==
    ASSUME TypeOK, OwnerInv, ScanInv, StolenInv, [Next]_vars
    PROVE  StolenInv'
<1>1. StepFacts
  BY StepIsForward
<1>2. SUFFICES ASSUME NEW t \in Task, t > Passed', status'[t] \in Stolen,
                      NEW r, r = renamed'[t]
               PROVE  MayWrite(t, r)'
  BY DEF StolenInv, MayWrite, CopiesOf, Untouched, Stolen
<1>3. t \in Nat /\ t > Passed
  BY <1>1, <1>2, ConstantsAssumption DEF StepFacts, Task
<1>4. MayWrite(t, r)
  <2>1. CASE status[t] \in Stolen /\ r = renamed[t]
    BY <1>3, <2>1 DEF StolenInv
  <2>2. CASE MarkSteal /\ t = cur /\ r = war
    BY <2>2 DEF MarkSteal, ScanInv
  <2>3. QED
    BY <1>2, <2>1, <2>2, CopiesStay
<1>5. QED
  BY <1>1, <1>3, <1>4, MayStays

-------------------------------------------------------------------------------
(* The content of the data.                                                *)

\* What the invariant says of one datum and of one copy.
DatumInv(d) ==
    /\ (\A t \in Task : ~WroteAhead(t, d)) => data[d] = Sequential[Passed][d]
    /\ \A t \in Task : WroteAhead(t, d) => data[d] = Sequential[t][d]

CopyInv(t) ==
    \A d \in renamed[t] :
        /\ status[t] = "running" => version[t][d] = {}
        /\ status[t] = "merge" => version[t][d] = {t}

\* A datum nobody touches keeps its relation to the sequential execution.
LEMMA DatumStays ==
    ASSUME StepFacts, Passed' = Passed, data' = data, NEW d, DatumInv(d),
           \A t \in Task : WroteAhead(t, d)' <=> WroteAhead(t, d)
    PROVE  DatumInv(d)'
  BY DEF StepFacts, DatumInv

\* Steps that neither finish a task nor pass one.
QuietStep ==
    \/ StartHere \/ Block \/ Resume \/ Advance
    \/ BeginScan \/ ScanStep
    \/ \E t \in Task : StartStolen(t)
    \/ UNCHANGED vars

\* Such a step leaves the data as they are, and nobody gets or loses a place ahead.
LEMMA QuietKeepsData ==
    ASSUME TypeOK, OwnerInv, ScanInv, DataInv, [Next]_vars, QuietStep
    PROVE  DataInv'
<1>1. StepFacts
  BY StepIsForward
<1>2. Passed' = Passed
  <2>1. pc \in Nat
    BY DEF TypeOK
  <2>2. QED
    BY <2>1 DEF QuietStep, ScanStep, vars, StartHere, Block, Resume, Advance, BeginScan, VisitTask,
           MarkSteal, EndScan, StartStolen, OwnerAt, ownerVars, Passed
<1>3. data' = data
  BY DEF QuietStep, ScanStep, vars, StartHere, Block, Resume, Advance, BeginScan, VisitTask,
         MarkSteal, EndScan, StartStolen, dataVars
<1>4. ASSUME NEW t \in Task
      PROVE  \/ status'[t] = status[t] /\ renamed'[t] = renamed[t]
             \/ {status[t], status'[t]} \cap {"term", "merge"} = {}
  BY DEF QuietStep, ScanStep, vars, StartHere, Block, Resume, Advance, BeginScan, VisitTask,
         MarkSteal, EndScan, StartStolen, dataVars, TypeOK
<1>5. ASSUME NEW t \in Task, NEW d \in Datum
      PROVE  WroteAhead(t, d)' <=> WroteAhead(t, d)
  BY <1>1, <1>2, <1>4 DEF StepFacts, WroteAhead
<1>6. \A d \in Datum : DatumInv(d)'
  BY <1>1, <1>2, <1>3, <1>5, DatumStays DEF DataInv, DatumInv
<1>7. ASSUME NEW t \in Task
      PROVE  CopyInv(t)'
  <2>1. CopyInv(t)
    BY DEF DataInv, CopyInv
  <2>2. CASE StartStolen(t)
    BY <2>2 DEF StartStolen, CopyInv, Empty, TypeOK
  <2>3. CASE ~StartStolen(t)
    <3>1. /\ version'[t] = version[t]
          /\ status'[t] \in {"running", "merge"} => status'[t] = status[t]
          /\ renamed'[t] = renamed[t] \/ status'[t] = "stolen"
      BY <2>3 DEF QuietStep, ScanStep, vars, StartHere, Block, Resume, Advance, BeginScan,
             VisitTask, MarkSteal, EndScan, StartStolen, dataVars, TypeOK
    <3>2. QED
      BY <2>1, <3>1 DEF CopyInv
  <2>4. QED
    BY <2>2, <2>3
<1>8. QED
  BY <1>6, <1>7 DEF DataInv, DatumInv, CopyInv

\* A stolen task that ends has found in place what the tasks before it leave.
LEMMA FinishKeepsData ==
    ASSUME TypeOK, OwnerInv, ScanInv, StolenInv, DataInv, NEW t \in Task, FinishStolen(t)
    PROVE  DataInv'
<1>1. StepFacts
  BY StepIsForward DEF Next, WorkerStep
<1>2. /\ Passed' = Passed /\ renamed' = renamed /\ prog' = prog /\ status[t] = "running"
      /\ t > Passed
  <2>1. status[t] = "running" /\ ~(t <= Passed)
    BY DEF FinishStolen, OwnerInv
  <2>2. t \in Nat /\ Passed \in Nat
    BY <1>1, ConstantsAssumption DEF StepFacts, Task
  <2>3. QED
    BY <2>1, <2>2 DEF FinishStolen, Passed, ownerVars
<1>3. MayWrite(t, renamed[t])
  BY <1>2 DEF StolenInv, Stolen
<1>4. \A u \in Task : u # t => status'[u] = status[u]
  BY DEF FinishStolen, TypeOK
<1>5. status'[t] \in {"term", "merge"}
  BY DEF FinishStolen, TypeOK
<1>6. ASSUME NEW u \in Task, NEW d \in Datum, u # t
      PROVE  WroteAhead(u, d)' <=> WroteAhead(u, d)
  BY <1>2, <1>4, <1>6 DEF WroteAhead
<1>7. ASSUME NEW d \in Datum
      PROVE  WroteAhead(t, d)' <=> d \notin renamed[t] /\ prog[t][d] \in {"W", "RW", "CW"}
  BY <1>2, <1>5 DEF WroteAhead
<1>8. ASSUME NEW d \in Datum
      PROVE  ~WroteAhead(t, d)
  BY <1>2 DEF WroteAhead
<1>9. \A d \in Datum : prog[t][d] \in {"R", "W", "RW", "CW", "VOID"}
  BY Modes
<1>10. ASSUME NEW d \in Datum
       PROVE  DatumInv(d)'
  <2>1. data'[d] = IF d \in renamed[t] THEN data[d] ELSE Effect(t, d, data[d])
    BY DEF FinishStolen
  <2>2. DatumInv(d)
    BY DEF DataInv, DatumInv
  <2>3. CASE d \in renamed[t] \/ prog[t][d] \in {"VOID", "R"}
    <3>1. data'[d] = data[d]
      BY <2>1, <2>3 DEF Effect
    <3>2. \A u \in Task : WroteAhead(u, d)' <=> WroteAhead(u, d)
      BY <1>6, <1>7, <1>8, <2>3
    <3>3. QED
      BY <1>1, <1>2, <2>2, <3>1, <3>2 DEF StepFacts, DatumInv
  <2>4. CASE ~(d \in renamed[t] \/ prog[t][d] \in {"VOID", "R"})
    <3>1. Untouched(d, t)
      BY <1>3, <1>9, <2>4 DEF MayWrite
    <3>2. /\ \A u \in Task : ~WroteAhead(u, d)
          /\ data[d] = Sequential[t - 1][d]
      BY <1>2, <1>8, <2>4, <3>1, UntouchedIsOnlyRead, NotYetWritten
    <3>3. data'[d] = Effect(t, d, Sequential[t - 1][d])
      BY <2>1, <2>4, <3>2
    <3>4. data'[d] = Sequential[t][d]
      BY <3>3, SequentialFacts
    <3>5. \A u \in Task : WroteAhead(u, d)' <=> u = t
      BY <1>6, <1>7, <1>9, <2>4, <3>2
    <3>6. QED
      BY <1>1, <3>4, <3>5 DEF StepFacts, DatumInv
  <2>5. QED
    BY <2>3, <2>4
<1>11. ASSUME NEW u \in Task
       PROVE  CopyInv(u)'
  <2>1. CopyInv(u)
    BY DEF DataInv, CopyInv
  <2>2. CASE u = t
    <3>1. SUFFICES ASSUME NEW d \in renamed[t] PROVE version'[t][d] = {t}
      BY <1>2, <1>5, <2>2 DEF CopyInv
    <3>2. d \in Datum /\ version[t][d] = {} /\ prog[t][d] \in {"W", "CW"}
      BY <1>2, <1>3, <2>1, <2>2, <3>1 DEF TypeOK, CopyInv, MayWrite, CopiesOf
    <3>3. version'[t][d] = Effect(t, d, version[t][d])
      BY <3>1, <3>2 DEF FinishStolen, TypeOK
    <3>4. QED
      BY <3>2, <3>3 DEF Effect
  <2>3. CASE u # t
    <3>1. version'[u] = version[u]
      BY <2>3 DEF FinishStolen, TypeOK
    <3>2. QED
      BY <1>2, <1>4, <2>1, <2>3, <3>1 DEF CopyInv
  <2>4. QED
    BY <2>2, <2>3
<1>12. QED
  BY <1>10, <1>11 DEF DataInv, DatumInv, CopyInv

\* The owner passes its task: the data are what the sequential execution makes of
\* them, as a copy is what its task alone makes of nothing.
LEMMA PassKeepsData ==
    ASSUME TypeOK, OwnerInv, ScanInv, StolenInv, DataInv, FinishHere \/ PassTerm \/ AfterSteal
    PROVE  DataInv'
<1>1. StepFacts
  BY StepIsForward DEF Next, OwnerStep
<1>2. /\ pc \in Task /\ Passed = pc - 1 /\ Passed' = pc /\ opc # "after"
      /\ prog' = prog /\ status' = status /\ renamed' = renamed /\ version' = version
  <2>1. opc \in {"fetch", "body"} /\ opc' = "after" /\ pc' = pc /\ pc \in Task
    BY DEF FinishHere, PassTerm, AfterSteal, OwnerAt, OwnerInv
  <2>2. Passed = pc - 1 /\ Passed' = pc
    BY <2>1 DEF Passed
  <2>3. QED
    BY <2>1, <2>2 DEF FinishHere, PassTerm, AfterSteal, dataVars
<1>3. PICK t \in Task : t = pc
  BY <1>2
<1>4. t \in Nat /\ t > Passed /\ t - 1 = Passed
  BY <1>2, <1>3, PassedFacts DEF Task
<1>5. \A u \in Task : \A d \in Datum : WroteAhead(u, d)' <=> u # t /\ WroteAhead(u, d)
  BY <1>2, <1>3, <1>4, PassedFacts DEF WroteAhead, Task
<1>6. \A d \in Datum : prog[t][d] \in {"R", "W", "RW", "CW", "VOID"}
  BY Modes
<1>7. \A d \in Datum : Sequential[t][d] = Effect(t, d, Sequential[t - 1][d])
  BY SequentialFacts
\* Nobody who accesses d comes before the task of the owner.
<1>8. ASSUME NEW d \in Datum, prog[t][d] # "VOID", ~WroteAhead(t, d)
      PROVE  (\A u \in Task : ~WroteAhead(u, d)) /\ data[d] = Sequential[t - 1][d]
  <2>1. OnlyRead(d, t)
    BY <1>2, <1>3, NothingBeforeOwner, UntouchedIsOnlyRead
  <2>2. QED
    BY <1>4, <1>8, <2>1, NotYetWritten
\* What is done in place by the owner, and what becomes of a copy.
<1>9. ASSUME NEW d \in Datum
      PROVE  \/ data'[d] = Effect(t, d, data[d]) /\ ~WroteAhead(t, d)
             \/ data'[d] = data[d] /\ (prog[t][d] \in {"VOID", "R"} \/ WroteAhead(t, d))
  <2>1. CASE FinishHere
    <3>1. status[t] = "exec"
      BY <1>3, <1>4, <2>1 DEF OwnerInv, FinishHere, OwnerAt
    <3>2. QED
      BY <1>3, <2>1, <3>1 DEF FinishHere, WroteAhead
  <2>2. CASE PassTerm
    <3>1. status[t] = "term" /\ renamed[t] = {}
      BY <1>3, <2>2 DEF OwnerInv, PassTerm
    <3>2. QED
      BY <1>4, <1>6, <2>2, <3>1 DEF PassTerm, dataVars, WroteAhead
  <2>3. CASE AfterSteal
    <3>1. status[t] = "merge" /\ MayWrite(t, renamed[t])
      BY <1>3, <1>4, <2>3 DEF StolenInv, Stolen, AfterSteal
    <3>2. CASE d \notin renamed[t]
      <4>1. data'[d] = data[d]
        BY <1>3, <2>3, <3>2 DEF AfterSteal
      <4>2. QED
        BY <1>4, <1>6, <3>1, <3>2, <4>1 DEF WroteAhead
    <3>3. CASE d \in renamed[t]
      <4>1. version[t][d] = {t} /\ prog[t][d] \in {"W", "CW"}
        BY <3>1, <3>3 DEF DataInv, MayWrite, CopiesOf
      <4>2. data'[d] = Effect(t, d, data[d])
        BY <1>3, <2>3, <3>3, <4>1 DEF AfterSteal, Effect, IsCumulWrite
      <4>3. QED
        BY <3>3, <4>2 DEF WroteAhead
    <3>4. QED
      BY <3>2, <3>3
  <2>4. QED
    BY <2>1, <2>2, <2>3
<1>10. ASSUME NEW d \in Datum
       PROVE  DatumInv(d)'
  <2>1. DatumInv(d)
    BY DEF DataInv, DatumInv
  <2>2. CASE prog[t][d] = "VOID"
    <3>1. data'[d] = data[d] /\ Sequential[t][d] = Sequential[t - 1][d] /\ ~WroteAhead(t, d)
      BY <1>7, <1>9, <2>2 DEF Effect, WroteAhead
    <3>2. QED
      BY <1>1, <1>2, <1>3, <1>4, <1>5, <2>1, <3>1 DEF StepFacts, DatumInv
  <2>3. CASE prog[t][d] # "VOID" /\ ~WroteAhead(t, d)
    <3>1. (\A u \in Task : ~WroteAhead(u, d)) /\ data[d] = Sequential[t - 1][d]
      BY <1>8, <2>3
    <3>2. data'[d] = Effect(t, d, data[d])
      BY <1>9, <2>3 DEF Effect
    <3>3. data'[d] = Sequential[t][d]
      BY <1>7, <3>1, <3>2
    <3>4. QED
      BY <1>1, <1>2, <1>3, <1>5, <3>1, <3>3 DEF StepFacts, DatumInv
  <2>4. CASE prog[t][d] # "VOID" /\ WroteAhead(t, d)
    <3>1. data'[d] = data[d]
      BY <1>9, <2>4
    <3>2. data[d] = Sequential[t][d]
      BY <2>1, <2>4 DEF DatumInv
    <3>3. ASSUME NEW u \in Task, WroteAhead(u, d), u # t PROVE FALSE
      <4>1. t < u
        BY <1>2, <1>3, <1>4, <3>3, PassedFacts DEF WroteAhead, Task
      <4>2. QED
        BY <1>4, <2>4, <3>3, <4>1, NobodyBefore
    <3>4. QED
      BY <1>1, <1>2, <1>3, <1>5, <3>1, <3>2, <3>3 DEF StepFacts, DatumInv
  <2>5. QED
    BY <2>2, <2>3, <2>4
<1>11. \A u \in Task : CopyInv(u)'
  BY <1>2 DEF DataInv, CopyInv
<1>12. QED
  BY <1>10, <1>11 DEF DataInv, DatumInv, CopyInv

\* Every step keeps the data what the sequential execution makes of them.
LEMMA DataStays ==
    ASSUME TypeOK, OwnerInv, ScanInv, StolenInv, DataInv, [Next]_vars
    PROVE  DataInv'
  BY QuietKeepsData, FinishKeepsData, PassKeepsData DEF Next, OwnerStep, WorkerStep, QuietStep

-------------------------------------------------------------------------------
(* The theorems.                                                           *)

\* A frame starts with nothing done.
LEMMA InitInv == Init => IndInv /\ ReadInv
<1>1. SUFFICES ASSUME Init PROVE IndInv /\ ReadInv
  OBVIOUS
<1>2. TypeOK /\ OwnerInv
  BY <1>1, InitType, InitOwner
<1>3. \A t \in Task : status[t] = "init" /\ renamed[t] = {}
  BY <1>1 DEF Init
<1>4. ScanInv /\ StolenInv /\ ReadInv
  BY <1>1, <1>3 DEF Init, ScanInv, StolenInv, ReadInv, Stolen
<1>5. DataInv
  <2>1. Passed = 0
    BY <1>1 DEF Init, Passed
  <2>2. Sequential[0] = data
    BY <1>1, <1>2, SequentialFacts DEF Init
  <2>3. \A t \in Task : \A d \in Datum : ~WroteAhead(t, d)
    BY <1>3 DEF WroteAhead
  <2>4. QED
    BY <1>3, <2>1, <2>2, <2>3 DEF DataInv
<1>6. QED
  BY <1>2, <1>4, <1>5 DEF IndInv

\* Each step keeps each part of the invariant from the parts before it.
LEMMA NextInv == IndInv /\ [Next]_vars => IndInv'
<1>1. SUFFICES ASSUME IndInv, [Next]_vars PROVE IndInv'
  OBVIOUS
<1>2. TypeOK /\ OwnerInv /\ ScanInv /\ StolenInv /\ DataInv
  BY <1>1 DEF IndInv
<1>3. TypeOK' /\ OwnerInv' /\ ScanInv' /\ StolenInv' /\ DataInv'
  BY <1>1, <1>2, TypeStays, OwnerStays, ScanStays, StolenStays, DataStays
<1>4. QED
  BY <1>3 DEF IndInv

\* The invariant holds in every reachable state.
LEMMA Invariance == Spec => []IndInv
  BY InitInv, NextInv, PTL DEF Spec

\* The scan of kaapi_task_computeready, the claims of tasks and the pop of the owner
\* stay within the frame, and the content of a datum is a set of tasks of the frame.
THEOREM FrameIsWellTyped == Spec => []TypeOK
<1>1. IndInv => TypeOK
  BY DEF IndInv
<1>2. QED
  BY <1>1, Invariance, PTL

\* Behind the owner the data are what the tasks it has passed make of them one after
\* the other, whatever the frame: kaapi_aftersteal_body puts each copy back in its
\* turn, once, and what runs ahead in place was alone to use its data.
THEOREM PrefixIsKept == Spec => []PrefixIsSequential
<1>1. ASSUME IndInv PROVE PrefixIsSequential
  <2>1. TypeOK /\ OwnerInv /\ DataInv
    BY <1>1 DEF IndInv
  <2>2. SUFFICES ASSUME opc = "fetch", NEW d \in Datum, ~WrittenAhead(d)
                 PROVE  data[d] = Sequential[pc - 1][d]
    BY DEF PrefixIsSequential
  <2>3. Passed = pc - 1 /\ pc \in 1 .. (NTask + 1) /\ NTask \in Nat
    BY <2>1, <2>2, PassedFacts
  <2>4. ASSUME NEW t \in Task PROVE ~WroteAhead(t, d)
    <3>1. t > Passed => t \in pc .. NTask
      BY <2>3 DEF Task
    <3>2. QED
      BY <2>2, <3>1 DEF WrittenAhead, WroteAhead
  <2>5. QED
    BY <2>1, <2>3, <2>4 DEF DataInv
<1>2. QED
  BY <1>1, Invariance, PTL

\* A task that may run now and reads what the map says is read comes after readers
\* only, when nobody reads again what was read and changed.
LEMMA ReadyMayRead ==
    ASSUME TypeOK, NEW t \in Task, MapInv(t), ReadyParams(t) = Params(t), ~ReadsAgain(prog),
           NEW r
    PROVE  MayRead(t, r)
<1>1. SUFFICES ASSUME NEW d \in Datum, prog[t][d] = "R" PROVE OnlyRead(d, t)
  BY DEF MayRead
<1>2. d \in ReadyParams(t)
  BY <1>1 DEF Params
<1>3. lastMode[d] \in {"VOID", "R"}
  BY <1>1, <1>2 DEF ReadyParams, IsOnlyWrite, IsConcurrent
<1>4. CASE lastMode[d] = "VOID"
  BY <1>4, UntouchedIsOnlyRead DEF MapInv
<1>5. CASE lastMode[d] = "R"
  <2>1. PICK i \in Task : /\ i < t /\ prog[i][d] = "R"
                          /\ \A u \in (Passed + 1) .. (t - 1) : prog[u][d] # "VOID" => i <= u
    BY <1>5 DEF MapInv, FirstReader
  <2>2. SUFFICES ASSUME NEW u \in (Passed + 1) .. (t - 1), prog[u][d] # "VOID"
                 PROVE  prog[u][d] = "R"
    BY DEF OnlyRead
  <2>3. PICK n \in Nat : n = Passed
    <3>1. pc \in Nat /\ pc >= 1
      BY DEF TypeOK
    <3>2. CASE opc = "after"
      BY <3>1, <3>2 DEF Passed
    <3>3. CASE opc # "after"
      BY <3>1, <3>3, PassedBehind DEF Passed
    <3>4. QED
      BY <3>2, <3>3
  <2>4. \A v \in (n + 1) .. (t - 1) : v \in Task /\ v < t
    BY ConstantsAssumption DEF Task
  <2>5. u \in Task /\ u < t /\ i <= u
    BY <2>1, <2>2, <2>3, <2>4
  <2>6. CASE i = u
    BY <2>1, <2>6
  <2>7. CASE i # u
    <3>1. i < u
      BY <2>5, <2>7 DEF Task
    <3>2. prog[u][d] \notin {"W", "RW", "CW"}
      BY <1>1, <2>1, <2>5, <3>1 DEF ReadsAgain
    <3>3. QED
      BY <2>2, <2>5, <3>2, Modes
  <2>8. QED
    BY <2>6, <2>7
<1>6. QED
  BY <1>3, <1>4, <1>5

\* The same as StolenStays and ScanStays, for what is read.
LEMMA ReadStays ==
    ASSUME IndInv, ReadInv, ~ReadsAgain(prog), [Next]_vars
    PROVE  ReadInv'
<1>1. TypeOK /\ OwnerInv /\ ScanInv
  BY DEF IndInv
<1>2. StepFacts
  BY <1>1, StepIsForward
<1>3. ASSUME tpc' = "mark", NEW c, c = cur', NEW r, r = war'
      PROVE  MayRead(c, r)'
  <2>1. CASE VisitTask
    <3>1. cur' = cur /\ cur \in Task /\ MapInv(cur) /\ ReadyParams(cur) = Params(cur)
      BY <1>1, <1>3, <2>1 DEF VisitTask, ScanInv
    <3>2. c \in Nat /\ MayRead(c, r)
      BY <1>1, <1>3, <3>1, ReadyMayRead DEF Task
    <3>3. QED
      BY <1>2, <3>2, MayStays
  <2>2. CASE ~VisitTask
    <3>1. tpc = "mark" /\ c = cur /\ r = war
      BY <1>3, <2>2 DEF Next, OwnerStep, ScanStep, WorkerStep, vars, scanVars, StartHere,
             FinishHere, PassTerm, AfterSteal, Block, Resume, Advance, BeginScan, MarkSteal,
             EndScan, StartStolen, FinishStolen
    <3>2. c \in Nat /\ MayRead(c, r)
      BY <1>1, <3>1 DEF ReadInv, TypeOK
    <3>3. QED
      BY <1>2, <3>2, MayStays
  <2>3. QED
    BY <2>1, <2>2
<1>4. ASSUME NEW t \in Task, t > Passed', status'[t] \in Stolen, NEW r, r = renamed'[t]
      PROVE  MayRead(t, r)'
  <2>1. t \in Nat /\ t > Passed
    BY <1>2, <1>4, ConstantsAssumption DEF StepFacts, Task
  <2>2. MayRead(t, r)
    <3>1. CASE status[t] \in Stolen /\ r = renamed[t]
      BY <2>1, <3>1 DEF ReadInv
    <3>2. CASE MarkSteal /\ t = cur /\ r = war
      BY <3>2 DEF MarkSteal, ReadInv
    <3>3. QED
      BY <1>1, <1>4, <3>1, <3>2, CopiesStay
  <2>3. QED
    BY <1>2, <2>1, <2>2, MayStays
<1>5. QED
  BY <1>3, <1>4 DEF ReadInv, MayRead, OnlyRead, Stolen

\* Who was found ready to read still is.
LEMMA ReadInvariance == Spec => [](~ReadsAgain(prog) => ReadInv)
<1> DEFINE R == ~ReadsAgain(prog) => ReadInv
<1>1. Init => R
  BY InitInv
<1>2. IndInv /\ R /\ [Next]_vars => R'
  <2>1. SUFFICES ASSUME IndInv, R, [Next]_vars, ~ReadsAgain(prog)' PROVE ReadInv'
    OBVIOUS
  <2>2. prog' = prog
    BY <2>1, StepIsForward DEF IndInv, StepFacts
  <2>3. ~ReadsAgain(prog)
    BY <2>1, <2>2 DEF ReadsAgain
  <2>4. QED
    BY <2>1, <2>3, ReadStays
<1> HIDE DEF R
<1>3. Spec => []R
  BY <1>1, <1>2, Invariance, PTL DEF Spec
<1>4. QED
  BY <1>3 DEF R

\* A task that runs, and before which nobody ahead of the owner writes d.
LEMMA RunningReads ==
    ASSUME IndInv, NEW t \in Task, Running(t), NEW d \in Datum, prog[t][d] # "VOID",
           status[t] = "running" => OnlyRead(d, t)
    PROVE  data[d] = Sequential[t - 1][d]
<1>1. TypeOK /\ OwnerInv /\ StolenInv /\ DataInv
  BY DEF IndInv
<1>2. CASE status[t] = "running"
  <2>1. ~(t <= Passed) /\ ~WroteAhead(t, d)
    BY <1>1, <1>2 DEF OwnerInv, WroteAhead
  <2>2. t > Passed
    BY <1>1, <2>1, PassedFacts DEF Task
  <2>3. QED
    BY <1>1, <1>2, <2>1, <2>2, NotYetWritten
<1>3. CASE t = pc /\ opc = "body"
  <2>1. t > Passed
    BY <1>1, <1>3, PassedFacts
  <2>2. ~WroteAhead(t, d)
    BY <1>1, <1>3, <2>1 DEF OwnerInv, WroteAhead
  <2>3. OnlyRead(d, t)
    BY <1>1, <1>3, NothingBeforeOwner, UntouchedIsOnlyRead
  <2>4. QED
    BY <1>1, <2>1, <2>2, <2>3, NotYetWritten
<1>4. QED
  BY <1>2, <1>3 DEF Running

\* A task that updates a datum finds in it what the writes before it have left,
\* whatever the frame: kaapi_task_computeready lets it run only when no task before
\* it uses the datum.
THEOREM UpdatesReadLastWrite ==
    Spec => [](\A t \in Task : Running(t) =>
                 \A d \in Datum : prog[t][d] = "RW" => data[d] = Sequential[t - 1][d])
<1> DEFINE U == \A t \in Task : Running(t) =>
                  \A d \in Datum : prog[t][d] = "RW" => data[d] = Sequential[t - 1][d]
<1>1. ASSUME IndInv PROVE U
  <2>1. SUFFICES ASSUME NEW t \in Task, Running(t), NEW d \in Datum, prog[t][d] = "RW"
                 PROVE  data[d] = Sequential[t - 1][d]
    OBVIOUS
  <2>2. ASSUME status[t] = "running" PROVE OnlyRead(d, t)
    <3>1. t > Passed
      BY <1>1, <2>2, PassedFacts DEF IndInv, OwnerInv, Task
    <3>2. MayWrite(t, renamed[t])
      BY <1>1, <2>2, <3>1 DEF IndInv, StolenInv, Stolen
    <3>3. QED
      BY <2>1, <3>2, UntouchedIsOnlyRead DEF MayWrite, CopiesOf
  <2>3. QED
    BY <1>1, <2>1, <2>2, RunningReads
<1> HIDE DEF U
<1>2. Spec => []U
  BY <1>1, Invariance, PTL
<1>3. QED
  BY <1>2 DEF U

\* In a frame that does not read again what was read and changed, every task that
\* reads finds what the writes before it have left (kaapi_task_computeready).
THEOREM ReadsAreSequential == Spec => [](~ReadsAgain(prog) => ReadsLastWrite)
<1>1. ASSUME IndInv, ReadInv PROVE ReadsLastWrite
  <2>1. SUFFICES ASSUME NEW t \in Task, Running(t), NEW d \in Datum, IsRead(prog[t][d])
                 PROVE  data[d] = Sequential[t - 1][d]
    BY DEF ReadsLastWrite
  <2>2. prog[t][d] \in {"R", "RW"}
    BY <2>1 DEF IsRead
  <2>3. ASSUME status[t] = "running" PROVE OnlyRead(d, t)
    <3>1. t > Passed
      BY <1>1, <2>3, PassedFacts DEF IndInv, OwnerInv, Task
    <3>2. MayWrite(t, renamed[t]) /\ MayRead(t, renamed[t])
      BY <1>1, <2>3, <3>1 DEF IndInv, StolenInv, ReadInv, Stolen
    <3>3. QED
      BY <2>2, <3>2, UntouchedIsOnlyRead DEF MayWrite, MayRead, CopiesOf
  <2>4. QED
    BY <1>1, <2>1, <2>2, <2>3, RunningReads
<1>2. QED
  BY <1>1, Invariance, ReadInvariance, PTL

\* The same for a program of such frames: they are executed in an order equivalent
\* to the order of creation of their tasks.
THEOREM ReadsAreLastWrites ==
    ASSUME \A p \in Program : ~ReadsAgain(p)
    PROVE  Spec => []ReadsLastWrite
<1>1. TypeOK => ~ReadsAgain(prog)
  BY DEF TypeOK
<1>2. QED
  BY <1>1, FrameIsWellTyped, ReadsAreSequential, PTL

\* When the owner has come to the end of the frame every datum holds the writes that
\* the sequential execution leaves in it, no more and no less, whatever the frame
\* (kaapi_stack_execframe returns there).
THEOREM FrameResultIsSequential == Spec => [](pc = NTask + 1 => data = Sequential[NTask])
<1>1. ASSUME IndInv PROVE pc = NTask + 1 => data = Sequential[NTask]
  <2>1. TypeOK /\ OwnerInv /\ DataInv
    BY <1>1 DEF IndInv
  <2>2. SUFFICES ASSUME pc = NTask + 1 PROVE data = Sequential[NTask]
    OBVIOUS
  <2>3. NTask \in Nat \ {0} /\ pc \notin Task
    BY <2>2, ConstantsAssumption DEF Task
  <2>4. Passed = NTask
    BY <2>1, <2>2, <2>3 DEF OwnerInv, Passed
  <2>5. \A t \in Task : \A d \in Datum : ~WroteAhead(t, d)
    BY <2>3, <2>4 DEF WroteAhead, Task
  <2>6. \A d \in Datum : data[d] = Sequential[NTask][d]
    BY <2>1, <2>4, <2>5 DEF DataInv
  <2>7. NTask \in 0 .. NTask
    BY <2>3
  <2>8. data \in [Datum -> SUBSET Task] /\ Sequential[NTask] \in [Datum -> SUBSET Task]
    BY <2>1, <2>7, SequentialFacts DEF TypeOK
  <2>9. QED
    BY <2>6, <2>8
<1>2. QED
  BY <1>1, Invariance, PTL
===============================================================================
