----------------------------- MODULE TaskListProofs -----------------------------
(***************************************************************************)
(* Proofs about TaskList, for any set of contexts, any data, any frames    *)
(* and any number of thefts.  First the graph of a frame, by the steps in  *)
(* which it is computed; then the invariant of its execution: in whose     *)
(* hands a node is, what it still waits for, and who counts it once it is  *)
(* executed.                                                               *)
(***************************************************************************)
EXTENDS TaskList, FiniteSetTheorems, WellFoundedInduction, TLAPS

-------------------------------------------------------------------------------
(* The graph, as it is when the frame shows it.                            *)

\* The links that lead to n: the i-th successor of u is n.
LinksTo(succ, n) ==
    UNION {{u} \X {i \in DOMAIN succ[u] : succ[u][i] = n} : u \in DOMAIN succ}

\* The access j of the task u comes no later than the access i of the task t.
Seen(u, j, t, i) == u < t \/ (u = t /\ j <= i)

WritesDatum(p, u, j, d) == p[u][j].datum = d /\ Writes(p[u][j].mode)

GraphType(p) ==
    [writer : [Datum -> Nodes(p) \cup {None}],
     succ : [Nodes(p) -> Seq(DOMAIN p)],
     wc : [Nodes(p) -> Nat],
     ready : Seq(Datum),
     total : Nat]

\* What is counted: the links to a node, the nodes.
CountsOK(p, g) ==
    /\ \A n \in Nodes(p) :
        /\ IsFiniteSet(LinksTo(g.succ, n))
        /\ g.wc[n] = Cardinality(LinksTo(g.succ, n))
    /\ IsInjective(g.ready)
    /\ \A d \in Range(g.ready) : g.writer[d] # None
    /\ g.total = Len(p) + Len(g.ready)

\* The last writer of each datum, after the access i of the task t.
WriterOK(p, g, t, i) ==
    /\ \A d \in Datum :
        \/ g.writer[d] \in {None, d}
        \/ /\ g.writer[d] \in DOMAIN p
           /\ \E j \in DOMAIN p[g.writer[d]] :
                /\ Seen(g.writer[d], j, t, i)
                /\ WritesDatum(p, g.writer[d], j, d)
    /\ \A u \in DOMAIN p : \A j \in DOMAIN p[u] :
        Seen(u, j, t, i) /\ Writes(p[u][j].mode) =>
            g.writer[p[u][j].datum] \in DOMAIN p /\ g.writer[p[u][j].datum] >= u

\* A task that accesses what u wrote waits for the last that did before it.
LinkedOK(p, g, t, i) ==
    \A v \in DOMAIN p : \A u \in 1 .. v - 1 : \A k \in DOMAIN p[v], j \in DOMAIN p[u] :
        Seen(v, k, t, i) /\ WritesDatum(p, u, j, p[v][k].datum) =>
            \E w \in u .. v - 1 :
                /\ v \in Range(g.succ[w])
                /\ \E l \in DOMAIN p[w] : WritesDatum(p, w, l, p[v][k].datum)

GraphOK(p, g, t, i) ==
    g \in GraphType(p) /\ CountsOK(p, g) /\ WriterOK(p, g, t, i) /\ LinkedOK(p, g, t, i)

-------------------------------------------------------------------------------
(* The invariant.                                                          *)

\* The graph does not change.
GraphInv ==
    /\ program \in Programs
    /\ graph = [succ |-> Graph(program).succ, wc |-> Graph(program).wc,
                total |-> Graph(program).total]

\* The tasks, and the data they access.
Used == DOMAIN program \cup Range(Graph(program).ready)

TypeOK ==
    /\ counter \in [Nodes(program) -> Nat]
    /\ pc \in [Context -> Location]
    /\ list \in [Context -> Seq(Used)]
    /\ cnt \in [Context -> Int]
    /\ listed \in [Context -> BOOLEAN] /\ alive \in [Context -> BOOLEAN]
    /\ boss \in [Context -> {None, Master}]
    /\ cur \in [Context -> Used \cup {None}]
    /\ links \in [Context -> Seq(DOMAIN program)]
    /\ local \in [Context -> Nat] /\ exec \in [Context -> Nat]
    /\ lock \in [Context -> BOOLEAN] /\ waits \in [Context -> BOOLEAN]
    /\ theft \in [Context -> Theft]
    /\ serve \in [Context -> SUBSET Context]
    /\ stolen \in [Context -> Used \cup {None}]
    /\ done \subseteq Used
    /\ thefts \in Nat

\* Where contexts may be, and the frame and the list they have there.
ContextInv ==
    \A c \in Context :
        /\ IF c = Master
           THEN /\ pc[c] \notin {"idle", "asking", "start", "detach"}
                /\ boss[c] = None
           ELSE /\ pc[c] \notin {"check", "suspended", "end", "await", "over"}
                /\ boss[c] = IF pc[c] \in {"idle", "asking"} THEN None ELSE Master
        /\ listed[c] <=> (pc[c] \in Loop \cup {"detach", "end"})
        /\ alive[c] <=> (pc[c] \in Loop \cup {"detach", "end", "await"})

\* A thief has the lock of the stack it is in, and the stack waits for it.
TheftInv ==
    \A v \in Context :
        /\ lock[v] <=> theft[v] # "none"
        /\ lock[v] => pc[v] \in Loop \cup {"detach", "end", "await"}
        /\ lock[v] /\ pc[v] = "await" => waits[v]
        /\ theft[v] = "none" => serve[v] = {}
        /\ \A r \in serve[v] : pc[r] = "asking"
        /\ \A w \in Context : w # v => serve[v] \cap serve[w] = {}

\* What the count of a list has over its length: a node on its way in or out.
OnWay(p, t) ==
    (IF p = "decr" THEN 1 ELSE IF p = "count" THEN -1 ELSE 0)
        + IF t = "reply" THEN 1 ELSE 0

Empty == {"idle", "asking", "start", "report", "check", "suspended", "detach", "end",
          "await", "over"}

ListInv ==
    \A c \in Context :
        /\ cnt[c] = Len(list[c]) + OnWay(pc[c], theft[c])
        /\ pc[c] \in Empty => list[c] = <<>> /\ theft[c] # "reply"

Kind == {"list", "current", "link", "thief", "done"}

\* The nodes in the hands of each context; those that were executed are put with
\* the master.
At(c, k) ==
    CASE k = "list" -> Range(list[c])
      [] k = "current" -> IF pc[c] \in {"start", "decr", "body"} THEN {cur[c]} ELSE {}
      [] k = "link" -> IF pc[c] = "link" THEN {Head(links[c])} ELSE {}
      [] k = "thief" -> IF theft[c] = "reply" THEN {stolen[c]} ELSE {}
      [] k = "done" -> IF c = Master THEN done ELSE {}

Place == Context \X Kind
Held == [a \in Place |-> At(a[1], a[2])]
Disjoint(H) == \A a, b \in DOMAIN H : a # b => H[a] \cap H[b] = {}

\* A node is in one place.
PlaceInv ==
    /\ Disjoint(Held)
    /\ \A a \in Place : Held[a] \subseteq Used
    /\ \A c \in Context : IsInjective(list[c])

\* A context that goes through the successors of a node it has executed.
Walks(c) == pc[c] \in {"activate", "link", "count"}

\* Their number it has not activated yet.
Left(c) == IF pc[c] = "activate" THEN Len(links[c]) ELSE Len(links[c]) - 1

WalkInv ==
    \A c \in Context : Walks(c) =>
        /\ cur[c] \in done
        /\ links[c] # <<>> /\ Len(links[c]) <= Len(graph.succ[cur[c]])
        /\ \A i \in 1 .. Len(links[c]) :
            links[c][i] = graph.succ[cur[c]][Len(graph.succ[cur[c]]) - Len(links[c]) + i]
        /\ local[c] >= 1
        /\ \A d \in Context : Walks(d) /\ cur[d] = cur[c] => d = c

\* The i-th successor of u has not been told that u was executed.
IsPending(u, i) ==
    \/ u \notin done
    \/ \E c \in Context :
        /\ Walks(c) /\ cur[c] = u
        /\ i > Len(graph.succ[u]) - Left(c)

Pending(n) == {e \in LinksTo(graph.succ, n) : IsPending(e[1], e[2])}

\* The counter of a node and what it waits for; a node in some place waits for
\* nothing.
PendingInv ==
    /\ \A n \in Nodes(program) : counter[n] + Cardinality(Pending(n)) = graph.wc[n]
    /\ \A a \in Place : \A n \in Held[a] : Pending(n) = {}

\* What is executed is counted by one context, until the master has the number.
ReportInv ==
    /\ ReportsAreExact
    /\ \A c \in Context :
        /\ pc[c] \in Empty \ {"report"} => local[c] = 0
        /\ pc[c] \in {"idle", "asking", "start"} => exec[c] = 0

EndInv == pc[Master] \in {"end", "await", "over"} => AllExecuted

IndInv ==
    /\ GraphInv /\ TypeOK /\ ContextInv /\ TheftInv /\ ListInv
    /\ PlaceInv /\ WalkInv /\ PendingInv /\ ReportInv /\ EndInv

\* What is executed was executed after what it conflicts with.
OrderInv ==
    \A t \in done \cap DOMAIN program : Abstract!Earlier(program, t) \subseteq done
-------------------------------------------------------------------------------
(* Sequences without repetitions, as sets.                                 *)

LEMMA TailOfList ==
    ASSUME NEW S, NEW s \in Seq(S), s # <<>>, IsInjective(s)
    PROVE  /\ Tail(s) \in Seq(S) /\ Len(Tail(s)) = Len(s) - 1
           /\ IsInjective(Tail(s))
           /\ Head(s) \in S /\ Head(s) \in Range(s)
           /\ Range(Tail(s)) = Range(s) \ {Head(s)}
<1>1. Tail(s) \in Seq(S) /\ Len(Tail(s)) = Len(s) - 1 /\ Len(s) \in Nat \ {0}
  OBVIOUS
<1>2. \A i \in 1 .. Len(s) - 1 : Tail(s)[i] = s[i + 1]
  OBVIOUS
<1>3. Head(s) = s[1] /\ DOMAIN s = 1 .. Len(s) /\ DOMAIN Tail(s) = 1 .. Len(s) - 1
  BY <1>1
<1>4. IsInjective(Tail(s))
  BY <1>1, <1>2, <1>3 DEF IsInjective
<1>5. ASSUME NEW n \in Range(Tail(s))
      PROVE  n \in Range(s) \ {Head(s)}
  <2>1. PICK i \in DOMAIN Tail(s) : Tail(s)[i] = n
    BY DEF Range
  <2>2. i + 1 \in DOMAIN s /\ 1 \in DOMAIN s /\ i + 1 # 1 /\ s[i + 1] = n
    BY <1>1, <1>2, <1>3, <2>1
  <2>3. n # s[1]
    BY <2>2 DEF IsInjective
  <2>4. QED
    BY <1>3, <2>2, <2>3 DEF Range
<1>6. ASSUME NEW n \in Range(s), n # Head(s)
      PROVE  n \in Range(Tail(s))
  <2>1. PICK i \in DOMAIN s : s[i] = n
    BY DEF Range
  <2>2. i - 1 \in DOMAIN Tail(s) /\ Tail(s)[i - 1] = n
    BY <1>1, <1>2, <1>3, <1>6, <2>1
  <2>3. QED
    BY <2>2 DEF Range
<1>7. Head(s) \in S /\ Head(s) \in Range(s)
  BY <1>1, <1>3 DEF Range
<1>8. QED
  BY <1>1, <1>4, <1>5, <1>6, <1>7

LEMMA FrontOfList ==
    ASSUME NEW S, NEW s \in Seq(S), s # <<>>, IsInjective(s)
    PROVE  /\ Front(s) \in Seq(S) /\ Len(Front(s)) = Len(s) - 1
           /\ IsInjective(Front(s))
           /\ Last(s) \in S /\ Last(s) \in Range(s)
           /\ Range(Front(s)) = Range(s) \ {Last(s)}
<1>1. Len(s) \in Nat \ {0} /\ DOMAIN s = 1 .. Len(s)
  OBVIOUS
<1>2. /\ Front(s) \in Seq(S) /\ Len(Front(s)) = Len(s) - 1
      /\ \A i \in 1 .. Len(s) - 1 : Front(s)[i] = s[i]
  BY <1>1 DEF Front
<1>3. DOMAIN Front(s) = 1 .. Len(s) - 1 /\ Last(s) = s[Len(s)]
  BY <1>1, <1>2 DEF Last
<1>4. IsInjective(Front(s))
  BY <1>1, <1>2, <1>3 DEF IsInjective
<1>5. ASSUME NEW n \in Range(Front(s))
      PROVE  n \in Range(s) \ {Last(s)}
  BY <1>1, <1>2, <1>3 DEF IsInjective, Range
<1>6. ASSUME NEW n \in Range(s), n # Last(s)
      PROVE  n \in Range(Front(s))
  <2>1. PICK i \in DOMAIN s : s[i] = n
    BY DEF Range
  <2>2. i \in DOMAIN Front(s) /\ Front(s)[i] = n
    BY <1>1, <1>2, <1>3, <1>6, <2>1
  <2>3. QED
    BY <2>2 DEF Range
<1>7. Last(s) \in S /\ Last(s) \in Range(s)
  BY <1>1, <1>3 DEF Range
<1>8. QED
  BY <1>2, <1>4, <1>5, <1>6, <1>7

LEMMA ConsOfList ==
    ASSUME NEW S, NEW s \in Seq(S), IsInjective(s), NEW n \in S, n \notin Range(s)
    PROVE  /\ <<n>> \o s \in Seq(S) /\ Len(<<n>> \o s) = Len(s) + 1
           /\ IsInjective(<<n>> \o s)
           /\ Range(<<n>> \o s) = Range(s) \cup {n}
<1> DEFINE r == <<n>> \o s
<1>1. Len(s) \in Nat /\ DOMAIN s = 1 .. Len(s)
  OBVIOUS
<1>2. /\ r \in Seq(S) /\ Len(r) = Len(s) + 1
      /\ r[1] = n /\ \A i \in 2 .. Len(s) + 1 : r[i] = s[i - 1]
  OBVIOUS
<1>3. DOMAIN r = 1 .. Len(s) + 1
  BY <1>1, <1>2
<1> HIDE DEF r
<1>4. IsInjective(r)
  <2>1. \A a, b \in 2 .. Len(s) + 1 : r[a] = r[b] => a = b
    <3> SUFFICES ASSUME NEW a \in 2 .. Len(s) + 1, NEW b \in 2 .. Len(s) + 1, r[a] = r[b]
                 PROVE  a = b
      OBVIOUS
    <3>1. a - 1 \in DOMAIN s /\ b - 1 \in DOMAIN s /\ s[a - 1] = s[b - 1]
      BY <1>1, <1>2
    <3>2. a - 1 = b - 1
      BY <3>1 DEF IsInjective
    <3>3. QED
      BY <3>2
  <2>2. \A a \in 2 .. Len(s) + 1 : r[a] # n
    <3> SUFFICES ASSUME NEW a \in 2 .. Len(s) + 1 PROVE r[a] # n
      OBVIOUS
    <3>1. a - 1 \in DOMAIN s /\ r[a] = s[a - 1]
      BY <1>1, <1>2
    <3>2. QED
      BY <3>1 DEF Range
  <2>3. \A a \in DOMAIN r : a = 1 \/ a \in 2 .. Len(s) + 1
    BY <1>1, <1>3
  <2>4. QED
    BY <1>2, <2>1, <2>2, <2>3 DEF IsInjective
<1>5. ASSUME NEW m \in Range(r)
      PROVE  m \in Range(s) \cup {n}
  BY <1>1, <1>2, <1>3, SMTT(30) DEF Range
<1>6. ASSUME NEW m \in Range(s)
      PROVE  m \in Range(r)
  <2>1. PICK i \in DOMAIN s : s[i] = m
    BY DEF Range
  <2>2. i + 1 \in DOMAIN r /\ r[i + 1] = m
    BY <1>1, <1>2, <1>3, <2>1
  <2>3. QED
    BY <2>2 DEF Range
<1>7. n \in Range(r)
  BY <1>1, <1>2, <1>3 DEF Range
<1>8. QED
  BY <1>2, <1>4, <1>5, <1>6, <1>7 DEF r

LEMMA AppendToList ==
    ASSUME NEW S, NEW s \in Seq(S), IsInjective(s), NEW n \in S, n \notin Range(s)
    PROVE  /\ Append(s, n) \in Seq(S) /\ Len(Append(s, n)) = Len(s) + 1
           /\ IsInjective(Append(s, n))
           /\ Range(Append(s, n)) = Range(s) \cup {n}
<1> DEFINE r == Append(s, n)
<1>1. Len(s) \in Nat /\ DOMAIN s = 1 .. Len(s)
  OBVIOUS
<1>2. /\ r \in Seq(S) /\ Len(r) = Len(s) + 1
      /\ r[Len(s) + 1] = n /\ \A i \in 1 .. Len(s) : r[i] = s[i]
  OBVIOUS
<1>3. DOMAIN r = 1 .. Len(s) + 1
  BY <1>1, <1>2
<1> HIDE DEF r
<1>4. IsInjective(r)
  BY <1>1, <1>2, <1>3 DEF IsInjective, Range
<1>5. ASSUME NEW m \in Range(r)
      PROVE  m \in Range(s) \cup {n}
  BY <1>1, <1>2, <1>3 DEF Range
<1>6. ASSUME NEW m \in Range(s)
      PROVE  m \in Range(r)
  BY <1>1, <1>2, <1>3 DEF Range
<1>7. n \in Range(r)
  BY <1>1, <1>2, <1>3 DEF Range
<1>8. QED
  BY <1>2, <1>4, <1>5, <1>6, <1>7 DEF r

\* A sequence without repetitions is as long as the set of its elements is large.
LEMMA LengthOfList ==
    ASSUME NEW S, NEW s \in Seq(S), IsInjective(s)
    PROVE  IsFiniteSet(Range(s)) /\ Cardinality(Range(s)) = Len(s)
<1>1. Len(s) \in Nat /\ DOMAIN s = 1 .. Len(s) /\ s = [i \in 1 .. Len(s) |-> s[i]]
  OBVIOUS
<1>2. s \in Bijection(1 .. Len(s), Range(s))
  BY <1>1 DEF Bijection, Injection, Surjection, IsInjective, Range
<1>3. ExistsBijection(1 .. Len(s), Range(s))
  BY <1>2 DEF ExistsBijection
<1>4. IsFiniteSet(1 .. Len(s)) /\ Cardinality(1 .. Len(s)) = Len(s)
  <2>1. 1 \in Int /\ Len(s) \in Int
    BY <1>1
  <2>2. /\ IsFiniteSet(1 .. Len(s))
        /\ Cardinality(1 .. Len(s)) = IF 1 > Len(s) THEN 0 ELSE Len(s) - 1 + 1
    BY <2>1, FS_Interval, Zenon
  <2>3. QED
    BY <1>1, <2>2
<1>5. QED
  BY <1>3, <1>4, FS_Bijection

-------------------------------------------------------------------------------
(* What is computed step by step, by a function defined from the value of  *)
(* the step before.                                                        *)

LEMMA LeastCounterexample ==
    ASSUME NEW T, T \subseteq Nat, T # {}
    PROVE  \E k \in T : \A j \in T : k <= j
<1>1. PICK k \in T : \A j \in T : ~(<<j, k>> \in OpToRel(<, Nat))
  BY NatLessThanWellFounded, WFMin
<1>2. SUFFICES ASSUME NEW j \in T PROVE k <= j
  OBVIOUS
<1>3. ~(j < k)
  BY <1>1 DEF OpToRel
<1>4. QED
  BY <1>3

\* The function whose value at 0 is s, and at i what F makes of its value at i - 1.
IsIteration(f, n, s, F) ==
    f = [i \in 0 .. n |-> IF i = 0 THEN s ELSE F[i][f[i - 1]]]

LEMMA IterationExists ==
    ASSUME NEW n \in Nat, NEW S, NEW s \in S, NEW F \in [1 .. n -> [S -> S]]
    PROVE  \E f \in [0 .. n -> S] : IsIteration(f, n, s, F)
<1> DEFINE Good(k) == \E f \in [0 .. k -> S] : IsIteration(f, k, s, F)
           T == {k \in 0 .. n : ~Good(k)}
<1>1. Good(0)
  <2>1. [i \in 0 .. 0 |-> s] \in [0 .. 0 -> S]
    OBVIOUS
  <2>2. IsIteration([i \in 0 .. 0 |-> s], 0, s, F)
    BY DEF IsIteration
  <2>3. QED
    BY <2>1, <2>2
<1>2. ASSUME NEW k \in 1 .. n, Good(k - 1)
      PROVE  Good(k)
  <2>1. PICK f \in [0 .. k - 1 -> S] : IsIteration(f, k - 1, s, F)
    BY <1>2
  <2> DEFINE g == [i \in 0 .. k |-> IF i = k THEN F[k][f[k - 1]] ELSE f[i]]
  <2>2. k - 1 \in 0 .. k - 1 /\ f[k - 1] \in S /\ F[k][f[k - 1]] \in S
    BY SMT
  <2>3. g \in [0 .. k -> S]
    BY <2>2
  <2>4. \A i \in 0 .. k - 1 : f[i] = IF i = 0 THEN s ELSE F[i][f[i - 1]]
    BY <2>1 DEF IsIteration
  <2>5. \A i \in 0 .. k : g[i] = IF i = 0 THEN s ELSE F[i][g[i - 1]]
    <3> SUFFICES ASSUME NEW i \in 0 .. k
                 PROVE  g[i] = IF i = 0 THEN s ELSE F[i][g[i - 1]]
      OBVIOUS
    <3>1. CASE i = k
      <4>1. g[i - 1] = f[k - 1] /\ i # 0
        BY <3>1
      <4>2. QED
        BY <3>1, <4>1
    <3>2. CASE i # k
      <4>1. i \in 0 .. k - 1 /\ g[i] = f[i]
        BY <3>2
      <4>2. CASE i = 0
        BY <4>1, <4>2, <2>4
      <4>3. CASE i # 0
        <5>1. i - 1 \in 0 .. k /\ i - 1 # k
          BY <4>1, <4>3
        <5>2. g[i - 1] = f[i - 1]
          BY <5>1
        <5>3. QED
          BY <4>1, <4>3, <5>2, <2>4
      <4>4. QED
        BY <4>2, <4>3
    <3>3. QED
      BY <3>1, <3>2
  <2>6. g = [i \in 0 .. k |-> IF i = 0 THEN s ELSE F[i][g[i - 1]]]
    <3> HIDE DEF g
    <3>1. QED
      BY <2>3, <2>5
  <2> HIDE DEF g
  <2>7. QED
    BY <2>3, <2>6 DEF IsIteration
<1>3. T = {}
  <2> SUFFICES ASSUME T # {} PROVE FALSE
    OBVIOUS
  <2>1. T \subseteq Nat
    OBVIOUS
  <2>2. PICK k \in T : \A j \in T : k <= j
    <3> HIDE DEF T
    <3>1. QED
      BY <2>1, LeastCounterexample
  <2>3. k \in 0 .. n /\ ~Good(k)
    OBVIOUS
  <2>4. k \in 1 .. n
    <3>1. k # 0
      <4> HIDE DEF Good
      <4>1. QED
        BY <1>1, <2>3
    <3>2. QED
      BY <2>3, <3>1
  <2>5. k - 1 \in 0 .. n /\ ~(k <= k - 1)
    BY <2>4
  <2>6. Good(k - 1)
    BY <2>2, <2>5
  <2>7. QED
    BY <1>2, <2>3, <2>4, <2>6
<1>4. n \in 0 .. n
  OBVIOUS
<1>5. QED
  BY <1>3, <1>4

-------------------------------------------------------------------------------
(* One access.                                                             *)

Access == [datum : Datum, mode : Mode]

LEMMA ProgramFacts ==
    ASSUME NEW p \in Programs
    PROVE  /\ Len(p) \in Nat /\ DOMAIN p = 1 .. Len(p)
           /\ \A t \in DOMAIN p :
                /\ p[t] \in Seq(Access)
                /\ Len(p[t]) \in Nat /\ DOMAIN p[t] = 1 .. Len(p[t])
                /\ \A i \in DOMAIN p[t] : p[t][i] \in Access
                /\ t \notin Datum /\ t # None
<1>1. p \in Seq(Seq(Access))
  BY ConstantsAssumption DEF Access
<1>2. Len(p) \in Nat /\ DOMAIN p = 1 .. Len(p)
  BY <1>1
<1>3. \A t \in DOMAIN p : p[t] \in Seq(Access) /\ t \in Nat
  BY <1>1, <1>2
<1>4. \A s \in Seq(Access) : Len(s) \in Nat /\ DOMAIN s = 1 .. Len(s)
                                 /\ \A i \in DOMAIN s : s[i] \in Access
  OBVIOUS
<1>5. \A t \in DOMAIN p : t \notin Datum /\ t # None
  BY <1>3, ConstantsAssumption
<1>6. QED
  BY <1>2, <1>3, <1>4, <1>5

LEMMA LinksMember ==
    ASSUME NEW succ, NEW n, NEW e
    PROVE  e \in LinksTo(succ, n) <=>
               \E u \in DOMAIN succ : \E i \in DOMAIN succ[u] :
                   e = <<u, i>> /\ succ[u][i] = n
BY DEF LinksTo

LEMMA LinkEnds ==
    ASSUME NEW succ, NEW n, NEW e \in LinksTo(succ, n)
    PROVE  /\ e[1] \in DOMAIN succ /\ e[2] \in DOMAIN succ[e[1]]
           /\ e = <<e[1], e[2]>> /\ succ[e[1]][e[2]] = n
<1>1. PICK u \in DOMAIN succ : \E i \in DOMAIN succ[u] : e = <<u, i>> /\ succ[u][i] = n
  BY LinksMember
<1>2. PICK i \in DOMAIN succ[u] : e = <<u, i>> /\ succ[u][i] = n
  BY <1>1
<1>3. e[1] = u /\ e[2] = i
  BY <1>2
<1>4. QED
  BY <1>2, <1>3

WithLink(succ, u, t) == [succ EXCEPT ![u] = Append(@, t)]

IsLinkAdded(N, succ, s, u, t) ==
    /\ LinksTo(s, t) = LinksTo(succ, t) \cup {<<u, Len(succ[u]) + 1>>}
    /\ <<u, Len(succ[u]) + 1>> \notin LinksTo(succ, t)
    /\ \A n : n # t => LinksTo(s, n) = LinksTo(succ, n)
    /\ \A v \in N : \A n \in Range(succ[v]) : n \in Range(s[v])
    /\ t \in Range(s[u])

LEMMA LinksAppend ==
    ASSUME NEW N, NEW T, NEW succ \in [N -> Seq(T)], NEW u \in N, NEW t \in T,
           NEW s, s = WithLink(succ, u, t)
    PROVE  IsLinkAdded(N, succ, s, u, t)
<1> DEFINE l == Len(succ[u])
<1>1. /\ succ[u] \in Seq(T) /\ l \in Nat /\ DOMAIN succ[u] = 1 .. l
      /\ Append(succ[u], t) \in Seq(T) /\ DOMAIN Append(succ[u], t) = 1 .. l + 1
      /\ Append(succ[u], t)[l + 1] = t
      /\ \A i \in 1 .. l : Append(succ[u], t)[i] = succ[u][i]
  OBVIOUS
<1>2. s \in [N -> Seq(T)] /\ s[u] = Append(succ[u], t)
      /\ \A v \in N : v # u => s[v] = succ[v]
  BY <1>1 DEF WithLink
<1>3. DOMAIN s = N /\ DOMAIN succ = N /\ DOMAIN s[u] = 1 .. l + 1
  BY <1>1, <1>2
<1>4. \A i : i \in 1 .. l + 1 <=> i \in 1 .. l \/ i = l + 1
  BY <1>1
<1>5. s[u][l + 1] = t /\ \A i \in 1 .. l : s[u][i] = succ[u][i]
  BY <1>1, <1>2
<1>6. l + 1 \notin 1 .. l
  BY <1>1
<1>. HIDE DEF l
<1>7. ASSUME NEW n, NEW e
      PROVE  e \in LinksTo(s, n) <=> e \in LinksTo(succ, n) \/ (e = <<u, l + 1>> /\ n = t)
  <2>1. ASSUME e \in LinksTo(s, n)
        PROVE  e \in LinksTo(succ, n) \/ (e = <<u, l + 1>> /\ n = t)
    <3>1. /\ e[1] \in DOMAIN s /\ e[2] \in DOMAIN s[e[1]]
          /\ e = <<e[1], e[2]>> /\ s[e[1]][e[2]] = n
      BY <2>1, LinkEnds, Zenon
    <3> DEFINE v == e[1]
               i == e[2]
    <3>2. v \in N /\ i \in DOMAIN s[v] /\ e = <<v, i>> /\ s[v][i] = n
      BY <1>3, <3>1
    <3> HIDE DEF v, i
    <3>3. CASE v # u \/ i \in 1 .. l
      <4>1. v \in DOMAIN succ /\ i \in DOMAIN succ[v] /\ succ[v][i] = n
        BY <1>1, <1>2, <1>3, <1>5, <3>2, <3>3 DEF l
      <4>2. QED
        BY <3>2, <4>1, LinksMember
    <3>4. CASE v = u /\ i \notin 1 .. l
      BY <1>3, <1>4, <1>5, <3>2, <3>4
    <3>5. QED
      BY <3>3, <3>4
  <2>2. ASSUME e \in LinksTo(succ, n)
        PROVE  e \in LinksTo(s, n)
    <3>1. PICK v \in N : \E i \in DOMAIN succ[v] : e = <<v, i>> /\ succ[v][i] = n
      BY <1>3, <2>2, LinksMember
    <3>2. PICK i \in DOMAIN succ[v] : e = <<v, i>> /\ succ[v][i] = n
      BY <3>1
    <3>3. v \in DOMAIN s /\ i \in DOMAIN s[v] /\ s[v][i] = n
      BY <1>1, <1>2, <1>3, <1>4, <1>5, <3>2 DEF l
    <3>4. QED
      BY <3>2, <3>3, LinksMember
  <2>3. ASSUME e = <<u, l + 1>>, n = t
        PROVE  e \in LinksTo(s, n)
    <3>1. u \in DOMAIN s /\ l + 1 \in DOMAIN s[u] /\ s[u][l + 1] = n
      BY <1>3, <1>4, <1>5, <2>3
    <3>2. QED
      BY <2>3, <3>1, LinksMember
  <2>4. QED
    BY <2>1, <2>2, <2>3
<1>8. <<u, l + 1>> \notin LinksTo(succ, t)
  <2> SUFFICES ASSUME <<u, l + 1>> \in LinksTo(succ, t) PROVE FALSE
    OBVIOUS
  <2>1. PICK v \in N : \E i \in DOMAIN succ[v] : <<u, l + 1>> = <<v, i>>
    BY <1>3, LinksMember
  <2>2. l + 1 \in DOMAIN succ[u]
    BY <2>1
  <2>3. QED
    BY <1>1, <1>6, <2>2 DEF l
<1>9. ASSUME NEW v \in N, NEW n \in Range(succ[v])
      PROVE  n \in Range(s[v])
  <2>1. PICK i \in DOMAIN succ[v] : succ[v][i] = n
    BY <1>9 DEF Range
  <2>2. i \in DOMAIN s[v] /\ s[v][i] = n
    BY <1>1, <1>2, <1>3, <1>4, <1>5, <2>1 DEF l
  <2>3. QED
    BY <2>2 DEF Range
<1>10. t \in Range(s[u])
  BY <1>3, <1>4, <1>5 DEF Range
<1>11. LinksTo(s, t) = LinksTo(succ, t) \cup {<<u, l + 1>>}
  <2> SUFFICES ASSUME NEW e
               PROVE  e \in LinksTo(s, t) <=> e \in LinksTo(succ, t) \cup {<<u, l + 1>>}
    OBVIOUS
  <2>1. QED
    BY <1>7
<1>12. ASSUME NEW n, n # t
       PROVE  LinksTo(s, n) = LinksTo(succ, n)
  <2> SUFFICES ASSUME NEW e
               PROVE  e \in LinksTo(s, n) <=> e \in LinksTo(succ, n)
    OBVIOUS
  <2>1. QED
    BY <1>7, <1>12
<1>13. QED
  BY <1>2, <1>8, <1>9, <1>10, <1>11, <1>12 DEF l, IsLinkAdded

\* Who the task t waits for, in its access to d.
Source(g, d) == IF g.writer[d] = None THEN d ELSE g.writer[d]

IsAccessResult(p, g, t, a, r) ==
    LET d == a.datum
        u == Source(g, a.datum)
    IN  /\ d \in Datum /\ u \in Nodes(p)
        /\ r \in GraphType(p)
        /\ r.writer = [g.writer EXCEPT ![d] = IF Writes(a.mode) THEN t ELSE u]
        /\ u = t => r.succ = g.succ /\ r.wc = g.wc
        /\ u # t => r.succ = WithLink(g.succ, u, t) /\ r.wc = [g.wc EXCEPT ![t] = @ + 1]
        /\ g.writer[d] = None => r.ready = Append(g.ready, d) /\ r.total = g.total + 1
        /\ g.writer[d] # None => r.ready = g.ready /\ r.total = g.total

LEMMA AddAccessResult ==
    ASSUME NEW p \in Programs, NEW g \in GraphType(p), NEW t \in DOMAIN p,
           NEW a \in Access
    PROVE  IsAccessResult(p, g, t, a, AddAccess(g, t, a))
<1> DEFINE d == a.datum
           u == Source(g, d)
           h == FindVersion(g, d)
           l == IF u = t THEN h ELSE Link(h, u, t)
           r == AddAccess(g, t, a)
<1>1. d \in Datum /\ None \notin Datum
  BY ConstantsAssumption DEF Access
<1>2. /\ g.writer \in [Datum -> Nodes(p) \cup {None}]
      /\ g.succ \in [Nodes(p) -> Seq(DOMAIN p)]
      /\ g.wc \in [Nodes(p) -> Nat] /\ g.ready \in Seq(Datum) /\ g.total \in Nat
      /\ g = [writer |-> g.writer, succ |-> g.succ, wc |-> g.wc, ready |-> g.ready,
              total |-> g.total]
  BY DEF GraphType
<1>3. u \in Nodes(p) /\ t \in Nodes(p)
  BY <1>1, <1>2 DEF Source, Nodes
<1>4. g.writer[d] = None => Append(g.ready, d) \in Seq(Datum) /\ g.total + 1 \in Nat
  BY <1>1, <1>2
<1>5. /\ h = [writer |-> [g.writer EXCEPT ![d] = u], succ |-> g.succ, wc |-> g.wc,
              ready |-> IF g.writer[d] = None THEN Append(g.ready, d) ELSE g.ready,
              total |-> IF g.writer[d] = None THEN g.total + 1 ELSE g.total]
  <2>1. CASE g.writer[d] = None
    BY <1>1, <1>2, <2>1 DEF FindVersion, Source
  <2>2. CASE g.writer[d] # None
    <3>1. [g.writer EXCEPT ![d] = u] = g.writer
      BY <1>1, <1>2, <2>2 DEF Source
    <3>2. h = g
      BY <2>2 DEF FindVersion
    <3>3. QED
      BY <1>2, <2>2, <3>1, <3>2
  <2>3. QED
    BY <2>1, <2>2
<1>6. h.writer[d] = u
  BY <1>1, <1>2, <1>5
<1>7. r = IF Writes(a.mode) THEN [l EXCEPT !.writer[d] = t] ELSE l
  BY <1>6 DEF AddAccess
<1>8. l = [writer |-> [g.writer EXCEPT ![d] = u],
           succ |-> IF u = t THEN g.succ ELSE WithLink(g.succ, u, t),
           wc |-> IF u = t THEN g.wc ELSE [g.wc EXCEPT ![t] = @ + 1],
           ready |-> IF g.writer[d] = None THEN Append(g.ready, d) ELSE g.ready,
           total |-> IF g.writer[d] = None THEN g.total + 1 ELSE g.total]
  <2> HIDE DEF h, u
  <2>1. CASE u = t
    BY <1>5, <2>1
  <2>2. CASE u # t
    BY <1>5, <2>2 DEF Link, WithLink
  <2>3. QED
    BY <2>1, <2>2
<1>9. r = [writer |-> [g.writer EXCEPT ![d] = IF Writes(a.mode) THEN t ELSE u],
           succ |-> IF u = t THEN g.succ ELSE WithLink(g.succ, u, t),
           wc |-> IF u = t THEN g.wc ELSE [g.wc EXCEPT ![t] = @ + 1],
           ready |-> IF g.writer[d] = None THEN Append(g.ready, d) ELSE g.ready,
           total |-> IF g.writer[d] = None THEN g.total + 1 ELSE g.total]
  <2> HIDE DEF l, u, r
  <2>1. [[g.writer EXCEPT ![d] = u] EXCEPT ![d] = t] = [g.writer EXCEPT ![d] = t]
    BY <1>2
  <2>2. CASE Writes(a.mode)
    BY <1>7, <1>8, <2>1, <2>2
  <2>3. CASE ~Writes(a.mode)
    BY <1>7, <1>8, <2>3
  <2>4. QED
    BY <2>2, <2>3
<1>10. /\ [g.writer EXCEPT ![d] = IF Writes(a.mode) THEN t ELSE u]
              \in [Datum -> Nodes(p) \cup {None}]
       /\ WithLink(g.succ, u, t) \in [Nodes(p) -> Seq(DOMAIN p)]
       /\ [g.wc EXCEPT ![t] = @ + 1] \in [Nodes(p) -> Nat]
  <2> HIDE DEF u
  <2>1. Append(g.succ[u], t) \in Seq(DOMAIN p) /\ g.wc[t] + 1 \in Nat
    BY <1>2, <1>3
  <2>2. QED
    BY <1>1, <1>2, <1>3, <2>1 DEF WithLink
<1>11. r \in GraphType(p)
  <2> HIDE DEF u, r
  <2>1. QED
    BY <1>2, <1>4, <1>9, <1>10 DEF GraphType
<1>12. QED
  <2> HIDE DEF u, r
  <2>1. /\ r.writer = [g.writer EXCEPT ![d] = IF Writes(a.mode) THEN t ELSE u]
        /\ u = t => r.succ = g.succ /\ r.wc = g.wc
        /\ u # t => /\ r.succ = WithLink(g.succ, u, t)
                    /\ r.wc = [g.wc EXCEPT ![t] = @ + 1]
        /\ g.writer[d] = None => r.ready = Append(g.ready, d) /\ r.total = g.total + 1
        /\ g.writer[d] # None => r.ready = g.ready /\ r.total = g.total
    BY <1>9
  <2>2. QED
    BY <1>1, <1>3, <1>11, <2>1 DEF u, r, IsAccessResult

-------------------------------------------------------------------------------
(* All accesses, in the order of the frame.                                *)

LEMMA AccessKeepsCounts ==
    ASSUME NEW p \in Programs, NEW g \in GraphType(p), NEW t \in DOMAIN p,
           NEW a \in Access, CountsOK(p, g)
    PROVE  CountsOK(p, AddAccess(g, t, a))
<1> DEFINE d == a.datum
           u == Source(g, d)
           r == AddAccess(g, t, a)
<1>0. IsAccessResult(p, g, t, a, r)
  BY AddAccessResult, Zenon
<1>1. /\ d \in Datum /\ u \in Nodes(p)
      /\ r \in GraphType(p)
      /\ r.writer = [g.writer EXCEPT ![d] = IF Writes(a.mode) THEN t ELSE u]
      /\ u = t => r.succ = g.succ /\ r.wc = g.wc
      /\ u # t => r.succ = WithLink(g.succ, u, t) /\ r.wc = [g.wc EXCEPT ![t] = @ + 1]
      /\ g.writer[d] = None => r.ready = Append(g.ready, d) /\ r.total = g.total + 1
      /\ g.writer[d] # None => r.ready = g.ready /\ r.total = g.total
  <2> HIDE DEF r
  <2>1. QED
    BY <1>0, Zenon DEF IsAccessResult
<1>2. /\ g.writer \in [Datum -> Nodes(p) \cup {None}] /\ g.succ \in [Nodes(p) -> Seq(DOMAIN p)]
      /\ g.wc \in [Nodes(p) -> Nat] /\ g.ready \in Seq(Datum) /\ g.total \in Nat
  BY DEF GraphType
<1>3. t \in Nodes(p) /\ t # None /\ d # None /\ Len(p) \in Nat
  BY <1>1, ProgramFacts, ConstantsAssumption DEF Nodes
<1> HIDE DEF d, u, r
<1>4. ASSUME NEW n \in Nodes(p)
      PROVE  IsFiniteSet(LinksTo(r.succ, n)) /\ r.wc[n] = Cardinality(LinksTo(r.succ, n))
  <2>1. IsFiniteSet(LinksTo(g.succ, n)) /\ g.wc[n] = Cardinality(LinksTo(g.succ, n))
    BY DEF CountsOK
  <2>2. CASE u = t
    BY <1>1, <2>1, <2>2
  <2>3. CASE u # t
    <3>1. r.succ = WithLink(g.succ, u, t) /\ r.wc = [g.wc EXCEPT ![t] = @ + 1]
      BY <1>1, <2>3
    <3>2. /\ LinksTo(r.succ, t) = LinksTo(g.succ, t) \cup {<<u, Len(g.succ[u]) + 1>>}
          /\ <<u, Len(g.succ[u]) + 1>> \notin LinksTo(g.succ, t)
          /\ n # t => LinksTo(r.succ, n) = LinksTo(g.succ, n)
      <4>1. IsLinkAdded(Nodes(p), g.succ, r.succ, u, t)
        BY <1>1, <1>2, <3>1, LinksAppend, Zenon
      <4>2. QED
        BY <4>1 DEF IsLinkAdded
    <3>3. CASE n = t
      <4>1. /\ IsFiniteSet(LinksTo(r.succ, n))
            /\ Cardinality(LinksTo(r.succ, n)) = Cardinality(LinksTo(g.succ, n)) + 1
        BY <2>1, <3>2, <3>3, FS_AddElement
      <4>2. r.wc[n] = g.wc[n] + 1
        BY <1>2, <1>3, <3>1, <3>3
      <4>3. QED
        BY <2>1, <4>1, <4>2
    <3>4. CASE n # t
      <4>1. r.wc[n] = g.wc[n]
        BY <1>2, <1>3, <3>1, <3>4
      <4>2. QED
        BY <2>1, <3>2, <3>4, <4>1
    <3>5. QED
      BY <3>3, <3>4
  <2>4. QED
    BY <2>2, <2>3
<1>5. IsInjective(g.ready) /\ \A e \in Range(g.ready) : g.writer[e] # None
  BY DEF CountsOK
<1>6. r.writer[d] # None /\ \A e \in Datum : e # d => r.writer[e] = g.writer[e]
  <2>1. u # None
    BY <1>3 DEF u, Source
  <2>2. QED
    BY <1>1, <1>2, <1>3, <2>1
<1>7. g.total = Len(p) + Len(g.ready)
  BY DEF CountsOK
<1>8. CASE g.writer[d] = None
  <2>1. d \notin Range(g.ready)
    BY <1>5, <1>8
  <2>2. /\ IsInjective(r.ready) /\ Range(r.ready) = Range(g.ready) \cup {d}
        /\ Len(r.ready) = Len(g.ready) + 1
    <3>1. /\ IsInjective(Append(g.ready, d))
          /\ Range(Append(g.ready, d)) = Range(g.ready) \cup {d}
          /\ Len(Append(g.ready, d)) = Len(g.ready) + 1
      BY <1>1, <1>2, <1>5, <2>1, AppendToList
    <3>2. QED
      BY <1>1, <1>8, <3>1
  <2>3. \A e \in Range(g.ready) : e \in Datum
    BY <1>2 DEF Range
  <2>4. \A e \in Range(r.ready) : r.writer[e] # None
    BY <1>5, <1>6, <2>2, <2>3
  <2>5. r.total = Len(p) + Len(r.ready)
    <3>1. Len(g.ready) \in Nat
      BY <1>2
    <3>2. QED
      BY <1>1, <1>3, <1>7, <1>8, <2>2, <3>1
  <2>6. QED
    BY <1>4, <2>2, <2>4, <2>5 DEF CountsOK, r
<1>9. CASE g.writer[d] # None
  <2>1. \A e \in Range(g.ready) : e \in Datum
    BY <1>2 DEF Range
  <2>2. \A e \in Range(r.ready) : r.writer[e] # None
    BY <1>1, <1>5, <1>6, <1>9, <2>1
  <2>3. IsInjective(r.ready) /\ r.total = Len(p) + Len(r.ready)
    BY <1>1, <1>5, <1>7, <1>9
  <2>4. QED
    BY <1>4, <2>2, <2>3 DEF CountsOK, r
<1>10. QED
  BY <1>8, <1>9

LEMMA AccessKeepsWriter ==
    ASSUME NEW p \in Programs, NEW g \in GraphType(p), NEW t \in DOMAIN p,
           NEW i \in DOMAIN p[t], WriterOK(p, g, t, i - 1)
    PROVE  WriterOK(p, AddAccess(g, t, p[t][i]), t, i)
<1> DEFINE a == p[t][i]
           d == a.datum
           u == Source(g, d)
           r == AddAccess(g, t, a)
<1>1. a \in Access
  BY ProgramFacts
<1>2. /\ d \in Datum /\ u \in Nodes(p)
      /\ r.writer = [g.writer EXCEPT ![d] = IF Writes(a.mode) THEN t ELSE u]
  <2> HIDE DEF a, r
  <2>1. IsAccessResult(p, g, t, a, r)
    BY <1>1, AddAccessResult, Zenon DEF r
  <2>2. QED
    BY <2>1, Zenon DEF IsAccessResult
<1>3. g.writer \in [Datum -> Nodes(p) \cup {None}]
  BY DEF GraphType
<1>4. /\ DOMAIN p = 1 .. Len(p) /\ Len(p) \in Nat
      /\ \A v \in DOMAIN p : DOMAIN p[v] = 1 .. Len(p[v]) /\ Len(p[v]) \in Nat
      /\ \A v \in DOMAIN p : v \notin Datum /\ v # None
      /\ None \notin Datum
  BY ProgramFacts, ConstantsAssumption
<1>5. \A v \in DOMAIN p : \A j \in DOMAIN p[v] :
          Seen(v, j, t, i) <=> Seen(v, j, t, i - 1) \/ (v = t /\ j = i)
  BY <1>4 DEF Seen
<1>6. \A v \in DOMAIN p : \A j \in DOMAIN p[v] : Seen(v, j, t, i) => v <= t
  BY <1>4 DEF Seen
<1>7. \A v \in DOMAIN p : \A j \in DOMAIN p[v] : p[v][j].datum \in Datum
  BY ProgramFacts DEF Access
<1>8. /\ r.writer[d] = (IF Writes(a.mode) THEN t ELSE u)
      /\ \A e \in Datum : e # d => r.writer[e] = g.writer[e]
  BY <1>2, <1>3
<1>9. \/ u = d
      \/ /\ u = g.writer[d] /\ u \in DOMAIN p
         /\ \E j \in DOMAIN p[u] : Seen(u, j, t, i - 1) /\ WritesDatum(p, u, j, d)
  BY <1>2 DEF WriterOK, Source
<1> HIDE DEF u, r
<1>10. ASSUME NEW e \in Datum
       PROVE  \/ r.writer[e] \in {None, e}
              \/ /\ r.writer[e] \in DOMAIN p
                 /\ \E j \in DOMAIN p[r.writer[e]] :
                      Seen(r.writer[e], j, t, i) /\ WritesDatum(p, r.writer[e], j, e)
  <2>1. \/ g.writer[e] \in {None, e}
        \/ /\ g.writer[e] \in DOMAIN p
           /\ \E j \in DOMAIN p[g.writer[e]] :
                Seen(g.writer[e], j, t, i - 1) /\ WritesDatum(p, g.writer[e], j, e)
    BY DEF WriterOK
  <2>2. CASE e # d
    <3>1. r.writer[e] = g.writer[e]
      BY <1>8, <2>2
    <3>2. QED
      BY <2>1, <3>1, <1>5
  <2>3. CASE e = d /\ Writes(a.mode)
    <3>1. r.writer[e] = t /\ Seen(t, i, t, i) /\ WritesDatum(p, t, i, e)
      BY <1>4, <1>8, <2>3 DEF Seen, WritesDatum
    <3>2. QED
      BY <3>1
  <2>4. CASE e = d /\ ~Writes(a.mode)
    <3>1. r.writer[e] = u
      BY <1>8, <2>4
    <3>2. QED
      BY <1>5, <1>9, <2>4, <3>1
  <2>5. QED
    BY <2>2, <2>3, <2>4
<1>11. ASSUME NEW v \in DOMAIN p, NEW j \in DOMAIN p[v], Seen(v, j, t, i), Writes(p[v][j].mode)
       PROVE  r.writer[p[v][j].datum] \in DOMAIN p /\ r.writer[p[v][j].datum] >= v
  <2>1. CASE v = t /\ j = i
    BY <1>4, <1>8, <1>11, <2>1
  <2>2. CASE ~(v = t /\ j = i)
    <3>1. Seen(v, j, t, i - 1)
      BY <1>5, <1>11, <2>2
    <3>2. g.writer[p[v][j].datum] \in DOMAIN p /\ g.writer[p[v][j].datum] >= v
      BY <1>11, <3>1 DEF WriterOK
    <3>3. CASE p[v][j].datum # d
      BY <1>7, <1>8, <3>2, <3>3
    <3>4. CASE p[v][j].datum = d /\ Writes(a.mode)
      <4>1. r.writer[p[v][j].datum] = t
        BY <1>8, <3>4
      <4>2. v <= t
        BY <1>6, <1>11
      <4>3. QED
        BY <1>4, <4>1, <4>2
    <3>5. CASE p[v][j].datum = d /\ ~Writes(a.mode)
      <4>1. u = g.writer[d]
        BY <1>4, <3>2, <3>5 DEF u, Source
      <4>2. QED
        BY <1>8, <3>2, <3>5, <4>1
    <3>6. QED
      BY <3>3, <3>4, <3>5
  <2>3. QED
    BY <2>1, <2>2
<1>12. QED
  BY <1>10, <1>11 DEF WriterOK, r

LEMMA AccessKeepsLinks ==
    ASSUME NEW p \in Programs, NEW g \in GraphType(p), NEW t \in DOMAIN p,
           NEW i \in DOMAIN p[t], WriterOK(p, g, t, i - 1), LinkedOK(p, g, t, i - 1)
    PROVE  LinkedOK(p, AddAccess(g, t, p[t][i]), t, i)
<1> DEFINE a == p[t][i]
           d == a.datum
           s == Source(g, d)
           r == AddAccess(g, t, a)
<1>1. a \in Access
  BY ProgramFacts
<1>2. /\ d \in Datum /\ s \in Nodes(p)
      /\ s = t => r.succ = g.succ
      /\ s # t => r.succ = WithLink(g.succ, s, t)
  <2> HIDE DEF a, r
  <2>1. IsAccessResult(p, g, t, a, r)
    BY <1>1, AddAccessResult, Zenon DEF r
  <2>2. QED
    BY <2>1, Zenon DEF IsAccessResult
<1>3. g.succ \in [Nodes(p) -> Seq(DOMAIN p)]
  BY DEF GraphType
<1>4. /\ DOMAIN p = 1 .. Len(p) /\ Len(p) \in Nat
      /\ \A v \in DOMAIN p : DOMAIN p[v] = 1 .. Len(p[v]) /\ Len(p[v]) \in Nat
      /\ \A v \in DOMAIN p : v \notin Datum /\ v # None
      /\ None \notin Datum
  BY ProgramFacts, ConstantsAssumption
<1>5. /\ \A w \in Nodes(p) : \A n \in Range(g.succ[w]) : n \in Range(r.succ[w])
      /\ s # t => t \in Range(r.succ[s])
  <2>1. CASE s = t
    BY <1>2, <2>1
  <2>2. CASE s # t
    <3>1. r.succ = WithLink(g.succ, s, t)
      BY <1>2, <2>2
    <3>2. QED
      <4>1. IsLinkAdded(Nodes(p), g.succ, r.succ, s, t)
        <5> HIDE DEF s, r
        <5>1. QED
          BY <1>2, <1>3, <3>1, LinksAppend, Zenon
      <4>2. QED
        BY <2>2, <4>1 DEF IsLinkAdded
  <2>3. QED
    BY <2>1, <2>2
<1> HIDE DEF s, r
<1>6. SUFFICES ASSUME NEW v \in DOMAIN p, NEW u \in 1 .. v - 1, NEW k \in DOMAIN p[v],
                      NEW j \in DOMAIN p[u], Seen(v, k, t, i),
                      WritesDatum(p, u, j, p[v][k].datum)
               PROVE  \E w \in u .. v - 1 :
                        /\ v \in Range(r.succ[w])
                        /\ \E l \in DOMAIN p[w] : WritesDatum(p, w, l, p[v][k].datum)
  BY DEF LinkedOK, r
<1>7. u \in DOMAIN p /\ u < v /\ \A w \in u .. v - 1 : w \in DOMAIN p /\ w \in Nodes(p)
  BY <1>4 DEF Nodes
<1>8. ASSUME NEW m \in DOMAIN p[v], Seen(v, m, t, i - 1), p[v][m].datum = p[v][k].datum
      PROVE  \E w \in u .. v - 1 :
               /\ v \in Range(r.succ[w])
               /\ \E l \in DOMAIN p[w] : WritesDatum(p, w, l, p[v][k].datum)
  <2>1. PICK w \in u .. v - 1 :
            /\ v \in Range(g.succ[w])
            /\ \E l \in DOMAIN p[w] : WritesDatum(p, w, l, p[v][k].datum)
    BY <1>6, <1>8 DEF LinkedOK
  <2>2. v \in Range(r.succ[w])
    BY <1>5, <1>7, <2>1
  <2>3. QED
    BY <2>1, <2>2
<1>9. CASE Seen(v, k, t, i - 1)
  BY <1>8, <1>9
<1>10. CASE ~Seen(v, k, t, i - 1)
  <2>1. v = t /\ k = i
    BY <1>4, <1>6, <1>10 DEF Seen
  <2>2. Seen(u, j, t, i - 1) /\ Writes(p[u][j].mode) /\ p[u][j].datum = d
    BY <1>6, <1>7, <2>1 DEF Seen, WritesDatum
  <2>3. g.writer[d] \in DOMAIN p /\ g.writer[d] >= u
    BY <1>7, <2>2 DEF WriterOK
  <2>4. g.writer[d] \notin {None, d} /\ s = g.writer[d]
    BY <1>2, <1>4, <2>3 DEF s, Source
  <2>5. PICK l \in DOMAIN p[s] : Seen(s, l, t, i - 1) /\ WritesDatum(p, s, l, d)
    BY <1>2, <2>4 DEF WriterOK
  <2>6. CASE s = t
    <3>1. l \in DOMAIN p[v] /\ Seen(v, l, t, i - 1) /\ p[v][l].datum = p[v][k].datum
      BY <2>1, <2>5, <2>6 DEF WritesDatum
    <3>2. QED
      BY <1>8, <3>1
  <2>7. CASE s # t
    <3>1. s \in u .. v - 1
      BY <1>4, <1>7, <2>1, <2>3, <2>4, <2>5, <2>7 DEF Seen
    <3>2. v \in Range(r.succ[s]) /\ WritesDatum(p, s, l, p[v][k].datum)
      BY <1>5, <2>1, <2>5, <2>7
    <3>3. QED
      BY <2>5, <3>1, <3>2
  <2>8. QED
    BY <2>6, <2>7
<1>11. QED
  BY <1>9, <1>10

LEMMA AccessKeepsGraph ==
    ASSUME NEW p \in Programs, NEW t \in DOMAIN p, NEW i \in DOMAIN p[t],
           NEW g, GraphOK(p, g, t, i - 1)
    PROVE  GraphOK(p, AddAccess(g, t, p[t][i]), t, i)
<1>1. g \in GraphType(p) /\ CountsOK(p, g) /\ WriterOK(p, g, t, i - 1) /\ LinkedOK(p, g, t, i - 1)
  BY DEF GraphOK
<1>2. p[t][i] \in Access
  BY ProgramFacts
<1>3. AddAccess(g, t, p[t][i]) \in GraphType(p)
  BY <1>1, <1>2, AddAccessResult DEF IsAccessResult
<1>4. CountsOK(p, AddAccess(g, t, p[t][i]))
  BY <1>1, <1>2, AccessKeepsCounts
<1>5. WriterOK(p, AddAccess(g, t, p[t][i]), t, i)
  BY <1>1, AccessKeepsWriter
<1>6. LinkedOK(p, AddAccess(g, t, p[t][i]), t, i)
  BY <1>1, AccessKeepsLinks
<1>7. QED
  BY <1>3, <1>4, <1>5, <1>6 DEF GraphOK

LEMMA TaskKeepsGraph ==
    ASSUME NEW p \in Programs, NEW t \in DOMAIN p, NEW g, GraphOK(p, g, t, 0)
    PROVE  GraphOK(p, AddTask(p, g, t), t, Len(p[t]))
<1>1. PICK n \in Nat : n = Len(p[t])
  BY ProgramFacts
<1>2. DOMAIN p[t] = 1 .. n
  BY <1>1, ProgramFacts
<1> DEFINE G == GraphType(p)
           F == [i \in 1 .. n |-> [h \in G |-> AddAccess(h, t, p[t][i])]]
           after == CHOOSE f : f = [i \in 0 .. n |-> IF i = 0 THEN g ELSE AddAccess(f[i - 1], t, p[t][i])]
<1>3. \A i \in 1 .. n : p[t][i] \in Access
  BY <1>2, ProgramFacts
<1>4. \A i \in 1 .. n : \A h \in G : AddAccess(h, t, p[t][i]) \in G
  <2> SUFFICES ASSUME NEW i \in 1 .. n, NEW h \in G PROVE AddAccess(h, t, p[t][i]) \in G
    OBVIOUS
  <2>1. p[t][i] \in Access
    BY <1>3
  <2>2. QED
    BY <2>1, AddAccessResult DEF IsAccessResult
<1>5. g \in G
  BY DEF GraphOK
<1> HIDE DEF G
<1>6. F \in [1 .. n -> [G -> G]]
  BY <1>4
<1>7. PICK f \in [0 .. n -> G] : IsIteration(f, n, g, F)
  <2> HIDE DEF F
  <2>1. QED
    BY <1>5, <1>6, IterationExists
<1>8. f = [i \in 0 .. n |-> IF i = 0 THEN g ELSE AddAccess(f[i - 1], t, p[t][i])]
  <2>1. \A i \in 0 .. n : f[i] = IF i = 0 THEN g ELSE F[i][f[i - 1]]
    <3> HIDE DEF F
    <3>1. QED
      BY <1>7 DEF IsIteration
  <2>2. \A i \in 0 .. n : i # 0 => F[i][f[i - 1]] = AddAccess(f[i - 1], t, p[t][i])
    <3> SUFFICES ASSUME NEW i \in 0 .. n, i # 0
                 PROVE  F[i][f[i - 1]] = AddAccess(f[i - 1], t, p[t][i])
      OBVIOUS
    <3>1. i \in 1 .. n /\ i - 1 \in 0 .. n
      OBVIOUS
    <3>2. f[i - 1] \in G
      BY <1>7, <3>1
    <3>3. QED
      BY <3>1, <3>2
  <2> HIDE DEF F
  <2>3. QED
    BY <1>7, <2>1, <2>2
<1>9. after = [i \in 0 .. n |-> IF i = 0 THEN g ELSE AddAccess(after[i - 1], t, p[t][i])]
  BY <1>8, Zenon
<1>10. AddTask(p, g, t) = after[n]
  BY <1>1, Zenon DEF AddTask
<1> HIDE DEF after
<1>11. after[0] = g /\ \A i \in 1 .. n : after[i] = AddAccess(after[i - 1], t, p[t][i])
  <2>1. after[0] = g
    BY <1>9
  <2>2. ASSUME NEW i \in 1 .. n PROVE after[i] = AddAccess(after[i - 1], t, p[t][i])
    <3>1. i \in 0 .. n /\ i # 0
      OBVIOUS
    <3>2. QED
      BY <1>9, <3>1
  <2>3. QED
    BY <2>1, <2>2
<1> DEFINE Bad == {i \in 0 .. n : ~GraphOK(p, after[i], t, i)}
<1>12. Bad = {}
  <2> SUFFICES ASSUME Bad # {} PROVE FALSE
    OBVIOUS
  <2>1. Bad \subseteq Nat
    OBVIOUS
  <2>2. PICK k \in Bad : \A j \in Bad : k <= j
    <3> HIDE DEF Bad
    <3>1. QED
      BY <2>1, LeastCounterexample
  <2>3. k \in 0 .. n /\ ~GraphOK(p, after[k], t, k)
    OBVIOUS
  <2>4. k # 0
    BY <1>11, <2>3
  <2>5. k \in 1 .. n /\ k - 1 \in 0 .. n /\ ~(k <= k - 1)
    BY <2>3, <2>4
  <2>6. GraphOK(p, after[k - 1], t, k - 1)
    BY <2>2, <2>5
  <2>7. GraphOK(p, AddAccess(after[k - 1], t, p[t][k]), t, k)
    BY <1>2, <2>5, <2>6, AccessKeepsGraph
  <2>8. QED
    BY <1>11, <2>3, <2>5, <2>7
<1>13. GraphOK(p, after[n], t, n)
  BY <1>12
<1>14. QED
  BY <1>1, <1>10, <1>13

\* Before the first access of a task is after the last of the task before it.
LEMMA NextTask ==
    ASSUME NEW p \in Programs, NEW g, NEW t \in DOMAIN p, GraphOK(p, g, t, Len(p[t]))
    PROVE  GraphOK(p, g, t + 1, 0)
<1>1. /\ DOMAIN p = 1 .. Len(p) /\ Len(p) \in Nat
      /\ \A v \in DOMAIN p : DOMAIN p[v] = 1 .. Len(p[v]) /\ Len(p[v]) \in Nat
  BY ProgramFacts
<1>2. \A u \in DOMAIN p : \A j \in DOMAIN p[u] : Seen(u, j, t + 1, 0) <=> Seen(u, j, t, Len(p[t]))
  <2> SUFFICES ASSUME NEW u \in DOMAIN p, NEW j \in DOMAIN p[u]
               PROVE  Seen(u, j, t + 1, 0) <=> Seen(u, j, t, Len(p[t]))
    OBVIOUS
  <2>1. /\ u \in Nat /\ t \in Nat /\ j \in 1 .. Len(p[u])
        /\ Len(p[u]) \in Nat /\ Len(p[t]) \in Nat
    BY <1>1
  <2>2. CASE u = t
    BY <2>1, <2>2 DEF Seen
  <2>3. CASE u # t
    BY <2>1, <2>3 DEF Seen
  <2>4. QED
    BY <2>2, <2>3
<1>3. WriterOK(p, g, t + 1, 0)
  <2>1. WriterOK(p, g, t, Len(p[t]))
    BY DEF GraphOK
  <2>2. ASSUME NEW d \in Datum
        PROVE  \/ g.writer[d] \in {None, d}
               \/ /\ g.writer[d] \in DOMAIN p
                  /\ \E j \in DOMAIN p[g.writer[d]] :
                       Seen(g.writer[d], j, t + 1, 0) /\ WritesDatum(p, g.writer[d], j, d)
    BY <1>2, <2>1 DEF WriterOK
  <2>3. ASSUME NEW u \in DOMAIN p, NEW j \in DOMAIN p[u], Seen(u, j, t + 1, 0),
               Writes(p[u][j].mode)
        PROVE  g.writer[p[u][j].datum] \in DOMAIN p /\ g.writer[p[u][j].datum] >= u
    BY <1>2, <2>1, <2>3 DEF WriterOK
  <2>4. QED
    BY <2>2, <2>3 DEF WriterOK
<1>4. LinkedOK(p, g, t + 1, 0)
  <2>1. LinkedOK(p, g, t, Len(p[t]))
    BY DEF GraphOK
  <2>2. SUFFICES ASSUME NEW v \in DOMAIN p, NEW u \in 1 .. v - 1, NEW k \in DOMAIN p[v],
                        NEW j \in DOMAIN p[u], Seen(v, k, t + 1, 0),
                        WritesDatum(p, u, j, p[v][k].datum)
                 PROVE  \E w \in u .. v - 1 :
                          /\ v \in Range(g.succ[w])
                          /\ \E l \in DOMAIN p[w] : WritesDatum(p, w, l, p[v][k].datum)
    BY DEF LinkedOK
  <2>3. Seen(v, k, t, Len(p[t]))
    BY <1>2, <2>2
  <2>4. QED
    BY <2>1, <2>2, <2>3 DEF LinkedOK
<1>5. QED
  BY <1>3, <1>4 DEF GraphOK

LEMMA NoGraphIsRight ==
    ASSUME NEW p \in Programs
    PROVE  GraphOK(p, NoGraph(p), 1, 0)
<1> DEFINE g == NoGraph(p)
<1>1. /\ DOMAIN p = 1 .. Len(p) /\ Len(p) \in Nat
      /\ \A v \in DOMAIN p : DOMAIN p[v] = 1 .. Len(p[v]) /\ Len(p[v]) \in Nat
  BY ProgramFacts
<1>2. <<>> \in Seq(DOMAIN p) /\ <<>> \in Seq(Datum) /\ Len(<<>>) = 0 /\ DOMAIN <<>> = {}
  OBVIOUS
<1>3. /\ g.writer = [d \in Datum |-> None] /\ g.succ = [n \in Nodes(p) |-> <<>>]
      /\ g.wc = [n \in Nodes(p) |-> 0] /\ g.ready = <<>> /\ g.total = Len(p)
      /\ g = [writer |-> g.writer, succ |-> g.succ, wc |-> g.wc, ready |-> g.ready,
              total |-> g.total]
  BY DEF NoGraph
<1> HIDE DEF g
<1>4. g \in GraphType(p)
  <2>1. /\ g.writer \in [Datum -> Nodes(p) \cup {None}]
        /\ g.succ \in [Nodes(p) -> Seq(DOMAIN p)] /\ g.wc \in [Nodes(p) -> Nat]
        /\ g.ready \in Seq(Datum) /\ g.total \in Nat
    BY <1>1, <1>2, <1>3
  <2>2. QED
    BY <1>3, <2>1 DEF GraphType
<1>5. CountsOK(p, g)
  <2>1. \A n \in Nodes(p) : LinksTo(g.succ, n) = {}
    <3> SUFFICES ASSUME NEW n \in Nodes(p), NEW e \in LinksTo(g.succ, n) PROVE FALSE
      OBVIOUS
    <3>1. e[1] \in DOMAIN g.succ /\ e[2] \in DOMAIN g.succ[e[1]]
      BY LinkEnds
    <3>2. QED
      BY <1>2, <1>3, <3>1
  <2>2. IsInjective(g.ready) /\ Range(g.ready) = {}
    BY <1>2, <1>3 DEF IsInjective, Range
  <2>3. \A n \in Nodes(p) : IsFiniteSet(LinksTo(g.succ, n)) /\ Cardinality(LinksTo(g.succ, n)) = 0
    BY <2>1, FS_EmptySet
  <2>4. \A n \in Nodes(p) : g.wc[n] = 0
    BY <1>3
  <2>5. g.total = Len(p) + Len(g.ready)
    BY <1>1, <1>2, <1>3
  <2>6. QED
    BY <2>2, <2>3, <2>4, <2>5 DEF CountsOK
<1>6. \A u \in DOMAIN p : \A j \in DOMAIN p[u] : ~Seen(u, j, 1, 0)
  BY <1>1 DEF Seen
<1>7. WriterOK(p, g, 1, 0)
  BY <1>3, <1>6 DEF WriterOK
<1>8. LinkedOK(p, g, 1, 0)
  BY <1>6 DEF LinkedOK
<1>9. QED
  BY <1>4, <1>5, <1>7, <1>8 DEF GraphOK, g

LEMMA GraphIsRight ==
    ASSUME NEW p \in Programs
    PROVE  GraphOK(p, Graph(p), Len(p) + 1, 0)
<1>1. PICK n \in Nat : n = Len(p)
  BY ProgramFacts
<1>2. DOMAIN p = 1 .. n
  BY <1>1, ProgramFacts
<1> DEFINE G == GraphType(p)
           OK(h, k) == GraphOK(p, h, k + 1, 0)
           F == [k \in 1 .. n |->
                    [h \in G |-> IF OK(h, k - 1) THEN AddTask(p, h, k) ELSE h]]
           after == CHOOSE f : f = [t \in 0 .. n |->
                        IF t = 0 THEN NoGraph(p) ELSE AddTask(p, f[t - 1], t)]
<1>3. ASSUME NEW k \in 1 .. n, NEW h, OK(h, k - 1)
      PROVE  OK(AddTask(p, h, k), k) /\ AddTask(p, h, k) \in G
  <2>1. k \in DOMAIN p /\ k - 1 + 1 = k
    BY <1>2
  <2>2. GraphOK(p, h, k, 0)
    BY <1>3, <2>1
  <2>3. GraphOK(p, AddTask(p, h, k), k, Len(p[k]))
    BY <2>1, <2>2, TaskKeepsGraph
  <2>4. QED
    BY <2>1, <2>3, NextTask DEF GraphOK
<1>4. OK(NoGraph(p), 0) /\ NoGraph(p) \in G
  BY NoGraphIsRight DEF GraphOK
<1> HIDE DEF G, OK
<1>5. F \in [1 .. n -> [G -> G]]
  BY <1>3
<1>6. PICK f \in [0 .. n -> G] : IsIteration(f, n, NoGraph(p), F)
  <2> HIDE DEF F
  <2>1. QED
    BY <1>4, <1>5, IterationExists
<1>7. /\ f[0] = NoGraph(p)
      /\ \A k \in 1 .. n : f[k] = IF OK(f[k - 1], k - 1) THEN AddTask(p, f[k - 1], k) ELSE f[k - 1]
  <2>1. \A k \in 0 .. n : f[k] = IF k = 0 THEN NoGraph(p) ELSE F[k][f[k - 1]]
    <3> HIDE DEF F
    <3>1. QED
      BY <1>6 DEF IsIteration
  <2>2. ASSUME NEW k \in 1 .. n
        PROVE  f[k] = IF OK(f[k - 1], k - 1) THEN AddTask(p, f[k - 1], k) ELSE f[k - 1]
    <3>1. k \in 0 .. n /\ k # 0 /\ k - 1 \in 0 .. n
      OBVIOUS
    <3>2. f[k - 1] \in G
      BY <1>6, <3>1
    <3>3. f[k] = F[k][f[k - 1]]
      <4> HIDE DEF F
      <4>1. QED
        BY <2>1, <3>1
    <3>4. QED
      BY <3>2, <3>3
  <2>3. f[0] = NoGraph(p)
    <3> HIDE DEF F
    <3>1. 0 \in 0 .. n
      OBVIOUS
    <3>2. QED
      BY <2>1, <3>1
  <2>4. QED
    BY <2>2, <2>3
<1> HIDE DEF F
<1> DEFINE Bad == {k \in 0 .. n : ~OK(f[k], k)}
<1>8. Bad = {}
  <2> SUFFICES ASSUME Bad # {} PROVE FALSE
    OBVIOUS
  <2>1. Bad \subseteq Nat
    OBVIOUS
  <2>2. PICK k \in Bad : \A j \in Bad : k <= j
    <3> HIDE DEF Bad
    <3>1. QED
      BY <2>1, LeastCounterexample
  <2>3. k \in 0 .. n /\ ~OK(f[k], k)
    OBVIOUS
  <2>4. k # 0
    BY <1>4, <1>7, <2>3
  <2>5. k \in 1 .. n /\ k - 1 \in 0 .. n /\ ~(k <= k - 1)
    BY <2>3, <2>4
  <2>6. OK(f[k - 1], k - 1)
    BY <2>2, <2>5
  <2>7. f[k] = AddTask(p, f[k - 1], k)
    BY <1>7, <2>5, <2>6
  <2>8. OK(f[k], k)
    BY <1>3, <2>5, <2>6, <2>7
  <2>9. QED
    BY <2>3, <2>8
<1>9. \A k \in 0 .. n : OK(f[k], k)
  BY <1>8
<1> HIDE DEF Bad
<1>10. f = [t \in 0 .. n |-> IF t = 0 THEN NoGraph(p) ELSE AddTask(p, f[t - 1], t)]
  <2>1. \A t \in 0 .. n : f[t] = IF t = 0 THEN NoGraph(p) ELSE AddTask(p, f[t - 1], t)
    <3> SUFFICES ASSUME NEW t \in 0 .. n
                 PROVE  f[t] = IF t = 0 THEN NoGraph(p) ELSE AddTask(p, f[t - 1], t)
      OBVIOUS
    <3>1. CASE t = 0
      BY <1>7, <3>1
    <3>2. CASE t # 0
      <4>1. t \in 1 .. n /\ t - 1 \in 0 .. n
        BY <3>2
      <4>2. QED
        BY <1>7, <1>9, <3>2, <4>1
    <3>3. QED
      BY <3>1, <3>2
  <2>2. QED
    BY <1>6, <2>1
<1>11. after = [t \in 0 .. n |-> IF t = 0 THEN NoGraph(p) ELSE AddTask(p, after[t - 1], t)]
  BY <1>10, Zenon
<1>12. Graph(p) = after[n]
  BY <1>1, Zenon DEF Graph
<1> HIDE DEF after
<1>13. after[0] = NoGraph(p) /\ \A t \in 1 .. n : after[t] = AddTask(p, after[t - 1], t)
  <2>1. after[0] = NoGraph(p)
    BY <1>11
  <2>2. ASSUME NEW t \in 1 .. n PROVE after[t] = AddTask(p, after[t - 1], t)
    <3>1. t \in 0 .. n /\ t # 0
      OBVIOUS
    <3>2. QED
      BY <1>11, <3>1
  <2>3. QED
    BY <2>1, <2>2
<1> DEFINE Wrong == {k \in 0 .. n : ~OK(after[k], k)}
<1>14. Wrong = {}
  <2> SUFFICES ASSUME Wrong # {} PROVE FALSE
    OBVIOUS
  <2>1. Wrong \subseteq Nat
    OBVIOUS
  <2>2. PICK k \in Wrong : \A j \in Wrong : k <= j
    <3> HIDE DEF Wrong
    <3>1. QED
      BY <2>1, LeastCounterexample
  <2>3. k \in 0 .. n /\ ~OK(after[k], k)
    OBVIOUS
  <2>4. k # 0
    BY <1>4, <1>13, <2>3
  <2>5. k \in 1 .. n /\ k - 1 \in 0 .. n /\ ~(k <= k - 1)
    BY <2>3, <2>4
  <2>6. OK(after[k - 1], k - 1)
    BY <2>2, <2>5
  <2>7. OK(after[k], k)
    BY <1>3, <1>13, <2>5, <2>6
  <2>8. QED
    BY <2>3, <2>7
<1>15. OK(after[n], n)
  BY <1>14
<1>16. QED
  BY <1>1, <1>12, <1>15 DEF OK

-------------------------------------------------------------------------------
(* The graph of the frame that is executed.                                *)

LEMMA GraphFacts ==
    ASSUME GraphInv
    PROVE  /\ program \in Programs
           /\ graph.succ \in [Nodes(program) -> Seq(DOMAIN program)]
           /\ graph.wc \in [Nodes(program) -> Nat]
           /\ \A n \in Nodes(program) :
                /\ IsFiniteSet(LinksTo(graph.succ, n))
                /\ graph.wc[n] = Cardinality(LinksTo(graph.succ, n))
           /\ \A d \in Datum : LinksTo(graph.succ, d) = {}
           /\ LinkedOK(program, Graph(program), Len(program) + 1, 0)
           /\ graph.succ = Graph(program).succ
<1> DEFINE g == Graph(program)
<1>1. program \in Programs /\ graph.succ = g.succ /\ graph.wc = g.wc
  BY DEF GraphInv
<1>2. GraphOK(program, g, Len(program) + 1, 0)
  BY <1>1, GraphIsRight
<1>3. g.succ \in [Nodes(program) -> Seq(DOMAIN program)] /\ g.wc \in [Nodes(program) -> Nat]
  <2> HIDE DEF g
  <2>1. QED
    BY <1>2 DEF GraphOK, GraphType
<1>4. \A d \in Datum : LinksTo(graph.succ, d) = {}
  <2> SUFFICES ASSUME NEW d \in Datum, NEW e \in LinksTo(graph.succ, d) PROVE FALSE
    OBVIOUS
  <2>1. e[1] \in DOMAIN graph.succ /\ e[2] \in DOMAIN graph.succ[e[1]]
        /\ graph.succ[e[1]][e[2]] = d
    BY LinkEnds
  <2>2. d \in DOMAIN program
    <3> HIDE DEF g
    <3>1. QED
      BY <1>1, <1>3, <2>1
  <2>3. QED
    BY <1>1, <2>2, ProgramFacts
<1>5. QED
  <2> HIDE DEF g
  <2>1. CountsOK(program, g) /\ LinkedOK(program, g, Len(program) + 1, 0)
    BY <1>2 DEF GraphOK
  <2>2. QED
    BY <1>1, <1>3, <1>4, <2>1 DEF CountsOK, g

LEMMA UsedFacts ==
    ASSUME GraphInv
    PROVE  /\ Graph(program).ready \in Seq(Datum) /\ IsInjective(Graph(program).ready)
           /\ Range(Graph(program).ready) \subseteq Datum
           /\ DOMAIN program \subseteq Used /\ Used \subseteq Nodes(program)
           /\ Range(Graph(program).ready) \subseteq Used
           /\ None \notin Used
           /\ IsFiniteSet(Used) /\ Cardinality(Used) = graph.total
<1>1. PICK g : g = Graph(program)
  OBVIOUS
<1>2. program \in Programs /\ graph.total = g.total
  BY <1>1 DEF GraphInv
<1>3. GraphOK(program, g, Len(program) + 1, 0)
  BY <1>1, <1>2, GraphIsRight
<1>4. g.ready \in Seq(Datum) /\ IsInjective(g.ready) /\ g.total = Len(program) + Len(g.ready)
  BY <1>3 DEF GraphOK, GraphType, CountsOK
<1>5. Range(g.ready) \subseteq Datum
  BY <1>4 DEF Range
<1>6. /\ DOMAIN program = 1 .. Len(program) /\ Len(program) \in Nat
      /\ \A t \in DOMAIN program : t \notin Datum /\ t # None
      /\ None \notin Datum
  BY <1>2, ProgramFacts, ConstantsAssumption
<1>7. Used = DOMAIN program \cup Range(g.ready)
  BY <1>1 DEF Used
<1>8. DOMAIN program \subseteq Used /\ Used \subseteq Nodes(program) /\ None \notin Used
      /\ Range(g.ready) \subseteq Used
  BY <1>5, <1>6, <1>7 DEF Nodes
<1>9. IsFiniteSet(Range(g.ready)) /\ Cardinality(Range(g.ready)) = Len(g.ready)
  BY <1>4, LengthOfList
<1>10. IsFiniteSet(DOMAIN program) /\ Cardinality(DOMAIN program) = Len(program)
  <2>1. 1 \in Int /\ Len(program) \in Int
    BY <1>6
  <2>2. /\ IsFiniteSet(1 .. Len(program))
        /\ Cardinality(1 .. Len(program)) = IF 1 > Len(program) THEN 0 ELSE Len(program) - 1 + 1
    BY <2>1, FS_Interval, Zenon
  <2>3. Cardinality(1 .. Len(program)) = Len(program)
    BY <1>6, <2>2
  <2>4. QED
    BY <1>6, <2>2, <2>3, Zenon
<1>11. DOMAIN program \cap Range(g.ready) = {}
  BY <1>5, <1>6
<1>12. Cardinality(DOMAIN program \cap Range(g.ready)) = 0
  BY <1>11, FS_EmptySet, Zenon
<1>13. /\ IsFiniteSet(DOMAIN program \cup Range(g.ready))
       /\ Cardinality(DOMAIN program \cup Range(g.ready))
            = Cardinality(DOMAIN program) + Cardinality(Range(g.ready))
                - Cardinality(DOMAIN program \cap Range(g.ready))
  BY <1>9, <1>10, FS_Union, Zenon
<1>14. IsFiniteSet(Used) /\ Cardinality(Used) = Len(program) + Len(g.ready)
  <2>1. IsFiniteSet(Used) /\ Cardinality(Used) = Len(program) + Len(g.ready) - 0
    BY <1>7, <1>9, <1>10, <1>12, <1>13, Zenon
  <2>2. QED
    BY <1>4, <1>6, <2>1
<1>15. QED
  BY <1>1, <1>2, <1>4, <1>5, <1>8, <1>14, Zenon

-------------------------------------------------------------------------------
(* What the contexts have still to report.                                 *)

Owed(u) == UNION {{c} \X (1 .. u[c]) : c \in Context}

LEMMA OwedMember ==
    ASSUME NEW u, NEW e
    PROVE  e \in Owed(u) <=> \E c \in Context : \E i \in 1 .. u[c] : e = <<c, i>>
BY DEF Owed

LEMMA OwedIsFinite ==
    ASSUME NEW u \in [Context -> Nat]
    PROVE  IsFiniteSet(Owed(u))
<1>1. IsFiniteSet(Context)
  BY ConstantsAssumption
<1> DEFINE S == {{c} \X (1 .. u[c]) : c \in Context}
           f == [c \in Context |-> {c} \X (1 .. u[c])]
<1>2. f \in Surjection(Context, S)
  BY DEF Surjection
<1>3. IsFiniteSet(S)
  <2> HIDE DEF f, S
  <2>1. QED
    BY <1>1, <1>2, FS_Surjection
<1>4. ASSUME NEW c \in Context
      PROVE  IsFiniteSet({c} \X (1 .. u[c]))
  <2>1. IsFiniteSet({c}) /\ IsFiniteSet(1 .. u[c])
    <3>1. 1 \in Int /\ u[c] \in Int
      OBVIOUS
    <3>2. QED
      BY <3>1, FS_Singleton, FS_Interval
  <2>2. QED
    BY <2>1, FS_Product
<1>5. \A T \in S : IsFiniteSet(T)
  BY <1>4
<1>6. IsFiniteSet(UNION S)
  <2> HIDE DEF S
  <2>1. QED
    BY <1>3, <1>5, FS_UNION
<1>7. QED
  BY <1>6 DEF Owed

LEMMA OwedByOne ==
    ASSUME NEW c \in Context, NEW k \in Nat
    PROVE  IsFiniteSet({c} \X (1 .. k)) /\ Cardinality({c} \X (1 .. k)) = k
<1>1. /\ IsFiniteSet(1 .. k)
      /\ Cardinality(1 .. k) = k
  <2>1. 1 \in Int /\ k \in Int
    OBVIOUS
  <2>2. IsFiniteSet(1 .. k) /\ Cardinality(1 .. k) = IF 1 > k THEN 0 ELSE k - 1 + 1
    BY <2>1, FS_Interval, Zenon
  <2>3. QED
    BY <2>2
<1>2. IsFiniteSet({c}) /\ Cardinality({c}) = 1
  BY FS_Singleton, Zenon
<1>3. /\ IsFiniteSet({c} \X (1 .. k))
      /\ Cardinality({c} \X (1 .. k)) = Cardinality({c}) * Cardinality(1 .. k)
  BY <1>1, <1>2, FS_Product, Zenon
<1>4. Cardinality({c} \X (1 .. k)) = 1 * k
  BY <1>1, <1>2, <1>3, Zenon
<1>5. QED
  BY <1>3, <1>4

LEMMA OwedChange ==
    ASSUME NEW u \in [Context -> Nat], NEW c \in Context, NEW v \in [Context -> Nat],
           \A d \in Context \ {c} : v[d] = u[d]
    PROVE  Cardinality(Owed(v)) = Cardinality(Owed(u)) - u[c] + v[c]
<1> DEFINE R == {e \in Owed(u) : e[1] # c}
<1>1. IsFiniteSet(Owed(u)) /\ IsFiniteSet(Owed(v))
  BY OwedIsFinite
<1>2. IsFiniteSet(R)
  BY <1>1, FS_Subset
<1>3. ASSUME NEW w \in [Context -> Nat], \A d \in Context \ {c} : w[d] = u[d]
      PROVE  Cardinality(Owed(w)) = Cardinality(R) + w[c]
  <2>1. Owed(w) = R \cup ({c} \X (1 .. w[c]))
    <3>1. ASSUME NEW e \in Owed(w)
          PROVE  e \in R \cup ({c} \X (1 .. w[c]))
      <4>1. PICK d \in Context : \E i \in 1 .. w[d] : e = <<d, i>>
        BY OwedMember
      <4>2. PICK i \in 1 .. w[d] : e = <<d, i>>
        BY <4>1
      <4>3. CASE d = c
        BY <4>2, <4>3
      <4>4. CASE d # c
        <5>1. i \in 1 .. u[d] /\ e[1] # c
          BY <1>3, <4>2, <4>4
        <5>2. e \in Owed(u)
          BY <4>2, <5>1, OwedMember
        <5>3. QED
          BY <5>1, <5>2
      <4>5. QED
        BY <4>3, <4>4
    <3>2. ASSUME NEW e \in R
          PROVE  e \in Owed(w)
      <4>1. PICK d \in Context : \E i \in 1 .. u[d] : e = <<d, i>>
        BY OwedMember
      <4>2. PICK i \in 1 .. u[d] : e = <<d, i>>
        BY <4>1
      <4>3. d # c
        BY <4>2
      <4>4. i \in 1 .. w[d]
        BY <1>3, <4>3
      <4>5. QED
        BY <4>2, <4>4, OwedMember
    <3>3. ASSUME NEW e \in {c} \X (1 .. w[c])
          PROVE  e \in Owed(w)
      <4>1. e = <<c, e[2]>> /\ e[2] \in 1 .. w[c]
        OBVIOUS
      <4>2. QED
        BY <4>1, OwedMember
    <3> HIDE DEF R
    <3>4. QED
      BY <3>1, <3>2, <3>3
  <2>2. R \cap ({c} \X (1 .. w[c])) = {}
    OBVIOUS
  <2> HIDE DEF R
  <2>3. w[c] \in Nat
    OBVIOUS
  <2>4. IsFiniteSet({c} \X (1 .. w[c])) /\ Cardinality({c} \X (1 .. w[c])) = w[c]
    BY <2>3, OwedByOne
  <2>5. Cardinality(R \cup ({c} \X (1 .. w[c])))
            = Cardinality(R) + Cardinality({c} \X (1 .. w[c]))
                - Cardinality(R \cap ({c} \X (1 .. w[c])))
    BY <1>2, <2>4, FS_Union, Zenon
  <2>6. Cardinality(R \cap ({c} \X (1 .. w[c]))) = 0
    BY <2>2, FS_EmptySet, Zenon
  <2>7. Cardinality(Owed(w)) = Cardinality(R) + w[c] - 0
    BY <2>1, <2>4, <2>5, <2>6, Zenon
  <2>8. Cardinality(R) \in Nat
    BY <1>2, FS_CardinalityType
  <2>9. QED
    BY <2>3, <2>7, <2>8
<1> HIDE DEF R
<1>4. Cardinality(Owed(u)) = Cardinality(R) + u[c] /\ Cardinality(Owed(v)) = Cardinality(R) + v[c]
  BY <1>3
<1>5. Cardinality(R) \in Nat
  BY <1>2, FS_CardinalityType
<1>6. QED
  BY <1>4, <1>5

-------------------------------------------------------------------------------
(* Places.                                                                 *)

LEMMA MoveIsDisjoint ==
    ASSUME NEW H, NEW K, DOMAIN K = DOMAIN H, Disjoint(H),
           NEW a \in DOMAIN H, NEW b \in DOMAIN H, a # b, NEW n \in H[a],
           K[a] = H[a] \ {n}, K[b] = H[b] \cup {n},
           \A x \in DOMAIN H \ {a, b} : K[x] = H[x]
    PROVE  Disjoint(K)
BY DEF Disjoint

LEMMA AddIsDisjoint ==
    ASSUME NEW H, NEW K, DOMAIN K = DOMAIN H, Disjoint(H),
           NEW b \in DOMAIN H, NEW n, \A x \in DOMAIN H : n \notin H[x],
           K[b] = H[b] \cup {n},
           \A x \in DOMAIN H \ {b} : K[x] = H[x]
    PROVE  Disjoint(K)
BY DEF Disjoint

LEMMA HeldNow ==
    /\ DOMAIN Held = Place
    /\ \A c \in Context :
        /\ Held[<<c, "list">>] = Range(list[c])
        /\ Held[<<c, "current">>] = IF pc[c] \in {"start", "decr", "body"} THEN {cur[c]} ELSE {}
        /\ Held[<<c, "link">>] = IF pc[c] = "link" THEN {Head(links[c])} ELSE {}
        /\ Held[<<c, "thief">>] = IF theft[c] = "reply" THEN {stolen[c]} ELSE {}
        /\ Held[<<c, "done">>] = IF c = Master THEN done ELSE {}
BY DEF Held, At, Place, Kind

LEMMA HeldThen ==
    /\ DOMAIN Held' = Place
    /\ \A c \in Context :
        /\ Held'[<<c, "list">>] = Range(list'[c])
        /\ Held'[<<c, "current">>] = IF pc'[c] \in {"start", "decr", "body"} THEN {cur'[c]} ELSE {}
        /\ Held'[<<c, "link">>] = IF pc'[c] = "link" THEN {Head(links'[c])} ELSE {}
        /\ Held'[<<c, "thief">>] = IF theft'[c] = "reply" THEN {stolen'[c]} ELSE {}
        /\ Held'[<<c, "done">>] = IF c = Master THEN done' ELSE {}
BY DEF Held, At, Place, Kind

LEMMA PlaceCases ==
    /\ \A x \in Place : \E c \in Context, k \in Kind : x = <<c, k>>
    /\ \A c \in Context, k \in Kind : <<c, k>> \in Place
BY DEF Place

-------------------------------------------------------------------------------
(* Types.                                                                  *)

LEMMA GraphStep ==
    ASSUME GraphInv, [Next]_vars
    PROVE  GraphInv' /\ program' = program /\ graph' = graph /\ Used' = Used
<1>1. program' = program /\ graph' = graph
  BY DEF Next, vars, graphVars, ExecFrame, StealReady, Leave, Steal, TestList, Pop, DecrAndBegin,
         EndBody, Activate, LinkReady, CountReady, Report, Check, WakeUp, Start, Detach, Unlist,
         Destroy, LockStack, ReadCount, TakeTail, TakeNothing, Reply
<1>2. QED
  BY <1>1 DEF GraphInv, Used

LEMMA NodeFacts ==
    ASSUME GraphInv, TypeOK, PlaceInv, NEW c \in Context
    PROVE  /\ pc[c] \in {"start", "decr", "body"} => cur[c] \in Used /\ cur[c] \in Nodes(program)
                /\ graph.succ[cur[c]] \in Seq(DOMAIN program)
           /\ theft[c] = "reply" => stolen[c] \in Used
           /\ pc[c] = "link" => Head(links[c]) \in Used
           /\ IsInjective(list[c]) /\ list[c] \in Seq(Used)
<1>1. /\ Held[<<c, "current">>] \subseteq Used /\ Held[<<c, "thief">>] \subseteq Used
      /\ Held[<<c, "link">>] \subseteq Used
  BY DEF PlaceInv, Place, Kind
<1>2. IsInjective(list[c]) /\ list[c] \in Seq(Used)
  BY DEF PlaceInv, TypeOK
<1>3. pc[c] \in {"start", "decr", "body"} => cur[c] \in Used
  BY <1>1, HeldNow
<1>4. theft[c] = "reply" => stolen[c] \in Used
  BY <1>1, HeldNow
<1>5. pc[c] = "link" => Head(links[c]) \in Used
  BY <1>1, HeldNow
<1>6. Used \subseteq Nodes(program) /\ graph.succ \in [Nodes(program) -> Seq(DOMAIN program)]
  BY GraphFacts, UsedFacts
<1>7. QED
  BY <1>2, <1>3, <1>4, <1>5, <1>6

LEMMA MasterFact ==
    ASSUME ContextInv, TheftInv, NEW v \in Context, theft[v] # "none"
    PROVE  MasterOf(v) = Master
<1>1. pc[v] \in Loop \cup {"detach", "end", "await"}
  BY DEF TheftInv
<1>2. boss[v] = IF v = Master THEN None ELSE Master
  BY <1>1 DEF ContextInv, Loop
<1>3. None # Master
  BY ConstantsAssumption
<1>4. QED
  BY <1>2, <1>3 DEF MasterOf

LEMMA ActivateFacts ==
    ASSUME GraphInv, TypeOK, WalkInv, NEW c \in Context, Walks(c)
    PROVE  /\ links[c] \in Seq(DOMAIN program) /\ links[c] # <<>>
           /\ Head(links[c]) \in DOMAIN program /\ Head(links[c]) \in Nodes(program)
           /\ Tail(links[c]) \in Seq(DOMAIN program)
           /\ Len(links[c]) \in Nat \ {0} /\ Len(Tail(links[c])) = Len(links[c]) - 1
           /\ \A i \in 1 .. Len(links[c]) - 1 : Tail(links[c])[i] = links[c][i + 1]
           /\ Head(links[c]) = links[c][1]
<1>1. links[c] \in Seq(DOMAIN program) /\ links[c] # <<>>
  BY DEF TypeOK, WalkInv
<1>2. \A s \in Seq(DOMAIN program) : s # <<>> =>
        /\ Head(s) \in DOMAIN program /\ Tail(s) \in Seq(DOMAIN program)
        /\ Len(s) \in Nat \ {0} /\ Len(Tail(s)) = Len(s) - 1
        /\ \A i \in 1 .. Len(s) - 1 : Tail(s)[i] = s[i + 1]
        /\ Head(s) = s[1]
  OBVIOUS
<1>3. QED
  BY <1>1, <1>2 DEF Nodes

LEMMA TypeStep ==
    ASSUME GraphInv, TypeOK, ContextInv, TheftInv, PlaceInv, WalkInv, [Next]_vars
    PROVE  TypeOK'
<1>1. program' = program /\ Used' = Used /\ Nodes(program)' = Nodes(program)
  BY GraphStep
<1>2. Master \in Context
  BY ConstantsAssumption
<1>3. ASSUME NEW c \in Context, TestList(c) \/ DecrAndBegin(c) \/ Report(c)
      PROVE  TypeOK'
  <2>1. CASE TestList(c)
    BY <1>1, <2>1 DEF TypeOK, TestList, Goto, Location, Loop, graphVars, listVars, frameVars,
         loopVars, theftVars, ghosts
  <2>2. CASE DecrAndBegin(c)
    BY <1>1, <2>2 DEF TypeOK, DecrAndBegin, Goto, Location, Loop, graphVars, frameVars, loopVars,
         theftVars, ghosts
  <2>3. CASE Report(c)
    <3>1. pc' \in [Context -> Location]
      BY <2>3 DEF TypeOK, Report, Goto, Location, Loop
    <3>2. exec' \in [Context -> Nat] /\ local' \in [Context -> Nat]
      BY <2>3 DEF TypeOK, Report
    <3>3. QED
      BY <1>1, <2>3, <3>1, <3>2 DEF TypeOK, Report, graphVars, listVars, frameVars, theftVars,
           ghosts
  <2>4. QED
    BY <1>3, <2>1, <2>2, <2>3
<1>4. ASSUME NEW c \in Context, Pop(c)
      PROVE  TypeOK'
  <2>1. CASE list[c] = <<>>
    BY <1>1, <1>4, <2>1 DEF TypeOK, Pop, Goto, Location, Loop, graphVars, frameVars,
         theftVars, ghosts
  <2>2. CASE list[c] # <<>>
    <3>1. Head(list[c]) \in Used /\ Tail(list[c]) \in Seq(Used)
      BY <2>2, NodeFacts, TailOfList
    <3>2. list' \in [Context -> Seq(Used)] /\ cur' \in [Context -> Used \cup {None}]
      BY <1>4, <2>2, <3>1 DEF TypeOK, Pop
    <3>3. pc' \in [Context -> Location]
      BY <1>4 DEF TypeOK, Pop, Goto, Location, Loop
    <3>4. QED
      BY <1>1, <1>4, <3>2, <3>3 DEF TypeOK, Pop, graphVars, frameVars, theftVars, ghosts
  <2>3. QED
    BY <2>1, <2>2
<1>5. ASSUME NEW c \in Context, EndBody(c)
      PROVE  TypeOK'
  <2>1. cur[c] \in Used /\ graph.succ[cur[c]] \in Seq(DOMAIN program)
    BY <1>5, NodeFacts DEF EndBody, Goto
  <2>2. QED
    BY <1>1, <1>5, <2>1 DEF TypeOK, EndBody, Goto, Walk, Location, Loop, graphVars, listVars,
         frameVars, theftVars
<1>6. ASSUME NEW c \in Context, Activate(c)
      PROVE  TypeOK'
  <2>1. Walks(c)
    BY <1>6 DEF Activate, Walks
  <2>2. Head(links[c]) \in Nodes(program) /\ Tail(links[c]) \in Seq(DOMAIN program)
    BY <2>1, ActivateFacts
  <2>3. counter' \in [Nodes(program) -> Nat]
    BY <1>6, <2>2 DEF TypeOK, Activate
  <2>4. links' \in [Context -> Seq(DOMAIN program)]
    BY <1>6, <2>2 DEF TypeOK, Activate
  <2>5. pc' \in [Context -> Location]
    BY <1>6 DEF TypeOK, Activate, Goto, Walk, Location, Loop
  <2>6. QED
    BY <1>1, <1>6, <2>3, <2>4, <2>5 DEF TypeOK, Activate, listVars, frameVars, theftVars, ghosts
<1>7. ASSUME NEW c \in Context, LinkReady(c)
      PROVE  TypeOK'
  <2>1. pc[c] = "link" /\ list' = [list EXCEPT ![c] = <<Head(links[c])>> \o @]
    BY <1>7 DEF LinkReady, Goto
  <2>2. Head(links[c]) \in Used /\ list[c] \in Seq(Used)
    BY <2>1, NodeFacts
  <2>3. <<Head(links[c])>> \o list[c] \in Seq(Used)
    BY <2>2
  <2>4. list' \in [Context -> Seq(Used)]
    BY <2>1, <2>3 DEF TypeOK
  <2>5. QED
    BY <1>1, <1>7, <2>4 DEF TypeOK, LinkReady, Goto, Location, Loop, graphVars, frameVars,
         loopVars, theftVars, ghosts
<1>8. ASSUME NEW c \in Context, CountReady(c)
      PROVE  TypeOK'
  <2>1. Walks(c)
    BY <1>8 DEF CountReady, Goto, Walks
  <2>2. Tail(links[c]) \in Seq(DOMAIN program)
    BY <2>1, ActivateFacts
  <2>3. QED
    BY <1>1, <1>8, <2>2, SMTT(30)
       DEF TypeOK, CountReady, Goto, Walk, Location, Loop, graphVars, frameVars,
           theftVars, ghosts
<1>9. ASSUME NEW c \in Context, Start(c)
      PROVE  TypeOK'
  <2>1. cur[c] \in Used
    BY <1>9, NodeFacts DEF Start, Goto
  <2>2. <<cur[c]>> \in Seq(Used)
    BY <2>1
  <2>3. QED
    BY <1>1, <1>9, <2>2 DEF TypeOK, Start, Goto, Location, Loop, graphVars, theftVars, ghosts
<1>10. ASSUME NEW c \in Context, Detach(c)
       PROVE  TypeOK'
  <2>1. exec[c] \in Nat /\ \A d \in Context : exec[d] + exec[c] \in Nat
    BY DEF TypeOK
  <2>2. exec' \in [Context -> Nat]
    BY <1>10, <2>1 DEF TypeOK, Detach
  <2>3. QED
    BY <1>1, <1>10, <2>2 DEF TypeOK, Detach, Goto, Location, Loop, graphVars, listVars, theftVars,
         ghosts
<1>11. ASSUME Leave
       PROVE  TypeOK'
  <2>1. pc' \in [Context -> Location]
    <3>1. \E l \in Location : pc' = [pc EXCEPT ![Master] = l]
      BY <1>11 DEF Leave, Check, WakeUp, Unlist, Destroy, Goto, Location, Loop
    <3>2. QED
      BY <3>1 DEF TypeOK
  <2>2. /\ listed' \in [Context -> BOOLEAN] /\ alive' \in [Context -> BOOLEAN]
        /\ waits' \in [Context -> BOOLEAN]
    BY <1>2, <1>11 DEF TypeOK, Leave, Check, WakeUp, Unlist, Destroy, frameVars, theftVars
  <2>3. UNCHANGED <<graphVars, listVars, boss, loopVars, lock, theft, serve, stolen, ghosts>>
    BY <1>11 DEF Leave, Check, WakeUp, Unlist, Destroy, frameVars, theftVars
  <2>4. QED
    BY <1>1, <2>1, <2>2, <2>3 DEF TypeOK, graphVars, listVars, loopVars, ghosts
<1>12. ASSUME NEW v \in Context, NEW R \in SUBSET Context, LockStack(v, R)
       PROVE  TypeOK'
  BY <1>1, <1>12 DEF TypeOK, LockStack, TheftGoto, Theft, Location, Loop, graphVars, listVars,
       frameVars, loopVars
<1>13. ASSUME NEW v \in Context, ReadCount(v) \/ TakeNothing(v)
       PROVE  TypeOK'
  <2>1. CASE TakeNothing(v) \/ (ReadCount(v) /\ UnlockStack(v))
    <3>1. UnlockStack(v) /\ UNCHANGED <<graphVars, listVars, frameVars, loopVars, stolen, ghosts>>
      BY <2>1 DEF TakeNothing, ReadCount
    <3>2. theft' \in [Context -> Theft] /\ lock' \in [Context -> BOOLEAN]
          /\ waits' \in [Context -> BOOLEAN] /\ serve' \in [Context -> SUBSET Context]
      BY <3>1 DEF UnlockStack, TypeOK, Theft
    <3>3. pc' \in [Context -> Location]
      BY <3>1 DEF UnlockStack, TypeOK, Location
    <3>4. QED
      BY <1>1, <3>1, <3>2, <3>3 DEF TypeOK, graphVars, listVars, frameVars, loopVars, ghosts
  <2>2. CASE ReadCount(v) /\ ~UnlockStack(v)
    <3>1. /\ theft' = [theft EXCEPT ![v] = "take"] /\ UNCHANGED <<pc, lock, waits, serve>>
          /\ UNCHANGED <<graphVars, listVars, frameVars, loopVars, stolen, ghosts>>
      BY <2>2 DEF ReadCount, TheftGoto
    <3>2. QED
      BY <1>1, <3>1 DEF TypeOK, Theft, graphVars, listVars, frameVars, loopVars, ghosts
  <2>3. QED
    BY <1>13, <2>1, <2>2
<1>14. ASSUME NEW v \in Context, TakeTail(v)
       PROVE  TypeOK'
  <2>1. Last(list[v]) \in Used /\ Front(list[v]) \in Seq(Used)
    BY <1>14, NodeFacts, FrontOfList DEF TakeTail
  <2>2. QED
    BY <1>1, <1>14, <2>1 DEF TypeOK, TakeTail, TheftGoto, Theft, graphVars, frameVars, loopVars,
         ghosts
<1>15. ASSUME NEW v \in Context, Reply(v)
       PROVE  TypeOK'
  <2>1. stolen[v] \in Used /\ MasterOf(v) = Master
    BY <1>15, NodeFacts, MasterFact DEF Reply, TheftGoto
  <2>2. PICK r \in serve[v] :
          /\ pc' = [pc EXCEPT ![r] = "start"]
          /\ cur' = [cur EXCEPT ![r] = stolen[v]]
          /\ boss' = [boss EXCEPT ![r] = MasterOf(v)]
          /\ serve' = [serve EXCEPT ![v] = @ \ {r}]
    BY <1>15 DEF Reply
  <2>3. QED
    BY <1>1, <1>15, <2>1, <2>2
       DEF TypeOK, Reply, TheftGoto, Theft, Location, Loop, graphVars, ghosts
<1>16. CASE UNCHANGED vars
  BY <1>1, <1>16 DEF TypeOK, vars, graphVars, listVars, frameVars, loopVars, theftVars, ghosts
<1>17. QED
  BY <1>3, <1>4, <1>5, <1>6, <1>7, <1>8, <1>9, <1>10, <1>11, <1>12, <1>13, <1>14, <1>15, <1>16
     DEF Next, ExecFrame, StealReady, Steal

-------------------------------------------------------------------------------
(* Where contexts and thieves are.                                         *)

\* A thief that leaves the stack v, and one that found its count positive.
ThiefLeaves(v) ==
    /\ theft[v] \in {"read", "take"}
    /\ UnlockStack(v)
    /\ UNCHANGED <<graphVars, listVars, frameVars, loopVars, stolen, ghosts>>

ThiefCounts(v) ==
    /\ theft[v] = "read" /\ theft' = [theft EXCEPT ![v] = "take"]
    /\ UNCHANGED <<graphVars, pc, listVars, frameVars, loopVars, lock, waits, serve,
                   stolen, ghosts>>

LEMMA ThiefCases ==
    ASSUME NEW v \in Context, ReadCount(v) \/ TakeNothing(v)
    PROVE  ThiefLeaves(v) \/ ThiefCounts(v)
BY DEF ReadCount, TakeNothing, ThiefLeaves, ThiefCounts, TheftGoto

\* The steps of the owner of a list, with the place it goes to.
OwnerMoves(c, from, to) == pc[c] = from /\ pc' = [pc EXCEPT ![c] = to]

LEMMA OwnerPlaces ==
    ASSUME NEW c \in Context, ExecFrame(c) \/ (c = Master /\ (Check \/ WakeUp))
    PROVE  /\ pc[c] \in Loop
           /\ \E to \in Loop \cup {"detach", "end"} :
                /\ OwnerMoves(c, pc[c], to)
                /\ to = "detach" => c # Master
                /\ to \in {"check", "suspended", "end"} => c = Master
           /\ UNCHANGED <<frameVars, theftVars>>
<1>1. CASE ExecFrame(c)
  BY <1>1 DEF ExecFrame, OwnerMoves, TestList, Pop, DecrAndBegin, EndBody, Activate, LinkReady,
       CountReady, Report, Goto, Walk, Loop, frameVars, theftVars
<1>2. CASE c = Master /\ (Check \/ WakeUp)
  BY <1>2 DEF OwnerMoves, Check, WakeUp, Goto, Loop, frameVars, theftVars
<1>3. QED
  BY <1>1, <1>2

LEMMA ContextStep ==
    ASSUME TypeOK, ContextInv, TheftInv, [Next]_vars
    PROVE  ContextInv'
<1>1. Master \in Context /\ None # Master
  BY ConstantsAssumption
<1>2. ASSUME NEW c \in Context, ExecFrame(c) \/ (c = Master /\ (Check \/ WakeUp))
      PROVE  ContextInv'
  <2>1. PICK to \in Loop \cup {"detach", "end"} :
          /\ OwnerMoves(c, pc[c], to)
          /\ to = "detach" => c # Master
          /\ to \in {"check", "suspended", "end"} => c = Master
    BY <1>2, OwnerPlaces
  <2>2. pc[c] \in Loop /\ UNCHANGED frameVars
    BY <1>2, OwnerPlaces
  <2>3. QED
    BY <2>1, <2>2 DEF ContextInv, TypeOK, OwnerMoves, Loop, frameVars
<1>3. ASSUME NEW c \in Context, Start(c)
      PROVE  ContextInv'
  BY <1>3 DEF ContextInv, TypeOK, Start, Goto, Loop
<1>4. ASSUME NEW c \in Context, Detach(c)
      PROVE  ContextInv'
  <2>1. /\ pc[c] = "detach" /\ pc' = [pc EXCEPT ![c] = "idle"]
        /\ listed' = [listed EXCEPT ![c] = FALSE] /\ alive' = [alive EXCEPT ![c] = FALSE]
        /\ boss' = [boss EXCEPT ![c] = None]
    BY <1>4 DEF Detach, Goto
  <2>2. \A d \in Context :
          /\ pc'[d] = IF d = c THEN "idle" ELSE pc[d]
          /\ listed'[d] <=> d # c /\ listed[d]
          /\ alive'[d] <=> d # c /\ alive[d]
          /\ boss'[d] = IF d = c THEN None ELSE boss[d]
    BY <2>1 DEF TypeOK
  <2>3. QED
    BY <2>1, <2>2 DEF ContextInv, Loop
<1>5. ASSUME Unlist \/ Destroy
      PROVE  ContextInv'
  <2>1. CASE Unlist
    <3>1. /\ pc[Master] = "end" /\ pc' = [pc EXCEPT ![Master] = "await"]
          /\ listed' = [listed EXCEPT ![Master] = FALSE] /\ alive' = alive /\ boss' = boss
      BY <2>1 DEF Unlist, Goto
    <3>2. \A d \in Context :
            /\ pc'[d] = IF d = Master THEN "await" ELSE pc[d]
            /\ listed'[d] <=> d # Master /\ listed[d]
            /\ alive'[d] <=> alive[d] /\ boss'[d] = boss[d]
      BY <3>1 DEF TypeOK
    <3>3. QED
      BY <1>1, <3>1, <3>2 DEF ContextInv, Loop
  <2>2. CASE Destroy
    <3>1. /\ pc[Master] = "await" /\ pc' = [pc EXCEPT ![Master] = "over"]
          /\ alive' = [alive EXCEPT ![Master] = FALSE] /\ listed' = listed /\ boss' = boss
      BY <2>2 DEF Destroy, Goto
    <3>2. \A d \in Context :
            /\ pc'[d] = IF d = Master THEN "over" ELSE pc[d]
            /\ alive'[d] <=> d # Master /\ alive[d]
            /\ listed'[d] <=> listed[d] /\ boss'[d] = boss[d]
      BY <3>1 DEF TypeOK
    <3>3. QED
      BY <1>1, <3>1, <3>2 DEF ContextInv, Loop
  <2>3. QED
    BY <1>5, <2>1, <2>2
<1>6. ASSUME NEW v \in Context, NEW R \in SUBSET Context, LockStack(v, R)
      PROVE  ContextInv'
  <2>1. /\ \A c \in Context : pc'[c] = IF c \in R THEN "asking" ELSE pc[c]
        /\ \A c \in R : pc[c] = "idle"
        /\ UNCHANGED frameVars
    BY <1>6 DEF LockStack
  <2>2. QED
    BY <2>1 DEF ContextInv, Loop, frameVars
<1>7. ASSUME NEW v \in Context, ThiefLeaves(v)
      PROVE  ContextInv'
  <2>1. /\ \A c \in Context : pc'[c] = IF c \in serve[v] THEN "idle" ELSE pc[c]
        /\ UNCHANGED frameVars
    BY <1>7 DEF ThiefLeaves, UnlockStack
  <2>2. \A c \in serve[v] : pc[c] = "asking"
    BY DEF TheftInv
  <2>3. QED
    BY <2>1, <2>2 DEF ContextInv, Loop, frameVars
<1>8. ASSUME NEW v \in Context, ThiefCounts(v) \/ TakeTail(v)
      PROVE  ContextInv'
  BY <1>8 DEF ContextInv, ThiefCounts, TakeTail, frameVars
<1>9. ASSUME NEW v \in Context, Reply(v)
      PROVE  ContextInv'
  <2>1. MasterOf(v) = Master
    BY <1>9, MasterFact DEF Reply, TheftGoto
  <2>2. PICK r \in serve[v] :
          /\ pc' = [pc EXCEPT ![r] = "start"]
          /\ boss' = [boss EXCEPT ![r] = MasterOf(v)]
    BY <1>9 DEF Reply
  <2>3. pc[r] = "asking" /\ r \in Context
    BY DEF TheftInv, TypeOK
  <2>4. UNCHANGED <<listed, alive>>
    BY <1>9 DEF Reply
  <2>5. QED
    BY <2>1, <2>2, <2>3, <2>4 DEF ContextInv, TypeOK, Loop
<1>10. CASE UNCHANGED vars
  BY <1>10 DEF ContextInv, vars, frameVars
<1>11. QED
  BY <1>1, <1>2, <1>3, <1>4, <1>5, <1>6, <1>7, <1>8, <1>9, <1>10, ThiefCases
     DEF Next, StealReady, Steal, Leave

\* A step that leaves the thefts alone and does not move a context that waits for
\* an answer.
LEMMA OwnerKeepsThefts ==
    ASSUME TypeOK, TheftInv, NEW c \in Context, pc[c] # "asking", NEW to \in Location,
           to # "asking", pc' = [pc EXCEPT ![c] = to],
           UNCHANGED <<lock, theft, serve>>,
           lock[c] => to \in Loop \cup {"detach", "end", "await"},
           lock[c] /\ to = "await" => waits'[c],
           \A v \in Context \ {c} : waits'[v] = waits[v]
    PROVE  TheftInv'
<1> SUFFICES ASSUME NEW v \in Context
             PROVE  /\ lock'[v] <=> theft'[v] # "none"
                    /\ lock'[v] => pc'[v] \in Loop \cup {"detach", "end", "await"}
                    /\ lock'[v] /\ pc'[v] = "await" => waits'[v]
                    /\ theft'[v] = "none" => serve'[v] = {}
                    /\ \A r \in serve'[v] : pc'[r] = "asking"
                    /\ \A w \in Context : w # v => serve'[v] \cap serve'[w] = {}
  BY DEF TheftInv
<1>1. \A r \in serve[v] : pc[r] = "asking" /\ r \in Context
  BY DEF TheftInv, TypeOK
<1>2. \A r \in serve'[v] : pc'[r] = "asking"
  BY <1>1 DEF TypeOK
<1>3. pc'[v] = IF v = c THEN to ELSE pc[v]
  BY DEF TypeOK
<1>4. QED
  BY <1>2, <1>3 DEF TheftInv

LEMMA TheftStep ==
    ASSUME TypeOK, ContextInv, TheftInv, [Next]_vars
    PROVE  TheftInv'
<1>1. Master \in Context /\ None # Master
  BY ConstantsAssumption
<1>2. ASSUME NEW c \in Context, ExecFrame(c) \/ (c = Master /\ (Check \/ WakeUp))
      PROVE  TheftInv'
  <2>1. PICK to \in Loop \cup {"detach", "end"} : OwnerMoves(c, pc[c], to)
    BY <1>2, OwnerPlaces
  <2>2. pc[c] \in Loop /\ UNCHANGED <<lock, waits, theft, serve>>
    BY <1>2, OwnerPlaces DEF theftVars
  <2>3. pc[c] # "asking" /\ to \in Location /\ to # "asking" /\ to # "await"
    BY <2>2 DEF Loop, Location
  <2>4. QED
    BY <2>1, <2>2, <2>3, OwnerKeepsThefts DEF OwnerMoves
<1>3. ASSUME NEW c \in Context, Start(c)
      PROVE  TheftInv'
  <2>1. /\ pc' = [pc EXCEPT ![c] = "test"] /\ pc[c] = "start"
        /\ UNCHANGED <<lock, waits, theft, serve>>
    BY <1>3 DEF Start, Goto, theftVars
  <2>2. "test" \in Location /\ "test" \in Loop
    BY DEF Location, Loop
  <2>3. QED
    BY <2>1, <2>2, OwnerKeepsThefts
<1>4. ASSUME NEW c \in Context, Detach(c)
      PROVE  TheftInv'
  <2>1. /\ pc' = [pc EXCEPT ![c] = "idle"] /\ pc[c] = "detach" /\ ~lock[c]
        /\ UNCHANGED <<lock, waits, theft, serve>>
    BY <1>4 DEF Detach, Goto, theftVars
  <2>2. "idle" \in Location
    BY DEF Location
  <2>3. QED
    BY <2>1, <2>2, OwnerKeepsThefts
<1>5. ASSUME Unlist
      PROVE  TheftInv'
  <2>1. /\ pc' = [pc EXCEPT ![Master] = "await"] /\ pc[Master] = "end"
        /\ UNCHANGED <<lock, theft, serve>>
        /\ waits' = [waits EXCEPT ![Master] = lock[Master]]
    BY <1>5 DEF Unlist, Goto
  <2>2. "await" \in Location
    BY DEF Location
  <2>3. waits'[Master] = lock[Master] /\ \A v \in Context \ {Master} : waits'[v] = waits[v]
    BY <1>1, <2>1 DEF TypeOK
  <2>4. QED
    BY <1>1, <2>1, <2>2, <2>3, OwnerKeepsThefts
<1>6. ASSUME Destroy
      PROVE  TheftInv'
  <2>1. /\ pc' = [pc EXCEPT ![Master] = "over"] /\ pc[Master] = "await"
        /\ UNCHANGED <<lock, waits, theft, serve>>
        /\ lock[Master] => ~waits[Master]
    BY <1>6 DEF Destroy, Goto, theftVars
  <2>2. "over" \in Location
    BY DEF Location
  <2>3. ~lock[Master]
    BY <1>1, <2>1 DEF TheftInv
  <2>4. QED
    BY <1>1, <2>1, <2>2, <2>3, OwnerKeepsThefts
<1>7. ASSUME NEW v \in Context, NEW R \in SUBSET Context, LockStack(v, R)
      PROVE  TheftInv'
  <2>1. /\ \A c \in Context : pc'[c] = IF c \in R THEN "asking" ELSE pc[c]
        /\ \A c \in R : pc[c] = "idle"
        /\ ~lock[v] /\ listed[v]
        /\ lock' = [lock EXCEPT ![v] = TRUE] /\ theft' = [theft EXCEPT ![v] = "read"]
        /\ serve' = [serve EXCEPT ![v] = R] /\ waits' = waits
    BY <1>7 DEF LockStack, TheftGoto
  <2>2. pc[v] \in Loop \cup {"detach", "end"} /\ v \notin R
    BY <2>1 DEF ContextInv, Loop
  <2>3. \A w \in Context : \A c \in serve[w] : c \in Context /\ c \notin R /\ pc[c] = "asking"
    BY <2>1 DEF TheftInv, TypeOK
  <2>4. \A w \in Context : serve'[w] = IF w = v THEN R ELSE serve[w]
    BY <2>1 DEF TypeOK
  <2>5. \A w \in Context : \A c \in serve'[w] : pc'[c] = "asking"
    BY <2>1, <2>3, <2>4
  <2>6. \A u, w \in Context : u # w => serve'[u] \cap serve'[w] = {}
    BY <2>3, <2>4 DEF TheftInv
  <2>7. \A w \in Context : /\ lock'[w] <=> w = v \/ lock[w]
                           /\ theft'[w] = IF w = v THEN "read" ELSE theft[w]
    BY <2>1 DEF TypeOK
  <2>8. \A w \in Context : /\ lock'[w] <=> theft'[w] # "none"
                           /\ theft'[w] = "none" => serve'[w] = {}
    BY <2>4, <2>7 DEF TheftInv
  <2>9. pc'[v] = pc[v] /\ pc[v] # "await"
    BY <2>1, <2>2 DEF Loop
  <2>10. \A w \in Context : w # v /\ lock[w] => pc'[w] = pc[w]
    BY <2>1 DEF TheftInv, Loop
  <2>11. \A w \in Context : /\ lock'[w] => pc'[w] \in Loop \cup {"detach", "end", "await"}
                            /\ lock'[w] /\ pc'[w] = "await" => waits'[w]
    BY <2>1, <2>2, <2>7, <2>9, <2>10 DEF TheftInv
  <2>12. QED
    BY <2>5, <2>6, <2>8, <2>11, Zenon DEF TheftInv
<1>8. ASSUME NEW v \in Context, ThiefLeaves(v)
      PROVE  TheftInv'
  <2>1. /\ \A c \in Context : pc'[c] = IF c \in serve[v] THEN "idle" ELSE pc[c]
        /\ lock' = [lock EXCEPT ![v] = FALSE] /\ theft' = [theft EXCEPT ![v] = "none"]
        /\ serve' = [serve EXCEPT ![v] = {}] /\ waits' = [waits EXCEPT ![v] = FALSE]
    BY <1>8 DEF ThiefLeaves, UnlockStack
  <2>2. \A w \in Context : serve'[w] = IF w = v THEN {} ELSE serve[w]
    BY <2>1 DEF TypeOK
  <2>3. \A w \in Context : \A c \in serve[w] : c \in Context /\ pc[c] = "asking"
    BY DEF TheftInv, TypeOK
  <2>4. \A w \in Context : \A c \in serve'[w] : pc'[c] = "asking"
    BY <2>1, <2>2, <2>3 DEF TheftInv
  <2>5. \A u, w \in Context : u # w => serve'[u] \cap serve'[w] = {}
    BY <2>2 DEF TheftInv
  <2>6. \A w \in Context : /\ lock'[w] <=> w # v /\ lock[w]
                           /\ theft'[w] = IF w = v THEN "none" ELSE theft[w]
                           /\ waits'[w] <=> w # v /\ waits[w]
    BY <2>1 DEF TypeOK
  <2>7. \A w \in Context : /\ lock'[w] <=> theft'[w] # "none"
                           /\ theft'[w] = "none" => serve'[w] = {}
    BY <2>2, <2>6 DEF TheftInv
  <2>8. \A w \in Context : lock[w] => pc'[w] = pc[w]
    BY <2>1, <2>3 DEF TheftInv, Loop
  <2>9. \A w \in Context : /\ lock'[w] => pc'[w] \in Loop \cup {"detach", "end", "await"}
                           /\ lock'[w] /\ pc'[w] = "await" => waits'[w]
    BY <2>6, <2>8 DEF TheftInv
  <2>10. QED
    BY <2>4, <2>5, <2>7, <2>9 DEF TheftInv
<1>9. ASSUME NEW v \in Context, ThiefCounts(v) \/ TakeTail(v)
      PROVE  TheftInv'
  <2>1. /\ theft[v] # "none" /\ UNCHANGED <<pc, lock, waits, serve>>
        /\ theft' = [theft EXCEPT ![v] = "take"] \/ theft' = [theft EXCEPT ![v] = "reply"]
    BY <1>9 DEF ThiefCounts, TakeTail, TheftGoto
  <2>2. \A w \in Context : (theft'[w] # "none") = (theft[w] # "none")
    BY <2>1 DEF TypeOK
  <2>3. QED
    BY <2>1, <2>2 DEF TheftInv
<1>10. ASSUME NEW v \in Context, Reply(v)
       PROVE  TheftInv'
  <2>1. PICK r \in serve[v] :
          /\ pc' = [pc EXCEPT ![r] = "start"]
          /\ serve' = [serve EXCEPT ![v] = @ \ {r}]
    BY <1>10 DEF Reply
  <2>2. r \in Context /\ pc[r] = "asking"
    BY DEF TheftInv, TypeOK
  <2>3. /\ theft[v] = "reply" /\ theft' = [theft EXCEPT ![v] = "read"]
        /\ UNCHANGED <<lock, waits>>
    BY <1>10 DEF Reply, TheftGoto
  <2>4. \A w \in Context : serve'[w] = IF w = v THEN serve[v] \ {r} ELSE serve[w]
    BY <2>1 DEF TypeOK
  <2>5. \A w \in Context : \A c \in serve[w] : c \in Context /\ pc[c] = "asking"
    BY DEF TheftInv, TypeOK
  <2>6. \A c \in Context : pc'[c] = IF c = r THEN "start" ELSE pc[c]
    BY <2>1, <2>2 DEF TypeOK
  <2>7. \A w \in Context : w # v => r \notin serve[w]
    BY <2>1 DEF TheftInv
  <2>8. \A w \in Context : \A c \in serve'[w] : pc'[c] = "asking"
    BY <2>4, <2>5, <2>6, <2>7
  <2>9. \A u, w \in Context : u # w => serve'[u] \cap serve'[w] = {}
    BY <2>4 DEF TheftInv
  <2>10. \A w \in Context : /\ lock'[w] <=> theft'[w] # "none"
                            /\ theft'[w] = "none" => serve'[w] = {}
    BY <2>3, <2>4, SMTT(30) DEF TheftInv, TypeOK
  <2>11. \A w \in Context : /\ lock'[w] => pc'[w] \in Loop \cup {"detach", "end", "await"}
                            /\ lock'[w] /\ pc'[w] = "await" => waits'[w]
    BY <2>2, <2>3, <2>6 DEF TheftInv, TypeOK, Loop
  <2>12. QED
    BY <2>8, <2>9, <2>10, <2>11 DEF TheftInv
<1>11. CASE UNCHANGED vars
  BY <1>11 DEF TheftInv, vars, theftVars
<1>12. QED
  BY <1>1, <1>2, <1>3, <1>4, <1>5, <1>6, <1>7, <1>8, <1>9, <1>10, <1>11, ThiefCases
     DEF Next, StealReady, Steal, Leave

-------------------------------------------------------------------------------
(* Lists and their counts.                                                 *)

\* The count of the list of c, if the rest of the state is as it is.
CountOf(c) == Len(list[c]) + OnWay(pc[c], theft[c])

InTransit == {"decr", "count"}

LEMMA OnWayFacts ==
    ASSUME NEW p, NEW q, NEW t, NEW s
    PROVE  /\ OnWay(p, t) \in Int
           /\ p \notin InTransit /\ q \notin InTransit /\ s = t => OnWay(q, s) = OnWay(p, t)
           /\ p \notin InTransit /\ q = "decr" /\ s = t => OnWay(q, s) = OnWay(p, t) + 1
           /\ p \notin InTransit /\ q = "count" /\ s = t => OnWay(q, s) = OnWay(p, t) - 1
           /\ p = "decr" /\ q \notin InTransit /\ s = t => OnWay(q, s) = OnWay(p, t) - 1
           /\ p = "count" /\ q \notin InTransit /\ s = t => OnWay(q, s) = OnWay(p, t) + 1
           /\ q = p /\ t # "reply" /\ s = "reply" => OnWay(q, s) = OnWay(p, t) + 1
           /\ q = p /\ t = "reply" /\ s # "reply" => OnWay(q, s) = OnWay(p, t) - 1
           /\ q = p /\ t # "reply" /\ s # "reply" => OnWay(q, s) = OnWay(p, t)
<1>1. CASE t = "reply"
  <2>1. CASE p = "decr"
    BY <1>1, <2>1 DEF OnWay, InTransit
  <2>2. CASE p = "count"
    BY <1>1, <2>2 DEF OnWay, InTransit
  <2>3. CASE p \notin InTransit
    BY <1>1, <2>3 DEF OnWay, InTransit
  <2>4. QED
    BY <2>1, <2>2, <2>3 DEF InTransit
<1>2. CASE t # "reply"
  <2>1. CASE p = "decr"
    BY <1>2, <2>1 DEF OnWay, InTransit
  <2>2. CASE p = "count"
    BY <1>2, <2>2 DEF OnWay, InTransit
  <2>3. CASE p \notin InTransit
    BY <1>2, <2>3 DEF OnWay, InTransit
  <2>4. QED
    BY <2>1, <2>2, <2>3 DEF InTransit
<1>3. QED
  BY <1>1, <1>2

\* A step that changes the list, the count or the thief of c only; other contexts
\* it moves have an empty list before and after.
LEMMA OneListChanges ==
    ASSUME ListInv, NEW c \in Context,
           \A d \in Context \ {c} :
               /\ list'[d] = list[d] /\ cnt'[d] = cnt[d] /\ theft'[d] = theft[d]
               /\ pc'[d] = pc[d] \/ {pc[d], pc'[d]} \subseteq Empty,
           cnt'[c] = CountOf(c)',
           pc'[c] \in Empty => list'[c] = <<>> /\ theft'[c] # "reply"
    PROVE  ListInv'
<1> SUFFICES ASSUME NEW d \in Context
             PROVE  /\ cnt'[d] = CountOf(d)'
                    /\ pc'[d] \in Empty => list'[d] = <<>> /\ theft'[d] # "reply"
  BY DEF ListInv, CountOf
<1>1. CASE d = c
  BY <1>1
<1>2. CASE d # c /\ pc'[d] = pc[d]
  BY <1>2 DEF ListInv, CountOf
<1>3. CASE d # c /\ {pc[d], pc'[d]} \subseteq Empty
  <2>1. OnWay(pc'[d], theft'[d]) = OnWay(pc[d], theft[d])
    BY <1>3 DEF Empty, OnWay
  <2>2. QED
    BY <1>3, <2>1 DEF ListInv, CountOf
<1>4. QED
  BY <1>1, <1>2, <1>3

LEMMA EmptyList ==
    ASSUME NEW S, NEW s \in Seq(S)
    PROVE  Len(s) \in Nat /\ (Len(s) = 0 <=> s = <<>>)
OBVIOUS

LEMMA ListStep ==
    ASSUME GraphInv, TypeOK, ContextInv, TheftInv, ListInv, PlaceInv, WalkInv, [Next]_vars
    PROVE  ListInv'
<1>1. Master \in Context
  BY ConstantsAssumption
<1>2. \A c \in Context : /\ pc[c] \in Location /\ theft[c] \in Theft
                         /\ list[c] \in Seq(Used) /\ Len(list[c]) \in Nat /\ cnt[c] \in Int
                         /\ Len(list[c]) = 0 <=> list[c] = <<>>
                         /\ cnt[c] = CountOf(c)
                         /\ pc[c] \in Empty => list[c] = <<>> /\ theft[c] # "reply"
  BY EmptyList DEF TypeOK, ListInv, CountOf
<1>3. ASSUME NEW c \in Context, TestList(c)
      PROVE  ListInv'
  <2>0. /\ Len(list[c]) \in Nat /\ cnt[c] \in Int /\ cnt[c] = CountOf(c)
        /\ pc[c] \in Location /\ theft[c] \in Theft
    BY <1>2
  <2>1. /\ pc[c] = "test" /\ pc' = [pc EXCEPT ![c] = IF cnt[c] = 0 THEN "report" ELSE "pop"]
        /\ UNCHANGED <<list, cnt, theft>>
    BY <1>3 DEF TestList, Goto, listVars, theftVars
  <2>2. cnt[c] = 0 => list[c] = <<>> /\ theft[c] # "reply"
    <3>1. theft[c] = "reply" => OnWay(pc[c], theft[c]) = 1
      BY <2>1 DEF OnWay
    <3>2. theft[c] # "reply" => OnWay(pc[c], theft[c]) = 0
      BY <2>1 DEF OnWay
    <3>3. QED
      BY <1>2, <2>0, <3>1, <3>2 DEF CountOf
  <2>3. pc'[c] = (IF cnt[c] = 0 THEN "report" ELSE "pop") /\ \A d \in Context \ {c} : pc'[d] = pc[d]
    BY <2>1 DEF TypeOK
  <2>4. cnt'[c] = CountOf(c)'
    <3>1. /\ pc[c] = "test" /\ pc'[c] \in {"report", "pop"} /\ theft'[c] = theft[c]
      BY <2>1, <2>3
    <3>2. /\ Len(list'[c]) = Len(list[c])
          /\ cnt'[c] = cnt[c]
      BY <2>1, <2>3
    <3>3. /\ OnWay(pc'[c], theft'[c]) = OnWay(pc[c], theft[c])
          /\ OnWay(pc[c], theft[c]) \in Int
      BY <2>0, <3>1, OnWayFacts DEF InTransit
    <3>4. cnt'[c] = CountOf(c)'
      BY <2>0, <3>2, <3>3 DEF CountOf
    <3>5. QED
      BY <3>4
  <2>5. pc'[c] \in Empty => list'[c] = <<>> /\ theft'[c] # "reply"
    BY <2>1, <2>2, <2>3 DEF Empty
  <2>6. QED
    BY <2>1, <2>3, <2>4, <2>5, OneListChanges
<1>4. ASSUME NEW c \in Context, Pop(c)
      PROVE  ListInv'
  <2>0. /\ Len(list[c]) \in Nat /\ cnt[c] \in Int /\ cnt[c] = CountOf(c)
        /\ pc[c] \in Location /\ theft[c] \in Theft
    BY <1>2
  <2>1. CASE list[c] = <<>>
    <3>1. /\ pc[c] = "pop" /\ pc' = [pc EXCEPT ![c] = "test"]
          /\ UNCHANGED <<list, cnt, theft>>
      BY <1>4, <2>1 DEF Pop, Goto, theftVars
    <3>2. pc'[c] = "test" /\ \A d \in Context \ {c} : pc'[d] = pc[d]
      BY <3>1 DEF TypeOK
    <3>3. cnt'[c] = CountOf(c)' /\ pc'[c] \notin Empty
      <4>1. /\ pc[c] = "pop" /\ pc'[c] = "test" /\ theft'[c] = theft[c]
        BY <3>1, <3>2
      <4>2. /\ Len(list'[c]) = Len(list[c])
            /\ cnt'[c] = cnt[c]
        BY <3>1, <3>2
      <4>3. /\ OnWay(pc'[c], theft'[c]) = OnWay(pc[c], theft[c])
            /\ OnWay(pc[c], theft[c]) \in Int
        BY <2>0, <4>1, OnWayFacts DEF InTransit
      <4>4. cnt'[c] = CountOf(c)'
        BY <2>0, <4>2, <4>3 DEF CountOf
      <4>5. QED
        BY <4>1, <4>4 DEF Empty
    <3>4. QED
      BY <3>1, <3>2, <3>3, OneListChanges
  <2>2. CASE list[c] # <<>>
    <3>1. /\ pc[c] = "pop" /\ pc' = [pc EXCEPT ![c] = "decr"]
          /\ list' = [list EXCEPT ![c] = Tail(@)] /\ UNCHANGED <<cnt, theft>>
      BY <1>4, <2>2 DEF Pop, Goto, theftVars
    <3>2. pc'[c] = "decr" /\ \A d \in Context \ {c} : pc'[d] = pc[d] /\ list'[d] = list[d]
      BY <3>1 DEF TypeOK
    <3>3. Len(list'[c]) = Len(list[c]) - 1
      <4>1. list'[c] = Tail(list[c])
        BY <3>1 DEF TypeOK
      <4>2. Len(Tail(list[c])) = Len(list[c]) - 1
        BY <1>2, <2>2
      <4>3. QED
        BY <4>1, <4>2
    <3>4. cnt'[c] = CountOf(c)' /\ pc'[c] \notin Empty
      <4>1. /\ pc[c] = "pop" /\ pc'[c] = "decr" /\ theft'[c] = theft[c]
        BY <3>1, <3>2, <3>3
      <4>2. /\ Len(list'[c]) = Len(list[c]) - 1
            /\ cnt'[c] = cnt[c]
        BY <3>1, <3>2, <3>3
      <4>3. /\ OnWay(pc'[c], theft'[c]) = OnWay(pc[c], theft[c]) + 1
            /\ OnWay(pc[c], theft[c]) \in Int
        BY <2>0, <4>1, OnWayFacts DEF InTransit
      <4>4. cnt'[c] = CountOf(c)'
        BY <2>0, <4>2, <4>3, SMTT(30) DEF CountOf
      <4>5. QED
        BY <4>1, <4>4 DEF Empty
    <3>5. QED
      BY <3>1, <3>2, <3>4, OneListChanges
  <2>3. QED
    BY <2>1, <2>2
<1>5. ASSUME NEW c \in Context, DecrAndBegin(c)
      PROVE  ListInv'
  <2>0. /\ Len(list[c]) \in Nat /\ cnt[c] \in Int /\ cnt[c] = CountOf(c)
        /\ pc[c] \in Location /\ theft[c] \in Theft
    BY <1>2
  <2>1. /\ pc[c] = "decr" /\ pc' = [pc EXCEPT ![c] = "body"]
        /\ cnt' = [cnt EXCEPT ![c] = @ - 1] /\ UNCHANGED <<list, theft>>
    BY <1>5 DEF DecrAndBegin, Goto, theftVars
  <2>2. /\ pc'[c] = "body" /\ cnt'[c] = cnt[c] - 1
        /\ \A d \in Context \ {c} : pc'[d] = pc[d] /\ cnt'[d] = cnt[d]
    BY <2>1 DEF TypeOK
  <2>3. cnt'[c] = CountOf(c)' /\ pc'[c] \notin Empty
    <3>1. /\ pc[c] = "decr" /\ pc'[c] = "body" /\ theft'[c] = theft[c]
      BY <2>1, <2>2
    <3>2. /\ Len(list'[c]) = Len(list[c])
          /\ cnt'[c] = cnt[c] - 1
      BY <2>1, <2>2
    <3>3. /\ OnWay(pc'[c], theft'[c]) = OnWay(pc[c], theft[c]) - 1
          /\ OnWay(pc[c], theft[c]) \in Int
      BY <2>0, <3>1, OnWayFacts DEF InTransit
    <3>4. cnt'[c] = CountOf(c)'
      BY <2>0, <3>2, <3>3, SMTT(30) DEF CountOf
    <3>5. QED
      BY <3>1, <3>4 DEF Empty
  <2>4. QED
    BY <2>1, <2>2, <2>3, OneListChanges
<1>6. ASSUME NEW c \in Context, EndBody(c) \/ Activate(c)
      PROVE  ListInv'
  <2>0. /\ Len(list[c]) \in Nat /\ cnt[c] \in Int /\ cnt[c] = CountOf(c)
        /\ pc[c] \in Location /\ theft[c] \in Theft
    BY <1>2
  <2>1. /\ pc[c] \in {"body", "activate"}
        /\ \E to \in {"test", "activate", "link"} : pc' = [pc EXCEPT ![c] = to]
        /\ UNCHANGED <<list, cnt, theft>>
    BY <1>6 DEF EndBody, Activate, Goto, Walk, listVars, theftVars
  <2>2. pc'[c] \in {"test", "activate", "link"} /\ \A d \in Context \ {c} : pc'[d] = pc[d]
    BY <2>1 DEF TypeOK
  <2>3. cnt'[c] = CountOf(c)' /\ pc'[c] \notin Empty
    <3>1. /\ pc[c] \in {"body", "activate"} /\ pc'[c] \in {"test", "activate", "link"}
          /\ theft'[c] = theft[c]
      BY <2>1, <2>2
    <3>2. /\ Len(list'[c]) = Len(list[c])
          /\ cnt'[c] = cnt[c]
      BY <2>1, <2>2
    <3>3. /\ OnWay(pc'[c], theft'[c]) = OnWay(pc[c], theft[c])
          /\ OnWay(pc[c], theft[c]) \in Int
      BY <2>0, <3>1, OnWayFacts DEF InTransit
    <3>4. cnt'[c] = CountOf(c)'
      BY <2>0, <3>2, <3>3 DEF CountOf
    <3>5. QED
      BY <3>1, <3>4 DEF Empty
  <2>4. QED
    BY <2>1, <2>2, <2>3, OneListChanges
<1>7. ASSUME NEW c \in Context, LinkReady(c)
      PROVE  ListInv'
  <2>0. /\ Len(list[c]) \in Nat /\ cnt[c] \in Int /\ cnt[c] = CountOf(c)
        /\ pc[c] \in Location /\ theft[c] \in Theft
    BY <1>2
  <2>1. /\ pc[c] = "link" /\ pc' = [pc EXCEPT ![c] = "count"]
        /\ list' = [list EXCEPT ![c] = <<Head(links[c])>> \o @] /\ UNCHANGED <<cnt, theft>>
    BY <1>7 DEF LinkReady, Goto, theftVars
  <2>2. /\ pc'[c] = "count" /\ list'[c] = <<Head(links[c])>> \o list[c]
        /\ \A d \in Context \ {c} : pc'[d] = pc[d] /\ list'[d] = list[d]
    BY <2>1 DEF TypeOK
  <2>3. Head(links[c]) \in Used
    BY <2>1, NodeFacts
  <2>4. Len(list'[c]) = Len(list[c]) + 1
    BY <1>2, <2>2, <2>3
  <2>5. cnt'[c] = CountOf(c)' /\ pc'[c] \notin Empty
    <3>1. /\ pc[c] = "link" /\ pc'[c] = "count" /\ theft'[c] = theft[c]
      BY <2>1, <2>2, <2>4
    <3>2. /\ Len(list'[c]) = Len(list[c]) + 1
          /\ cnt'[c] = cnt[c]
      BY <2>1, <2>2, <2>4
    <3>3. /\ OnWay(pc'[c], theft'[c]) = OnWay(pc[c], theft[c]) - 1
          /\ OnWay(pc[c], theft[c]) \in Int
      BY <2>0, <3>1, OnWayFacts DEF InTransit
    <3>4. cnt'[c] = CountOf(c)'
      BY <2>0, <3>2, <3>3 DEF CountOf
    <3>5. QED
      BY <3>1, <3>4 DEF Empty
  <2>6. QED
    BY <2>1, <2>2, <2>5, OneListChanges
<1>8. ASSUME NEW c \in Context, CountReady(c)
      PROVE  ListInv'
  <2>0. /\ Len(list[c]) \in Nat /\ cnt[c] \in Int /\ cnt[c] = CountOf(c)
        /\ pc[c] \in Location /\ theft[c] \in Theft
    BY <1>2
  <2>1. /\ pc[c] = "count" /\ pc' = [pc EXCEPT ![c] = Walk(Tail(links[c]))]
        /\ cnt' = [cnt EXCEPT ![c] = @ + 1] /\ UNCHANGED <<list, theft>>
    BY <1>8 DEF CountReady, Goto, theftVars
  <2>2. /\ pc'[c] \in {"test", "activate"} /\ cnt'[c] = cnt[c] + 1
        /\ \A d \in Context \ {c} : pc'[d] = pc[d] /\ cnt'[d] = cnt[d]
    BY <2>1 DEF TypeOK, Walk
  <2>3. cnt'[c] = CountOf(c)' /\ pc'[c] \notin Empty
    <3>1. /\ pc[c] = "count" /\ pc'[c] \in {"test", "activate"} /\ theft'[c] = theft[c]
      BY <2>1, <2>2
    <3>2. /\ Len(list'[c]) = Len(list[c])
          /\ cnt'[c] = cnt[c] + 1
      BY <2>1, <2>2
    <3>3. /\ OnWay(pc'[c], theft'[c]) = OnWay(pc[c], theft[c]) + 1
          /\ OnWay(pc[c], theft[c]) \in Int
      BY <2>0, <3>1, OnWayFacts DEF InTransit
    <3>4. cnt'[c] = CountOf(c)'
      BY <2>0, <3>2, <3>3 DEF CountOf
    <3>5. QED
      BY <3>1, <3>4 DEF Empty
  <2>4. QED
    BY <2>1, <2>2, <2>3, OneListChanges
<1>9. ASSUME NEW c \in Context, Report(c) \/ Detach(c) \/ (c = Master /\ Leave)
      PROVE  ListInv'
  <2>0. /\ Len(list[c]) \in Nat /\ cnt[c] \in Int /\ cnt[c] = CountOf(c)
        /\ pc[c] \in Location /\ theft[c] \in Theft
    BY <1>2
  <2>1. /\ pc[c] \in Empty
        /\ \E to \in Empty \cup {"test"} : pc' = [pc EXCEPT ![c] = to]
        /\ UNCHANGED <<list, cnt, theft>>
    BY <1>9 DEF Report, Detach, Leave, Check, WakeUp, Unlist, Destroy, Goto, Empty, listVars,
         theftVars
  <2>2. pc'[c] \in Empty \cup {"test"} /\ \A d \in Context \ {c} : pc'[d] = pc[d]
    BY <2>1 DEF TypeOK
  <2>3. cnt'[c] = CountOf(c)'
    <3>1. /\ pc[c] \in Empty /\ pc'[c] \in Empty \cup {"test"} /\ theft'[c] = theft[c]
      BY <2>1, <2>2
    <3>2. /\ Len(list'[c]) = Len(list[c])
          /\ cnt'[c] = cnt[c]
      BY <2>1, <2>2
    <3>3. /\ OnWay(pc'[c], theft'[c]) = OnWay(pc[c], theft[c])
          /\ OnWay(pc[c], theft[c]) \in Int
      BY <2>0, <3>1, OnWayFacts, SMTT(30) DEF InTransit, Empty
    <3>4. cnt'[c] = CountOf(c)'
      BY <2>0, <3>2, <3>3 DEF CountOf
    <3>5. QED
      BY <3>4
  <2>4. list'[c] = <<>> /\ theft'[c] # "reply"
    BY <1>2, <2>1
  <2>5. QED
    BY <2>1, <2>2, <2>3, <2>4, OneListChanges
<1>10. ASSUME NEW c \in Context, Start(c)
       PROVE  ListInv'
  <2>0. /\ Len(list[c]) \in Nat /\ cnt[c] \in Int /\ cnt[c] = CountOf(c)
        /\ pc[c] \in Location /\ theft[c] \in Theft
    BY <1>2
  <2>1. /\ pc[c] = "start" /\ pc' = [pc EXCEPT ![c] = "test"]
        /\ list' = [list EXCEPT ![c] = <<cur[c]>>] /\ cnt' = [cnt EXCEPT ![c] = 1]
        /\ theft' = theft
    BY <1>10 DEF Start, Goto, theftVars
  <2>2. /\ pc'[c] = "test" /\ list'[c] = <<cur[c]>> /\ cnt'[c] = 1
        /\ \A d \in Context \ {c} : pc'[d] = pc[d] /\ list'[d] = list[d] /\ cnt'[d] = cnt[d]
    BY <2>1 DEF TypeOK
  <2>3. theft[c] # "reply"
    BY <1>2, <2>1 DEF Empty
  <2>4. Len(list'[c]) = 1
    BY <2>2
  <2>5. cnt'[c] = CountOf(c)' /\ pc'[c] \notin Empty
    <3>1. theft'[c] # "reply" /\ pc'[c] \notin {"decr", "count"} /\ cnt'[c] = 1
      BY <2>1, <2>2, <2>3
    <3>2. OnWay(pc'[c], theft'[c]) = 0
      BY <3>1 DEF OnWay
    <3>3. QED
      BY <2>2, <2>4, <3>1, <3>2 DEF CountOf, Empty
  <2>6. QED
    BY <2>1, <2>2, <2>5, OneListChanges
<1>11. ASSUME NEW v \in Context, NEW R \in SUBSET Context, LockStack(v, R)
       PROVE  ListInv'
  <2>0. /\ Len(list[v]) \in Nat /\ cnt[v] \in Int /\ cnt[v] = CountOf(v)
        /\ pc[v] \in Location /\ theft[v] \in Theft
    BY <1>2
  <2>1. /\ \A c \in Context : pc'[c] = IF c \in R THEN "asking" ELSE pc[c]
        /\ \A c \in R : pc[c] = "idle"
        /\ theft[v] = "none" /\ theft' = [theft EXCEPT ![v] = "read"] /\ UNCHANGED <<list, cnt>>
    BY <1>11 DEF LockStack, TheftGoto, listVars
  <2>2. theft'[v] = "read" /\ \A d \in Context \ {v} : theft'[d] = theft[d]
    BY <2>1 DEF TypeOK
  <2>3. \A d \in Context : pc'[d] = pc[d] \/ {pc[d], pc'[d]} \subseteq Empty
    BY <2>1 DEF Empty
  <2>4. cnt'[v] = CountOf(v)'
    <3>1. theft[v] = "none" /\ theft'[v] = "read" /\ pc'[v] \in Location
      /\ (pc'[v] = pc[v] \/ {pc[v], pc'[v]} \subseteq Empty)
      BY <2>0, <2>1, <2>2, <2>3 DEF Location
    <3>2. /\ Len(list'[v]) = Len(list[v])
          /\ cnt'[v] = cnt[v]
      BY <2>0, <2>1, <2>2, <2>3 DEF Location
    <3>3. /\ OnWay(pc'[v], theft'[v]) = OnWay(pc[v], theft[v])
          /\ OnWay(pc[v], theft[v]) \in Int
      <4>1. CASE pc'[v] = pc[v]
        BY <3>1, <4>1, OnWayFacts
      <4>2. CASE {pc[v], pc'[v]} \subseteq Empty
        <5>1. pc[v] \notin InTransit /\ pc'[v] \notin InTransit
          BY <4>2 DEF InTransit, Empty
        <5>2. QED
          BY <3>1, <5>1 DEF OnWay, InTransit
      <4>3. QED
        BY <3>1, <4>1, <4>2
    <3>4. cnt'[v] = CountOf(v)'
      BY <2>0, <3>2, <3>3 DEF CountOf
    <3>5. QED
      BY <3>4
  <2>5. pc'[v] \in Empty => list'[v] = <<>> /\ theft'[v] # "reply"
    BY <1>2, <2>1, <2>2, <2>3
  <2>6. QED
    BY <2>1, <2>2, <2>3, <2>4, <2>5, OneListChanges
<1>12. ASSUME NEW v \in Context, ThiefLeaves(v)
       PROVE  ListInv'
  <2>0. /\ Len(list[v]) \in Nat /\ cnt[v] \in Int /\ cnt[v] = CountOf(v)
        /\ pc[v] \in Location /\ theft[v] \in Theft
    BY <1>2
  <2>1. /\ \A c \in Context : pc'[c] = IF c \in serve[v] THEN "idle" ELSE pc[c]
        /\ theft[v] \in {"read", "take"} /\ theft' = [theft EXCEPT ![v] = "none"]
        /\ UNCHANGED <<list, cnt>>
    BY <1>12 DEF ThiefLeaves, UnlockStack, listVars
  <2>2. theft'[v] = "none" /\ \A d \in Context \ {v} : theft'[d] = theft[d]
    BY <2>1 DEF TypeOK
  <2>3. \A c \in serve[v] : pc[c] = "asking"
    BY DEF TheftInv
  <2>4. \A d \in Context : pc'[d] = pc[d] \/ {pc[d], pc'[d]} \subseteq Empty
    BY <2>1, <2>3 DEF Empty
  <2>5. cnt'[v] = CountOf(v)'
    <3>1. theft[v] \in {"read", "take"} /\ theft'[v] = "none" /\ pc'[v] \in Location
      /\ (pc'[v] = pc[v] \/ {pc[v], pc'[v]} \subseteq Empty)
      BY <2>0, <2>1, <2>2, <2>4 DEF Location
    <3>2. /\ Len(list'[v]) = Len(list[v])
          /\ cnt'[v] = cnt[v]
      BY <2>0, <2>1, <2>2, <2>4 DEF Location
    <3>3. /\ OnWay(pc'[v], theft'[v]) = OnWay(pc[v], theft[v])
          /\ OnWay(pc[v], theft[v]) \in Int
      <4>1. CASE pc'[v] = pc[v]
        BY <3>1, <4>1, OnWayFacts
      <4>2. CASE {pc[v], pc'[v]} \subseteq Empty
        <5>1. pc[v] \notin InTransit /\ pc'[v] \notin InTransit
          BY <4>2 DEF InTransit, Empty
        <5>2. QED
          BY <3>1, <5>1 DEF OnWay, InTransit
      <4>3. QED
        BY <3>1, <4>1, <4>2
    <3>4. cnt'[v] = CountOf(v)'
      BY <2>0, <3>2, <3>3 DEF CountOf
    <3>5. QED
      BY <3>4
  <2>6. pc'[v] \in Empty => list'[v] = <<>> /\ theft'[v] # "reply"
    BY <1>2, <2>1, <2>2, <2>4
  <2>7. QED
    BY <2>1, <2>2, <2>4, <2>5, <2>6, OneListChanges
<1>13. ASSUME NEW v \in Context, ThiefCounts(v)
       PROVE  ListInv'
  <2>0. /\ Len(list[v]) \in Nat /\ cnt[v] \in Int /\ cnt[v] = CountOf(v)
        /\ pc[v] \in Location /\ theft[v] \in Theft
    BY <1>2
  <2>1. /\ theft[v] = "read" /\ theft' = [theft EXCEPT ![v] = "take"] /\ UNCHANGED <<pc, list, cnt>>
    BY <1>13 DEF ThiefCounts, listVars
  <2>2. theft'[v] = "take" /\ \A d \in Context \ {v} : theft'[d] = theft[d]
    BY <2>1 DEF TypeOK
  <2>3. cnt'[v] = CountOf(v)'
    <3>1. theft[v] = "read" /\ theft'[v] = "take" /\ pc'[v] = pc[v]
      BY <2>1, <2>2
    <3>2. /\ Len(list'[v]) = Len(list[v])
          /\ cnt'[v] = cnt[v]
      BY <2>1, <2>2
    <3>3. /\ OnWay(pc'[v], theft'[v]) = OnWay(pc[v], theft[v])
          /\ OnWay(pc[v], theft[v]) \in Int
      BY <2>0, <3>1, OnWayFacts DEF InTransit
    <3>4. cnt'[v] = CountOf(v)'
      BY <2>0, <3>2, <3>3 DEF CountOf
    <3>5. QED
      BY <3>4
  <2>4. pc'[v] \in Empty => list'[v] = <<>> /\ theft'[v] # "reply"
    BY <1>2, <2>1, <2>2
  <2>5. QED
    BY <2>1, <2>2, <2>3, <2>4, OneListChanges
<1>14. ASSUME NEW v \in Context, TakeTail(v)
       PROVE  ListInv'
  <2>0. /\ Len(list[v]) \in Nat /\ cnt[v] \in Int /\ cnt[v] = CountOf(v)
        /\ pc[v] \in Location /\ theft[v] \in Theft
    BY <1>2
  <2>1. /\ theft[v] = "take" /\ theft' = [theft EXCEPT ![v] = "reply"] /\ list[v] # <<>>
        /\ list' = [list EXCEPT ![v] = Front(@)] /\ UNCHANGED <<pc, cnt>>
    BY <1>14 DEF TakeTail, TheftGoto
  <2>2. /\ theft'[v] = "reply" /\ list'[v] = Front(list[v])
        /\ \A d \in Context \ {v} : theft'[d] = theft[d] /\ list'[d] = list[d]
    BY <2>1 DEF TypeOK
  <2>3. Len(list'[v]) = Len(list[v]) - 1
    BY <2>1, <2>2, NodeFacts, FrontOfList
  <2>4. cnt'[v] = CountOf(v)'
    <3>1. theft[v] = "take" /\ theft'[v] = "reply" /\ pc'[v] = pc[v]
      BY <2>1, <2>2, <2>3
    <3>2. /\ Len(list'[v]) = Len(list[v]) - 1
          /\ cnt'[v] = cnt[v]
      BY <2>1, <2>2, <2>3
    <3>3. /\ OnWay(pc'[v], theft'[v]) = OnWay(pc[v], theft[v]) + 1
          /\ OnWay(pc[v], theft[v]) \in Int
      BY <2>0, <3>1, OnWayFacts DEF InTransit
    <3>4. cnt'[v] = CountOf(v)'
      BY <2>0, <3>2, <3>3, SMTT(30) DEF CountOf
    <3>5. QED
      BY <3>4
  <2>5. pc'[v] \notin Empty
    BY <1>2, <2>1
  <2>6. QED
    BY <2>1, <2>2, <2>4, <2>5, OneListChanges
<1>15. ASSUME NEW v \in Context, Reply(v)
       PROVE  ListInv'
  <2>0. /\ Len(list[v]) \in Nat /\ cnt[v] \in Int /\ cnt[v] = CountOf(v)
        /\ pc[v] \in Location /\ theft[v] \in Theft
    BY <1>2
  <2>1. PICK r \in serve[v] : pc' = [pc EXCEPT ![r] = "start"]
    BY <1>15 DEF Reply
  <2>2. r \in Context /\ pc[r] = "asking"
    BY DEF TheftInv, TypeOK
  <2>3. /\ theft[v] = "reply" /\ theft' = [theft EXCEPT ![v] = "read"]
        /\ cnt' = [cnt EXCEPT ![v] = @ - 1] /\ list' = list
    BY <1>15 DEF Reply, TheftGoto
  <2>4. /\ theft'[v] = "read" /\ cnt'[v] = cnt[v] - 1
        /\ \A d \in Context \ {v} : theft'[d] = theft[d] /\ cnt'[d] = cnt[d]
    BY <2>3 DEF TypeOK
  <2>5. \A d \in Context : pc'[d] = pc[d] \/ {pc[d], pc'[d]} \subseteq Empty
    BY <2>1, <2>2 DEF TypeOK, Empty
  <2>6. pc'[v] = pc[v]
    BY <1>2, <2>1, <2>2, <2>3 DEF TypeOK, Empty
  <2>7. cnt'[v] = CountOf(v)'
    <3>1. theft[v] = "reply" /\ theft'[v] = "read" /\ pc'[v] = pc[v]
      BY <2>3, <2>4, <2>6
    <3>2. /\ Len(list'[v]) = Len(list[v])
          /\ cnt'[v] = cnt[v] - 1
      BY <2>3, <2>4, <2>6
    <3>3. /\ OnWay(pc'[v], theft'[v]) = OnWay(pc[v], theft[v]) - 1
          /\ OnWay(pc[v], theft[v]) \in Int
      BY <2>0, <3>1, OnWayFacts DEF InTransit
    <3>4. cnt'[v] = CountOf(v)'
      BY <2>0, <3>2, <3>3 DEF CountOf
    <3>5. QED
      BY <3>4
  <2>8. pc'[v] \notin Empty
    BY <1>2, <2>3, <2>6
  <2>9. QED
    BY <2>3, <2>4, <2>5, <2>7, <2>8, OneListChanges
<1>16. CASE UNCHANGED vars
  BY <1>16 DEF ListInv, vars, listVars, theftVars
<1>17. QED
  BY <1>1, <1>3, <1>4, <1>5, <1>6, <1>7, <1>8, <1>9, <1>10, <1>11, <1>12, <1>13, <1>14, <1>15, <1>16,
     ThiefCases DEF Next, ExecFrame, StealReady, Steal

-------------------------------------------------------------------------------
(* The place of each node.                                                 *)

\* The link from the node c has executed to the successor it is at.
LinkOf(c) == <<cur[c], Len(graph.succ[cur[c]]) - Len(links[c]) + 1>>

LEMMA WalkFacts ==
    ASSUME GraphInv, TypeOK, WalkInv, NEW c \in Context, Walks(c)
    PROVE  /\ cur[c] \in Used /\ cur[c] \in Nodes(program) /\ cur[c] \in done
           /\ graph.succ[cur[c]] \in Seq(DOMAIN program)
           /\ Len(graph.succ[cur[c]]) \in Nat
           /\ Len(links[c]) \in Nat \ {0} /\ Len(links[c]) <= Len(graph.succ[cur[c]])
           /\ LinkOf(c)[1] = cur[c]
           /\ LinkOf(c)[2] \in DOMAIN graph.succ[cur[c]]
           /\ graph.succ[cur[c]][LinkOf(c)[2]] = Head(links[c])
           /\ LinkOf(c) \in LinksTo(graph.succ, Head(links[c]))
           /\ Head(links[c]) \in DOMAIN program
<1>1. /\ cur[c] \in done /\ links[c] # <<>> /\ Len(links[c]) <= Len(graph.succ[cur[c]])
      /\ \A i \in 1 .. Len(links[c]) :
            links[c][i] = graph.succ[cur[c]][Len(graph.succ[cur[c]]) - Len(links[c]) + i]
  BY DEF WalkInv
<1>2. cur[c] \in Used /\ cur[c] \in Nodes(program)
  BY <1>1, UsedFacts DEF TypeOK
<1>3. graph.succ \in [Nodes(program) -> Seq(DOMAIN program)]
  BY GraphFacts
<1>4. graph.succ[cur[c]] \in Seq(DOMAIN program)
  BY <1>2, <1>3
<1>5. /\ Len(graph.succ[cur[c]]) \in Nat
      /\ DOMAIN graph.succ[cur[c]] = 1 .. Len(graph.succ[cur[c]])
  BY <1>4
<1>6. Len(links[c]) \in Nat \ {0} /\ Head(links[c]) \in DOMAIN program
      /\ Head(links[c]) = links[c][1]
  BY ActivateFacts
<1>7. LinkOf(c)[1] = cur[c] /\ LinkOf(c)[2] = Len(graph.succ[cur[c]]) - Len(links[c]) + 1
      /\ LinkOf(c) = <<LinkOf(c)[1], LinkOf(c)[2]>>
  BY DEF LinkOf
<1>8. PICK s, q : s = graph.succ[cur[c]] /\ q = links[c]
  OBVIOUS
<1>9. PICK m, l \in Nat : m = Len(s) /\ l = Len(q)
  BY <1>5, <1>6, <1>8
<1>10. PICK i : i = LinkOf(c)[2]
  OBVIOUS
<1>11. i = m - l + 1 /\ l <= m /\ l >= 1 /\ DOMAIN s = 1 .. m
  BY <1>1, <1>5, <1>6, <1>7, <1>8, <1>9, <1>10
<1>12. i \in 1 .. m
  BY <1>11
<1>13. LinkOf(c)[2] \in DOMAIN graph.succ[cur[c]]
  BY <1>8, <1>10, <1>11, <1>12
<1>14. q[1] = s[m - l + 1]
  <2>1. 1 \in 1 .. l
    BY <1>11
  <2>2. QED
    BY <1>1, <1>8, <1>9, <2>1, Zenon
<1>15. graph.succ[cur[c]][LinkOf(c)[2]] = Head(links[c])
  BY <1>6, <1>8, <1>10, <1>11, <1>14, Zenon
<1>16. cur[c] \in DOMAIN graph.succ
  BY <1>2, <1>3
<1>17. LinkOf(c) \in LinksTo(graph.succ, Head(links[c]))
  <2>1. LinkOf(c) = <<cur[c], LinkOf(c)[2]>>
    BY <1>7, Zenon
  <2>2. \E u \in DOMAIN graph.succ : \E j \in DOMAIN graph.succ[u] :
            LinkOf(c) = <<u, j>> /\ graph.succ[u][j] = Head(links[c])
    BY <1>13, <1>15, <1>16, <2>1, Zenon
  <2>3. QED
    BY <2>2, LinksMember, Zenon
<1>18. QED
  BY <1>1, <1>2, <1>4, <1>5, <1>6, <1>7, <1>13, <1>15, <1>17

LEMMA HeadIsPending ==
    ASSUME GraphInv, TypeOK, WalkInv, NEW c \in Context, pc[c] = "activate"
    PROVE  LinkOf(c) \in Pending(Head(links[c]))
<1>1. Walks(c)
  BY DEF Walks
<1>2. /\ LinkOf(c) \in LinksTo(graph.succ, Head(links[c])) /\ LinkOf(c)[1] = cur[c]
      /\ Len(graph.succ[cur[c]]) \in Nat /\ Len(links[c]) \in Nat
  BY <1>1, WalkFacts
<1>3. LinkOf(c)[2] > Len(graph.succ[cur[c]]) - Left(c)
  <2>1. LinkOf(c)[2] = Len(graph.succ[cur[c]]) - Len(links[c]) + 1
    BY DEF LinkOf
  <2>2. Left(c) = Len(links[c])
    BY DEF Left
  <2>3. PICK m, l \in Nat : m = Len(graph.succ[cur[c]]) /\ l = Len(links[c])
    BY <1>2
  <2>4. LinkOf(c)[2] = m - l + 1 /\ Left(c) = l
    BY <2>1, <2>2, <2>3, Zenon
  <2>5. m - l + 1 > m - l
    OBVIOUS
  <2>6. QED
    BY <2>3, <2>4, <2>5, Zenon
<1>4. IsPending(LinkOf(c)[1], LinkOf(c)[2])
  BY <1>1, <1>2, <1>3 DEF IsPending
<1>5. QED
  BY <1>2, <1>4 DEF Pending

IsHeld(n) == \E a \in Place : n \in Held[a]

\* A node that comes from nowhere has been activated.
Arrives(n) == \E c \in Context : Activate(c) /\ n = Head(links[c]) /\ Activated(n)

PlaceGoal == PlaceInv' /\ \A n \in Used : IsHeld(n)' => IsHeld(n) \/ Arrives(n)

LEMMA PlacesKept ==
    ASSUME PlaceInv, Used' = Used, list' = list,
           \A d \in Context, k \in Kind : Held'[<<d, k>>] = Held[<<d, k>>]
    PROVE  PlaceGoal
<1>1. DOMAIN Held = Place /\ DOMAIN Held' = Place
  BY HeldNow, HeldThen
<1>2. \A x \in Place : Held'[x] = Held[x]
  BY PlaceCases
<1>3. Disjoint(Held')
  BY <1>1, <1>2 DEF PlaceInv, Disjoint
<1>4. \A a \in Place : Held'[a] \subseteq Used'
  BY <1>2 DEF PlaceInv
<1>5. \A c \in Context : IsInjective(list'[c])
  BY DEF PlaceInv
<1>6. PlaceInv'
  BY <1>3, <1>4, <1>5, Zenon DEF PlaceInv
<1>7. \A n \in Used : IsHeld(n)' => IsHeld(n)
  BY <1>2 DEF IsHeld
<1>8. QED
  BY <1>6, <1>7 DEF PlaceGoal

LEMMA NodeMoves ==
    ASSUME PlaceInv, Used' = Used, \A c \in Context : IsInjective(list'[c]),
           NEW c \in Context, NEW k \in Kind, NEW d \in Context, NEW l \in Kind,
           <<c, k>> # <<d, l>>,
           NEW n \in Held[<<c, k>>],
           Held'[<<c, k>>] = Held[<<c, k>>] \ {n}, Held'[<<d, l>>] = Held[<<d, l>>] \cup {n},
           \A e \in Context, m \in Kind :
               ~(e = c /\ m = k) /\ ~(e = d /\ m = l) => Held'[<<e, m>>] = Held[<<e, m>>]
    PROVE  PlaceGoal
<1>1. DOMAIN Held = Place /\ DOMAIN Held' = Place
  BY HeldNow, HeldThen
<1>2. \A x \in Place \ {<<c, k>>, <<d, l>>} : Held'[x] = Held[x]
  BY PlaceCases
<1>3. <<c, k>> \in Place /\ <<d, l>> \in Place
  BY PlaceCases
<1>4. Disjoint(Held')
  BY <1>1, <1>2, <1>3, MoveIsDisjoint DEF PlaceInv
<1>5. n \in Used
  BY <1>3 DEF PlaceInv
<1>6. \A a \in Place : Held'[a] \subseteq Used'
  BY <1>2, <1>3, <1>5 DEF PlaceInv
<1>7. PlaceInv'
  BY <1>4, <1>6, Zenon DEF PlaceInv
<1>8. \A m \in Used : IsHeld(m)' => IsHeld(m)
  BY <1>2, <1>3 DEF IsHeld
<1>9. QED
  BY <1>7, <1>8 DEF PlaceGoal

LEMMA NodeAppears ==
    ASSUME PlaceInv, Used' = Used, list' = list,
           NEW d \in Context, NEW l \in Kind, NEW n \in Used,
           \A a \in Place : n \notin Held[a],
           Held'[<<d, l>>] = Held[<<d, l>>] \cup {n},
           \A e \in Context, m \in Kind :
               ~(e = d /\ m = l) => Held'[<<e, m>>] = Held[<<e, m>>]
    PROVE  PlaceInv' /\ \A m \in Used : IsHeld(m)' => IsHeld(m) \/ m = n
<1>1. DOMAIN Held = Place /\ DOMAIN Held' = Place
  BY HeldNow, HeldThen
<1>2. \A x \in Place \ {<<d, l>>} : Held'[x] = Held[x]
  BY PlaceCases
<1>3. <<d, l>> \in Place
  BY PlaceCases
<1>4. Disjoint(Held')
  BY <1>1, <1>2, <1>3, AddIsDisjoint DEF PlaceInv
<1>5. \A a \in Place : Held'[a] \subseteq Used'
  BY <1>2, <1>3 DEF PlaceInv
<1>6. \A c \in Context : IsInjective(list'[c])
  BY DEF PlaceInv
<1>7. PlaceInv'
  BY <1>4, <1>5, <1>6, Zenon DEF PlaceInv
<1>8. \A m \in Used : IsHeld(m)' => IsHeld(m) \/ m = n
  BY <1>2, <1>3 DEF IsHeld
<1>9. QED
  BY <1>7, <1>8

LEMMA SameHeld ==
    ASSUME NEW e \in Context
    PROVE  /\ list'[e] = list[e] => Held'[<<e, "list">>] = Held[<<e, "list">>]
           /\ pc'[e] = pc[e] /\ cur'[e] = cur[e]
                => Held'[<<e, "current">>] = Held[<<e, "current">>]
           /\ pc[e] \notin {"start", "decr", "body"} /\ pc'[e] \notin {"start", "decr", "body"}
                => Held'[<<e, "current">>] = Held[<<e, "current">>]
           /\ pc[e] = "decr" /\ pc'[e] = "body" /\ cur'[e] = cur[e]
                => Held'[<<e, "current">>] = Held[<<e, "current">>]
           /\ pc'[e] = pc[e] /\ links'[e] = links[e]
                => Held'[<<e, "link">>] = Held[<<e, "link">>]
           /\ pc[e] # "link" /\ pc'[e] # "link"
                => Held'[<<e, "link">>] = Held[<<e, "link">>]
           /\ theft'[e] = theft[e] /\ stolen'[e] = stolen[e]
                => Held'[<<e, "thief">>] = Held[<<e, "thief">>]
           /\ theft[e] # "reply" /\ theft'[e] # "reply"
                => Held'[<<e, "thief">>] = Held[<<e, "thief">>]
           /\ e # Master \/ done' = done => Held'[<<e, "done">>] = Held[<<e, "done">>]
<1>1. list'[e] = list[e] => Held'[<<e, "list">>] = Held[<<e, "list">>]
  <2>1. Held'[<<e, "list">>] = Range(list'[e]) /\ Held[<<e, "list">>] = Range(list[e])
    BY HeldNow, HeldThen
  <2>2. list'[e] = list[e] => Range(list'[e]) = Range(list[e])
    BY Zenon
  <2>3. QED
    BY <2>1, <2>2, Zenon
<1>2. ASSUME pc'[e] = pc[e], cur'[e] = cur[e]
      PROVE  Held'[<<e, "current">>] = Held[<<e, "current">>]
  BY <1>2, HeldNow, HeldThen, Zenon
<1>3. ASSUME pc[e] \notin {"start", "decr", "body"}, pc'[e] \notin {"start", "decr", "body"}
      PROVE  Held'[<<e, "current">>] = Held[<<e, "current">>]
  BY <1>3, HeldNow, HeldThen, Zenon
<1>4. ASSUME pc[e] = "decr", pc'[e] = "body", cur'[e] = cur[e]
      PROVE  Held'[<<e, "current">>] = Held[<<e, "current">>]
  <2>1. pc[e] \in {"start", "decr", "body"} /\ pc'[e] \in {"start", "decr", "body"}
    BY <1>4
  <2>2. QED
    <3>1. Held'[<<e, "current">>] = {cur'[e]} /\ Held[<<e, "current">>] = {cur[e]}
      BY <2>1, HeldNow, HeldThen, Zenon
    <3>2. {cur'[e]} = {cur[e]}
      BY <1>4
    <3>3. QED
      BY <3>1, <3>2, Zenon
<1>5. ASSUME pc'[e] = pc[e], links'[e] = links[e]
      PROVE  Held'[<<e, "link">>] = Held[<<e, "link">>]
  BY <1>5, HeldNow, HeldThen, Zenon
<1>6. ASSUME pc[e] # "link", pc'[e] # "link"
      PROVE  Held'[<<e, "link">>] = Held[<<e, "link">>]
  BY <1>6, HeldNow, HeldThen, Zenon
<1>7. ASSUME theft'[e] = theft[e], stolen'[e] = stolen[e]
      PROVE  Held'[<<e, "thief">>] = Held[<<e, "thief">>]
  BY <1>7, HeldNow, HeldThen, Zenon
<1>8. ASSUME theft[e] # "reply", theft'[e] # "reply"
      PROVE  Held'[<<e, "thief">>] = Held[<<e, "thief">>]
  BY <1>8, HeldNow, HeldThen, Zenon
<1>9. ASSUME e # Master \/ done' = done
      PROVE  Held'[<<e, "done">>] = Held[<<e, "done">>]
  <2>1. CASE e # Master
    BY <2>1, HeldNow, HeldThen
  <2>2. CASE e = Master /\ done' = done
    <3>1. Held'[<<e, "done">>] = done' /\ Held[<<e, "done">>] = done
      BY <2>2, HeldNow, HeldThen
    <3>2. QED
      BY <2>2, <3>1
  <2>3. QED
    BY <1>9, <2>1, <2>2
<1>10. QED
  BY <1>1, <1>2, <1>3, <1>4, <1>5, <1>6, <1>7, <1>8, <1>9, Zenon

\* Steps that move no node.
LEMMA QuietStep ==
    ASSUME Used' = Used, PlaceInv, list' = list, theft' = theft, stolen' = stolen, done' = done,
           NEW c \in Context,
           \A d \in Context \ {c} :
               pc'[d] = pc[d] /\ cur'[d] = cur[d] /\ links'[d] = links[d],
           \/ /\ {pc[c], pc'[c]} \cap {"start", "decr", "body", "link"} = {}
           \/ pc[c] = "decr" /\ pc'[c] = "body" /\ cur'[c] = cur[c]
    PROVE  PlaceGoal
<1>1. \A d \in Context, k \in Kind : Held'[<<d, k>>] = Held[<<d, k>>]
  <2>1. ASSUME NEW d \in Context
        PROVE  /\ Held'[<<d, "list">>] = Held[<<d, "list">>]
               /\ Held'[<<d, "thief">>] = Held[<<d, "thief">>]
               /\ Held'[<<d, "done">>] = Held[<<d, "done">>]
    BY SameHeld
  <2>2. ASSUME NEW d \in Context \ {c}
        PROVE  /\ Held'[<<d, "current">>] = Held[<<d, "current">>]
               /\ Held'[<<d, "link">>] = Held[<<d, "link">>]
    BY SameHeld
  <2>3. /\ Held'[<<c, "current">>] = Held[<<c, "current">>]
        /\ Held'[<<c, "link">>] = Held[<<c, "link">>]
    <3>1. pc[c] # "link" /\ pc'[c] # "link"
      OBVIOUS
    <3>2. \/ pc[c] \notin {"start", "decr", "body"} /\ pc'[c] \notin {"start", "decr", "body"}
          \/ pc[c] = "decr" /\ pc'[c] = "body" /\ cur'[c] = cur[c]
      OBVIOUS
    <3>3. QED
      BY <3>1, <3>2, SameHeld, Zenon
  <2>4. \A d \in Context :
          /\ Held'[<<d, "current">>] = Held[<<d, "current">>]
          /\ Held'[<<d, "link">>] = Held[<<d, "link">>]
    BY <2>2, <2>3
  <2>5. QED
    BY <2>1, <2>4 DEF Kind
<1>2. QED
  BY <1>1, PlacesKept

LEMMA PlaceStep ==
    ASSUME GraphInv, TypeOK, ContextInv, TheftInv, ListInv, PlaceInv, WalkInv, PendingInv,
           [Next]_vars
    PROVE  PlaceGoal
<1>1. Used' = Used /\ Master \in Context
  BY GraphStep, ConstantsAssumption
<1>2. \A c \in Context : IsInjective(list[c]) /\ list[c] \in Seq(Used)
  BY DEF PlaceInv, TypeOK
<1>3. ASSUME NEW c \in Context,
             \/ TestList(c) \/ (Pop(c) /\ list[c] = <<>>) \/ DecrAndBegin(c) \/ CountReady(c)
             \/ (Activate(c) /\ ~Activated(Head(links[c])))
             \/ Report(c) \/ Detach(c) \/ (c = Master /\ Leave)
      PROVE  PlaceGoal
  <2>1. CASE DecrAndBegin(c)
    <3>1. /\ pc[c] = "decr" /\ pc' = [pc EXCEPT ![c] = "body"]
          /\ UNCHANGED <<list, theft, stolen, done, cur, links>>
      BY <2>1 DEF DecrAndBegin, Goto, loopVars, theftVars, ghosts
    <3>2. \A d \in Context : pc'[d] = IF d = c THEN "body" ELSE pc[d]
      BY <3>1 DEF TypeOK
    <3>3. QED
      BY <1>1, <3>1, <3>2, QuietStep
  <2>2. CASE ~DecrAndBegin(c)
    <3>1. PICK to \in {"report", "pop", "test", "activate", "check", "detach", "idle", "end",
                       "suspended", "await", "over"} : pc' = [pc EXCEPT ![c] = to]
      BY <1>3, <2>2 DEF TestList, Pop, CountReady, Activate, Report, Detach, Leave, Check, WakeUp,
           Unlist, Destroy, Goto, Walk
    <3>2. pc[c] \notin {"start", "decr", "body", "link"}
      BY <1>3, <2>2 DEF TestList, Pop, CountReady, Activate, Report, Detach, Leave, Check, WakeUp,
           Unlist, Destroy, Goto
    <3>3. UNCHANGED <<list, theft, stolen, done>>
      BY <1>3, <2>2 DEF TestList, Pop, CountReady, Activate, Report, Detach, Leave, Check, WakeUp,
           Unlist, Destroy, listVars, theftVars, ghosts
    <3>4. \A d \in Context \ {c} : cur'[d] = cur[d] /\ links'[d] = links[d]
      BY <1>3, <2>2 DEF TypeOK, TestList, Pop, CountReady, Activate, Report, Detach, Leave, Check,
           WakeUp, Unlist, Destroy, loopVars
    <3>5. \A d \in Context : pc'[d] = IF d = c THEN to ELSE pc[d]
      BY <3>1 DEF TypeOK
    <3>6. {pc[c], pc'[c]} \cap {"start", "decr", "body", "link"} = {}
      BY <3>2, <3>5
    <3>7. QED
      BY <1>1, <3>3, <3>4, <3>5, <3>6, QuietStep
  <2>3. QED
    BY <2>1, <2>2
<1>4. ASSUME NEW v \in Context,
             \/ ThiefLeaves(v) \/ ThiefCounts(v)
             \/ \E R \in SUBSET Context : LockStack(v, R)
      PROVE  PlaceGoal
  <2>1. UNCHANGED <<list, stolen, done, cur, links>>
    BY <1>4 DEF ThiefLeaves, ThiefCounts, LockStack, listVars, loopVars, ghosts
  <2>2. \A r \in serve[v] : pc[r] = "asking"
    BY DEF TheftInv
  <2>3. \A d \in Context : pc'[d] = pc[d] \/ {pc[d], pc'[d]} \subseteq {"idle", "asking"}
    BY <1>4, <2>2 DEF ThiefLeaves, ThiefCounts, LockStack, UnlockStack
  <2>4. \A d \in Context : theft'[d] = theft[d] \/ "reply" \notin {theft[d], theft'[d]}
    BY <1>4, SMTT(30) DEF TypeOK, ThiefLeaves, ThiefCounts, LockStack, UnlockStack, TheftGoto
  <2>5. ASSUME NEW d \in Context
        PROVE  \A k \in Kind : Held'[<<d, k>>] = Held[<<d, k>>]
    <3>1. pc'[d] \in {"start", "decr", "body"} <=> pc[d] \in {"start", "decr", "body"}
      BY <2>3
    <3>2. pc'[d] = "link" <=> pc[d] = "link"
      BY <2>3
    <3>3. theft'[d] = "reply" <=> theft[d] = "reply"
      BY <2>4
    <3>4. /\ Held'[<<d, "list">>] = Held[<<d, "list">>]
          /\ Held'[<<d, "thief">>] = Held[<<d, "thief">>]
          /\ Held'[<<d, "done">>] = Held[<<d, "done">>]
      BY <2>1, <3>3, HeldNow, HeldThen
    <3>5. /\ Held'[<<d, "current">>] = Held[<<d, "current">>]
          /\ Held'[<<d, "link">>] = Held[<<d, "link">>]
      BY <2>1, <3>1, <3>2, HeldNow, HeldThen
    <3>6. QED
      BY <3>4, <3>5 DEF Kind
  <2>6. QED
    BY <1>1, <2>1, <2>5, PlacesKept
<1>5. ASSUME NEW c \in Context, Pop(c), list[c] # <<>>
      PROVE  PlaceGoal
  <2>1. /\ pc[c] = "pop" /\ pc' = [pc EXCEPT ![c] = "decr"]
        /\ list' = [list EXCEPT ![c] = Tail(@)] /\ cur' = [cur EXCEPT ![c] = Head(list[c])]
        /\ UNCHANGED <<links, theft, stolen, done>>
    BY <1>5 DEF Pop, Goto, theftVars, ghosts
  <2>2. \A d \in Context :
          /\ pc'[d] = IF d = c THEN "decr" ELSE pc[d]
          /\ list'[d] = IF d = c THEN Tail(list[c]) ELSE list[d]
          /\ cur'[d] = IF d = c THEN Head(list[c]) ELSE cur[d]
    BY <2>1 DEF TypeOK
  <2>3. /\ IsInjective(Tail(list[c])) /\ Head(list[c]) \in Range(list[c])
        /\ Range(Tail(list[c])) = Range(list[c]) \ {Head(list[c])}
    BY <1>2, <1>5, TailOfList
  <2>4. \A d \in Context : IsInjective(list'[d])
    BY <1>2, <2>2, <2>3
  <2>5. /\ Head(list[c]) \in Held[<<c, "list">>]
        /\ Held'[<<c, "list">>] = Held[<<c, "list">>] \ {Head(list[c])}
        /\ Held'[<<c, "current">>] = Held[<<c, "current">>] \cup {Head(list[c])}
    <3>1. list'[c] = Tail(list[c]) /\ pc[c] = "pop" /\ pc'[c] = "decr"
          /\ cur'[c] = Head(list[c])
      BY <2>1, <2>2
    <3>2. Held[<<c, "list">>] = Range(list[c]) /\ Held'[<<c, "list">>] = Range(list'[c])
      BY HeldNow, HeldThen, Zenon
    <3>3. Held[<<c, "current">>] = {} /\ Held'[<<c, "current">>] = {cur'[c]}
      BY <3>1, HeldNow, HeldThen
    <3>4. Held'[<<c, "list">>] = Range(list[c]) \ {Head(list[c])}
      BY <2>3, <3>1, <3>2, Zenon
    <3>5. QED
      BY <2>3, <3>1, <3>2, <3>3, <3>4
  <2>6. \A e \in Context, m \in Kind :
            ~(e = c /\ m = "list") /\ ~(e = c /\ m = "current")
                => Held'[<<e, m>>] = Held[<<e, m>>]
    <3>1. ASSUME NEW e \in Context
          PROVE  /\ e # c => Held'[<<e, "list">>] = Held[<<e, "list">>]
                 /\ e # c => Held'[<<e, "current">>] = Held[<<e, "current">>]
                 /\ Held'[<<e, "link">>] = Held[<<e, "link">>]
                 /\ Held'[<<e, "thief">>] = Held[<<e, "thief">>]
                 /\ Held'[<<e, "done">>] = Held[<<e, "done">>]
      BY <2>1, <2>2, SameHeld, SMTT(30)
    <3>2. QED
      BY <3>1 DEF Kind
  <2>7. "list" \in Kind /\ "current" \in Kind /\ <<c, "list">> # <<c, "current">>
    BY DEF Kind
  <2>8. QED
    BY <1>1, <2>4, <2>5, <2>6, <2>7, NodeMoves
<1>6. ASSUME NEW c \in Context, EndBody(c)
      PROVE  PlaceGoal
  <2>1. /\ pc[c] = "body"
        /\ \E to \in {"test", "activate"} : pc' = [pc EXCEPT ![c] = to]
        /\ done' = done \cup {cur[c]}
        /\ links' = [links EXCEPT ![c] = graph.succ[cur[c]]]
        /\ UNCHANGED <<list, theft, stolen, cur>>
    BY <1>6 DEF EndBody, Goto, Walk, listVars, theftVars
  <2>2. /\ pc'[c] \in {"test", "activate"}
        /\ \A d \in Context \ {c} : pc'[d] = pc[d] /\ links'[d] = links[d]
    BY <2>1 DEF TypeOK
  <2>3. \A d \in Context : IsInjective(list'[d])
    BY <1>2, <2>1
  <2>4. /\ cur[c] \in Held[<<c, "current">>]
        /\ Held'[<<c, "current">>] = Held[<<c, "current">>] \ {cur[c]}
        /\ Held'[<<Master, "done">>] = Held[<<Master, "done">>] \cup {cur[c]}
    BY <1>1, <2>1, <2>2, HeldNow, HeldThen
  <2>5. \A e \in Context, m \in Kind :
            ~(e = c /\ m = "current") /\ ~(e = Master /\ m = "done")
                => Held'[<<e, m>>] = Held[<<e, m>>]
    <3>1. ASSUME NEW e \in Context
          PROVE  /\ Held'[<<e, "list">>] = Held[<<e, "list">>]
                 /\ e # c => Held'[<<e, "current">>] = Held[<<e, "current">>]
                 /\ Held'[<<e, "link">>] = Held[<<e, "link">>]
                 /\ Held'[<<e, "thief">>] = Held[<<e, "thief">>]
                 /\ e # Master => Held'[<<e, "done">>] = Held[<<e, "done">>]
      BY <2>1, <2>2, SameHeld
    <3>2. QED
      BY <3>1 DEF Kind
  <2>6. "done" \in Kind /\ "current" \in Kind /\ <<c, "current">> # <<Master, "done">>
    BY DEF Kind
  <2>7. QED
    BY <1>1, <2>3, <2>4, <2>5, <2>6, NodeMoves
<1>7. ASSUME NEW c \in Context, Activate(c), Activated(Head(links[c]))
      PROVE  PlaceGoal
  <2>1. /\ pc[c] = "activate" /\ pc' = [pc EXCEPT ![c] = "link"]
        /\ links' = [links EXCEPT ![c] = links[c]]
        /\ UNCHANGED <<list, theft, stolen, cur, done>>
    BY <1>7 DEF Activate, Goto, listVars, theftVars, ghosts
  <2>2. \A d \in Context : pc'[d] = (IF d = c THEN "link" ELSE pc[d]) /\ links'[d] = links[d]
    BY <2>1 DEF TypeOK
  <2>3. Pending(Head(links[c])) # {}
    BY <2>1, HeadIsPending
  <2>4. \A a \in Place : Head(links[c]) \notin Held[a]
    BY <2>3 DEF PendingInv
  <2>5. Head(links[c]) \in Used
    <3>1. Walks(c)
      BY <2>1 DEF Walks
    <3>2. QED
      BY <3>1, WalkFacts, UsedFacts
  <2>6. Held'[<<c, "link">>] = Held[<<c, "link">>] \cup {Head(links[c])}
    BY <2>1, <2>2, HeldNow, HeldThen
  <2>7. \A e \in Context, m \in Kind :
            ~(e = c /\ m = "link")
                => Held'[<<e, m>>] = Held[<<e, m>>]
    <3>1. ASSUME NEW e \in Context
          PROVE  /\ Held'[<<e, "list">>] = Held[<<e, "list">>]
                 /\ Held'[<<e, "current">>] = Held[<<e, "current">>]
                 /\ e # c => Held'[<<e, "link">>] = Held[<<e, "link">>]
                 /\ Held'[<<e, "thief">>] = Held[<<e, "thief">>]
                 /\ Held'[<<e, "done">>] = Held[<<e, "done">>]
      BY <2>1, <2>2, SameHeld
    <3>2. QED
      BY <3>1 DEF Kind
  <2>8. "link" \in Kind
    BY DEF Kind
  <2>9. PlaceInv' /\ \A m \in Used : IsHeld(m)' => IsHeld(m) \/ m = Head(links[c])
    BY <1>1, <2>1, <2>4, <2>5, <2>6, <2>7, <2>8, NodeAppears
  <2>10. Arrives(Head(links[c]))
    BY <1>7 DEF Arrives
  <2>11. QED
    BY <2>9, <2>10 DEF PlaceGoal
<1>8. ASSUME NEW c \in Context, LinkReady(c)
      PROVE  PlaceGoal
  <2>1. /\ pc[c] = "link" /\ pc' = [pc EXCEPT ![c] = "count"]
        /\ list' = [list EXCEPT ![c] = <<Head(links[c])>> \o @]
        /\ UNCHANGED <<links, theft, stolen, cur, done>>
    BY <1>8 DEF LinkReady, Goto, loopVars, theftVars, ghosts
  <2>2. \A d \in Context :
          /\ pc'[d] = IF d = c THEN "count" ELSE pc[d]
          /\ list'[d] = IF d = c THEN <<Head(links[c])>> \o list[c] ELSE list[d]
    BY <2>1 DEF TypeOK
  <2>3. Head(links[c]) \in Held[<<c, "link">>] /\ Head(links[c]) \in Used
    BY <2>1, HeldNow, NodeFacts
  <2>4. "link" \in Kind /\ "list" \in Kind /\ <<c, "link">> # <<c, "list">>
    BY DEF Kind
  <2>5. Held[<<c, "link">>] \cap Held[<<c, "list">>] = {}
    BY <2>4, HeldNow, PlaceCases DEF PlaceInv, Disjoint
  <2>6. Head(links[c]) \notin Range(list[c])
    BY <2>3, <2>5, HeldNow
  <2>7. /\ IsInjective(<<Head(links[c])>> \o list[c])
        /\ Range(<<Head(links[c])>> \o list[c]) = Range(list[c]) \cup {Head(links[c])}
    BY <1>2, <2>3, <2>6, ConsOfList
  <2>8. \A d \in Context : IsInjective(list'[d])
    BY <1>2, <2>2, <2>7
  <2>9. /\ Held'[<<c, "link">>] = Held[<<c, "link">>] \ {Head(links[c])}
        /\ Held'[<<c, "list">>] = Held[<<c, "list">>] \cup {Head(links[c])}
    <3>1. Held[<<c, "link">>] = {Head(links[c])} /\ Held'[<<c, "link">>] = {}
      <4>1. pc[c] = "link" /\ pc'[c] # "link"
        BY <2>1, <2>2
      <4>2. QED
        BY <4>1, HeldNow, HeldThen
    <3>2. /\ Held[<<c, "list">>] = Range(list[c])
          /\ Held'[<<c, "list">>] = Range(<<Head(links[c])>> \o list[c])
      <4>1. list'[c] = <<Head(links[c])>> \o list[c]
        BY <2>2
      <4>2. Held[<<c, "list">>] = Range(list[c]) /\ Held'[<<c, "list">>] = Range(list'[c])
        BY HeldNow, HeldThen
      <4>3. QED
        BY <4>1, <4>2, Zenon
    <3>3. QED
      BY <2>7, <3>1, <3>2
  <2>10. \A e \in Context, m \in Kind :
            ~(e = c /\ m = "link") /\ ~(e = c /\ m = "list")
                => Held'[<<e, m>>] = Held[<<e, m>>]
    <3>1. ASSUME NEW e \in Context
          PROVE  /\ e # c => Held'[<<e, "list">>] = Held[<<e, "list">>]
                 /\ Held'[<<e, "current">>] = Held[<<e, "current">>]
                 /\ e # c => Held'[<<e, "link">>] = Held[<<e, "link">>]
                 /\ Held'[<<e, "thief">>] = Held[<<e, "thief">>]
                 /\ Held'[<<e, "done">>] = Held[<<e, "done">>]
      <4>1. /\ list'[e] = list[e] \/ e = c
            /\ pc'[e] = pc[e] \/ e = c
            /\ cur'[e] = cur[e] /\ links'[e] = links[e] /\ theft'[e] = theft[e]
            /\ stolen'[e] = stolen[e] /\ done' = done
        BY <2>1, <2>2
      <4>2. e = c => /\ pc[e] \notin {"start", "decr", "body"}
                     /\ pc'[e] \notin {"start", "decr", "body"}
        BY <2>1, <2>2
      <4>3. QED
        BY <4>1, <4>2, SameHeld, Zenon
    <3>2. QED
      BY <3>1 DEF Kind
  <2>11. QED
    BY <1>1, <2>3, <2>4, <2>8, <2>9, <2>10, NodeMoves
<1>9. ASSUME NEW c \in Context, Start(c)
      PROVE  PlaceGoal
  <2>1. /\ pc[c] = "start" /\ pc' = [pc EXCEPT ![c] = "test"]
        /\ list' = [list EXCEPT ![c] = <<cur[c]>>]
        /\ UNCHANGED <<links, theft, stolen, cur, done>>
    BY <1>9 DEF Start, Goto, theftVars, ghosts
  <2>2. \A d \in Context :
          /\ pc'[d] = IF d = c THEN "test" ELSE pc[d]
          /\ list'[d] = IF d = c THEN <<cur[c]>> ELSE list[d]
    BY <2>1 DEF TypeOK
  <2>3. list[c] = <<>>
    BY <2>1 DEF ListInv, Empty
  <2>4. Range(list[c]) = {}
    BY <2>3 DEF Range
  <2>5. IsInjective(<<cur[c]>>) /\ Range(<<cur[c]>>) = {cur[c]}
    BY DEF IsInjective, Range
  <2>6. \A d \in Context : IsInjective(list'[d])
    BY <1>2, <2>2, <2>5
  <2>7. /\ cur[c] \in Held[<<c, "current">>]
        /\ Held'[<<c, "current">>] = Held[<<c, "current">>] \ {cur[c]}
        /\ Held'[<<c, "list">>] = Held[<<c, "list">>] \cup {cur[c]}
    <3>1. Held[<<c, "current">>] = {cur[c]} /\ Held'[<<c, "current">>] = {}
      <4>1. pc[c] = "start" /\ pc'[c] = "test"
        BY <2>1, <2>2
      <4>2. QED
        BY <4>1, HeldNow, HeldThen
    <3>2. Held[<<c, "list">>] = {}
      BY <2>4, HeldNow
    <3>3. Held'[<<c, "list">>] = {cur[c]}
      <4>1. Held'[<<c, "list">>] = Range(list'[c]) /\ list'[c] = <<cur[c]>>
        BY <2>2, HeldThen
      <4>2. QED
        BY <2>5, <4>1, Zenon
    <3>4. QED
      BY <3>1, <3>2, <3>3
  <2>8. \A e \in Context, m \in Kind :
            ~(e = c /\ m = "current") /\ ~(e = c /\ m = "list")
                => Held'[<<e, m>>] = Held[<<e, m>>]
    <3>1. ASSUME NEW e \in Context
          PROVE  /\ e # c => Held'[<<e, "list">>] = Held[<<e, "list">>]
                 /\ e # c => Held'[<<e, "current">>] = Held[<<e, "current">>]
                 /\ Held'[<<e, "link">>] = Held[<<e, "link">>]
                 /\ Held'[<<e, "thief">>] = Held[<<e, "thief">>]
                 /\ Held'[<<e, "done">>] = Held[<<e, "done">>]
      BY <2>1, <2>2, SameHeld, SMTT(30)
    <3>2. QED
      BY <3>1 DEF Kind
  <2>9. "list" \in Kind /\ "current" \in Kind /\ <<c, "current">> # <<c, "list">>
    BY DEF Kind
  <2>10. QED
    BY <1>1, <2>6, <2>7, <2>8, <2>9, NodeMoves
<1>10. ASSUME NEW v \in Context, TakeTail(v)
       PROVE  PlaceGoal
  <2>1. /\ list[v] # <<>> /\ theft[v] = "take" /\ theft' = [theft EXCEPT ![v] = "reply"]
        /\ stolen' = [stolen EXCEPT ![v] = Last(list[v])]
        /\ list' = [list EXCEPT ![v] = Front(@)]
        /\ UNCHANGED <<pc, links, cur, done>>
    BY <1>10 DEF TakeTail, TheftGoto, loopVars, ghosts
  <2>2. \A d \in Context :
          /\ theft'[d] = IF d = v THEN "reply" ELSE theft[d]
          /\ list'[d] = IF d = v THEN Front(list[v]) ELSE list[d]
          /\ stolen'[d] = IF d = v THEN Last(list[v]) ELSE stolen[d]
    BY <2>1 DEF TypeOK
  <2>3. /\ IsInjective(Front(list[v])) /\ Last(list[v]) \in Range(list[v])
        /\ Range(Front(list[v])) = Range(list[v]) \ {Last(list[v])}
    BY <1>2, <2>1, FrontOfList
  <2>4. \A d \in Context : IsInjective(list'[d])
    BY <1>2, <2>2, <2>3
  <2>5. /\ Last(list[v]) \in Held[<<v, "list">>]
        /\ Held'[<<v, "list">>] = Held[<<v, "list">>] \ {Last(list[v])}
        /\ Held'[<<v, "thief">>] = Held[<<v, "thief">>] \cup {Last(list[v])}
    <3>1. list'[v] = Front(list[v]) /\ theft[v] # "reply" /\ theft'[v] = "reply"
          /\ stolen'[v] = Last(list[v])
      BY <2>1, <2>2
    <3>2. Held[<<v, "list">>] = Range(list[v]) /\ Held'[<<v, "list">>] = Range(list'[v])
      BY HeldNow, HeldThen, Zenon
    <3>3. Held[<<v, "thief">>] = {} /\ Held'[<<v, "thief">>] = {stolen'[v]}
      BY <3>1, HeldNow, HeldThen
    <3>4. Held'[<<v, "list">>] = Range(list[v]) \ {Last(list[v])}
      BY <2>3, <3>1, <3>2, Zenon
    <3>5. QED
      BY <2>3, <3>1, <3>2, <3>3, <3>4
  <2>6. \A e \in Context, m \in Kind :
            ~(e = v /\ m = "list") /\ ~(e = v /\ m = "thief")
                => Held'[<<e, m>>] = Held[<<e, m>>]
    <3>1. ASSUME NEW e \in Context
          PROVE  /\ e # v => Held'[<<e, "list">>] = Held[<<e, "list">>]
                 /\ Held'[<<e, "current">>] = Held[<<e, "current">>]
                 /\ Held'[<<e, "link">>] = Held[<<e, "link">>]
                 /\ e # v => Held'[<<e, "thief">>] = Held[<<e, "thief">>]
                 /\ Held'[<<e, "done">>] = Held[<<e, "done">>]
      BY <2>1, <2>2, SameHeld
    <3>2. QED
      BY <3>1 DEF Kind
  <2>7. "list" \in Kind /\ "thief" \in Kind /\ <<v, "list">> # <<v, "thief">>
    BY DEF Kind
  <2>8. QED
    BY <1>1, <2>4, <2>5, <2>6, <2>7, NodeMoves
<1>11. ASSUME NEW v \in Context, Reply(v)
       PROVE  PlaceGoal
  <2>1. PICK r \in serve[v] :
          /\ pc' = [pc EXCEPT ![r] = "start"]
          /\ cur' = [cur EXCEPT ![r] = stolen[v]]
    BY <1>11 DEF Reply
  <2>2. r \in Context /\ pc[r] = "asking"
    BY DEF TheftInv, TypeOK
  <2>3. /\ theft[v] = "reply" /\ theft' = [theft EXCEPT ![v] = "read"]
        /\ stolen' = [stolen EXCEPT ![v] = None]
        /\ UNCHANGED <<list, links, done>>
    BY <1>11 DEF Reply, TheftGoto, ghosts
  <2>4. \A d \in Context :
          /\ pc'[d] = IF d = r THEN "start" ELSE pc[d]
          /\ cur'[d] = IF d = r THEN stolen[v] ELSE cur[d]
          /\ theft'[d] = IF d = v THEN "read" ELSE theft[d]
          /\ stolen'[d] = IF d = v THEN None ELSE stolen[d]
    BY <2>1, <2>2, <2>3 DEF TypeOK
  <2>5. \A d \in Context : IsInjective(list'[d])
    BY <1>2, <2>3
  <2>6. /\ stolen[v] \in Held[<<v, "thief">>]
        /\ Held'[<<v, "thief">>] = Held[<<v, "thief">>] \ {stolen[v]}
        /\ Held'[<<r, "current">>] = Held[<<r, "current">>] \cup {stolen[v]}
    <3>1. Held[<<v, "thief">>] = {stolen[v]} /\ Held'[<<v, "thief">>] = {}
      <4>1. theft[v] = "reply" /\ theft'[v] = "read"
        BY <2>3, <2>4
      <4>2. QED
        BY <4>1, HeldNow, HeldThen
    <3>2. Held[<<r, "current">>] = {} /\ Held'[<<r, "current">>] = {stolen[v]}
      BY <2>2, <2>4, HeldNow, HeldThen
    <3>3. QED
      BY <3>1, <3>2
  <2>7. \A e \in Context, m \in Kind :
            ~(e = v /\ m = "thief") /\ ~(e = r /\ m = "current")
                => Held'[<<e, m>>] = Held[<<e, m>>]
    <3>1. ASSUME NEW e \in Context
          PROVE  /\ Held'[<<e, "list">>] = Held[<<e, "list">>]
                 /\ e # r => Held'[<<e, "current">>] = Held[<<e, "current">>]
                 /\ Held'[<<e, "link">>] = Held[<<e, "link">>]
                 /\ e # v => Held'[<<e, "thief">>] = Held[<<e, "thief">>]
                 /\ Held'[<<e, "done">>] = Held[<<e, "done">>]
      BY <2>2, <2>3, <2>4, SameHeld
    <3>2. QED
      BY <3>1 DEF Kind
  <2>8. "thief" \in Kind /\ "current" \in Kind /\ <<v, "thief">> # <<r, "current">>
    BY DEF Kind
  <2>9. QED
    BY <1>1, <2>2, <2>5, <2>6, <2>7, <2>8, NodeMoves
<1>12. CASE UNCHANGED vars
  <2>1. UNCHANGED <<pc, list, cur, links, theft, stolen, done>>
    BY <1>12 DEF vars, listVars, loopVars, theftVars, ghosts
  <2>2. \A d \in Context, k \in Kind : Held'[<<d, k>>] = Held[<<d, k>>]
    BY <2>1, SameHeld DEF Kind
  <2>3. QED
    BY <1>1, <2>1, <2>2, PlacesKept
<1>13. QED
  BY <1>1, <1>3, <1>4, <1>5, <1>6, <1>7, <1>8, <1>9, <1>10, <1>11, <1>12, ThiefCases
     DEF Next, ExecFrame, StealReady, Steal

-------------------------------------------------------------------------------
(* The walk through the successors.                                        *)

\* q is the end of the sequence s.
IsEndOf(q, s) ==
    /\ q # <<>> /\ Len(q) <= Len(s)
    /\ \A i \in 1 .. Len(q) : q[i] = s[Len(s) - Len(q) + i]

LEMMA EndOfSequence ==
    ASSUME NEW S, NEW s \in Seq(S), s # <<>>
    PROVE  IsEndOf(s, s)
<1>1. Len(s) \in Nat /\ Len(s) <= Len(s)
  OBVIOUS
<1>2. \A i \in 1 .. Len(s) : Len(s) - Len(s) + i = i
  BY <1>1
<1>3. \A i \in 1 .. Len(s) : s[i] = s[Len(s) - Len(s) + i]
  BY <1>2, Zenon
<1>4. QED
  BY <1>1, <1>3 DEF IsEndOf

LEMMA TailOfEnd ==
    ASSUME NEW S, NEW s \in Seq(S), NEW q \in Seq(S), IsEndOf(q, s), Tail(q) # <<>>
    PROVE  IsEndOf(Tail(q), s)
<1>1. PICK m, l \in Nat : m = Len(s) /\ l = Len(q)
  OBVIOUS
<1>2. q # <<>> /\ l <= m /\ \A i \in 1 .. l : q[i] = s[m - l + i]
  BY <1>1 DEF IsEndOf
<1>3. l >= 1 /\ Len(Tail(q)) = l - 1 /\ \A i \in 1 .. l - 1 : Tail(q)[i] = q[i + 1]
  BY <1>1, <1>2
<1>4. ASSUME NEW i \in 1 .. l - 1
      PROVE  Tail(q)[i] = s[m - (l - 1) + i]
  <2>1. i + 1 \in 1 .. l /\ m - (l - 1) + i = m - l + (i + 1)
    BY <1>3
  <2>2. Tail(q)[i] = s[m - l + (i + 1)]
    BY <1>2, <1>3, <2>1, Zenon
  <2>3. QED
    BY <2>1, <2>2, Zenon
<1>5. l - 1 <= m
  BY <1>2
<1>6. Len(Tail(q)) <= Len(s)
  BY <1>1, <1>3, <1>5, Zenon
<1>7. \A i \in 1 .. Len(Tail(q)) : Tail(q)[i] = s[Len(s) - Len(Tail(q)) + i]
  BY <1>1, <1>3, <1>4, Zenon
<1>8. QED
  BY <1>6, <1>7, Zenon DEF IsEndOf

WalkOK(c) ==
    /\ cur[c] \in done
    /\ IsEndOf(links[c], graph.succ[cur[c]])
    /\ local[c] >= 1

LEMMA WalkParts ==
    /\ WalkInv <=>
        \A c \in Context : Walks(c) =>
            WalkOK(c) /\ \A d \in Context : Walks(d) /\ cur[d] = cur[c] => d = c
    /\ WalkInv' <=>
        \A c \in Context : Walks(c)' =>
            WalkOK(c)' /\ \A d \in Context : Walks(d)' /\ cur'[d] = cur'[c] => d = c
BY Zenon DEF WalkInv, WalkOK, IsEndOf

\* A step of the walk of c.
LEMMA OneWalks ==
    ASSUME WalkInv, graph' = graph, done \subseteq done', NEW c \in Context,
           \A d \in Context \ {c} : Walks(d)' =>
               Walks(d) /\ cur'[d] = cur[d] /\ links'[d] = links[d] /\ local'[d] = local[d],
           Walks(c)' => WalkOK(c)' /\ \A d \in Context \ {c} : Walks(d) => cur[d] # cur'[c]
    PROVE  WalkInv'
<1>1. ASSUME NEW d \in Context \ {c}, Walks(d)'
      PROVE  WalkOK(d)'
  <2>1. WalkOK(d)
    BY <1>1, WalkParts
  <2>2. QED
    BY <1>1, <2>1 DEF WalkOK
<1>2. \A d \in Context : Walks(d)' => WalkOK(d)'
  BY <1>1
<1>3. ASSUME NEW d \in Context, NEW e \in Context, Walks(d)', Walks(e)', cur'[e] = cur'[d]
      PROVE  e = d
  <2>1. CASE d = c \/ e = c
    BY <1>3, <2>1
  <2>2. CASE d # c /\ e # c
    BY <1>3, <2>2, WalkParts
  <2>3. QED
    BY <2>1, <2>2
<1>4. QED
  BY <1>2, <1>3, WalkParts

LEMMA WalkStep ==
    ASSUME GraphInv, TypeOK, ContextInv, TheftInv, PlaceInv, WalkInv, [Next]_vars
    PROVE  WalkInv'
<1>1. graph' = graph /\ Master \in Context
  BY GraphStep, ConstantsAssumption
<1>2. ASSUME NEW c \in Context,
             \/ TestList(c) \/ Pop(c) \/ DecrAndBegin(c) \/ Report(c) \/ Start(c) \/ Detach(c)
             \/ (c = Master /\ Leave)
      PROVE  WalkInv'
  <2>1. PICK to \in Location \ {"activate", "link", "count"} : pc' = [pc EXCEPT ![c] = to]
    BY <1>2 DEF TestList, Pop, DecrAndBegin, Report, Start, Detach, Leave, Check, WakeUp, Unlist,
         Destroy, Goto, Location, Loop
  <2>2. done' = done /\ links' = links
    BY <1>2 DEF TestList, Pop, DecrAndBegin, Report, Start, Detach, Leave, Check, WakeUp, Unlist,
         Destroy, loopVars, ghosts
  <2>3. \A d \in Context \ {c} : cur'[d] = cur[d] /\ local'[d] = local[d]
    BY <1>2 DEF TypeOK, TestList, Pop, DecrAndBegin, Report, Start, Detach, Leave, Check, WakeUp,
         Unlist, Destroy, loopVars
  <2>4. \A d \in Context : pc'[d] = IF d = c THEN to ELSE pc[d]
    BY <2>1 DEF TypeOK
  <2>5. QED
    BY <1>1, <2>2, <2>3, <2>4, OneWalks DEF Walks
<1>3. ASSUME NEW c \in Context, EndBody(c)
      PROVE  WalkInv'
  <2>1. /\ pc[c] = "body" /\ pc' = [pc EXCEPT ![c] = Walk(graph.succ[cur[c]])]
        /\ done' = done \cup {cur[c]} /\ local' = [local EXCEPT ![c] = @ + 1]
        /\ links' = [links EXCEPT ![c] = graph.succ[cur[c]]] /\ cur' = cur
    BY <1>3 DEF EndBody, Goto
  <2>2. \A d \in Context :
          /\ pc'[d] = IF d = c THEN Walk(graph.succ[cur[c]]) ELSE pc[d]
          /\ local'[d] = IF d = c THEN local[c] + 1 ELSE local[d]
          /\ links'[d] = IF d = c THEN graph.succ[cur[c]] ELSE links[d]
    BY <2>1 DEF TypeOK
  <2>3. graph.succ[cur[c]] \in Seq(DOMAIN program)
    BY <2>1, NodeFacts
  <2>4. ASSUME Walks(c)'
        PROVE  WalkOK(c)'
    <3>1. graph.succ[cur[c]] # <<>>
      BY <2>2, <2>4 DEF Walks, Walk
    <3>2. IsEndOf(graph.succ[cur[c]], graph.succ[cur[c]])
      BY <2>3, <3>1, EndOfSequence
    <3>3. links'[c] = graph.succ[cur[c]] /\ cur'[c] = cur[c] /\ cur[c] \in done'
      BY <2>1, <2>2
    <3>4. IsEndOf(links'[c], graph'.succ[cur'[c]])
      BY <1>1, <3>2, <3>3, Zenon
    <3>5. local'[c] >= 1
      BY <2>2 DEF TypeOK
    <3>6. QED
      BY <3>3, <3>4, <3>5, Zenon DEF WalkOK
  <2>5. Held[<<c, "current">>] = {cur[c]} /\ Held[<<Master, "done">>] = done
    BY <1>1, <2>1, HeldNow
  <2>6. cur[c] \notin done
    <3>1. <<c, "current">> \in Place /\ <<Master, "done">> \in Place
          /\ <<c, "current">> # <<Master, "done">>
      BY <1>1, PlaceCases DEF Kind
    <3>2. Held[<<c, "current">>] \cap Held[<<Master, "done">>] = {}
      BY <3>1, HeldNow DEF PlaceInv, Disjoint
    <3>3. QED
      BY <2>5, <3>2
  <2>7. \A d \in Context \ {c} : Walks(d) => cur[d] # cur'[c]
    BY <2>1, <2>6 DEF WalkInv
  <2>8. \A d \in Context \ {c} : Walks(d)' =>
            Walks(d) /\ cur'[d] = cur[d] /\ links'[d] = links[d] /\ local'[d] = local[d]
    BY <2>1, <2>2 DEF Walks
  <2>9. done \subseteq done'
    BY <2>1
  <2>10. QED
    BY <1>1, <2>4, <2>7, <2>8, <2>9, OneWalks
<1>4. ASSUME NEW c \in Context, Activate(c) \/ LinkReady(c) \/ CountReady(c)
      PROVE  WalkInv'
  <2>1. Walks(c)
    BY <1>4 DEF Activate, LinkReady, CountReady, Goto, Walks
  <2>2. UNCHANGED <<cur, local, done>>
    BY <1>4 DEF Activate, LinkReady, CountReady, loopVars, ghosts
  <2>3. \E q, to :
          /\ q = links[c] \/ (q = Tail(links[c]) /\ to = Walk(q))
          /\ pc' = [pc EXCEPT ![c] = to]
          /\ \A d \in Context : links'[d] = IF d = c THEN q ELSE links[d]
    <3>1. CASE Activate(c) /\ Activated(Head(links[c]))
      <4>1. /\ pc' = [pc EXCEPT ![c] = "link"] /\ links' = [links EXCEPT ![c] = links[c]]
        BY <3>1 DEF Activate, Goto
      <4>2. \A d \in Context : links'[d] = IF d = c THEN links[c] ELSE links[d]
        BY <4>1 DEF TypeOK
      <4>3. QED
        BY <4>1, <4>2
    <3>2. CASE \/ Activate(c) /\ ~Activated(Head(links[c]))
               \/ CountReady(c)
      <4>1. /\ pc' = [pc EXCEPT ![c] = Walk(Tail(links[c]))]
            /\ links' = [links EXCEPT ![c] = Tail(links[c])]
        BY <3>2 DEF Activate, CountReady, Goto
      <4>2. \A d \in Context : links'[d] = IF d = c THEN Tail(links[c]) ELSE links[d]
        BY <4>1 DEF TypeOK
      <4>3. QED
        BY <4>1, <4>2
    <3>3. CASE LinkReady(c)
      <4>1. /\ pc' = [pc EXCEPT ![c] = "count"] /\ links' = links
        BY <3>3 DEF LinkReady, Goto, loopVars
      <4>2. \A d \in Context : links'[d] = IF d = c THEN links[c] ELSE links[d]
        BY <4>1 DEF TypeOK
      <4>3. QED
        BY <4>1, <4>2
    <3>4. QED
      BY <1>4, <3>1, <3>2, <3>3
  <2>4. PICK q, to :
          /\ q = links[c] \/ (q = Tail(links[c]) /\ to = Walk(q))
          /\ pc' = [pc EXCEPT ![c] = to]
          /\ \A d \in Context : links'[d] = IF d = c THEN q ELSE links[d]
    BY <2>3
  <2>5. \A d \in Context : /\ pc'[d] = IF d = c THEN to ELSE pc[d]
                           /\ links'[d] = IF d = c THEN q ELSE links[d]
    BY <2>4 DEF TypeOK
  <2>6. WalkOK(c) /\ links[c] \in Seq(DOMAIN program) /\ graph.succ[cur[c]] \in Seq(DOMAIN program)
    BY <2>1, WalkParts, WalkFacts, ActivateFacts
  <2>7. ASSUME Walks(c)'
        PROVE  WalkOK(c)'
    <3>1. IsEndOf(q, graph.succ[cur[c]])
      <4>1. CASE q = links[c]
        BY <2>6, <4>1 DEF WalkOK
      <4>2. CASE q = Tail(links[c]) /\ to = Walk(q)
        <5>1. q # <<>>
          BY <2>5, <2>7, <4>2 DEF Walks, Walk
        <5>2. IsEndOf(links[c], graph.succ[cur[c]])
          BY <2>6 DEF WalkOK
        <5>3. QED
          BY <2>6, <4>2, <5>1, <5>2, TailOfEnd
      <4>3. QED
        BY <2>4, <4>1, <4>2
    <3>2. links'[c] = q /\ cur' = cur /\ local' = local /\ done' = done /\ graph' = graph
      BY <1>1, <2>2, <2>5
    <3>3. QED
      BY <2>6, <3>1, <3>2, Zenon DEF WalkOK
  <2>8. \A d \in Context \ {c} : Walks(d) => cur[d] # cur'[c]
    BY <2>1, <2>2 DEF WalkInv
  <2>9. \A d \in Context \ {c} : Walks(d)' =>
            Walks(d) /\ cur'[d] = cur[d] /\ links'[d] = links[d] /\ local'[d] = local[d]
    BY <2>2, <2>5 DEF Walks
  <2>10. QED
    BY <1>1, <2>2, <2>7, <2>8, <2>9, OneWalks
<1>5. ASSUME NEW v \in Context,
             \/ ThiefLeaves(v) \/ ThiefCounts(v) \/ TakeTail(v)
             \/ \E R \in SUBSET Context : LockStack(v, R)
      PROVE  WalkInv'
  <2>1. UNCHANGED <<cur, links, local, done>>
    BY <1>5 DEF ThiefLeaves, ThiefCounts, TakeTail, LockStack, loopVars, ghosts
  <2>2. \A r \in serve[v] : pc[r] = "asking"
    BY DEF TheftInv
  <2>3. \A d \in Context : pc'[d] = pc[d] \/ {pc[d], pc'[d]} \subseteq {"idle", "asking"}
    BY <1>5, <2>2 DEF ThiefLeaves, ThiefCounts, TakeTail, LockStack, UnlockStack
  <2>4. \A d \in Context : Walks(d)' => Walks(d)
    BY <2>3 DEF Walks
  <2>5. QED
    BY <1>1, <2>1, <2>4 DEF WalkInv
<1>6. ASSUME NEW v \in Context, Reply(v)
      PROVE  WalkInv'
  <2>1. PICK r \in serve[v] :
          /\ pc' = [pc EXCEPT ![r] = "start"]
          /\ cur' = [cur EXCEPT ![r] = stolen[v]]
    BY <1>6 DEF Reply
  <2>2. r \in Context
    BY DEF TypeOK
  <2>3. UNCHANGED <<links, local, done>>
    BY <1>6 DEF Reply, ghosts
  <2>4. \A d \in Context : /\ pc'[d] = IF d = r THEN "start" ELSE pc[d]
                           /\ d # r => cur'[d] = cur[d]
    BY <2>1 DEF TypeOK
  <2>5. QED
    BY <1>1, <2>2, <2>3, <2>4, OneWalks DEF Walks
<1>7. CASE UNCHANGED vars
  <2>1. UNCHANGED <<pc, cur, links, local, done>>
    BY <1>7 DEF vars, loopVars, ghosts
  <2>2. QED
    BY <1>1, <2>1 DEF WalkInv, Walks
<1>8. QED
  BY <1>1, <1>2, <1>3, <1>4, <1>5, <1>6, <1>7, ThiefCases
     DEF Next, ExecFrame, StealReady, Steal

-------------------------------------------------------------------------------
(* What a node waits for.                                                  *)

\* The i-th successor of u is ahead of c, that walks through them.
Ahead(c, u, i) == Walks(c) /\ cur[c] = u /\ i > Len(graph.succ[u]) - Left(c)

\* The links of the graph.
IsLink(u, i) == u \in DOMAIN graph.succ /\ i \in DOMAIN graph.succ[u]

LEMMA PendingMember ==
    ASSUME NEW n, NEW e
    PROVE  /\ e \in Pending(n) <=>
                /\ e \in LinksTo(graph.succ, n)
                /\ e[1] \notin done \/ \E c \in Context : Ahead(c, e[1], e[2])
           /\ e \in Pending(n)' <=>
                /\ e \in LinksTo(graph'.succ, n)
                /\ e[1] \notin done' \/ \E c \in Context : Ahead(c, e[1], e[2])'
BY Zenon DEF Pending, IsPending, Ahead

LEMMA SamePending ==
    ASSUME graph' = graph,
           \A u, i : IsLink(u, i) =>
               ((u \notin done' \/ \E c \in Context : Ahead(c, u, i)')
                    <=> (u \notin done \/ \E c \in Context : Ahead(c, u, i)))
    PROVE  \A n : Pending(n)' = Pending(n)
<1> SUFFICES ASSUME NEW n
             PROVE  Pending(n)' = Pending(n)
  OBVIOUS
<1>1. \A e \in LinksTo(graph.succ, n) : IsLink(e[1], e[2])
  BY LinkEnds DEF IsLink
<1>2. ASSUME NEW e
      PROVE  e \in Pending(n)' <=> e \in Pending(n)
  BY <1>1, PendingMember, Zenon
<1>3. QED
  BY <1>2

\* The contexts that do not walk before and after a step do not matter.
LEMMA SameAhead ==
    ASSUME graph' = graph, NEW d \in Context,
           \/ pc'[d] = pc[d] /\ cur'[d] = cur[d] /\ links'[d] = links[d]
           \/ pc[d] = "link" /\ pc'[d] = "count" /\ cur'[d] = cur[d] /\ links'[d] = links[d]
           \/ ~Walks(d) /\ ~Walks(d)'
    PROVE  \A u, i : Ahead(d, u, i)' <=> Ahead(d, u, i)
<1>1. CASE pc'[d] = pc[d] /\ cur'[d] = cur[d] /\ links'[d] = links[d]
  <2>1. Left(d)' = Left(d)
    BY <1>1 DEF Left
  <2>2. Walks(d)' <=> Walks(d)
    BY <1>1 DEF Walks
  <2>3. QED
    BY <1>1, <2>1, <2>2, Zenon DEF Ahead
<1>2. CASE ~Walks(d) /\ ~Walks(d)'
  BY <1>2 DEF Ahead
<1>3. CASE pc[d] = "link" /\ pc'[d] = "count" /\ cur'[d] = cur[d] /\ links'[d] = links[d]
  <2>1. Left(d)' = Left(d)
    BY <1>3 DEF Left
  <2>2. Walks(d)' /\ Walks(d)
    BY <1>3 DEF Walks
  <2>3. QED
    BY <1>3, <2>1, <2>2, Zenon DEF Ahead
<1>4. QED
  BY <1>1, <1>2, <1>3

LEMMA AheadIsSettled ==
    ASSUME done' = done, graph' = graph,
           \A d \in Context : \A u, i : IsLink(u, i) => (Ahead(d, u, i)' <=> Ahead(d, u, i))
    PROVE  \A n : Pending(n)' = Pending(n)
BY SamePending

LEMMA EndBodyKeepsPending ==
    ASSUME GraphInv, TypeOK, PlaceInv, NEW c \in Context, EndBody(c), graph' = graph
    PROVE  \A n : Pending(n)' = Pending(n)
<1>1. /\ pc[c] = "body" /\ pc' = [pc EXCEPT ![c] = Walk(graph.succ[cur[c]])]
      /\ done' = done \cup {cur[c]}
      /\ links' = [links EXCEPT ![c] = graph.succ[cur[c]]] /\ cur' = cur
  BY DEF EndBody, Goto
<1>2. \A d \in Context :
        /\ pc'[d] = IF d = c THEN Walk(graph.succ[cur[c]]) ELSE pc[d]
        /\ links'[d] = IF d = c THEN graph.succ[cur[c]] ELSE links[d]
  BY <1>1 DEF TypeOK
<1>3. \A d \in Context \ {c} : \A u, i : Ahead(d, u, i)' <=> Ahead(d, u, i)
  BY <1>1, <1>2, SameAhead
<1>4. Held[<<c, "current">>] = {cur[c]} /\ Held[<<Master, "done">>] = done
  BY <1>1, HeldNow, ConstantsAssumption
<1>5. cur[c] \notin done
  <2>1. <<c, "current">> \in Place /\ <<Master, "done">> \in Place
        /\ <<c, "current">> # <<Master, "done">>
    BY PlaceCases, ConstantsAssumption DEF Kind
  <2>2. Held[<<c, "current">>] \cap Held[<<Master, "done">>] = {}
    BY <2>1, HeldNow DEF PlaceInv, Disjoint
  <2>3. QED
    BY <1>4, <2>2
<1>6. \A u, i : ~Ahead(c, u, i)
  BY <1>1 DEF Ahead, Walks
<1>7. \A u, i : u # cur[c] => ~Ahead(c, u, i)'
  BY <1>1 DEF Ahead
<1>8. ASSUME NEW u, NEW i, u = cur[c], IsLink(u, i)
      PROVE  Ahead(c, u, i)'
  <2>1. graph.succ[cur[c]] \in Seq(DOMAIN program)
    BY <1>1, NodeFacts
  <2>2. PICK s \in Seq(DOMAIN program) : s = graph.succ[cur[c]]
    BY <2>1
  <2>3. i \in 1 .. Len(s) /\ Len(s) \in Nat
    BY <1>8, <2>2 DEF IsLink
  <2>4. s # <<>>
    BY <2>3
  <2>5. pc'[c] = "activate" /\ links'[c] = s /\ cur'[c] = cur[c]
    BY <1>1, <1>2, <2>2, <2>4 DEF Walk
  <2>6. Walks(c)' /\ Left(c)' = Len(s)
    BY <2>5 DEF Walks, Left
  <2>7. i > Len(s) - Len(s)
    BY <2>3
  <2>8. graph'.succ[u] = s /\ cur'[c] = u
    BY <1>1, <1>8, <2>2
  <2>9. QED
    BY <2>5, <2>6, <2>7, <2>8, Zenon DEF Ahead
<1>9. ASSUME NEW u, NEW i, IsLink(u, i)
      PROVE  (u \notin done' \/ \E d \in Context : Ahead(d, u, i)')
                <=> (u \notin done \/ \E d \in Context : Ahead(d, u, i))
  <2>1. CASE u = cur[c]
    <3>2. Ahead(c, u, i)'
      BY <1>8, <1>9, <2>1, Zenon
    <3>3. u \notin done
      BY <1>5, <2>1, Zenon
    <3>4. QED
      BY <3>2, <3>3, Zenon
  <2>2. CASE u # cur[c]
    <3>1. u \in done' <=> u \in done
      BY <1>1, <2>2
    <3>2. \A d \in Context : Ahead(d, u, i)' <=> Ahead(d, u, i)
      BY <1>3, <1>6, <1>7, <2>2
    <3>3. QED
      BY <3>1, <3>2
  <2>3. QED
    BY <2>1, <2>2
<1>10. QED
  BY <1>9, SamePending

LEMMA CountReadyKeepsPending ==
    ASSUME GraphInv, TypeOK, WalkInv, NEW c \in Context, CountReady(c), graph' = graph
    PROVE  \A n : Pending(n)' = Pending(n)
<1>1. /\ pc[c] = "count" /\ pc' = [pc EXCEPT ![c] = Walk(Tail(links[c]))]
      /\ links' = [links EXCEPT ![c] = Tail(links[c])] /\ cur' = cur /\ done' = done
  BY DEF CountReady, Goto, ghosts
<1>2. \A d \in Context :
        /\ pc'[d] = IF d = c THEN Walk(Tail(links[c])) ELSE pc[d]
        /\ links'[d] = IF d = c THEN Tail(links[c]) ELSE links[d]
  BY <1>1 DEF TypeOK
<1>3. \A d \in Context \ {c} : \A u, i : Ahead(d, u, i)' <=> Ahead(d, u, i)
  BY <1>1, <1>2, SameAhead
<1>4. Walks(c)
  BY <1>1 DEF Walks
<1>5. /\ Len(links[c]) \in Nat \ {0} /\ Len(Tail(links[c])) = Len(links[c]) - 1
      /\ Tail(links[c]) \in Seq(DOMAIN program)
      /\ graph.succ[cur[c]] \in Seq(DOMAIN program)
  BY <1>4, WalkFacts, ActivateFacts
<1>6. ASSUME NEW u, NEW i, IsLink(u, i)
      PROVE  Ahead(c, u, i)' <=> Ahead(c, u, i)
  <2>1. Left(c) = Len(links[c]) - 1
    BY <1>1 DEF Left
  <2>2. CASE Tail(links[c]) # <<>>
    <3>1. pc'[c] = "activate" /\ links'[c] = Tail(links[c])
      BY <1>2, <2>2 DEF Walk
    <3>2. Walks(c)' /\ Left(c)' = Left(c)
      BY <1>5, <2>1, <3>1 DEF Walks, Left
    <3>3. cur'[c] = cur[c]
      BY <1>1
    <3>4. QED
      BY <1>4, <3>2, <3>3, Zenon DEF Ahead
  <2>3. CASE Tail(links[c]) = <<>>
    <3>1. ~Walks(c)'
      BY <1>2, <2>3 DEF Walk, Walks
    <3>2. Left(c) = 0
      <4>1. Len(Tail(links[c])) = 0
        <5>1. Len(<<>>) = 0
          OBVIOUS
        <5>2. QED
          BY <2>3, <5>1, Zenon
      <4>2. QED
        BY <1>5, <2>1, <4>1
    <3>3. ASSUME u = cur[c]
          PROVE  ~(i > Len(graph.succ[u]) - Left(c))
      <4>1. PICK s \in Seq(DOMAIN program) : s = graph.succ[u]
        BY <1>5, <3>3
      <4>2. i \in 1 .. Len(s) /\ Len(s) \in Nat
        BY <1>6, <4>1 DEF IsLink
      <4>3. ~(i > Len(s) - 0)
        BY <4>2
      <4>4. QED
        BY <3>2, <4>1, <4>3, Zenon
    <3>4. ~Ahead(c, u, i)
      BY <3>3, Zenon DEF Ahead
    <3>5. QED
      BY <3>1, <3>4 DEF Ahead
  <2>4. QED
    BY <2>2, <2>3
<1>7. \A d \in Context : \A u, i : IsLink(u, i) => (Ahead(d, u, i)' <=> Ahead(d, u, i))
  BY <1>3, <1>6
<1>8. QED
  BY <1>1, <1>7, AheadIsSettled

\* A node is told by the step that goes past its link.
LEMMA ActivateRemoves ==
    ASSUME GraphInv, TypeOK, WalkInv, NEW c \in Context, Activate(c), graph' = graph
    PROVE  \A n : Pending(n)' = Pending(n) \ {LinkOf(c)}
<1>1. /\ pc[c] = "activate" /\ cur' = cur /\ done' = done
      /\ \/ pc' = [pc EXCEPT ![c] = "link"] /\ links' = [links EXCEPT ![c] = links[c]]
         \/ /\ pc' = [pc EXCEPT ![c] = Walk(Tail(links[c]))]
            /\ links' = [links EXCEPT ![c] = Tail(links[c])]
  BY DEF Activate, Goto, ghosts
<1>2. /\ \A d \in Context \ {c} : pc'[d] = pc[d] /\ links'[d] = links[d]
      /\ \/ pc'[c] = "link" /\ links'[c] = links[c]
         \/ pc'[c] = Walk(Tail(links[c])) /\ links'[c] = Tail(links[c])
  BY <1>1 DEF TypeOK
<1>3. \A d \in Context \ {c} : \A u, i : Ahead(d, u, i)' <=> Ahead(d, u, i)
  BY <1>1, <1>2, SameAhead
<1>4. Walks(c)
  BY <1>1 DEF Walks
<1>5. PICK s \in Seq(DOMAIN program), q \in Seq(DOMAIN program),
          u \in Nodes(program) :
        s = graph.succ[cur[c]] /\ q = links[c] /\ u = cur[c]
  BY <1>4, WalkFacts, ActivateFacts
<1>6. PICK m, l \in Nat : m = Len(s) /\ l = Len(q) /\ l >= 1 /\ l <= m /\ Len(Tail(q)) = l - 1
  <2>1. Len(links[c]) \in Nat \ {0} /\ Len(links[c]) <= Len(graph.succ[cur[c]])
        /\ Len(Tail(links[c])) = Len(links[c]) - 1 /\ Len(graph.succ[cur[c]]) \in Nat
    BY <1>4, WalkFacts, ActivateFacts
  <2>2. QED
    BY <1>5, <2>1
<1>7. /\ LinkOf(c) = <<cur[c], m - l + 1>> /\ Left(c) = l
  BY <1>1, <1>5, <1>6 DEF LinkOf, Left
<1>8. Tail(q) \in Seq(DOMAIN program) /\ (Tail(q) = <<>> <=> l = 1)
  <2>1. Tail(q) \in Seq(DOMAIN program)
    BY <1>4, <1>5, ActivateFacts
  <2>2. Tail(q) = <<>> <=> Len(Tail(q)) = 0
    BY <2>1, EmptyList
  <2>3. QED
    BY <1>6, <2>1, <2>2
<1>9. ASSUME NEW i \in 1 .. m
      PROVE  /\ Ahead(c, u, i) <=> i > m - l
             /\ Ahead(c, u, i)' <=> i > m - (l - 1)
  <2>1. Ahead(c, u, i) <=> i > m - l
    BY <1>4, <1>5, <1>6, <1>7, Zenon DEF Ahead
  <2>2. CASE Walks(c)'
    <3>1. Left(c)' = l - 1
      BY <1>2, <1>5, <1>6, <2>2 DEF Left, Walks, Walk
    <3>2. cur'[c] = u /\ graph'.succ[u] = s
      BY <1>1, <1>5
    <3>3. Ahead(c, u, i)' <=> i > m - (l - 1)
      BY <1>6, <2>2, <3>1, <3>2, Zenon DEF Ahead
    <3>4. QED
      BY <2>1, <3>3
  <2>3. CASE ~Walks(c)'
    <3>1. l = 1
      BY <1>2, <1>5, <1>8, <2>3 DEF Walks, Walk
    <3>2. ~(i > m - (l - 1))
      BY <3>1
    <3>3. ~Ahead(c, u, i)'
      BY <2>3 DEF Ahead
    <3>4. QED
      BY <2>1, <3>2, <3>3
  <2>4. QED
    BY <2>2, <2>3
<1>10. \A d \in Context \ {c} : \A i : ~Ahead(d, u, i) /\ ~Ahead(d, u, i)'
  <2>1. \A d \in Context \ {c} : \A i : ~Ahead(d, u, i)
    BY <1>4, <1>5 DEF WalkInv, Ahead
  <2>2. QED
    BY <1>3, <2>1
<1>11. cur[c] \in done
  BY <1>4 DEF WalkInv
<1>12. ASSUME NEW n, NEW e \in LinksTo(graph.succ, n)
       PROVE  e \in Pending(n)' <=> e \in Pending(n) /\ e # LinkOf(c)
  <2>1. IsLink(e[1], e[2]) /\ e = <<e[1], e[2]>>
    BY LinkEnds DEF IsLink
  <2>2. CASE e[1] = cur[c]
    <3>1. e[2] \in 1 .. m
      BY <1>5, <1>6, <2>1, <2>2 DEF IsLink
    <3>2. PICK i \in 1 .. m : i = e[2]
      BY <3>1
    <3>3. e \in Pending(n) <=> i > m - l
      <4>1. e \in Pending(n) <=> \E d \in Context : Ahead(d, u, i)
        BY <1>5, <1>11, <2>2, <3>2, PendingMember, Zenon
      <4>2. QED
        BY <1>9, <1>10, <4>1
    <3>4. e \in Pending(n)' <=> i > m - (l - 1)
      <4>1. e \in LinksTo(graph'.succ, n) /\ e[1] \in done'
        BY <1>1, <1>11, <2>2
      <4>2. e \in Pending(n)' <=> \E d \in Context : Ahead(d, u, i)'
        BY <1>5, <2>2, <3>2, <4>1, PendingMember, Zenon
      <4>3. QED
        BY <1>9, <1>10, <4>2
    <3>5. e = LinkOf(c) <=> i = m - l + 1
      BY <1>7, <2>1, <2>2, <3>2
    <3>6. i > m - (l - 1) <=> i > m - l /\ i # m - l + 1
      BY <3>2
    <3>7. QED
      BY <3>3, <3>4, <3>5, <3>6
  <2>3. CASE e[1] # cur[c]
    <3>1. e # LinkOf(c)
      BY <1>7, <2>3
    <3>2. \A i : ~Ahead(c, e[1], i) /\ ~Ahead(c, e[1], i)'
      BY <1>1, <2>3 DEF Ahead
    <3>3. \A d \in Context : Ahead(d, e[1], e[2])' <=> Ahead(d, e[1], e[2])
      BY <1>3, <3>2
    <3>4. e \in LinksTo(graph'.succ, n) /\ (e[1] \in done' <=> e[1] \in done)
      BY <1>1
    <3>5. e \in Pending(n)' <=> e \in Pending(n)
      BY <3>3, <3>4, PendingMember, Zenon
    <3>6. QED
      BY <3>1, <3>5
  <2>4. QED
    BY <2>2, <2>3
<1>13. ASSUME NEW n
       PROVE  Pending(n)' = Pending(n) \ {LinkOf(c)}
  <2>1. \A e \in Pending(n) : e \in LinksTo(graph.succ, n)
    BY DEF Pending
  <2>2. \A e \in Pending(n)' : e \in LinksTo(graph.succ, n)
    BY DEF Pending
  <2>3. \A e : e \in Pending(n)' <=> e \in Pending(n) /\ e # LinkOf(c)
    BY <1>12, <2>1, <2>2, Zenon
  <2>4. QED
    BY <2>3
<1>14. QED
  BY <1>13

\* The counter of a node wraps at the number of its predecessors.
LEMMA LastPredecessor ==
    ASSUME NEW w \in Nat, NEW x \in 1 .. w
    PROVE  x % w = 0 <=> x = w
<1>1. CASE x = w
  BY <1>1
<1>2. CASE x < w
  BY <1>2
<1>3. QED
  BY <1>1, <1>2

LEMMA PendingIsFinite ==
    ASSUME GraphInv, NEW n \in Nodes(program)
    PROVE  IsFiniteSet(Pending(n)) /\ Cardinality(Pending(n)) \in Nat
<1>1. IsFiniteSet(LinksTo(graph.succ, n))
  BY GraphFacts
<1>2. Pending(n) \subseteq LinksTo(graph.succ, n)
  BY DEF Pending
<1>3. QED
  BY <1>1, <1>2, FS_Subset, FS_CardinalityType

LEMMA ActivateStep ==
    ASSUME GraphInv, TypeOK, WalkInv, PendingInv, NEW c \in Context, Activate(c), graph' = graph,
           program' = program
    PROVE  /\ \A n \in Nodes(program) : counter'[n] + Cardinality(Pending(n)') = graph.wc[n]
           /\ \A n \in Nodes(program) :
                n = Head(links[c]) /\ Activated(n) => Pending(n)' = {}
<1>1. pc[c] = "activate" /\ Walks(c)
  BY DEF Activate, Walks
<1>2. PICK k : k = Head(links[c])
  OBVIOUS
<1>3. k \in Nodes(program) /\ LinkOf(c) \in Pending(k) /\ LinkOf(c) \in LinksTo(graph.succ, k)
  BY <1>1, <1>2, WalkFacts, HeadIsPending DEF Nodes
<1>4. counter' = [counter EXCEPT ![k] = @ + 1]
  BY <1>2 DEF Activate
<1>5. \A n : Pending(n)' = Pending(n) \ {LinkOf(c)}
  BY ActivateRemoves
<1>6. PICK p : p = Cardinality(Pending(k))
  OBVIOUS
<1>7. p \in Nat /\ IsFiniteSet(Pending(k))
  BY <1>3, <1>6, PendingIsFinite
<1>8. Cardinality(Pending(k)') = p - 1
  <2>1. Cardinality(Pending(k) \ {LinkOf(c)}) = Cardinality(Pending(k)) - 1
    BY <1>3, <1>7, FS_RemoveElement, Zenon
  <2>2. QED
    BY <1>5, <1>6, <2>1, Zenon
<1>9. p # 0
  BY <1>3, <1>6, <1>7, FS_EmptySet
<1>10. PICK x, w \in Nat : x = counter[k] /\ w = graph.wc[k]
  BY <1>3, GraphFacts DEF TypeOK
<1>11. x + p = w
  BY <1>3, <1>6, <1>10 DEF PendingInv
<1>12. counter'[k] = x + 1 /\ \A n \in Nodes(program) \ {k} : counter'[n] = counter[n]
  BY <1>3, <1>4, <1>10 DEF TypeOK
<1>13. ASSUME NEW n \in Nodes(program)
       PROVE  counter'[n] + Cardinality(Pending(n)') = graph.wc[n]
  <2>1. CASE n = k
    <3>1. (x + 1) + (p - 1) = w
      BY <1>7, <1>11
    <3>2. QED
      BY <1>8, <1>10, <1>12, <2>1, <3>1, Zenon
  <2>2. CASE n # k
    <3>1. LinkOf(c) \notin Pending(n)
      <4>1. graph.succ[LinkOf(c)[1]][LinkOf(c)[2]] = k
        BY <1>3, LinkEnds
      <4>2. \A e \in Pending(n) : graph.succ[e[1]][e[2]] = n
        BY LinkEnds DEF Pending
      <4>3. QED
        BY <2>2, <4>1, <4>2
    <3>2. Pending(n)' = Pending(n)
      BY <1>5, <3>1
    <3>3. counter[n] + Cardinality(Pending(n)) = graph.wc[n]
      BY DEF PendingInv
    <3>4. counter'[n] = counter[n]
      BY <1>12, <2>2
    <3>5. QED
      BY <3>2, <3>3, <3>4, Zenon
  <2>3. QED
    BY <2>1, <2>2
<1>14. ASSUME Activated(k)
       PROVE  Pending(k)' = {}
  <2>1. (x + 1) % w = 0
    BY <1>10, <1>14 DEF Activated
  <2>2. x + 1 \in 1 .. w
    BY <1>7, <1>9, <1>11
  <2>3. x + 1 = w
    BY <2>1, <2>2, LastPredecessor
  <2>4. p - 1 = 0
    BY <1>7, <1>11, <2>3
  <2>5. Cardinality(Pending(k)') = 0 /\ IsFiniteSet(Pending(k)')
    BY <1>5, <1>7, <1>8, <2>4, FS_Subset
  <2>6. QED
    BY <2>5, FS_EmptySet
<1>15. QED
  BY <1>2, <1>13, <1>14

\* The other steps tell nothing to any node.
LEMMA QuietPending ==
    ASSUME GraphInv, TypeOK, TheftInv, PlaceInv, WalkInv, [Next]_vars,
           \A c \in Context : ~Activate(c)
    PROVE  counter' = counter /\ \A n : Pending(n)' = Pending(n)
<1>1. graph' = graph /\ program' = program /\ Master \in Context
  BY GraphStep, ConstantsAssumption
<1>2. ASSUME NEW c \in Context,
             \/ TestList(c) \/ Pop(c) \/ DecrAndBegin(c) \/ Report(c) \/ Start(c) \/ Detach(c)
             \/ (c = Master /\ Leave)
      PROVE  counter' = counter /\ \A n : Pending(n)' = Pending(n)
  <2>1. PICK to \in Location \ {"activate", "link", "count"} : pc' = [pc EXCEPT ![c] = to]
    BY <1>2 DEF TestList, Pop, DecrAndBegin, Report, Start, Detach, Leave, Check, WakeUp, Unlist,
         Destroy, Goto, Location, Loop
  <2>2. done' = done /\ links' = links /\ counter' = counter
    BY <1>2 DEF TestList, Pop, DecrAndBegin, Report, Start, Detach, Leave, Check, WakeUp, Unlist,
         Destroy, loopVars, ghosts, graphVars
  <2>3. \A d \in Context \ {c} : cur'[d] = cur[d]
    BY <1>2 DEF TypeOK, TestList, Pop, DecrAndBegin, Report, Start, Detach, Leave, Check, WakeUp,
         Unlist, Destroy, loopVars
  <2>4. \A d \in Context : pc'[d] = IF d = c THEN to ELSE pc[d]
    BY <2>1 DEF TypeOK
  <2>5. pc[c] \notin {"activate", "link", "count"}
    BY <1>2 DEF TestList, Pop, DecrAndBegin, Report, Start, Detach, Leave, Check, WakeUp, Unlist,
         Destroy, Goto
  <2>6. \A d \in Context : \A u, i : Ahead(d, u, i)' <=> Ahead(d, u, i)
    <3>1. ~Walks(c) /\ ~Walks(c)'
      BY <2>4, <2>5 DEF Walks
    <3>2. \A d \in Context \ {c} : pc'[d] = pc[d] /\ cur'[d] = cur[d] /\ links'[d] = links[d]
      BY <2>2, <2>3, <2>4
    <3>3. QED
      BY <1>1, <3>1, <3>2, SameAhead
  <2>7. QED
    BY <1>1, <2>2, <2>6, AheadIsSettled
<1>3. ASSUME NEW c \in Context, EndBody(c)
      PROVE  counter' = counter /\ \A n : Pending(n)' = Pending(n)
  <2>1. counter' = counter
    BY <1>3 DEF EndBody, graphVars
  <2>2. QED
    BY <1>1, <1>3, <2>1, EndBodyKeepsPending
<1>4. ASSUME NEW c \in Context, LinkReady(c)
      PROVE  counter' = counter /\ \A n : Pending(n)' = Pending(n)
  <2>1. /\ pc[c] = "link" /\ pc' = [pc EXCEPT ![c] = "count"]
        /\ UNCHANGED <<counter, cur, links, done>>
    BY <1>4 DEF LinkReady, Goto, graphVars, loopVars, ghosts
  <2>2. pc'[c] = "count" /\ \A d \in Context \ {c} : pc'[d] = pc[d]
    BY <2>1 DEF TypeOK
  <2>3. \A d \in Context : \A u, i : Ahead(d, u, i)' <=> Ahead(d, u, i)
    BY <1>1, <2>1, <2>2, SameAhead
  <2>4. QED
    BY <1>1, <2>1, <2>3, AheadIsSettled
<1>5. ASSUME NEW c \in Context, CountReady(c)
      PROVE  counter' = counter /\ \A n : Pending(n)' = Pending(n)
  <2>1. counter' = counter
    BY <1>5 DEF CountReady, graphVars
  <2>2. QED
    BY <1>1, <1>5, <2>1, CountReadyKeepsPending
<1>6. ASSUME NEW v \in Context,
             \/ ThiefLeaves(v) \/ ThiefCounts(v) \/ TakeTail(v)
             \/ \E R \in SUBSET Context : LockStack(v, R)
      PROVE  counter' = counter /\ \A n : Pending(n)' = Pending(n)
  <2>1. UNCHANGED <<counter, cur, links, done>>
    BY <1>6 DEF ThiefLeaves, ThiefCounts, TakeTail, LockStack, loopVars, ghosts, graphVars
  <2>2. \A r \in serve[v] : pc[r] = "asking"
    BY DEF TheftInv
  <2>3. \A d \in Context : pc'[d] = pc[d] \/ {pc[d], pc'[d]} \subseteq {"idle", "asking"}
    BY <1>6, <2>2 DEF ThiefLeaves, ThiefCounts, TakeTail, LockStack, UnlockStack
  <2>4. \A d \in Context : pc'[d] = pc[d] \/ (~Walks(d) /\ ~Walks(d)')
    BY <2>3 DEF Walks
  <2>5. \A d \in Context : \A u, i : Ahead(d, u, i)' <=> Ahead(d, u, i)
    BY <1>1, <2>1, <2>4, SameAhead
  <2>6. QED
    BY <1>1, <2>1, <2>5, AheadIsSettled
<1>7. ASSUME NEW v \in Context, Reply(v)
      PROVE  counter' = counter /\ \A n : Pending(n)' = Pending(n)
  <2>1. PICK r \in serve[v] :
          /\ pc' = [pc EXCEPT ![r] = "start"]
          /\ cur' = [cur EXCEPT ![r] = stolen[v]]
    BY <1>7 DEF Reply
  <2>2. r \in Context /\ pc[r] = "asking"
    BY DEF TheftInv, TypeOK
  <2>3. UNCHANGED <<counter, links, done>>
    BY <1>7 DEF Reply, ghosts, graphVars
  <2>4. \A d \in Context : /\ pc'[d] = IF d = r THEN "start" ELSE pc[d]
                           /\ d # r => cur'[d] = cur[d]
    BY <2>1 DEF TypeOK
  <2>5. ~Walks(r) /\ ~Walks(r)'
    BY <2>2, <2>4 DEF Walks
  <2>6. \A d \in Context : \A u, i : Ahead(d, u, i)' <=> Ahead(d, u, i)
    BY <1>1, <2>3, <2>4, <2>5, SameAhead
  <2>7. QED
    BY <1>1, <2>3, <2>6, AheadIsSettled
<1>8. CASE UNCHANGED vars
  <2>1. UNCHANGED <<counter, pc, cur, links, done>>
    BY <1>8 DEF vars, graphVars, loopVars, ghosts
  <2>2. \A d \in Context : \A u, i : Ahead(d, u, i)' <=> Ahead(d, u, i)
    BY <1>1, <2>1, SameAhead
  <2>3. QED
    BY <1>1, <2>1, <2>2, AheadIsSettled
<1>9. QED
  BY <1>1, <1>2, <1>3, <1>4, <1>5, <1>6, <1>7, <1>8, ThiefCases
     DEF Next, ExecFrame, StealReady, Steal

LEMMA PendingStep ==
    ASSUME GraphInv, TypeOK, ContextInv, TheftInv, ListInv, PlaceInv, WalkInv, PendingInv,
           [Next]_vars
    PROVE  PendingInv'
<1>1. graph' = graph /\ program' = program /\ Used' = Used
      /\ Nodes(program)' = Nodes(program) /\ Used \subseteq Nodes(program)
  BY GraphStep, UsedFacts
<1>2. PlaceInv' /\ \A n \in Used : IsHeld(n)' => IsHeld(n) \/ Arrives(n)
  BY PlaceStep DEF PlaceGoal
<1>3. /\ \A n \in Nodes(program) : counter'[n] + Cardinality(Pending(n)') = graph.wc[n]
      /\ \A n \in Used : IsHeld(n) => Pending(n)' = {}
      /\ \A n \in Used : Arrives(n) => Pending(n)' = {}
  <2>1. \A n : IsHeld(n) => Pending(n) = {}
    BY DEF IsHeld, PendingInv
  <2>2. CASE \E c \in Context : Activate(c)
    <3>1. PICK c \in Context : Activate(c)
      BY <2>2
    <3>2. \A n \in Nodes(program) : counter'[n] + Cardinality(Pending(n)') = graph.wc[n]
      BY <1>1, <3>1, ActivateStep
    <3>3. \A n \in Used : IsHeld(n) => Pending(n)' = {}
      <4>1. \A n : Pending(n)' = Pending(n) \ {LinkOf(c)}
        BY <1>1, <3>1, ActivateRemoves
      <4>2. QED
        BY <2>1, <4>1
    <3>4. \A n \in Used : Arrives(n) => Pending(n)' = {}
      <4>1. ASSUME NEW n \in Used, Arrives(n)
            PROVE  Pending(n)' = {}
        <5>1. PICK d \in Context : Activate(d) /\ n = Head(links[d]) /\ Activated(n)
          BY <4>1 DEF Arrives
        <5>2. \A m \in Nodes(program) : m = Head(links[d]) /\ Activated(m) => Pending(m)' = {}
          BY <1>1, <5>1, ActivateStep
        <5>3. n \in Nodes(program)
          BY <1>1
        <5>4. QED
          BY <5>1, <5>2, <5>3, Zenon
      <4>2. QED
        BY <4>1
    <3>5. QED
      BY <3>2, <3>3, <3>4
  <2>3. CASE \A c \in Context : ~Activate(c)
    <3>1. counter' = counter /\ \A n : Pending(n)' = Pending(n)
      BY <2>3, QuietPending
    <3>2. \A n \in Nodes(program) : counter[n] + Cardinality(Pending(n)) = graph.wc[n]
      BY DEF PendingInv
    <3>3. \A n \in Nodes(program) : counter'[n] + Cardinality(Pending(n)') = graph.wc[n]
      BY <3>1, <3>2, Zenon
    <3>4. \A n : ~Arrives(n)
      BY <2>3 DEF Arrives
    <3>5. QED
      BY <2>1, <3>1, <3>3, <3>4, Zenon
  <2>4. QED
    BY <2>2, <2>3
<1>4. ASSUME NEW a \in Place, NEW n \in Held'[a]
      PROVE  Pending(n)' = {}
  <2>1. IsHeld(n)' /\ n \in Used
    BY <1>1, <1>2 DEF IsHeld, PlaceInv
  <2>2. QED
    BY <1>2, <1>3, <2>1
<1>5. \A n \in Nodes(program)' : counter'[n] + Cardinality(Pending(n)') = graph'.wc[n]
  BY <1>1, <1>3, Zenon
<1>6. QED
  BY <1>4, <1>5, Zenon DEF PendingInv

-------------------------------------------------------------------------------
(* What is executed is reported.                                           *)

LEMMA UnreportedType ==
    ASSUME TypeOK
    PROVE  /\ [c \in Context |-> Unreported(c)] \in [Context -> Nat]
           /\ Master \in Context /\ exec[Master] \in Nat
           /\ IsFiniteSet(Owed([c \in Context |-> Unreported(c)]))
<1>1. \A c \in Context : Unreported(c) \in Nat
  <2>1. \A c \in Context : local[c] \in Nat /\ exec[c] \in Nat
    BY DEF TypeOK
  <2>2. ASSUME NEW c \in Context
        PROVE  Unreported(c) \in Nat
    <3>1. CASE c = Master
      BY <2>1, <3>1 DEF Unreported
    <3>2. CASE c # Master
      BY <2>1, <3>2 DEF Unreported
    <3>3. QED
      BY <3>1, <3>2
  <2>3. QED
    BY <2>2
<1>2. [c \in Context |-> Unreported(c)] \in [Context -> Nat]
  BY <1>1
<1>3. Master \in Context /\ exec[Master] \in Nat
  BY ConstantsAssumption DEF TypeOK
<1>4. QED
  BY <1>2, <1>3, OwedIsFinite

LEMMA OwedNow ==
    UNION {{c} \X (1 .. Unreported(c)) : c \in Context} = Owed([c \in Context |-> Unreported(c)])
BY DEF Owed

LEMMA OwedThen ==
    UNION {{c} \X (1 .. Unreported(c)') : c \in Context} = Owed([c \in Context |-> Unreported(c)'])
BY DEF Owed

\* One context owes more or less, and what the master has changes with it.
LEMMA OneReports ==
    ASSUME TypeOK, TypeOK', ReportsAreExact, NEW c \in Context, NEW k \in Int, NEW j \in Int,
           \A d \in Context \ {c} : Unreported(d)' = Unreported(d),
           Unreported(c)' = Unreported(c) + k,
           exec'[Master] = exec[Master] + j,
           Cardinality(done) \in Nat,
           Cardinality(done') = Cardinality(done) + (k + j)
    PROVE  ReportsAreExact'
<1>1. PICK u, v \in [Context -> Nat] :
        u = [d \in Context |-> Unreported(d)] /\ v = [d \in Context |-> Unreported(d)']
  <2>1. [d \in Context |-> Unreported(d)] \in [Context -> Nat]
    BY UnreportedType
  <2>2. [d \in Context |-> Unreported(d)'] \in [Context -> Nat]
    <3>1. \A d \in Context : local'[d] \in Nat /\ exec'[d] \in Nat
      BY DEF TypeOK
    <3>2. ASSUME NEW d \in Context
          PROVE  Unreported(d)' \in Nat
      <4>1. CASE d = Master
        BY <3>1, <4>1 DEF Unreported
      <4>2. CASE d # Master
        BY <3>1, <4>2 DEF Unreported
      <4>3. QED
        BY <4>1, <4>2
    <3>3. QED
      BY <3>2
  <2>3. QED
    BY <2>1, <2>2
<1>2. /\ \A d \in Context \ {c} : v[d] = u[d]
      /\ v[c] = u[c] + k
  BY <1>1
<1>3. Cardinality(Owed(v)) = Cardinality(Owed(u)) - u[c] + v[c]
  BY <1>2, OwedChange
<1>4. Cardinality(Owed(u)) \in Nat /\ Cardinality(Owed(v)) \in Nat
  BY OwedIsFinite, FS_CardinalityType
<1>5. u[c] \in Nat /\ v[c] \in Nat /\ exec[Master] \in Nat
  BY UnreportedType
<1>6. exec[Master] + Cardinality(Owed(u)) = Cardinality(done)
  BY <1>1, OwedNow, Zenon DEF ReportsAreExact
<1>7. exec'[Master] + Cardinality(Owed(v)) = Cardinality(done')
  BY <1>2, <1>3, <1>4, <1>5, <1>6
<1>8. QED
  BY <1>1, <1>7, OwedThen, Zenon DEF ReportsAreExact

LEMMA DoneIsFinite ==
    ASSUME GraphInv, TypeOK
    PROVE  IsFiniteSet(done) /\ Cardinality(done) \in Nat /\ Cardinality(done) <= graph.total
           /\ graph.total \in Nat
           /\ (Cardinality(done) = graph.total => done = Used)
<1>1. IsFiniteSet(Used) /\ Cardinality(Used) = graph.total /\ done \subseteq Used
  BY UsedFacts DEF TypeOK
<1>2. QED
  BY <1>1, FS_Subset, FS_CardinalityType

LEMMA ExecIsBounded ==
    ASSUME GraphInv, TypeOK, ReportInv
    PROVE  /\ exec[Master] <= graph.total
           /\ exec[Master] = graph.total =>
                Cardinality(done) = graph.total /\ \A c \in Context : Unreported(c) = 0
<1>1. PICK u \in [Context -> Nat] : u = [d \in Context |-> Unreported(d)]
  BY UnreportedType
<1>2. exec[Master] + Cardinality(Owed(u)) = Cardinality(done)
  BY <1>1, OwedNow, Zenon DEF ReportInv, ReportsAreExact
<1>3. Cardinality(Owed(u)) \in Nat /\ exec[Master] \in Nat
  BY UnreportedType, OwedIsFinite, FS_CardinalityType
<1>4. Cardinality(done) \in Nat /\ Cardinality(done) <= graph.total /\ graph.total \in Nat
  BY DoneIsFinite
<1>5. ASSUME exec[Master] = graph.total, NEW c \in Context
      PROVE  Unreported(c) = 0
  <2>1. Cardinality(Owed(u)) = 0
    BY <1>2, <1>3, <1>4, <1>5
  <2>2. Owed(u) = {}
    BY <2>1, OwedIsFinite, FS_EmptySet
  <2>3. \A i \in 1 .. u[c] : <<c, i>> \in Owed(u)
    BY OwedMember
  <2>4. ~(1 \in 1 .. u[c])
    BY <2>2, <2>3
  <2>5. u[c] \in Nat /\ u[c] = Unreported(c)
    BY <1>1
  <2>6. QED
    BY <2>4, <2>5
<1>6. QED
  BY <1>2, <1>3, <1>4, <1>5

LEMMA ReportStep ==
    ASSUME GraphInv, TypeOK, ContextInv, TheftInv, PlaceInv, ReportInv, TypeOK', [Next]_vars
    PROVE  ReportInv'
<1>1. Master \in Context /\ None # Master /\ IsFiniteSet(done) /\ Cardinality(done) \in Nat
  BY ConstantsAssumption, DoneIsFinite
<1>2. \A c \in Context : local[c] \in Nat /\ exec[c] \in Nat
  BY DEF TypeOK
<1>3. ASSUME NEW c \in Context, EndBody(c)
      PROVE  ReportInv'
  <2>1. /\ pc[c] = "body" /\ \E to \in {"test", "activate"} : pc' = [pc EXCEPT ![c] = to]
        /\ done' = done \cup {cur[c]} /\ local' = [local EXCEPT ![c] = @ + 1] /\ exec' = exec
    BY <1>3 DEF EndBody, Goto, Walk
  <2>2. \A d \in Context :
          /\ local'[d] = IF d = c THEN local[c] + 1 ELSE local[d]
          /\ IF d = c THEN pc'[d] \in {"test", "activate"} ELSE pc'[d] = pc[d]
    BY <2>1 DEF TypeOK
  <2>3. cur[c] \notin done
    <3>1. <<c, "current">> \in Place /\ <<Master, "done">> \in Place
          /\ <<c, "current">> # <<Master, "done">>
      BY <1>1, PlaceCases DEF Kind
    <3>2. Held[<<c, "current">>] \cap Held[<<Master, "done">>] = {}
      BY <3>1, HeldNow DEF PlaceInv, Disjoint
    <3>3. Held[<<c, "current">>] = {cur[c]} /\ Held[<<Master, "done">>] = done
      BY <1>1, <2>1, HeldNow
    <3>4. QED
      BY <3>2, <3>3
  <2>4. Cardinality(done') = Cardinality(done) + (1 + 0)
    <3>1. Cardinality(done \cup {cur[c]}) = Cardinality(done) + 1
      BY <1>1, <2>3, FS_AddElement, Zenon
    <3>2. Cardinality(done') = Cardinality(done) + 1
      BY <2>1, <3>1, Zenon
    <3>3. 1 + 0 = 1
      OBVIOUS
    <3>4. QED
      BY <3>2, <3>3, Zenon
  <2>5. \A d \in Context \ {c} : Unreported(d)' = Unreported(d)
    BY <2>1, <2>2 DEF Unreported
  <2>6. Unreported(c)' = Unreported(c) + 1
    <3>1. CASE c = Master
      BY <1>2, <2>1, <2>2, <3>1 DEF Unreported
    <3>2. CASE c # Master
      BY <1>2, <2>1, <2>2, <3>2 DEF Unreported
    <3>3. QED
      BY <3>1, <3>2
  <2>7. exec'[Master] = exec[Master] + 0
    BY <1>1, <1>2, <2>1
  <2>8. ReportsAreExact'
    BY <1>1, <2>4, <2>5, <2>6, <2>7, OneReports DEF ReportInv
  <2>9. QED
    BY <2>1, <2>2, <2>8 DEF ReportInv, Empty
<1>4. ASSUME NEW c \in Context, Report(c)
      PROVE  ReportInv'
  <2>1. /\ pc[c] = "report" /\ pc' = [pc EXCEPT ![c] = IF c = Master THEN "check" ELSE "detach"]
        /\ exec' = [exec EXCEPT ![c] = @ + local[c]] /\ local' = [local EXCEPT ![c] = 0]
        /\ done' = done
    BY <1>4 DEF Report, Goto, ghosts
  <2>2. \A d \in Context :
          /\ local'[d] = IF d = c THEN 0 ELSE local[d]
          /\ exec'[d] = IF d = c THEN exec[c] + local[c] ELSE exec[d]
          /\ IF d = c THEN pc'[d] \in {"check", "detach"} ELSE pc'[d] = pc[d]
    BY <2>1 DEF TypeOK
  <2>3. \A d \in Context \ {c} : Unreported(d)' = Unreported(d)
    BY <2>2 DEF Unreported
  <2>4. CASE c = Master
    <3>1. Unreported(c)' = Unreported(c) + (-local[c]) /\ exec'[Master] = exec[Master] + local[c]
      BY <1>2, <2>2, <2>4 DEF Unreported
    <3>2. Cardinality(done') = Cardinality(done) + (-local[c] + local[c])
      BY <1>1, <1>2, <2>1
    <3>3. -local[c] \in Int /\ local[c] \in Int
      BY <1>2
    <3>4. ReportsAreExact'
      BY <1>1, <2>3, <3>1, <3>2, <3>3, OneReports DEF ReportInv
    <3>5. QED
      BY <2>2, <3>4 DEF ReportInv, Empty
  <2>5. CASE c # Master
    <3>1. Unreported(c)' = Unreported(c) + 0 /\ exec'[Master] = exec[Master] + 0
      BY <1>1, <1>2, <2>2, <2>5 DEF Unreported
    <3>2. Cardinality(done') = Cardinality(done) + (0 + 0)
      BY <1>1, <2>1
    <3>3. ReportsAreExact'
      BY <1>1, <2>3, <3>1, <3>2, OneReports DEF ReportInv
    <3>4. QED
      BY <2>2, <3>3 DEF ReportInv, Empty
  <2>6. QED
    BY <2>4, <2>5
<1>5. ASSUME NEW c \in Context, Detach(c)
      PROVE  ReportInv'
  <2>1. /\ pc[c] = "detach" /\ pc' = [pc EXCEPT ![c] = "idle"]
        /\ exec' = [exec EXCEPT ![boss[c]] = @ + exec[c], ![c] = 0]
        /\ UNCHANGED <<local, done>>
    BY <1>5 DEF Detach, Goto, ghosts
  <2>2. c # Master /\ boss[c] = Master
    BY <1>1, <2>1 DEF ContextInv
  <2>3. \A d \in Context :
          /\ exec'[d] = IF d = c THEN 0 ELSE IF d = Master THEN exec[Master] + exec[c] ELSE exec[d]
          /\ IF d = c THEN pc'[d] = "idle" ELSE pc'[d] = pc[d]
    BY <1>1, <2>1, <2>2 DEF TypeOK
  <2>4. \A d \in Context \ {c} : Unreported(d)' = Unreported(d)
    BY <2>1, <2>3 DEF Unreported
  <2>5. Unreported(c)' = Unreported(c) + (-exec[c]) /\ exec'[Master] = exec[Master] + exec[c]
    <3>1. exec'[c] = 0 /\ exec'[Master] = exec[Master] + exec[c] /\ local'[c] = local[c]
      BY <1>1, <2>1, <2>2, <2>3
    <3>2. Unreported(c)' = local[c] + 0 /\ Unreported(c) = local[c] + exec[c]
      BY <2>2, <3>1 DEF Unreported
    <3>3. local[c] + 0 = (local[c] + exec[c]) + (-exec[c])
      BY <1>2
    <3>4. QED
      BY <3>1, <3>2, <3>3, Zenon
  <2>6. Cardinality(done') = Cardinality(done) + (-exec[c] + exec[c])
    BY <1>1, <1>2, <2>1
  <2>7. -exec[c] \in Int /\ exec[c] \in Int
    BY <1>2
  <2>8. ReportsAreExact'
    BY <1>1, <2>4, <2>5, <2>6, <2>7, OneReports DEF ReportInv
  <2>9. /\ local[c] = 0
        /\ pc[Master] \notin {"idle", "asking", "start"}
    BY <1>1, <2>1 DEF ReportInv, ContextInv, Empty
  <2>10. QED
    BY <2>1, <2>2, <2>3, <2>8, <2>9 DEF ReportInv, Empty
<1>6. ASSUME UNCHANGED <<local, exec, done>>,
             \A d \in Context :
                \/ pc'[d] = pc[d]
                \/ pc'[d] \notin Empty \ {"report"}
                \/ pc[d] \in Empty \ {"report"} /\ pc'[d] \notin {"idle", "asking", "start"}
                \/ pc[d] \in {"idle", "asking"}
      PROVE  ReportInv'
  <2>1. \A d \in Context : Unreported(d)' = Unreported(d)
    BY <1>6 DEF Unreported
  <2>2. ReportsAreExact'
    <3>1. Unreported(Master)' = Unreported(Master) + 0 /\ exec'[Master] = exec[Master] + 0
      BY <1>1, <1>6, <2>1, <1>2 DEF Unreported
    <3>2. Cardinality(done') = Cardinality(done) + (0 + 0)
      BY <1>1, <1>6
    <3>3. QED
      BY <1>1, <2>1, <3>1, <3>2, OneReports DEF ReportInv
  <2>3. ASSUME NEW d \in Context
        PROVE  /\ pc'[d] \in Empty \ {"report"} => local'[d] = 0
               /\ pc'[d] \in {"idle", "asking", "start"} => exec'[d] = 0
    BY <1>6 DEF ReportInv, Empty
  <2>4. QED
    BY <2>2, <2>3 DEF ReportInv
<1>7. ASSUME NEW c \in Context, Start(c)
      PROVE  ReportInv'
  <2>1. /\ pc[c] = "start" /\ pc' = [pc EXCEPT ![c] = "test"]
        /\ exec' = [exec EXCEPT ![c] = 0] /\ local' = [local EXCEPT ![c] = 0]
        /\ done' = done
    BY <1>7 DEF Start, Goto, ghosts
  <2>2. exec[c] = 0 /\ local[c] = 0
    BY <2>1 DEF ReportInv, Empty
  <2>3. exec' = exec /\ local' = local
    BY <2>1, <2>2 DEF TypeOK
  <2>4. \A d \in Context : pc'[d] = IF d = c THEN "test" ELSE pc[d]
    BY <2>1 DEF TypeOK
  <2>5. \A d \in Context : pc'[d] = pc[d] \/ pc'[d] \notin Empty \ {"report"}
    BY <2>4 DEF Empty
  <2>6. QED
    BY <1>6, <2>1, <2>3, <2>5
<1>8. ASSUME NEW c \in Context,
             \/ TestList(c) \/ Pop(c) \/ DecrAndBegin(c) \/ Activate(c) \/ LinkReady(c)
             \/ CountReady(c) \/ (c = Master /\ Leave)
      PROVE  ReportInv'
  <2>1. PICK to \in Location :
          /\ pc' = [pc EXCEPT ![c] = to]
          /\ \/ to \notin Empty \ {"report"}
             \/ pc[c] \in Empty \ {"report"} /\ to \notin {"idle", "asking", "start"}
    BY <1>8 DEF TestList, Pop, DecrAndBegin, Activate, LinkReady, CountReady, Leave, Check, WakeUp,
         Unlist, Destroy, Goto, Walk, Location, Loop, Empty
  <2>2. UNCHANGED <<local, exec, done>>
    BY <1>8 DEF TestList, Pop, DecrAndBegin, Activate, LinkReady, CountReady, Leave, Check, WakeUp,
         Unlist, Destroy, loopVars, ghosts
  <2>3. \A d \in Context : pc'[d] = IF d = c THEN to ELSE pc[d]
    BY <2>1 DEF TypeOK
  <2>4. QED
    BY <1>6, <2>1, <2>2, <2>3
<1>9. ASSUME NEW v \in Context,
             \/ ThiefLeaves(v) \/ ThiefCounts(v) \/ TakeTail(v)
             \/ \E R \in SUBSET Context : LockStack(v, R)
      PROVE  ReportInv'
  <2>1. UNCHANGED <<local, exec, done>>
    BY <1>9 DEF ThiefLeaves, ThiefCounts, TakeTail, LockStack, loopVars, ghosts
  <2>2. \A r \in serve[v] : pc[r] = "asking"
    BY DEF TheftInv
  <2>3. \A d \in Context : pc'[d] = pc[d] \/ pc[d] \in {"idle", "asking"}
    BY <1>9, <2>2 DEF ThiefLeaves, ThiefCounts, TakeTail, LockStack, UnlockStack
  <2>4. QED
    BY <1>6, <2>1, <2>3
<1>10. ASSUME NEW v \in Context, Reply(v)
       PROVE  ReportInv'
  <2>1. PICK r \in serve[v] : pc' = [pc EXCEPT ![r] = "start"]
    BY <1>10 DEF Reply
  <2>2. r \in Context /\ pc[r] = "asking"
    BY DEF TheftInv, TypeOK
  <2>3. UNCHANGED <<local, exec, done>>
    BY <1>10 DEF Reply, ghosts
  <2>4. \A d \in Context : pc'[d] = pc[d] \/ pc[d] \in {"idle", "asking"}
    BY <2>1, <2>2 DEF TypeOK
  <2>5. QED
    BY <1>6, <2>3, <2>4
<1>11. CASE UNCHANGED vars
  <2>1. UNCHANGED <<pc, local, exec, done>>
    BY <1>11 DEF vars, loopVars, ghosts
  <2>2. QED
    BY <1>6, <2>1
<1>12. QED
  BY <1>1, <1>3, <1>4, <1>5, <1>7, <1>8, <1>9, <1>10, <1>11, ThiefCases
     DEF Next, ExecFrame, StealReady, Steal

LEMMA EndStep ==
    ASSUME GraphInv, TypeOK, ContextInv, TheftInv, ReportInv, EndInv,
           TypeOK', ReportInv', [Next]_vars
    PROVE  EndInv'
<1>1. graph' = graph /\ GraphInv' /\ Used' = Used /\ Master \in Context /\ None # Master
  BY GraphStep, ConstantsAssumption
<1>2. \A c \in Context : local[c] \in Nat /\ exec[c] \in Nat
  BY DEF TypeOK
<1>3. exec'[Master] \in Nat /\ exec'[Master] <= graph.total /\ graph.total \in Nat
  <2>1. PICK u \in [Context -> Nat] : u = [d \in Context |-> Unreported(d)']
    <3>1. \A d \in Context : local'[d] \in Nat /\ exec'[d] \in Nat
      BY DEF TypeOK
    <3>2. ASSUME NEW d \in Context
          PROVE  Unreported(d)' \in Nat
      <4>1. CASE d = Master
        BY <3>1, <4>1 DEF Unreported
      <4>2. CASE d # Master
        BY <3>1, <4>2 DEF Unreported
      <4>3. QED
        BY <4>1, <4>2
    <3>3. QED
      BY <3>2
  <2>2. exec'[Master] + Cardinality(Owed(u)) = Cardinality(done')
    BY <2>1, OwedThen, Zenon DEF ReportInv, ReportsAreExact
  <2>3. Cardinality(Owed(u)) \in Nat /\ exec'[Master] \in Nat
    BY <1>1, OwedIsFinite, FS_CardinalityType DEF TypeOK
  <2>4. IsFiniteSet(Used) /\ Cardinality(Used) = graph.total /\ done' \subseteq Used
    BY <1>1, UsedFacts DEF TypeOK
  <2>5. Cardinality(done') \in Nat /\ Cardinality(done') <= graph.total /\ graph.total \in Nat
    BY <2>4, FS_Subset, FS_CardinalityType
  <2>6. QED
    BY <2>2, <2>3, <2>5
<1>4. exec'[Master] >= exec[Master] \/ pc[Master] \notin {"end", "await", "over"}
  <2>1. CASE \E c \in Context : Detach(c)
    <3>1. PICK c \in Context : Detach(c)
      BY <2>1
    <3>2. /\ pc[c] = "detach"
          /\ exec' = [exec EXCEPT ![boss[c]] = @ + exec[c], ![c] = 0]
      BY <3>1 DEF Detach, Goto
    <3>3. c # Master /\ boss[c] = Master
      BY <1>1, <3>2 DEF ContextInv
    <3>4. exec'[Master] = exec[Master] + exec[c]
      BY <1>1, <3>2, <3>3 DEF TypeOK
    <3>5. QED
      BY <1>1, <1>2, <3>4
  <2>2. CASE \E c \in Context : Report(c)
    <3>1. PICK c \in Context : Report(c)
      BY <2>2
    <3>2. pc[c] = "report" /\ exec' = [exec EXCEPT ![c] = @ + local[c]]
      BY <3>1 DEF Report, Goto
    <3>3. c # Master => exec'[Master] = exec[Master]
      BY <1>1, <3>2 DEF TypeOK
    <3>4. QED
      BY <1>1, <1>2, <3>2, <3>3
  <2>3. CASE \E c \in Context : Start(c)
    <3>1. PICK c \in Context : Start(c)
      BY <2>3
    <3>2. pc[c] = "start" /\ exec' = [exec EXCEPT ![c] = 0]
      BY <3>1 DEF Start, Goto
    <3>3. c # Master => exec'[Master] = exec[Master]
      BY <1>1, <3>2 DEF TypeOK
    <3>4. QED
      BY <1>1, <1>2, <3>2, <3>3
  <2>4. CASE exec' = exec
    BY <1>1, <1>2, <2>4
  <2>5. exec' = exec \/ \E c \in Context : Detach(c) \/ Report(c) \/ Start(c)
    BY DEF Next, vars, ExecFrame, StealReady, Leave, Steal, TestList, Pop, DecrAndBegin,
         EndBody, Activate, LinkReady, CountReady, Check, WakeUp, Unlist,
         Destroy, LockStack, ReadCount, TakeTail, TakeNothing, Reply, loopVars
  <2>6. QED
    BY <2>1, <2>2, <2>3, <2>4, <2>5
<1>5. pc'[Master] \in {"end", "await", "over"} =>
        pc[Master] \in {"end", "await", "over"} \/ (AllExecuted /\ exec' = exec)
  <2>1. ASSUME NEW c \in Context, ExecFrame(c) \/ StealReady(c)
        PROVE  pc'[Master] \notin {"end", "await", "over"} \/ pc'[Master] = pc[Master]
    <3>1. PICK to \in Location \ {"end", "await", "over"} : pc' = [pc EXCEPT ![c] = to]
      BY <2>1 DEF ExecFrame, StealReady, TestList, Pop, DecrAndBegin, EndBody, Activate, LinkReady,
           CountReady, Report, Start, Detach, Goto, Walk, Location, Loop
    <3>2. QED
      BY <1>1, <3>1 DEF TypeOK
  <2>2. ASSUME NEW v \in Context,
               \/ ThiefLeaves(v) \/ ThiefCounts(v) \/ TakeTail(v)
               \/ \E R \in SUBSET Context : LockStack(v, R)
        PROVE  pc'[Master] \notin {"end", "await", "over"} \/ pc'[Master] = pc[Master]
    BY <1>1, <2>2 DEF ThiefLeaves, ThiefCounts, TakeTail, LockStack, UnlockStack
  <2>3. ASSUME NEW v \in Context, Reply(v)
        PROVE  pc'[Master] \notin {"end", "await", "over"} \/ pc'[Master] = pc[Master]
    <3>1. PICK r \in serve[v] : pc' = [pc EXCEPT ![r] = "start"]
      BY <2>3 DEF Reply
    <3>2. QED
      BY <1>1, <3>1 DEF TypeOK
  <2>4. CASE Leave
    <3>1. CASE Check
      <4>1. /\ pc' = [pc EXCEPT ![Master] = IF AllExecuted THEN "end" ELSE "suspended"]
            /\ exec' = exec
        BY <3>1 DEF Check, Goto, loopVars
      <4>2. QED
        BY <1>1, <4>1 DEF TypeOK
    <3>2. CASE WakeUp \/ Unlist \/ Destroy
      <4>1. \/ pc' = [pc EXCEPT ![Master] = "test"]
            \/ pc[Master] \in {"end", "await"}
        BY <3>2 DEF WakeUp, Unlist, Destroy, Goto
      <4>2. QED
        BY <1>1, <4>1 DEF TypeOK
    <3>3. QED
      BY <2>4, <3>1, <3>2 DEF Leave
  <2>5. CASE UNCHANGED vars
    BY <2>5 DEF vars
  <2>6. QED
    BY <2>1, <2>2, <2>3, <2>4, <2>5, ThiefCases DEF Next, Steal
<1>6. ASSUME pc'[Master] \in {"end", "await", "over"}
      PROVE  exec'[Master] = graph'.total
  <2>1. exec[Master] = graph.total
    BY <1>5, <1>6 DEF EndInv, AllExecuted
  <2>2. exec'[Master] >= exec[Master]
    BY <1>1, <1>2, <1>4, <1>5, <1>6
  <2>3. exec'[Master] = graph.total
    BY <1>1, <1>2, <1>3, <2>1, <2>2
  <2>4. QED
    BY <1>1, <2>3
<1>7. QED
  BY <1>6 DEF EndInv, AllExecuted

-------------------------------------------------------------------------------
(* The invariant holds.                                                    *)

LEMMA InitGraph ==
    ASSUME Init
    PROVE  /\ GraphInv
           /\ list = [c \in Context |-> IF c = Master THEN Graph(program).ready ELSE <<>>]
           /\ cnt = [c \in Context |-> IF c = Master THEN Len(Graph(program).ready) ELSE 0]
BY Zenon DEF Init, GraphInv

LEMMA InitType ==
    ASSUME Init
    PROVE  TypeOK
<1>1. GraphInv
  BY InitGraph
<1>2. list = [c \in Context |-> IF c = Master THEN Graph(program).ready ELSE <<>>]
      /\ cnt = [c \in Context |-> IF c = Master THEN Len(Graph(program).ready) ELSE 0]
  BY InitGraph
<1>3. PICK r : r = Graph(program).ready
  OBVIOUS
<1>4. r \in Seq(Datum) /\ Range(r) \subseteq Used
  BY <1>1, <1>3, UsedFacts
<1>5. r \in Seq(Used)
  BY <1>4 DEF Range
<1>6. list \in [Context -> Seq(Used)]
  BY <1>2, <1>3, <1>5
<1>7. cnt \in [Context -> Int]
  <2>1. Len(r) \in Int
    BY <1>4
  <2>2. QED
    BY <1>2, <1>3, <2>1
<1>8. /\ counter \in [Nodes(program) -> Nat]
      /\ pc \in [Context -> Location]
      /\ listed \in [Context -> BOOLEAN] /\ alive \in [Context -> BOOLEAN]
      /\ boss \in [Context -> {None, Master}]
      /\ cur \in [Context -> Used \cup {None}]
      /\ links \in [Context -> Seq(DOMAIN program)]
      /\ local \in [Context -> Nat] /\ exec \in [Context -> Nat]
  BY DEF Init, Location, Loop
<1>9. /\ lock \in [Context -> BOOLEAN] /\ waits \in [Context -> BOOLEAN]
      /\ theft \in [Context -> Theft]
      /\ serve \in [Context -> SUBSET Context]
      /\ stolen \in [Context -> Used \cup {None}]
      /\ done \subseteq Used /\ thefts \in Nat
  BY DEF Init, Theft
<1>10. QED
  BY <1>6, <1>7, <1>8, <1>9 DEF TypeOK

LEMMA InitHolds ==
    ASSUME Init
    PROVE  IndInv
<1>1. GraphInv /\ TypeOK /\ Master \in Context
  BY InitGraph, InitType, ConstantsAssumption
<1>2. /\ pc = [c \in Context |-> IF c = Master THEN "test" ELSE "idle"]
      /\ listed = [c \in Context |-> c = Master] /\ alive = [c \in Context |-> c = Master]
      /\ boss = [c \in Context |-> None] /\ cur = [c \in Context |-> None]
      /\ links = [c \in Context |-> <<>>]
      /\ local = [c \in Context |-> 0] /\ exec = [c \in Context |-> 0]
      /\ lock = [c \in Context |-> FALSE] /\ waits = [c \in Context |-> FALSE]
      /\ theft = [c \in Context |-> "none"] /\ serve = [c \in Context |-> {}]
      /\ stolen = [c \in Context |-> None] /\ done = {}
      /\ counter = [n \in Nodes(program) |-> 0]
  BY DEF Init
<1>3. PICK r : r = Graph(program).ready
  OBVIOUS
<1>4. /\ r \in Seq(Datum) /\ IsInjective(r) /\ Range(r) \subseteq Datum /\ Range(r) \subseteq Used
      /\ Used \subseteq Nodes(program)
  BY <1>1, <1>3, UsedFacts
<1>5. \A c \in Context : /\ list[c] = (IF c = Master THEN r ELSE <<>>)
                         /\ cnt[c] = IF c = Master THEN Len(r) ELSE 0
  BY <1>3, InitGraph
<1>6. ContextInv
  BY <1>2 DEF ContextInv, Loop
<1>7. TheftInv
  BY <1>2 DEF TheftInv
<1>8. ListInv
  <2> SUFFICES ASSUME NEW c \in Context
               PROVE  /\ cnt[c] = Len(list[c]) + OnWay(pc[c], theft[c])
                      /\ pc[c] \in Empty => list[c] = <<>> /\ theft[c] # "reply"
    BY DEF ListInv
  <2>1. OnWay(pc[c], theft[c]) = 0
    <3>1. pc[c] \notin {"decr", "count"} /\ theft[c] # "reply"
      BY <1>2
    <3>2. QED
      BY <3>1 DEF OnWay
  <2>2. cnt[c] = Len(list[c]) /\ Len(list[c]) \in Nat
    <3>1. CASE c = Master
      BY <1>4, <1>5, <3>1
    <3>2. CASE c # Master
      <4>1. Len(<<>>) = 0 /\ list[c] = <<>> /\ cnt[c] = 0
        BY <1>5, <3>2
      <4>2. QED
        BY <4>1
    <3>3. QED
      BY <3>1, <3>2
  <2>3. cnt[c] = Len(list[c]) + OnWay(pc[c], theft[c])
    BY <2>1, <2>2
  <2>4. pc[c] \in Empty => list[c] = <<>>
    BY <1>2, <1>5 DEF Empty
  <2>5. theft[c] # "reply"
    BY <1>2
  <2>6. QED
    BY <2>3, <2>4, <2>5
<1>9. \A c \in Context : \A k \in Kind :
        Held[<<c, k>>] = IF c = Master /\ k = "list" THEN Range(r) ELSE {}
  <2> SUFFICES ASSUME NEW c \in Context
               PROVE  \A k \in Kind :
                  Held[<<c, k>>] = IF c = Master /\ k = "list" THEN Range(r) ELSE {}
    OBVIOUS
  <2>1. Held[<<c, "list">>] = IF c = Master THEN Range(r) ELSE {}
    <3>1. Held[<<c, "list">>] = Range(list[c])
      BY HeldNow
    <3>2. Range(<<>>) = {}
      BY DEF Range
    <3>3. CASE c = Master
      <4>1. list[c] = r
        BY <1>5, <3>3
      <4>2. QED
        BY <3>1, <3>3, <4>1, Zenon
    <3>4. CASE c # Master
      <4>1. list[c] = <<>>
        BY <1>5, <3>4
      <4>2. QED
        BY <3>1, <3>2, <3>4, <4>1, Zenon
    <3>5. QED
      BY <3>3, <3>4
  <2>2. /\ Held[<<c, "current">>] = {} /\ Held[<<c, "link">>] = {}
        /\ Held[<<c, "thief">>] = {} /\ Held[<<c, "done">>] = {}
    BY <1>2, HeldNow
  <2>3. QED
    BY <2>1, <2>2 DEF Kind
<1>10. PlaceInv
  <2>1. \A a, b \in Place : a # b => Held[a] = {} \/ Held[b] = {}
    <3> SUFFICES ASSUME NEW a \in Place, NEW b \in Place, a # b
                 PROVE  Held[a] = {} \/ Held[b] = {}
      OBVIOUS
    <3>1. PICK c \in Context, k \in Kind : a = <<c, k>>
      BY PlaceCases
    <3>2. PICK d \in Context, l \in Kind : b = <<d, l>>
      BY PlaceCases
    <3>3. ~(c = Master /\ k = "list") \/ ~(d = Master /\ l = "list")
      BY <3>1, <3>2
    <3>4. QED
      BY <1>9, <3>1, <3>2, <3>3
  <2>2. Disjoint(Held)
    BY <2>1, HeldNow DEF Disjoint
  <2>3. \A a \in Place : Held[a] \subseteq Used
    BY <1>4, <1>9, PlaceCases
  <2>4. \A c \in Context : IsInjective(list[c])
    <3>1. IsInjective(<<>>)
      BY DEF IsInjective
    <3>2. QED
      BY <1>4, <1>5, <3>1
  <2>5. QED
    BY <2>2, <2>3, <2>4, Zenon DEF PlaceInv
<1>11. WalkInv
  BY <1>2 DEF WalkInv, Walks
<1>12. PendingInv
  <2>1. \A n : Pending(n) = LinksTo(graph.succ, n)
    BY <1>2 DEF Pending, IsPending
  <2>2. ASSUME NEW n \in Nodes(program)
        PROVE  counter[n] + Cardinality(Pending(n)) = graph.wc[n]
    <3>1. graph.wc[n] = Cardinality(LinksTo(graph.succ, n)) /\ graph.wc[n] \in Nat
      BY <1>1, GraphFacts
    <3>2. Cardinality(Pending(n)) = graph.wc[n]
      BY <2>1, <3>1, Zenon
    <3>3. counter[n] = 0
      BY <1>2
    <3>4. QED
      BY <3>1, <3>2, <3>3
  <2>3. ASSUME NEW a \in Place, NEW n \in Held[a]
        PROVE  Pending(n) = {}
    <3>1. n \in Datum
      BY <1>4, <1>9, <2>3, PlaceCases
    <3>2. LinksTo(graph.succ, n) = {}
      BY <1>1, <3>1, GraphFacts
    <3>3. QED
      BY <2>1, <3>2
  <2>4. QED
    BY <2>2, <2>3, Zenon DEF PendingInv
<1>13. ReportInv
  <2>1. PICK u \in [Context -> Nat] : u = [d \in Context |-> Unreported(d)]
    BY <1>1, UnreportedType
  <2>2. \A c \in Context : u[c] = 0
    BY <1>2, <2>1 DEF Unreported
  <2>3. Owed(u) = {}
    <3>1. \A e \in Owed(u) : \E c \in Context : \E i \in 1 .. u[c] : e = <<c, i>>
      BY OwedMember
    <3>2. \A c \in Context : 1 .. u[c] = {}
      BY <2>2
    <3>3. QED
      BY <3>1, <3>2
  <2>4. Cardinality(Owed(u)) = 0 /\ Cardinality(done) = 0
    BY <1>2, <2>3, FS_EmptySet, Zenon
  <2>5. exec[Master] = 0
    BY <1>1, <1>2
  <2>6. exec[Master] + Cardinality(Owed(u)) = Cardinality(done)
    BY <2>4, <2>5
  <2>7. ReportsAreExact
    BY <2>1, <2>6, OwedNow, Zenon DEF ReportsAreExact
  <2>8. QED
    BY <1>2, <2>7 DEF ReportInv
<1>14. EndInv
  BY <1>1, <1>2 DEF EndInv
<1>15. QED
  BY <1>1, <1>6, <1>7, <1>8, <1>10, <1>11, <1>12, <1>13, <1>14, Zenon DEF IndInv

LEMMA IndInvStep ==
    ASSUME IndInv, [Next]_vars
    PROVE  IndInv'
<1>1. /\ GraphInv /\ TypeOK /\ ContextInv /\ TheftInv /\ ListInv
      /\ PlaceInv /\ WalkInv /\ PendingInv /\ ReportInv /\ EndInv
  BY DEF IndInv
<1>2. GraphInv' /\ TypeOK' /\ ContextInv' /\ TheftInv' /\ ListInv'
  BY <1>1, GraphStep, TypeStep, ContextStep, TheftStep, ListStep
<1>3. PlaceInv' /\ WalkInv' /\ PendingInv'
  BY <1>1, PlaceStep, WalkStep, PendingStep DEF PlaceGoal
<1>4. ReportInv'
  BY <1>1, <1>2, ReportStep
<1>5. EndInv'
  BY <1>1, <1>2, <1>4, EndStep
<1>6. QED
  BY <1>2, <1>3, <1>4, <1>5, Zenon DEF IndInv

\* Where each node is, what it waits for and what is counted, in whatever order
\* the contexts run nodes, activate successors, steal and report.
THEOREM IndInvHolds == Spec => []IndInv
<1>1. Init => IndInv
  BY InitHolds
<1>2. IndInv /\ [Next]_vars => IndInv'
  BY IndInvStep
<1>3. QED
  BY <1>1, <1>2, PTL DEF Spec

-------------------------------------------------------------------------------
(* What the code relies on.                                                *)

LEMMA NothingIsLeft ==
    ASSUME ListInv
    PROVE  NothingLeft
<1> SUFFICES ASSUME NEW c \in Context, pc[c] \in {"check", "detach", "end"}
             PROVE  cnt[c] = 0 /\ list[c] = <<>>
  BY DEF NothingLeft
<1>1. /\ cnt[c] = Len(list[c]) + OnWay(pc[c], theft[c])
      /\ list[c] = <<>> /\ theft[c] # "reply"
  BY DEF ListInv, Empty
<1>2. OnWay(pc[c], theft[c]) = 0
  BY <1>1 DEF OnWay
<1>3. Len(<<>>) = 0
  OBVIOUS
<1>4. QED
  BY <1>1, <1>2, <1>3

\* When the master has the count of all the nodes, no context has any of them.
LEMMA NoWorkAtEnd ==
    ASSUME IndInv, AllExecuted, NEW c \in Context, c # Master
    PROVE  ~HasWork(c) /\ theft[c] # "reply"
<1>1. /\ GraphInv /\ TypeOK /\ ListInv /\ PlaceInv /\ WalkInv /\ ReportInv
  BY DEF IndInv
<1>2. done = Used /\ Unreported(c) = 0
  BY <1>1, ExecIsBounded, DoneIsFinite DEF AllExecuted
<1>3. local[c] = 0 /\ exec[c] = 0
  <2>1. local[c] \in Nat /\ exec[c] \in Nat
    BY <1>1 DEF TypeOK
  <2>2. local[c] + exec[c] = 0
    BY <1>2 DEF Unreported
  <2>3. QED
    BY <2>1, <2>2
<1>4. ASSUME NEW k \in Kind, k # "done"
      PROVE  Held[<<c, k>>] = {}
  <2>1. Master \in Context /\ "done" \in Kind
    BY ConstantsAssumption DEF Kind
  <2>2. <<c, k>> \in Place /\ <<Master, "done">> \in Place /\ <<c, k>> # <<Master, "done">>
    BY <1>4, <2>1, PlaceCases
  <2>3. Held[<<c, k>>] \cap Held[<<Master, "done">>] = {} /\ Held[<<c, k>>] \subseteq Used
    BY <1>1, <2>2, HeldNow, Zenon DEF PlaceInv, Disjoint
  <2>4. Held[<<Master, "done">>] = Used
    BY <1>2, <2>1, HeldNow
  <2>5. QED
    BY <2>3, <2>4
<1>5. /\ Range(list[c]) = {} /\ pc[c] \notin {"start", "decr", "body"}
      /\ theft[c] # "reply"
  BY <1>4, HeldNow DEF Kind
<1>6. list[c] = <<>>
  <2>1. list[c] \in Seq(Used)
    BY <1>1 DEF TypeOK
  <2>2. list[c] # <<>> => 1 \in DOMAIN list[c]
    BY <2>1
  <2>3. \A i \in DOMAIN list[c] : list[c][i] \in Range(list[c])
    BY DEF Range
  <2>4. QED
    BY <1>5, <2>2, <2>3
<1>7. ~Walks(c)
  <2>1. Walks(c) => local[c] >= 1
    BY <1>1, Zenon DEF WalkInv
  <2>2. QED
    BY <1>3, <2>1
<1>8. QED
  BY <1>3, <1>5, <1>6, <1>7 DEF HasWork, Walks

LEMMA ListsAreAlive ==
    ASSUME IndInv
    PROVE  ListIsAlive
<1>1. /\ GraphInv /\ TypeOK /\ ContextInv /\ TheftInv /\ EndInv
  BY DEF IndInv
<1>2. ASSUME NEW v \in Context, theft[v] # "none"
      PROVE  alive[v]
  BY <1>1, <1>2 DEF TheftInv, ContextInv
<1>3. ASSUME NEW c \in Context, boss[c] # None, HasWork(c) \/ theft[c] = "reply"
      PROVE  alive[boss[c]]
  <2>1. Master \in Context /\ c # Master /\ boss[c] = Master
    BY <1>1, <1>3, ConstantsAssumption DEF TypeOK, ContextInv
  <2>2. ~AllExecuted
    BY <1>3, <2>1, NoWorkAtEnd
  <2>3. pc[Master] \in Location /\ pc[Master] \notin {"end", "await", "over"}
        /\ pc[Master] \notin {"idle", "asking", "start", "detach"}
    BY <1>1, <2>1, <2>2 DEF EndInv, TypeOK, ContextInv
  <2>4. pc[Master] \in Loop
    BY <2>3 DEF Location
  <2>5. alive[Master]
    BY <1>1, <2>1, <2>4 DEF ContextInv
  <2>6. QED
    BY <2>1, <2>5
<1>4. QED
  BY <1>2, <1>3 DEF ListIsAlive

\* The assertion at the end of kaapi_thread_execframe_tasklist holds, although a
\* thief discounts a node after it has taken it, and the owner counts it after it
\* has linked it: a context leaves its loop with no node in its list.
THEOREM ListsAreLeftEmpty == Spec => []NothingLeft
<1>1. IndInv => NothingLeft
  BY NothingIsLeft DEF IndInv
<1>2. QED
  BY <1>1, IndInvHolds, PTL

\* Lists are freed by their owner without a count of those that use them: a thief
\* finds the list it works in allocated, and so does a context that has a node of
\* the graph, or executions to report, find the list of the master.
THEOREM ListsOutliveTheirUsers == Spec => []ListIsAlive
<1>1. IndInv => ListIsAlive
  BY ListsAreAlive
<1>2. QED
  BY <1>1, IndInvHolds, PTL

\* What the contexts have executed is either in the count of the master or owed to
\* it by one of them, through nodes stolen from thieves and loops called again.
THEOREM EveryExecutionIsReported == Spec => []ReportsAreExact
<1>1. IndInv => ReportsAreExact
  BY DEF IndInv, ReportInv
<1>2. QED
  BY <1>1, IndInvHolds, PTL

-------------------------------------------------------------------------------
(* The order of the frame.                                                 *)

\* What t conflicts with has been executed once t waits for nothing: it waits for
\* the last writer since, which was executed after all those before it.
LEMMA EarlierIsDone ==
    ASSUME IndInv, OrderInv, NoWriteAfterRead(program),
           NEW t \in DOMAIN program, Pending(t) = {}
    PROVE  Abstract!Earlier(program, t) \subseteq done
<1>1. /\ GraphInv /\ program \in Programs
      /\ LinkedOK(program, Graph(program), Len(program) + 1, 0)
      /\ graph.succ = Graph(program).succ
      /\ graph.succ \in [Nodes(program) -> Seq(DOMAIN program)]
  BY GraphFacts DEF IndInv
<1>2. /\ Len(program) \in Nat /\ DOMAIN program = 1 .. Len(program)
      /\ \A u \in DOMAIN program : DOMAIN program[u] = 1 .. Len(program[u])
                                    /\ Len(program[u]) \in Nat
  BY <1>1, ProgramFacts
<1> SUFFICES ASSUME NEW u \in 1 .. t - 1, Abstract!Conflict(program, t, u)
             PROVE  u \in done
  BY DEF Abstract!Earlier
<1>3. PICK i \in DOMAIN program[t], j \in DOMAIN program[u] :
        /\ program[t][i].datum = program[u][j].datum
        /\ Writes(program[t][i].mode) \/ Writes(program[u][j].mode)
  BY DEF Abstract!Conflict, Abstract!Writes, Writes
<1>4. PICK k \in DOMAIN program[u] : WritesDatum(program, u, k, program[t][i].datum)
  <2>1. CASE Writes(program[u][j].mode)
    BY <1>3, <2>1 DEF WritesDatum
  <2>2. CASE Writes(program[t][i].mode)
    <3>1. PICK k \in DOMAIN program[u] :
            program[u][k].datum = program[u][j].datum /\ Writes(program[u][k].mode)
      BY <1>3, <2>2 DEF NoWriteAfterRead
    <3>2. QED
      BY <1>3, <3>1 DEF WritesDatum
  <2>3. QED
    BY <1>3, <2>1, <2>2
<1>5. Seen(t, i, Len(program) + 1, 0)
  BY <1>2 DEF Seen
<1>6. PICK w \in u .. t - 1 :
        /\ t \in Range(graph.succ[w])
        /\ \E l \in DOMAIN program[w] : WritesDatum(program, w, l, program[t][i].datum)
  BY <1>1, <1>4, <1>5 DEF LinkedOK
<1>7. w \in DOMAIN program /\ w \in Nodes(program) /\ u \in DOMAIN program
  BY <1>2 DEF Nodes
<1>8. w \in done
  <2>1. PICK e \in DOMAIN graph.succ[w] : graph.succ[w][e] = t
    BY <1>6 DEF Range
  <2>2. w \in DOMAIN graph.succ
    BY <1>1, <1>7
  <2>3. <<w, e>> \in LinksTo(graph.succ, t)
    BY <2>1, <2>2, LinksMember
  <2>4. <<w, e>> \notin Pending(t)
    OBVIOUS
  <2>5. <<w, e>>[1] = w
    OBVIOUS
  <2>6. QED
    BY <2>3, <2>4, <2>5, PendingMember, Zenon
<1>9. CASE w = u
  BY <1>8, <1>9
<1>10. CASE w # u
  <2>1. u \in 1 .. w - 1
    BY <1>2, <1>10
  <2>2. PICK l \in DOMAIN program[w] : WritesDatum(program, w, l, program[t][i].datum)
    BY <1>6
  <2>3. Abstract!Conflict(program, w, u)
    BY <1>4, <2>2 DEF WritesDatum, Writes, Abstract!Conflict, Abstract!Writes
  <2>4. u \in Abstract!Earlier(program, w)
    BY <2>1, <2>3 DEF Abstract!Earlier
  <2>5. QED
    BY <1>7, <1>8, <2>4 DEF OrderInv
<1>11. QED
  BY <1>9, <1>10

\* A node that is in some place waits for nothing, was not executed, and is in no
\* other place.
LEMMA NodeInHand ==
    ASSUME IndInv, NEW c \in Context, pc[c] \in {"start", "decr", "body"}
    PROVE  /\ cur[c] \in Used /\ cur[c] \notin done /\ Pending(cur[c]) = {}
           /\ \A d \in Context \ {c} : pc[d] \in {"start", "decr", "body"} => cur[d] # cur[c]
<1>1. GraphInv /\ TypeOK /\ PlaceInv /\ PendingInv
  BY DEF IndInv
<1>2. Master \in Context /\ "done" \in Kind /\ "current" \in Kind
  BY ConstantsAssumption DEF Kind
<1>3. <<c, "current">> \in Place /\ <<Master, "done">> \in Place
      /\ \A d \in Context : <<d, "current">> \in Place
  BY <1>2, PlaceCases
<1>4. Held[<<c, "current">>] = {cur[c]} /\ Held[<<Master, "done">>] = done
  BY <1>2, HeldNow
<1>5. cur[c] \notin done
  <2>1. <<c, "current">> # <<Master, "done">>
    OBVIOUS
  <2>2. Held[<<c, "current">>] \cap Held[<<Master, "done">>] = {}
    BY <1>1, <1>3, <2>1, HeldNow, Zenon DEF PlaceInv, Disjoint
  <2>3. QED
    BY <1>4, <2>2
<1>6. ASSUME NEW d \in Context \ {c}, pc[d] \in {"start", "decr", "body"}
      PROVE  cur[d] # cur[c]
  <2>1. <<c, "current">> # <<d, "current">>
    BY <1>6
  <2>2. Held[<<c, "current">>] \cap Held[<<d, "current">>] = {}
    BY <1>1, <1>3, <2>1, HeldNow, Zenon DEF PlaceInv, Disjoint
  <2>3. Held[<<d, "current">>] = {cur[d]}
    BY <1>6, HeldNow
  <2>4. QED
    BY <1>4, <2>2, <2>3
<1>7. Pending(cur[c]) = {}
  BY <1>1, <1>3, <1>4 DEF PendingInv
<1>8. cur[c] \in Used
  BY <1>1, NodeFacts
<1>9. QED
  BY <1>5, <1>6, <1>7, <1>8

\* A step that ends no body executes nothing.
LEMMA DoneStep ==
    ASSUME Next
    PROVE  done' = done \/ \E c \in Context : EndBody(c)
BY DEF Next, ghosts, ExecFrame, StealReady, Leave, Steal, TestList, Pop, DecrAndBegin,
       Activate, LinkReady, CountReady, Report, Check, WakeUp, Start, Detach, Unlist,
       Destroy, LockStack, ReadCount, TakeTail, TakeNothing, Reply

LEMMA OrderStep ==
    ASSUME IndInv, OrderInv, NoWriteAfterRead(program), [Next]_vars
    PROVE  OrderInv'
<1>1. program' = program
  BY GraphStep DEF IndInv
<1>2. CASE done' = done
  BY <1>1, <1>2 DEF OrderInv
<1>3. ASSUME NEW c \in Context, EndBody(c)
      PROVE  OrderInv'
  <2>1. PICK t : t = cur[c]
    OBVIOUS
  <2>2. pc[c] = "body" /\ done' = done \cup {t}
    BY <1>3, <2>1 DEF EndBody, Goto
  <2>3. Pending(t) = {}
    BY <2>1, <2>2, NodeInHand
  <2>4. t \in DOMAIN program => Abstract!Earlier(program, t) \subseteq done
    BY <2>3, EarlierIsDone
  <2>5. QED
    BY <1>1, <2>2, <2>4 DEF OrderInv
<1>4. QED
  BY <1>2, <1>3, DoneStep DEF vars, ghosts

-------------------------------------------------------------------------------
(* The frame is a TaskGraph.                                               *)

Doing(c) == IF pc[c] = "body" THEN TaskOf(cur[c]) ELSE None

\* What an abstract step sees of a step.
Quiet ==
    /\ UNCHANGED done
    /\ \A c \in Context :
        /\ pc'[c] = "body" <=> pc[c] = "body"
        /\ pc[c] = "body" => cur'[c] = cur[c]
        /\ pc'[c] = "over" <=> pc[c] = "over"

LEMMA QuietSteps ==
    ASSUME TypeOK, TheftInv, Next
    PROVE  \/ Quiet
           \/ \E c \in Context : DecrAndBegin(c) \/ EndBody(c)
           \/ Destroy
<1>1. pc \in [Context -> Location] /\ cur \in [Context -> Used \cup {None}]
      /\ Master \in Context
  BY ConstantsAssumption DEF TypeOK
<1>2. ASSUME NEW c \in Context,
             \/ TestList(c) \/ Pop(c) \/ Activate(c) \/ LinkReady(c) \/ CountReady(c)
             \/ Report(c) \/ Start(c) \/ Detach(c)
      PROVE  Quiet
  <2>1. /\ pc[c] \notin {"body", "over"} /\ UNCHANGED done
        /\ \A d \in Context \ {c} : pc'[d] = pc[d] /\ cur'[d] = cur[d]
    BY <1>1, <1>2 DEF TestList, Pop, Activate, LinkReady, CountReady, Report, Start, Detach,
       Goto, ghosts, loopVars
  <2>2. pc'[c] \notin {"body", "over"}
    BY <1>1, <1>2 DEF TestList, Pop, Activate, LinkReady, CountReady, Report, Start, Detach,
       Goto, Walk
  <2>3. QED
    BY <2>1, <2>2 DEF Quiet
<1>3. ASSUME Check \/ WakeUp \/ Unlist
      PROVE  Quiet
  BY <1>1, <1>3 DEF Check, WakeUp, Unlist, Goto, ghosts, loopVars, Quiet
<1>4. ASSUME NEW v \in Context, NEW R \in SUBSET Context, LockStack(v, R)
      PROVE  Quiet
  BY <1>1, <1>4 DEF LockStack, loopVars, Quiet
<1>5. ASSUME NEW v \in Context, ReadCount(v) \/ TakeTail(v) \/ TakeNothing(v)
      PROVE  Quiet
  <2>1. \A r \in serve[v] : pc[r] = "asking"
    BY DEF TheftInv
  <2>2. UNCHANGED <<done, cur>>
        /\ \/ UNCHANGED pc
           \/ pc' = [c \in Context |-> IF c \in serve[v] THEN "idle" ELSE pc[c]]
    BY <1>5 DEF ReadCount, TakeTail, TakeNothing, UnlockStack, ghosts, loopVars
  <2>3. QED
    BY <2>1, <2>2 DEF Quiet
<1>6. ASSUME NEW v \in Context, Reply(v)
      PROVE  Quiet
  <2>1. PICK r \in serve[v] :
          /\ pc' = [pc EXCEPT ![r] = "start"]
          /\ cur' = [cur EXCEPT ![r] = stolen[v]]
    BY <1>6 DEF Reply
  <2>2. pc[r] = "asking" /\ UNCHANGED done
    BY <1>6 DEF TheftInv, Reply, ghosts
  <2>3. QED
    BY <1>1, <2>1, <2>2 DEF Quiet
<1>7. QED
  BY <1>2, <1>3, <1>4, <1>5, <1>6 DEF Next, ExecFrame, StealReady, Leave, Steal

LEMMA QuietImplements ==
    ASSUME program' = program, Quiet
    PROVE  UNCHANGED Abstract!vars
<1>1. \A c \in Context : Doing(c)' = Doing(c)
  BY DEF Quiet, Doing, TaskOf
<1>2. [c \in Context |-> Doing(c)'] = [c \in Context |-> Doing(c)]
  BY <1>1
<1>3. Master \in Context
  BY ConstantsAssumption
<1>4. (pc'[Master] = "over") = (pc[Master] = "over")
  BY <1>3 DEF Quiet
<1>5. done' \cap DOMAIN program' = done \cap DOMAIN program
  BY DEF Quiet
<1>6. QED
  BY <1>2, <1>4, <1>5 DEF Abstract!vars, Doing

LEMMA BeginImplements ==
    ASSUME IndInv, OrderInv, NoWriteAfterRead(program), Next,
           NEW c \in Context, DecrAndBegin(c)
    PROVE  [Abstract!Next]_(Abstract!vars)
<1>1. program' = program
  BY GraphStep DEF IndInv
<1>2. /\ pc[c] = "decr" /\ pc'[c] = "body" /\ UNCHANGED <<done, cur>>
      /\ \A d \in Context \ {c} : pc'[d] = pc[d]
  BY DEF DecrAndBegin, Goto, IndInv, TypeOK, loopVars, ghosts
<1>3. PICK t : t = TaskOf(cur[c])
  OBVIOUS
<1>4. Doing(c) = None /\ Doing(c)' = t
  BY <1>1, <1>2, <1>3 DEF Doing, TaskOf
<1>5. \A d \in Context \ {c} : Doing(d)' = Doing(d)
  BY <1>1, <1>2 DEF Doing, TaskOf
<1>6. [d \in Context |-> Doing(d)'] = [[d \in Context |-> Doing(d)] EXCEPT ![c] = t]
  BY <1>4, <1>5
<1>7. (pc'[Master] = "over") = (pc[Master] = "over")
  BY <1>2, ConstantsAssumption
<1>8. done' \cap DOMAIN program' = done \cap DOMAIN program
  BY <1>1, <1>2
<1>9. CASE cur[c] \in DOMAIN program
  <2>1. t \in DOMAIN program /\ t = cur[c] /\ t # None
    BY <1>3, <1>9, ProgramFacts, GraphFacts DEF TaskOf, IndInv
  <2>2. /\ t \notin done /\ Pending(t) = {}
        /\ \A d \in Context \ {c} : pc[d] \in {"start", "decr", "body"} => cur[d] # t
    BY <1>2, <2>1, NodeInHand
  <2>3. Abstract!Earlier(program, t) \subseteq done
    BY <2>1, <2>2, EarlierIsDone
  <2>4. Abstract!Earlier(program, t) \subseteq done \cap DOMAIN program
    <3>1. DOMAIN program = 1 .. Len(program) /\ Len(program) \in Nat
      BY ProgramFacts, GraphFacts DEF IndInv
    <3>2. QED
      BY <2>1, <2>3, <3>1 DEF Abstract!Earlier
  <2>5. \A d \in Context : Doing(d) # t
    BY <1>2, <2>1, <2>2 DEF Doing, TaskOf
  <2>6. /\ [d \in Context |-> Doing(d)][c] = None
        /\ \A d \in Context : [e \in Context |-> Doing(e)][d] # t
    BY <1>4, <2>5
  <2>7. Abstract!Begin(c, t)
    BY <1>1, <1>6, <1>7, <1>8, <2>2, <2>4, <2>6 DEF Abstract!Begin, Doing
  <2>8. QED
    BY <2>1, <2>7 DEF Abstract!Next
<1>10. CASE cur[c] \notin DOMAIN program
  <2>1. t = None
    BY <1>3, <1>10 DEF TaskOf
  <2>2. [d \in Context |-> Doing(d)'] = [d \in Context |-> Doing(d)]
    BY <1>4, <1>5, <2>1
  <2>3. QED
    BY <1>1, <1>7, <1>8, <2>2 DEF Abstract!vars, Doing
<1>11. QED
  BY <1>9, <1>10

LEMMA EndImplements ==
    ASSUME IndInv, Next, NEW c \in Context, EndBody(c)
    PROVE  [Abstract!Next]_(Abstract!vars)
<1>1. program' = program
  BY GraphStep DEF IndInv
<1>2. /\ pc[c] = "body" /\ pc'[c] \in {"test", "activate"} /\ UNCHANGED cur
      /\ done' = done \cup {cur[c]}
      /\ \A d \in Context \ {c} : pc'[d] = pc[d]
  BY DEF EndBody, Walk, Goto, IndInv, TypeOK
<1>3. Doing(c) = TaskOf(cur[c]) /\ Doing(c)' = None
  BY <1>2 DEF Doing
<1>4. \A d \in Context \ {c} : Doing(d)' = Doing(d)
  BY <1>1, <1>2 DEF Doing, TaskOf
<1>5. [d \in Context |-> Doing(d)'] = [[d \in Context |-> Doing(d)] EXCEPT ![c] = None]
  BY <1>3, <1>4
<1>6. (pc'[Master] = "over") = (pc[Master] = "over")
  BY <1>2, ConstantsAssumption
<1>7. CASE cur[c] \in DOMAIN program
  <2>1. Doing(c) = cur[c] /\ cur[c] # None
    BY <1>3, <1>7, ProgramFacts, GraphFacts DEF TaskOf, IndInv
  <2>2. [d \in Context |-> Doing(d)][c] = cur[c]
    BY <2>1
  <2>3. done' \cap DOMAIN program' = (done \cap DOMAIN program) \cup {cur[c]}
    BY <1>1, <1>2, <1>7
  <2>4. Abstract!End(c)
    BY <1>1, <1>5, <1>6, <2>1, <2>2, <2>3 DEF Abstract!End, Doing
  <2>5. QED
    BY <2>4 DEF Abstract!Next
<1>8. CASE cur[c] \notin DOMAIN program
  <2>1. Doing(c) = None
    BY <1>3, <1>8 DEF TaskOf
  <2>2. [d \in Context |-> Doing(d)'] = [d \in Context |-> Doing(d)]
    BY <1>5, <2>1
  <2>3. done' \cap DOMAIN program' = done \cap DOMAIN program
    BY <1>1, <1>2, <1>8
  <2>4. QED
    BY <1>1, <1>6, <2>2, <2>3 DEF Abstract!vars, Doing
<1>9. QED
  BY <1>7, <1>8

LEMMA DestroyImplements ==
    ASSUME IndInv, Next, Destroy
    PROVE  Abstract!Leave
<1>1. program' = program
  BY GraphStep DEF IndInv
<1>2. Master \in Context
  BY ConstantsAssumption
<1>3. /\ pc[Master] = "await" /\ pc'[Master] = "over" /\ UNCHANGED <<done, cur>>
      /\ \A d \in Context \ {Master} : pc'[d] = pc[d]
  BY <1>2 DEF Destroy, Goto, IndInv, TypeOK, loopVars, ghosts
<1>4. done = Used /\ DOMAIN program \subseteq Used
  BY <1>3, ExecIsBounded, DoneIsFinite, UsedFacts DEF IndInv, EndInv, AllExecuted
<1>5. done \cap DOMAIN program = DOMAIN program
      /\ done' \cap DOMAIN program' = done \cap DOMAIN program
  BY <1>1, <1>3, <1>4
<1>6. \A d \in Context : Doing(d)' = Doing(d)
  BY <1>1, <1>3 DEF Doing, TaskOf
<1>7. [d \in Context |-> Doing(d)'] = [d \in Context |-> Doing(d)]
  BY <1>6
<1>8. ~(pc[Master] = "over") /\ (pc'[Master] = "over") = TRUE
  BY <1>3
<1>9. QED
  BY <1>1, <1>5, <1>7, <1>8 DEF Abstract!Leave, Doing

\* The tasks run and in the order of their conflicts: each once, after those it
\* conflicts with, and the master leaves its frame when they all have run, by
\* whomever its nodes were stolen.  The hypothesis is that a task writes what an
\* earlier one accesses only if that one writes it too: the code keeps no list of
\* the readers a write must wait for.
THEOREM FrameIsImplemented ==
    ASSUME \A p \in Programs : NoWriteAfterRead(p)
    PROVE  Spec => ImplementsTaskGraph
<1>1. Init => IndInv /\ OrderInv
  <2>1. Init => OrderInv
    BY DEF Init, OrderInv
  <2>2. QED
    BY <2>1, InitHolds
<1>2. IndInv => NoWriteAfterRead(program)
  BY GraphFacts DEF IndInv
<1>3. IndInv /\ OrderInv /\ [Next]_vars => (IndInv /\ OrderInv)'
  BY <1>2, IndInvStep, OrderStep
<1>4. Init => Abstract!Init
  <2> SUFFICES ASSUME Init PROVE Abstract!Init
    OBVIOUS
  <2>1. \A c \in Context : pc[c] \notin {"body", "over"}
    BY DEF Init
  <2>2. [c \in Context |-> Doing(c)] = [c \in Context |-> None]
    BY <2>1 DEF Doing
  <2>3. (pc[Master] = "over") = FALSE
    BY <2>1, ConstantsAssumption
  <2>4. program \in Programs /\ done \cap DOMAIN program = {}
    BY DEF Init
  <2>5. QED
    BY <2>2, <2>3, <2>4 DEF Abstract!Init, Doing
<1>5. IndInv /\ OrderInv /\ [Next]_vars => [Abstract!Next]_(Abstract!vars)
  <2> SUFFICES ASSUME IndInv, OrderInv, [Next]_vars
               PROVE  [Abstract!Next]_(Abstract!vars)
    OBVIOUS
  <2>1. program' = program
    BY GraphStep DEF IndInv
  <2>2. CASE UNCHANGED vars
    <3>1. Quiet
      BY <2>2 DEF vars, loopVars, ghosts, Quiet
    <3>2. QED
      BY <2>1, <3>1, QuietImplements
  <2>3. CASE Next
    <3>1. CASE Quiet
      BY <2>1, <3>1, QuietImplements
    <3>2. CASE \E c \in Context : DecrAndBegin(c) \/ EndBody(c)
      BY <1>2, <2>3, <3>2, BeginImplements, EndImplements
    <3>3. CASE Destroy
      BY <2>3, <3>3, DestroyImplements DEF Abstract!Next
    <3>4. QED
      BY <2>3, <3>1, <3>2, <3>3, QuietSteps DEF IndInv
  <2>4. QED
    BY <2>2, <2>3
<1>6. QED
  BY <1>1, <1>3, <1>4, <1>5, PTL DEF Spec, ImplementsTaskGraph, Abstract!Spec

\* A node that comes out of a list as ready is so: a task is run after the earlier
\* ones it conflicts with, whoever runs it.  The hypothesis is the same.
THEOREM ConflictsOrdered ==
    ASSUME \A p \in Programs : NoWriteAfterRead(p)
    PROVE  Spec => []ConflictsAreOrdered
<1>1. Init => IndInv /\ OrderInv
  <2>1. Init => OrderInv
    BY DEF Init, OrderInv
  <2>2. QED
    BY <2>1, InitHolds
<1>2. IndInv => NoWriteAfterRead(program)
  BY GraphFacts DEF IndInv
<1>3. IndInv /\ OrderInv /\ [Next]_vars => (IndInv /\ OrderInv)'
  BY <1>2, IndInvStep, OrderStep
<1>4. IndInv /\ OrderInv => ConflictsAreOrdered
  BY <1>2, NodeInHand, EarlierIsDone DEF ConflictsAreOrdered
<1>5. QED
  BY <1>1, <1>3, <1>4, PTL DEF Spec
===============================================================================
