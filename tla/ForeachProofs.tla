----------------------------- MODULE ForeachProofs -----------------------------
(***************************************************************************)
(* Proofs about Foreach, for every number of processors, length of loop    *)
(* and grain.  The loop is started by the processor 0 (Starter = 0): for   *)
(* the others the splitter mixes slices and processors (RepliesOwnSlice).  *)
(* CoreInv says who asks what to whom, LoopInv who takes part in the loop, *)
(* WorkInv where each iteration is and what is left to report.             *)
(***************************************************************************)
EXTENDS Foreach, FiniteSetTheorems, WellFoundedInduction, TLAPS

-------------------------------------------------------------------------------
(* The smallest element of a set.                                          *)

LEMMA MinOfTwo ==
    ASSUME NEW a \in Int, NEW b \in Int
    PROVE  Min({a, b}) = IF a <= b THEN a ELSE b
<1> DEFINE m == IF a <= b THEN a ELSE b
<1>1. m \in {a, b} /\ \A y \in {a, b} : m <= y
  OBVIOUS
<1>2. \A x \in {a, b} : (\A y \in {a, b} : x <= y) => x = m
  OBVIOUS
<1>3. QED
  BY <1>1, <1>2 DEF Min

LEMMA MinIsMember ==
    ASSUME NEW S, S \subseteq Nat, S # {}
    PROVE  Min(S) \in S
<1>1. PICK x \in S : \A y \in S : ~(<<y, x>> \in OpToRel(<, Nat))
  BY NatLessThanWellFounded, WFMin
<1>2. \A y \in S : x <= y
  <2> SUFFICES ASSUME NEW y \in S PROVE x <= y
    OBVIOUS
  <2>1. ~(y < x)
    BY <1>1 DEF OpToRel
  <2>2. QED
    BY <2>1
<1>3. QED
  BY <1>2 DEF Min

-------------------------------------------------------------------------------
(* The slices.                                                             *)

ShapeOK == total \in 1 .. MaxIter /\ nthreads \in 1 .. NProc

LEMMA SlicesRange ==
    ASSUME ShapeOK
    PROVE  Slices \in 1 .. NProc /\ Slices <= total
BY MinOfTwo, ConstantsAssumption DEF ShapeOK, Slices

\* kaapic_foreach_global_workinit numbers the slices as the processors.
LEMMA PositionOfFirst ==
    ASSUME Starter = 0, ShapeOK, NEW p \in Proc
    PROVE  tid2pos[p] = IF p >= Slices THEN -1 ELSE p
BY SlicesRange, ConstantsAssumption DEF tid2pos, Proc

LEMMA MaskOfFirst ==
    ASSUME Starter = 0, ShapeOK, NEW R \in SUBSET Proc
    PROVE  Mask(R) = R \cap 0 .. Slices - 1
<1>1. \A r \in R : tid2pos[r] = IF r >= Slices THEN -1 ELSE r
  BY PositionOfFirst
<1>2. \A r \in R : r \in Nat
  BY DEF Proc
<1>3. Slices \in Nat
  BY SlicesRange, ConstantsAssumption
<1>4. QED
  BY <1>1, <1>2, <1>3 DEF Mask

LEMMA Division ==
    ASSUME NEW n \in Nat, NEW d \in Nat \ {0}
    PROVE  /\ n \div d \in Nat /\ n % d \in 0 .. d - 1
           /\ n = d * (n \div d) + (n % d)
  OBVIOUS

LEMMA StartOfSlice ==
    ASSUME ShapeOK, NEW k \in 0 .. Slices
    PROVE  startindex[k] = IF k = 0 THEN 0
                           ELSE (total % Slices) + k * (total \div Slices)
<1> DEFINE q == total \div Slices
           r == total % Slices
           s == Slices
<1>1. s \in Nat \ {0} /\ s <= NProc /\ s <= total /\ total \in Nat
  BY SlicesRange, ConstantsAssumption DEF ShapeOK
<1>2. q \in Nat /\ r \in 0 .. s - 1 /\ total = s * q + r
  BY <1>1, Division
<1>3. k * q <= s * q /\ k * q \in Int
  <2> HIDE DEF q, s
  <2>1. PICK j \in Nat : s = k + j
    <3>1. k <= s /\ k \in Nat
      BY <1>1 DEF s
    <3>2. s - k \in Nat /\ s = k + (s - k)
      BY <3>1, <1>1
    <3>3. QED
      BY <3>2
  <2>2. s * q = k * q + j * q
    BY <2>1, <1>1, <1>2
  <2>3. j * q \in Nat /\ k * q \in Nat
    BY <2>1, <1>2
  <2>4. QED
    BY <2>2, <2>3
<1>4. r + k * q \in Int /\ r + k * q <= total
  <2> HIDE DEF q, r, s
  <2>1. s * q \in Int
    BY <1>1, <1>2
  <2>2. QED
    BY <1>1, <1>2, <1>3, <2>1
<1>5. Min({total, r + k * q}) = r + k * q
  <2> HIDE DEF q, r, s
  <2>1. QED
    BY <1>1, <1>4, MinOfTwo
<1>6. k \in 0 .. NProc
  BY <1>1, ConstantsAssumption
<1>7. QED
  BY <1>5, <1>6 DEF startindex

\* They follow each other, none is empty, and they are the whole loop.
LEMMA SlicesInOrder ==
    ASSUME ShapeOK
    PROVE  /\ \A k \in 0 .. Slices : startindex[k] \in 0 .. total
           /\ \A k \in 0 .. Slices - 1 : startindex[k] < startindex[k + 1]
           /\ \A k, l \in 0 .. Slices : k < l => startindex[k] < startindex[l]
           /\ \A i \in 0 .. total - 1 : \E k \in 0 .. Slices - 1 :
                 startindex[k] <= i /\ i < startindex[k + 1]
<1> DEFINE q == total \div Slices
           r == total % Slices
           s == Slices
<1>1. s \in Nat \ {0} /\ s <= total /\ total \in Nat
  BY SlicesRange, ConstantsAssumption DEF ShapeOK
<1>2. q \in Nat /\ r \in 0 .. s - 1 /\ total = s * q + r
  BY <1>1, Division
<1>3. q >= 1
  <2> HIDE DEF q, r, s
  <2>1. q = 0 => s * q = 0
    BY <1>1
  <2>2. QED
    BY <1>1, <1>2, <2>1
<1>4. \A k \in 0 .. s : startindex[k] = IF k = 0 THEN 0 ELSE r + k * q
  BY StartOfSlice
<1>5. \A j, k \in Nat : j * q \in Nat /\ (j + k) * q = j * q + k * q
  <2> HIDE DEF q
  <2>1. QED
    BY <1>2
<1>6. \A j \in Nat : j # 0 => j * q >= q /\ j * q >= j
  <2> SUFFICES ASSUME NEW j \in Nat, j # 0 PROVE j * q >= q /\ j * q >= j
    OBVIOUS
  <2>1. PICK i \in Nat : j = i + 1
    <3>1. j - 1 \in Nat /\ j = (j - 1) + 1
      OBVIOUS
    <3>2. QED
      BY <3>1
  <2>2. PICK p \in Nat : q = p + 1
    <3>1. q - 1 \in Nat /\ q = (q - 1) + 1
      BY <1>2, <1>3
    <3>2. QED
      BY <3>1
  <2> HIDE DEF q
  <2>3. j * q = i * q + q /\ i * q \in Nat
    BY <2>1, <1>2
  <2>4. j * q = j * p + j /\ j * p \in Nat
    BY <2>2
  <2>5. QED
    BY <2>3, <2>4, <1>2
<1>7. ASSUME NEW k \in 0 .. s, NEW l \in 0 .. s, k < l
      PROVE  startindex[k] < startindex[l]
  <2>1. PICK j \in Nat : j # 0 /\ l = k + j
    <3>1. l - k \in Nat /\ l - k # 0 /\ l = k + (l - k)
      BY <1>1, <1>7
    <3>2. QED
      BY <3>1
  <2> HIDE DEF q, r, s
  <2>2. k \in Nat /\ l # 0
    BY <1>1, <1>7
  <2>3. l * q = k * q + j * q /\ k * q \in Nat /\ j * q \in Nat
    BY <2>1, <2>2, <1>5
  <2>4. j * q >= q
    BY <2>1, <1>6
  <2>5. QED
    BY <1>1, <1>2, <1>3, <1>4, <2>2, <2>3, <2>4
<1>8. \A k \in 0 .. s : startindex[k] \in 0 .. total
  <2> SUFFICES ASSUME NEW k \in 0 .. s PROVE startindex[k] \in 0 .. total
    OBVIOUS
  <2> HIDE DEF q, r, s
  <2>1. startindex[s] = total
    <3>1. s \in 0 .. s
      BY <1>1
    <3>2. QED
      BY <1>1, <1>2, <1>4, <3>1
  <2>2. startindex[k] \in Nat
    <3>1. k * q \in Nat
      BY <1>5, <1>1
    <3>2. QED
      BY <1>1, <1>2, <1>4, <3>1
  <2>3. CASE k = s
    BY <2>1, <2>3, <1>1
  <2>4. CASE k # s
    <3>1. k < s /\ s \in 0 .. s
      BY <1>1, <2>4
    <3>2. QED
      BY <3>1, <1>7, <2>1, <2>2, <1>1
  <2>5. QED
    BY <2>3, <2>4
<1>9. ASSUME NEW i \in 0 .. total - 1
      PROVE  \E k \in 0 .. s - 1 : startindex[k] <= i /\ i < startindex[k + 1]
  <2>1. CASE i < r + q
    <3> HIDE DEF q, r, s
    <3>1. startindex[0] = 0 /\ 0 \in 0 .. s - 1 /\ 1 \in 0 .. s
      BY <1>1, <1>4
    <3>2. startindex[1] = r + q
      BY <3>1, <1>4, <1>2
    <3>3. startindex[0] <= i /\ i < startindex[0 + 1]
      BY <2>1, <3>1, <3>2
    <3>4. QED
      BY <3>1, <3>3
  <2>2. CASE i >= r + q
    <3> DEFINE j == i - r
               k == j \div q
    <3>1. j \in Nat /\ q \in Nat \ {0}
      BY <2>2, <1>2, <1>3
    <3>2. k \in Nat /\ j % q \in 0 .. q - 1 /\ j = q * k + (j % q)
      BY <3>1, Division
    <3>3. PICK m \in 0 .. q - 1 : j = q * k + m
      BY <3>2
    <3> HIDE DEF k, q, r, s
    <3>4. j = k * q + m /\ k * q \in Nat /\ (k + 1) * q = k * q + q
      BY <3>1, <3>2, <3>3
    <3>5. k # 0
      <4>1. k = 0 => k * q = 0
        BY <3>1
      <4>2. QED
        BY <4>1, <3>1, <3>4, <2>2, <1>2
    <3>6. k < s
      <4> SUFFICES ASSUME k >= s PROVE FALSE
        BY <3>2, <1>1
      <4>1. PICK n \in Nat : k = s + n
        <5>1. k - s \in Nat /\ k = s + (k - s)
          BY <3>2, <1>1
        <5>2. QED
          BY <5>1
      <4>2. k * q = s * q + n * q /\ n * q \in Nat /\ s * q \in Nat
        BY <4>1, <1>5, <1>1
      <4>3. QED
        BY <4>2, <3>4, <1>2, <3>1, <1>1
    <3>7. startindex[k] = r + k * q /\ startindex[k + 1] = r + (k * q + q)
      BY <3>2, <3>4, <3>5, <3>6, <1>1, <1>4
    <3>8. startindex[k] <= i /\ i < startindex[k + 1]
      BY <3>7, <3>4, <3>3, <3>1, <1>2
    <3>9. k \in 0 .. s - 1
      BY <3>2, <3>6, <1>1
    <3>10. QED
      BY <3>8, <3>9
  <2>3. QED
    BY <2>1, <2>2, <1>1, <1>2
<1>10. \A k \in 0 .. s - 1 : startindex[k] < startindex[k + 1]
  BY <1>7, <1>1
<1>11. QED
  BY <1>7, <1>8, <1>9, <1>10

-------------------------------------------------------------------------------
(* Who asks what to whom.                                                  *)

Requests(v) == IF LockIsFree(v) THEN {} ELSE split[v].requests
GivenBy(v) == IF LockIsFree(v) THEN {} ELSE split[v].given
Asking(v) == Requests(v) \cup GivenBy(v)
Given(r) == \E v \in Proc : r \in GivenBy(v)

SplitAt == {"enter", "and", "slices", "local", "take", "pieces", "end"}
SplitRecord ==
    [at : SplitAt, requests : SUBSET Proc, reply : SUBSET Proc,
     given : SUBSET Proc, nreq : Int, unit : Int, last : Int]

InLoop ==
    {"test", "pop", "body", "sub", "next", "first1", "unset", "recheck", "popany",
     "select", "steal", "got", "leave", "return", "sync"}
Locations ==
    InLoop \cup {"decrdone", "merge", "waitthieves", "waitdone", "idle", "posted", "over"}

Types ==
    /\ ShapeOK
    /\ map \subseteq 1 .. Slices - 1
    /\ workremain \in Int /\ workerdone \in Int /\ thieves \in Int
    /\ init \in [Proc -> BOOLEAN]
    /\ queue \in [Proc -> Bounds]
    /\ workdone \in [Proc -> Int]
    /\ piece \in [Proc -> Bounds]
    /\ aim \in [Proc -> Bounds]
    /\ splittable \in [Proc -> BOOLEAN]
    /\ split \in [Proc -> SplitRecord \cup {NoSplit}]
    /\ pc \in [Proc -> Locations]
    /\ posts \in [Proc -> Nat]

\* A processor that posted a request is known to one splitter.
AskInv ==
    /\ \A v \in Proc : \A r \in Asking(v) : pc[r] = "posted"
    /\ \A v \in Proc : Requests(v) \cap GivenBy(v) = {}
    /\ \A v, w \in Proc : v # w => Asking(v) \cap Asking(w) = {}
    /\ \A r \in Proc : pc[r] = "posted" => \E v \in Proc : r \in Asking(v)

\* The slices to be replied are those of processors that ask and left the map;
\* there are enough requests for the pieces.
SplitInv ==
    \A v \in Proc : ~LockIsFree(v) =>
        LET s == split[v] IN
        /\ s.at # "slices" => s.reply = {}
        /\ s.reply \subseteq s.requests \cap (1 .. Slices - 1)
        /\ s.reply \cap map = {}
        /\ s.at \in {"take", "pieces"} =>
             s.nreq \in 0 .. Cardinality(s.requests) /\ s.unit >= 1

AimInv ==
    \A p \in Proc :
        /\ pc[p] = "unset" => aim[p][1] \in 1 .. Slices - 1
        /\ pc[p] = "steal" => aim[p][1] \in Proc /\ aim[p][2] >= 1

CoreInv == Types /\ AskInv /\ SplitInv /\ AimInv

-------------------------------------------------------------------------------
(* Facts about the records of splitters.                                   *)

LEMMA SplitIsRecord ==
    ASSUME Types, NEW v \in Proc
    PROVE  /\ ~LockIsFree(v) <=> split[v] \in SplitRecord
           /\ split[v].at = "none" <=> LockIsFree(v)
           /\ split[v].at \in SplitAt <=> ~LockIsFree(v)
<1>1. NoSplit.at = "none" /\ "none" \notin SplitAt
  BY DEF NoSplit, SplitAt
<1>2. \A s \in SplitRecord : s.at \in SplitAt
  BY DEF SplitRecord
<1>3. split[v] \in SplitRecord \cup {NoSplit}
  BY DEF Types
<1>4. NoSplit \notin SplitRecord
  BY <1>1, <1>2
<1>5. QED
  BY <1>1, <1>2, <1>3, <1>4 DEF LockIsFree

LEMMA BoundsFacts ==
    /\ \A a, b \in Int : <<a, b>> \in Bounds
    /\ \A b \in Bounds : b[1] \in Int /\ b[2] \in Int /\ b = <<b[1], b[2]>>
    /\ \A b \in Bounds, x \in Int :
         [b EXCEPT ![1] = x] = <<x, b[2]>> /\ [b EXCEPT ![2] = x] = <<b[1], x>>
BY DEF Bounds

LEMMA ProcIsFinite == IsFiniteSet(Proc) /\ Proc \subseteq Nat
BY FS_Interval, ConstantsAssumption DEF Proc

LEMMA ShapeIsConstant ==
    ASSUME Next
    PROVE  UNCHANGED shape /\ Slices' = Slices /\ tid2pos' = tid2pos
           /\ startindex' = startindex /\ (ShapeOK' <=> ShapeOK)
<1>1. UNCHANGED shape
  <2> USE DEF vars
  <2>1. ASSUME NEW p \in Proc, Work(p) PROVE UNCHANGED shape
    BY <2>1 DEF Work, TestRemain, Pop, PopEmpty, BodyEnds, SubRemain, NextWork,
       FindSlice, PopSlice, CheckSlice, PopAny, NoneRemains, Select, Steal, RunPiece, Refill
  <2>2. ASSUME NEW p \in Proc, Finish(p) PROVE UNCHANGED shape
    BY <2>2 DEF Finish, Leave, UnsetSplittable, Synchronize, DecrDone, Merge
  <2>3. ASSUME WaitThieves \/ WaitDone PROVE UNCHANGED shape
    BY <2>3 DEF WaitThieves, WaitDone
  <2>4. ASSUME NEW v \in Proc, BeginSplit(v) \/ Splitter(v) PROVE UNCHANGED shape
    BY <2>4 DEF BeginSplit, Splitter, EnterSplit, ClearSlices, ReplySlice,
       SlicesReplied, SizeLocal, TakeLocal, ReplyPiece, EndSplit
  <2>5. ASSUME NEW v \in Proc, NEW r \in Proc, StartThief(v, r) PROVE UNCHANGED shape
    BY <2>5 DEF StartThief
  <2>6. QED
    BY <2>1, <2>2, <2>3, <2>4, <2>5 DEF Next, Participant
<1>2. QED
  BY <1>1 DEF shape, Slices, tid2pos, startindex, ShapeOK

\* The processor 0 takes the first slice.
LEMMA FirstSliceTaken ==
    ASSUME Init, Starter = 0
    PROVE  /\ map = 1 .. Slices - 1
           /\ queue = [p \in Proc |-> IF p = 0 THEN Slice(0) ELSE Empty]
<1>1. ShapeOK
  BY DEF Init, ShapeOK
<1>2. Slices \in Nat \ {0}
  BY <1>1, SlicesRange, ConstantsAssumption
<1>3. StarterSlice = {0}
  BY <1>1, <1>2, PositionOfFirst, ConstantsAssumption DEF StarterSlice, Proc
<1>4. (0 .. Slices - 1) \ {0} = 1 .. Slices - 1
  BY <1>2
<1>5. QED
  BY <1>3, <1>4 DEF Init

LEMMA CoreInit ==
    ASSUME Init, Starter = 0
    PROVE  CoreInv
<1>1. ShapeOK
  BY ConstantsAssumption DEF Init, ShapeOK
<1>2. Slices \in 1 .. NProc /\ Slices <= total
  BY <1>1, SlicesRange
<1>3. Slice(0) \in Bounds
  <2>1. startindex[0] \in Int /\ startindex[1] \in Int
    BY <1>1, <1>2, SlicesInOrder, ConstantsAssumption DEF ShapeOK
  <2>2. QED
    BY <2>1 DEF Slice, Bounds
<1>8. /\ map = 1 .. Slices - 1
      /\ queue = [p \in Proc |-> IF p = 0 THEN Slice(0) ELSE Empty]
  BY FirstSliceTaken
<1>4. Types
  BY <1>1, <1>8, <1>2, <1>3, ConstantsAssumption
     DEF Init, Types, ShapeOK, Bounds, Empty, NoAim, Locations, InLoop, Proc
<1>5. \A v \in Proc : LockIsFree(v)
  BY DEF Init, LockIsFree
<1>6. \A p \in Proc : pc[p] \in {"test", "idle"}
  BY DEF Init
<1>7. QED
  BY <1>4, <1>5, <1>6 DEF CoreInv, AskInv, SplitInv, AimInv, Asking, Requests, GivenBy

-------------------------------------------------------------------------------
(* The steps of a processor in the loop leave the splitters alone.         *)

LEMMA SlicesAreBounds ==
    ASSUME ShapeOK, NEW k \in 0 .. Slices - 1
    PROVE  Slice(k) \in Bounds
<1>1. Slices \in Nat
  BY SlicesRange, ConstantsAssumption
<1>2. k \in 0 .. Slices /\ k + 1 \in 0 .. Slices
  BY <1>1
<1>3. startindex[k] \in Int /\ startindex[k + 1] \in Int
  BY <1>2, SlicesInOrder
<1>4. QED
  BY <1>3 DEF Slice, Bounds

LEMMA CallBodyTypes ==
    ASSUME Types, NEW p \in Proc, NEW b \in Bounds, CallBody(p, b)
    PROVE  /\ pc' \in [Proc -> Locations]
           /\ piece' \in [Proc -> Bounds]
           /\ workdone' \in [Proc -> Int]
<1>1. Size(b) \in Int
  BY DEF Size, Bounds
<1>2. QED
  BY <1>1 DEF Types, CallBody, Locations, InLoop

LEMMA WorkTypes ==
    ASSUME CoreInv, Starter = 0, Next, NEW p \in Proc, Work(p)
    PROVE  Types'
<1> USE DEF shape, global, lwork, locals, adaptive, Goto
<1>1. ShapeOK' /\ Slices' = Slices /\ UNCHANGED shape
  BY ShapeIsConstant DEF CoreInv, Types
<1>2. Types /\ ShapeOK
  BY DEF CoreInv, Types
<1>3. Slices \in Nat /\ Proc \subseteq Nat /\ map \subseteq Nat
  <2>1. Slices \in Nat
    BY <1>2, SlicesRange, ConstantsAssumption
  <2>2. map \subseteq Nat
    BY <1>2, <2>1 DEF Types
  <2>3. QED
    BY <2>1, <2>2, ProcIsFinite
<1>4. CASE TestRemain(p) \/ NextWork(p) \/ NoneRemains(p)
  BY <1>1, <1>2, <1>4 DEF Types, TestRemain, NextWork, NoneRemains, Locations, InLoop
<1>18. CASE CheckSlice(p)
  BY <1>1, <1>2, <1>18, BoundsFacts DEF Types, CheckSlice, Locations, InLoop, Empty
<1>16. CASE PopEmpty(p)
  BY <1>1, <1>2, <1>16 DEF Types, PopEmpty, Locations, InLoop
<1>17. CASE BodyEnds(p)
  BY <1>1, <1>2, <1>17, BoundsFacts DEF Types, BodyEnds, Locations, InLoop, Empty
<1>5. CASE SubRemain(p)
  BY <1>1, <1>2, <1>5 DEF Types, SubRemain, Locations, InLoop
<1>6. CASE Pop(p)
  <2> DEFINE next == Min({queue[p][1] + SeqGrain, queue[p][2]})
  <2>1. queue[p] \in Bounds /\ queue[p][1] \in Int /\ queue[p][2] \in Int /\ next \in Int
    <3>1. queue[p] \in Bounds
      BY <1>2 DEF Types
    <3>2. queue[p][1] \in Int /\ queue[p][2] \in Int
      BY <3>1 DEF Bounds
    <3>3. queue[p][1] + SeqGrain \in Int
      BY <3>2, ConstantsAssumption
    <3>4. QED
      BY <3>1, <3>2, <3>3, MinOfTwo
  <2>2. CallBody(p, <<queue[p][1], next>>) /\ queue' = [queue EXCEPT ![p][1] = next]
    BY <1>6 DEF Pop
  <2> HIDE DEF next
  <2>3. /\ pc' \in [Proc -> Locations] /\ piece' \in [Proc -> Bounds]
        /\ workdone' \in [Proc -> Int]
    BY <1>2, <2>1, <2>2, CallBodyTypes DEF Bounds
  <2>4. queue' \in [Proc -> Bounds]
    BY <1>2, <2>1, <2>2 DEF Types, Bounds
  <2>5. QED
    BY <1>1, <1>2, <1>6, <2>3, <2>4 DEF Types, Pop
<1>7. CASE FindSlice(p)
  <2>1. map # {} => Min(map) \in Int
    <3>1. map # {} => Min(map) \in map
      BY <1>3, MinIsMember
    <3>2. \A k \in map : k \in Int
      BY <1>3
    <3>3. QED
      BY <3>1, <3>2, Zenon
  <2>2. QED
    BY <1>1, <1>2, <1>7, <2>1 DEF Types, FindSlice, Locations, InLoop, NoAim, Bounds
<1>8. ASSUME NEW k \in map, NEW to \in {"recheck", "got"}, TakeSlice(p, k, to)
      PROVE  /\ pc' \in [Proc -> Locations] /\ piece' \in [Proc -> Bounds]
             /\ map' \subseteq 1 .. Slices - 1
  <2>1. Slice(k) \in Bounds
    BY <1>2, <1>3, SlicesAreBounds DEF Types
  <2>2. QED
    BY <1>2, <1>8, <2>1 DEF Types, TakeSlice, Locations, InLoop
<1>9. CASE PopSlice(p)
  <2>1. \/ tid2pos[aim[p][1]] \in map /\ TakeSlice(p, tid2pos[aim[p][1]], "recheck")
        \/ pc' = [pc EXCEPT ![p] = "popany"] /\ UNCHANGED <<map, piece>>
    BY <1>9 DEF PopSlice
  <2>2. /\ pc' \in [Proc -> Locations] /\ piece' \in [Proc -> Bounds]
        /\ map' \subseteq 1 .. Slices - 1
    BY <1>2, <1>8, <2>1 DEF Types, Locations, InLoop
  <2>3. QED
    <3>1. aim' \in [Proc -> Bounds]
      BY <1>2, <1>9 DEF Types, PopSlice, NoAim, Bounds
    <3>2. QED
      BY <1>1, <1>2, <1>9, <2>2, <3>1 DEF Types, PopSlice
<1>10. CASE PopAny(p)
  <2>1. \/ map # {} /\ TakeSlice(p, Min(map), "got")
        \/ pc' = [pc EXCEPT ![p] = "select"] /\ UNCHANGED <<map, piece>>
    BY <1>10 DEF PopAny
  <2>2. map # {} => Min(map) \in map
    BY <1>3, MinIsMember
  <2>3. /\ pc' \in [Proc -> Locations] /\ piece' \in [Proc -> Bounds]
        /\ map' \subseteq 1 .. Slices - 1
    BY <1>2, <1>8, <2>1, <2>2 DEF Types, Locations, InLoop
  <2>4. QED
    BY <1>1, <1>2, <1>10, <2>3 DEF Types, PopAny
<1>11. CASE Select(p)
  <2>1. PICK v \in Proc : aim' = [aim EXCEPT ![p] = <<v, Size(queue[v]) \div 2>>]
    BY <1>11 DEF Select
  <2>2. v \in Int /\ Size(queue[v]) \div 2 \in Int
    BY <1>2, <1>3 DEF Types, Bounds, Size
  <2>3. QED
    BY <1>1, <1>2, <1>11, <2>1, <2>2 DEF Types, Select, Bounds, Locations, InLoop
<1>12. CASE Steal(p)
  <2> DEFINE v == aim[p][1]
             u == aim[p][2]
  <2>1. v \in Proc /\ u \in Int
    BY <1>2, <1>12 DEF Types, Bounds, Steal, CoreInv, AimInv
  <2>2. \/ /\ queue' = [queue EXCEPT ![v][2] = @ - u]
           /\ piece' = [piece EXCEPT ![p] = <<queue[v][2] - u, queue[v][2]>>]
           /\ pc' = [pc EXCEPT ![p] = "got"]
        \/ pc' = [pc EXCEPT ![p] = "select"] /\ UNCHANGED <<queue, piece>>
    BY <1>12 DEF Steal
  <2> HIDE DEF v, u
  <2>5. queue[v] \in Bounds /\ queue[v][1] \in Int /\ queue[v][2] \in Int
    BY <1>2, <2>1 DEF Types, Bounds
  <2>6. queue' \in [Proc -> Bounds]
    <3>1. [queue[v] EXCEPT ![2] = queue[v][2] - u] \in Bounds
      BY <2>1, <2>5, BoundsFacts
    <3>2. queue' = queue \/ queue' = [queue EXCEPT ![v] = [queue[v] EXCEPT ![2] = queue[v][2] - u]]
      BY <2>2
    <3>3. QED
      BY <1>2, <2>1, <3>1, <3>2 DEF Types
  <2>7. piece' \in [Proc -> Bounds]
    <3>1. <<queue[v][2] - u, queue[v][2]>> \in Bounds
      BY <2>1, <2>5, BoundsFacts
    <3>2. QED
      BY <1>2, <2>2, <3>1 DEF Types
  <2>3. queue' \in [Proc -> Bounds] /\ piece' \in [Proc -> Bounds]
        /\ pc' \in [Proc -> Locations]
    BY <1>2, <2>2, <2>6, <2>7 DEF Types, Locations, InLoop
  <2>4. QED
    BY <1>1, <1>2, <1>12, <2>3 DEF Types, Steal, NoAim, Bounds
<1>13. CASE RunPiece(p)
  <2>1. piece[p] \in Bounds
    BY <1>2 DEF Types
  <2>2. QED
    BY <1>1, <1>2, <1>13, <2>1, CallBodyTypes DEF Types, RunPiece
<1>14. CASE Refill(p)
  <2>1. piece[p][1] \in Int /\ piece[p][2] \in Int /\ piece[p][1] + SeqGrain \in Int
    BY <1>2, ConstantsAssumption DEF Types, Bounds
  <2>2. CallBody(p, <<piece[p][1], piece[p][1] + SeqGrain>>)
    BY <1>14 DEF Refill
  <2>3. <<piece[p][1], piece[p][1] + SeqGrain>> \in Bounds
    BY <2>1 DEF Bounds
  <2>4. /\ pc' \in [Proc -> Locations] /\ piece' \in [Proc -> Bounds]
        /\ workdone' \in [Proc -> Int]
    BY <1>2, <2>2, <2>3, CallBodyTypes
  <2>5. QED
    BY <1>1, <1>2, <1>14, <2>1, <2>4 DEF Types, Refill, Bounds
<1>15. QED
  BY <1>4, <1>5, <1>6, <1>7, <1>9, <1>10, <1>11, <1>12, <1>13, <1>14, <1>16,
     <1>17, <1>18 DEF Work

LEMMA AskingArePlaced ==
    ASSUME Types, NEW v \in Proc
    PROVE  Requests(v) \subseteq Proc /\ GivenBy(v) \subseteq Proc /\ Asking(v) \subseteq Proc
<1>1. ~LockIsFree(v) => split[v] \in SplitRecord
  BY SplitIsRecord
<1>2. QED
  BY <1>1 DEF Requests, GivenBy, Asking, SplitRecord

LEMMA AskStep ==
    ASSUME Types, AskInv, UNCHANGED split,
           \A r \in Proc : pc'[r] = "posted" <=> pc[r] = "posted"
    PROVE  AskInv'
<1>1. /\ \A v \in Proc : Requests(v)' = Requests(v)
      /\ \A v \in Proc : GivenBy(v)' = GivenBy(v)
      /\ \A v \in Proc : Asking(v)' = Asking(v)
  BY DEF Requests, GivenBy, Asking, LockIsFree
<1>2. \A v \in Proc : \A r \in Asking(v) : pc'[r] = "posted"
  BY AskingArePlaced DEF AskInv
<1>3. QED
  BY <1>1, <1>2 DEF AskInv

LEMMA SplitStep ==
    ASSUME SplitInv, UNCHANGED split, map' \subseteq map, Slices' = Slices
    PROVE  SplitInv'
BY DEF SplitInv, LockIsFree

LEMMA WorkCore ==
    ASSUME CoreInv, Starter = 0, Next, NEW p \in Proc, Work(p)
    PROVE  CoreInv'
<1> USE DEF shape, global, lwork, locals, adaptive, Goto
<1>1. Types' /\ Types /\ AskInv /\ SplitInv /\ AimInv
  BY WorkTypes DEF CoreInv
<1>2. Slices' = Slices /\ Slices \in Nat
  BY <1>1, ShapeIsConstant, SlicesRange, ConstantsAssumption DEF Types
<1>3. UNCHANGED split /\ map' \subseteq map
  BY DEF Work, TestRemain, Pop, PopEmpty, BodyEnds, SubRemain, NextWork, FindSlice,
     PopSlice, CheckSlice, PopAny, TakeSlice, NoneRemains, Select, Steal, RunPiece, Refill
<1>4. pc[p] # "posted" /\ pc'[p] # "posted" /\ \A r \in Proc \ {p} : pc'[r] = pc[r]
  <2> USE <1>1 DEF Types
  <2>1. CASE TestRemain(p) \/ PopEmpty(p) \/ BodyEnds(p) \/ SubRemain(p) \/ NextWork(p)
    BY <2>1 DEF TestRemain, PopEmpty, BodyEnds, SubRemain, NextWork
  <2>2. CASE FindSlice(p) \/ NoneRemains(p) \/ Select(p)
    BY <2>2 DEF FindSlice, NoneRemains, Select
  <2>3. CASE PopSlice(p) \/ CheckSlice(p) \/ PopAny(p)
    BY <2>3 DEF PopSlice, CheckSlice, PopAny, TakeSlice
  <2>4. CASE Steal(p)
    BY <2>4 DEF Steal
  <2>5. CASE Pop(p) \/ RunPiece(p) \/ Refill(p)
    BY <2>5 DEF Pop, RunPiece, Refill, CallBody
  <2>6. QED
    BY <2>1, <2>2, <2>3, <2>4, <2>5 DEF Work
<1>5. AimInv'
  <2>1. CASE FindSlice(p)
    <3>1. map # {} => Min(map) \in 1 .. Slices - 1
      <4>1. map \subseteq 1 .. Slices - 1
        BY <1>1 DEF Types
      <4>2. map \subseteq Nat
        BY <4>1, <1>2
      <4>3. map # {} => Min(map) \in map
        BY <4>2, MinIsMember
      <4>4. QED
        BY <4>1, <4>3, Zenon
    <3>2. \A q \in Proc \ {p} : pc'[q] = pc[q] /\ aim'[q] = aim[q]
      BY <1>1, <2>1 DEF FindSlice, Types
    <3>3. pc'[p] = "unset" => map # {} /\ aim'[p] = <<Min(map), 0>>
      BY <1>1, <2>1 DEF FindSlice, Types
    <3>4. pc'[p] # "steal"
      BY <1>1, <2>1 DEF FindSlice, Types
    <3>5. QED
      BY <1>1, <1>2, <3>1, <3>2, <3>3, <3>4 DEF AimInv
  <2>2. CASE Select(p)
    <3>1. PICK v \in Proc \ {p} :
             Size(queue[v]) > ParGrain /\ aim' = [aim EXCEPT ![p] = <<v, Size(queue[v]) \div 2>>]
      BY <2>2 DEF Select
    <3>2. Size(queue[v]) \in Int
      <4>1. queue[v] \in Bounds
        BY <1>1 DEF Types
      <4>2. QED
        BY <4>1, BoundsFacts DEF Size
    <3>3. Size(queue[v]) \div 2 >= 1
      BY <3>1, <3>2, ConstantsAssumption
    <3>4. \A q \in Proc \ {p} : pc'[q] = pc[q] /\ aim'[q] = aim[q]
      BY <1>1, <2>2, <3>1 DEF Select, Types
    <3>5. pc'[p] = "steal" /\ aim'[p] = <<v, Size(queue[v]) \div 2>>
      BY <1>1, <2>2, <3>1 DEF Select, Types
    <3>6. QED
      BY <1>1, <1>2, <3>1, <3>3, <3>4, <3>5 DEF AimInv
  <2>3. CASE ~FindSlice(p) /\ ~Select(p)
    <3>1. pc'[p] \notin {"unset", "steal"}
      <4> USE <1>1 DEF Types
      <4>1. CASE \/ TestRemain(p) \/ PopEmpty(p) \/ BodyEnds(p) \/ SubRemain(p)
                 \/ NextWork(p) \/ NoneRemains(p)
        BY <4>1 DEF TestRemain, PopEmpty, BodyEnds, SubRemain, NextWork, NoneRemains
      <4>2. CASE PopSlice(p) \/ CheckSlice(p) \/ PopAny(p)
        BY <4>2 DEF PopSlice, CheckSlice, PopAny, TakeSlice
      <4>3. CASE Steal(p)
        BY <4>3 DEF Steal
      <4>4. CASE Pop(p) \/ RunPiece(p) \/ Refill(p)
        BY <4>4 DEF Pop, RunPiece, Refill, CallBody
      <4>5. QED
        BY <2>3, <4>1, <4>2, <4>3, <4>4 DEF Work
    <3>2. \A q \in Proc \ {p} : aim'[q] = aim[q]
      BY <2>3, <1>1 DEF Work, TestRemain, Pop, PopEmpty, BodyEnds, SubRemain, NextWork,
         PopSlice, CheckSlice, PopAny, NoneRemains, Steal, RunPiece, Refill, Types
    <3>3. QED
      BY <1>1, <1>2, <1>4, <3>1, <3>2 DEF AimInv
  <2>4. QED
    BY <2>1, <2>2, <2>3
<1>6. QED
  BY <1>1, <1>2, <1>3, <1>4, <1>5, AskStep, SplitStep DEF CoreInv

LEMMA FinishCore ==
    ASSUME CoreInv, Starter = 0, Next, NEW p \in Proc,
           Finish(p) \/ (p = Starter /\ (WaitThieves \/ WaitDone))
    PROVE  CoreInv'
<1> USE DEF shape, global, lwork, locals, adaptive, Goto
<1>1. Types /\ AskInv /\ SplitInv /\ AimInv /\ UNCHANGED shape /\ (ShapeOK' <=> ShapeOK)
  BY ShapeIsConstant DEF CoreInv
<1>2. Slices' = Slices
  BY ShapeIsConstant
<1>3. UNCHANGED <<split, map, aim, queue, piece, posts>>
  BY DEF Finish, Leave, UnsetSplittable, Synchronize, DecrDone, Merge, WaitThieves, WaitDone
<1>4. /\ pc[p] # "posted" /\ pc'[p] \notin {"posted", "unset", "steal"}
      /\ \A r \in Proc \ {p} : pc'[r] = pc[r]
  BY <1>1 DEF Types, Finish, Leave, UnsetSplittable, Synchronize, DecrDone, Merge,
     WaitThieves, WaitDone
<1>5. Types'
  <2>1. CASE Leave(p)
    BY <1>1, <1>2, <1>3, <2>1 DEF Types, Leave, Locations, InLoop
  <2>2. CASE UnsetSplittable(p) \/ Synchronize(p)
    BY <1>1, <1>2, <1>3, <2>2 DEF Types, UnsetSplittable, Synchronize, Locations, InLoop
  <2>3. CASE DecrDone(p) \/ Merge(p)
    BY <1>1, <1>2, <1>3, <2>3 DEF Types, DecrDone, Merge, Locations, InLoop
  <2>4. CASE p = Starter /\ (WaitThieves \/ WaitDone)
    BY <1>1, <1>2, <1>3, <2>4 DEF Types, WaitThieves, WaitDone, Locations, InLoop
  <2>5. QED
    BY <2>1, <2>2, <2>3, <2>4 DEF Finish
<1>6. AimInv'
  BY <1>1, <1>2, <1>3, <1>4 DEF AimInv
<1>7. QED
  BY <1>1, <1>2, <1>3, <1>4, <1>5, <1>6, AskStep, SplitStep DEF CoreInv

-------------------------------------------------------------------------------
(* The steps of a splitter.                                                *)

LEMMA SplitUpdate ==
    ASSUME Types, NEW v \in Proc, NEW s \in SplitRecord,
           split' = [split EXCEPT ![v] = s]
    PROVE  /\ split' \in [Proc -> SplitRecord \cup {NoSplit}]
           /\ split'[v] = s /\ ~LockIsFree(v)'
           /\ Requests(v)' = s.requests /\ GivenBy(v)' = s.given
           /\ Asking(v)' = s.requests \cup s.given
           /\ \A w \in Proc \ {v} :
                /\ split'[w] = split[w] /\ (LockIsFree(w)' <=> LockIsFree(w))
                /\ Requests(w)' = Requests(w) /\ GivenBy(w)' = GivenBy(w)
                /\ Asking(w)' = Asking(w)
<1>1. split' \in [Proc -> SplitRecord \cup {NoSplit}] /\ split'[v] = s
  BY DEF Types
<1>2. s # NoSplit
  <2>1. s.at \in SplitAt
    BY DEF SplitRecord
  <2>2. NoSplit.at \notin SplitAt
    BY DEF NoSplit, SplitAt
  <2>3. QED
    BY <2>1, <2>2
<1>3. ~LockIsFree(v)'
  BY <1>1, <1>2 DEF LockIsFree
<1>4. \A w \in Proc \ {v} : split'[w] = split[w]
  BY DEF Types
<1>5. QED
  BY <1>1, <1>3, <1>4 DEF Requests, GivenBy, Asking, LockIsFree

\* Whoever is replied to, those who ask remain the same.
LEMMA SplitterAsk ==
    ASSUME Types, AskInv, NEW v \in Proc, ~LockIsFree(v), NEW s \in SplitRecord,
           split' = [split EXCEPT ![v] = s], UNCHANGED pc,
           s.requests \cap s.given = {},
           s.requests \cup s.given = Asking(v)
    PROVE  AskInv'
<1>1. \A w \in Proc : Asking(w)' = Asking(w)
  BY SplitUpdate
<1>2. \A w \in Proc : Requests(w)' \cap GivenBy(w)' = {}
  BY SplitUpdate DEF AskInv
<1>3. QED
  BY <1>1, <1>2 DEF AskInv

LEMMA OtherSplits ==
    ASSUME Types, SplitInv, NEW v \in Proc, NEW s \in SplitRecord,
           split' = [split EXCEPT ![v] = s], map' \subseteq map, Slices' = Slices,
           /\ s.at # "slices" => s.reply = {}
           /\ s.reply \subseteq s.requests \cap (1 .. Slices - 1)
           /\ s.reply \cap map' = {}
           /\ s.at \in {"take", "pieces"} =>
                s.nreq \in 0 .. Cardinality(s.requests) /\ s.unit >= 1
    PROVE  SplitInv'
<1>1. \A w \in Proc \ {v} : split'[w] = split[w] /\ (LockIsFree(w)' <=> LockIsFree(w))
  BY SplitUpdate
<1>2. split'[v] = s
  BY SplitUpdate
<1>3. QED
  BY <1>1, <1>2 DEF SplitInv

\* How the queue is shared out: not into more pieces than there are requests.
LEMMA ShareFits ==
    ASSUME NEW n \in Nat, NEW size \in Int, size > ParGrain
    PROVE  /\ Share(n, size) = <<Share(n, size)[1], Share(n, size)[2]>>
           /\ Share(n, size)[1] \in 0 .. n
           /\ Share(n, size)[2] \in Int /\ Share(n, size)[2] >= 1
<1> DEFINE g == ParGrain
<1>1. g \in Nat \ {0} /\ n + 1 \in Nat \ {0} /\ size \in Nat /\ g < size
  BY ConstantsAssumption
<1>2. PICK q \in Nat, m \in 0 .. n : size \div (n + 1) = q /\ size = (n + 1) * q + m
  <2>1. size \div (n + 1) \in Nat /\ size % (n + 1) \in 0 .. (n + 1) - 1
        /\ size = (n + 1) * (size \div (n + 1)) + (size % (n + 1))
    BY <1>1, Division
  <2>2. (n + 1) - 1 = n
    OBVIOUS
  <2>3. QED
    BY <2>1, <2>2
<1>3. PICK k \in Nat, e \in 0 .. g - 1 : size \div g = k /\ size = g * k + e
  <2>1. size \div g \in Nat /\ size % g \in 0 .. g - 1
        /\ size = g * (size \div g) + (size % g)
    BY <1>1, Division
  <2>2. QED
    BY <2>1
<1>4. k >= 1
  <2>1. k = 0 => g * k = 0
    BY <1>1
  <2>2. QED
    BY <2>1, <1>1, <1>3
<1>5. CASE q < g
  <2>1. k < n + 1
    <3> SUFFICES ASSUME k >= n + 1 PROVE FALSE
      BY <1>3
    <3>1. PICK a \in Nat : k = (n + 1) + a
      <4>1. k - (n + 1) \in Nat /\ k = (n + 1) + (k - (n + 1))
        BY <1>3
      <4>2. QED
        BY <4>1
    <3>2. PICK b \in Nat : g = (q + 1) + b
      <4>1. g - (q + 1) \in Nat /\ g = (q + 1) + (g - (q + 1))
        BY <1>1, <1>2, <1>5
      <4>2. QED
        BY <4>1
    <3>3. g * k = g * (n + 1) + g * a /\ g * a \in Nat /\ g * (n + 1) \in Nat
      BY <3>1, <1>1
    <3>4. g * (n + 1) = (n + 1) * q + (n + 1) + (n + 1) * b /\ (n + 1) * b \in Nat
          /\ (n + 1) * q \in Nat
      BY <3>2, <1>2
    <3>5. QED
      BY <3>3, <3>4, <1>1, <1>2, <1>3
  <2>2. Share(n, size) = <<k - 1, g>>
    BY <1>2, <1>3, <1>5 DEF Share
  <2>3. QED
    BY <2>1, <2>2, <1>1, <1>3, <1>4
<1>6. CASE q >= g
  <2>1. Share(n, size) = <<n, q>>
    BY <1>1, <1>2, <1>6 DEF Share
  <2>2. QED
    BY <2>1, <1>1, <1>2, <1>6
<1>7. QED
  BY <1>5, <1>6, <1>1, <1>2

LEMMA QuietSplitterCore ==
    ASSUME CoreInv, Starter = 0, Next, NEW v \in Proc,
           \/ EnterSplit(v) \/ ClearSlices(v) \/ SlicesReplied(v)
           \/ SizeLocal(v) \/ TakeLocal(v)
    PROVE  CoreInv'
<1> USE DEF shape, global, lwork, locals, adaptive
<1>1. Types /\ AskInv /\ SplitInv /\ AimInv /\ UNCHANGED shape /\ (ShapeOK' <=> ShapeOK)
  BY ShapeIsConstant DEF CoreInv
<1>2. Slices' = Slices /\ Slices \in Nat
  BY <1>1, ShapeIsConstant, SlicesRange, ConstantsAssumption DEF Types
<1>3. UNCHANGED <<pc, aim, piece, posts, init, workdone, workremain, workerdone,
                  splittable, thieves>> /\ map' \subseteq map
  BY DEF EnterSplit, ClearSlices, SlicesReplied, SizeLocal, TakeLocal
<1>4. ~LockIsFree(v) /\ split[v] \in SplitRecord
  <2>1. split[v].at \in SplitAt
    BY DEF EnterSplit, ClearSlices, SlicesReplied, SizeLocal, TakeLocal, SplitAt
  <2>2. QED
    BY <1>1, <2>1, SplitIsRecord
<1>5. /\ split[v].requests \in SUBSET Proc /\ split[v].given \in SUBSET Proc
      /\ split[v].requests \cap split[v].given = {}
      /\ split[v].requests \cup split[v].given = Asking(v)
  BY <1>1, <1>4 DEF SplitRecord, AskInv, Asking, Requests, GivenBy
<1>6. IsFiniteSet(split[v].requests) /\ Cardinality(split[v].requests) \in Nat
  BY <1>5, ProcIsFinite, FS_Subset, FS_CardinalityType
<1>7. AimInv'
  BY <1>1, <1>2, <1>3 DEF AimInv
<1>8. ASSUME NEW s \in SplitRecord, split' = [split EXCEPT ![v] = s],
             s.requests = split[v].requests, s.given = split[v].given,
             s.at # "slices" => s.reply = {},
             s.reply \subseteq s.requests \cap (1 .. Slices - 1),
             s.reply \cap map' = {},
             s.at \in {"take", "pieces"} =>
                s.nreq \in 0 .. Cardinality(s.requests) /\ s.unit >= 1,
             queue' \in [Proc -> Bounds]
      PROVE  CoreInv'
  <2>1. AskInv'
    BY <1>1, <1>3, <1>4, <1>5, <1>8, SplitterAsk
  <2>2. SplitInv'
    BY <1>1, <1>2, <1>3, <1>8, OtherSplits
  <2>3. split' \in [Proc -> SplitRecord \cup {NoSplit}]
    BY <1>1, <1>8, SplitUpdate
  <2>4. Types'
    BY <1>1, <1>2, <1>3, <1>8, <2>3 DEF Types
  <2>5. QED
    BY <1>7, <2>1, <2>2, <2>4 DEF CoreInv
<1>9. CASE EnterSplit(v)
  <2> DEFINE a == IF workremain = 0 THEN "end"
                  ELSE IF Mask(split[v].requests) \cap map = {} THEN "local" ELSE "and"
             s == [split[v] EXCEPT !.at = a]
  <2>1. split' = [split EXCEPT ![v] = s] /\ split[v].at = "enter" /\ UNCHANGED <<map, queue>>
    BY <1>9 DEF EnterSplit
  <2>2. /\ s \in SplitRecord /\ s.at = a /\ a \in {"end", "local", "and"}
        /\ s.requests = split[v].requests /\ s.given = split[v].given
        /\ s.reply = split[v].reply
    BY <1>4 DEF SplitRecord, SplitAt
  <2>3. split[v].reply = {}
    BY <1>1, <1>4, <2>1 DEF SplitInv
  <2> HIDE DEF a, s
  <2>4. QED
    BY <1>1, <1>8, <2>1, <2>2, <2>3 DEF Types
<1>10. CASE ClearSlices(v)
  <2> DEFINE m == Mask(split[v].requests)
             s == [split[v] EXCEPT !.at = "slices", !.reply = map \cap m]
  <2>1. split' = [split EXCEPT ![v] = s] /\ map' = map \ m /\ UNCHANGED queue
    BY <1>10 DEF ClearSlices
  <2>2. m = split[v].requests \cap 0 .. Slices - 1
    BY <1>1, <1>5, MaskOfFirst DEF Types
  <2>3. map \subseteq 1 .. Slices - 1
    BY <1>1 DEF Types
  <2> HIDE DEF m
  <2>4. map \cap m \in SUBSET Proc
    BY <1>5, <2>2
  <2>5. /\ s \in SplitRecord /\ s.at = "slices"
        /\ s.requests = split[v].requests /\ s.given = split[v].given
        /\ s.reply = map \cap m
    BY <1>4, <2>4 DEF SplitRecord, SplitAt
  <2> HIDE DEF s
  <2>6. s.reply \subseteq s.requests \cap (1 .. Slices - 1) /\ s.reply \cap map' = {}
    BY <2>1, <2>2, <2>3, <2>5
  <2>7. QED
    BY <1>1, <1>8, <2>1, <2>5, <2>6 DEF Types
<1>11. CASE SlicesReplied(v)
  <2> DEFINE a == IF split[v].requests = {} THEN "end" ELSE "local"
             s == [split[v] EXCEPT !.at = a]
  <2>1. split' = [split EXCEPT ![v] = s] /\ split[v].reply = {} /\ UNCHANGED <<map, queue>>
    BY <1>11 DEF SlicesReplied
  <2>2. /\ s \in SplitRecord /\ s.at = a /\ a \in {"end", "local"}
        /\ s.requests = split[v].requests /\ s.given = split[v].given
        /\ s.reply = split[v].reply
    BY <1>4 DEF SplitRecord, SplitAt
  <2> HIDE DEF a, s
  <2>3. QED
    BY <1>1, <1>8, <2>1, <2>2 DEF Types
<1>12. CASE SizeLocal(v)
  <2> DEFINE size == Size(queue[v])
             share == Share(Cardinality(split[v].requests), size)
             a == IF ~init[v] \/ size <= ParGrain \/ share[1] = 0 THEN "end" ELSE "take"
             s == [split[v] EXCEPT !.at = a, !.nreq = share[1], !.unit = share[2]]
  <2>1. split' = [split EXCEPT ![v] = s] /\ split[v].at = "local" /\ UNCHANGED <<map, queue>>
    BY <1>12 DEF SizeLocal
  <2>2. size \in Int
    <3>1. queue[v] \in Bounds
      BY <1>1 DEF Types
    <3>2. QED
      BY <3>1, BoundsFacts DEF Size
  <2>3. share[1] \in Int /\ share[2] \in Int
    <3>1. \A n \in Nat, k \in Int : Share(n, k)[1] \in Int /\ Share(n, k)[2] \in Int
      BY ConstantsAssumption DEF Share
    <3>2. QED
      BY <1>6, <2>2, <3>1
  <2>4. a = "take" => size > ParGrain
    BY <2>2, ConstantsAssumption
  <2>5. a = "take" => share[1] \in 0 .. Cardinality(split[v].requests) /\ share[2] >= 1
    BY <1>6, <2>2, <2>4, ShareFits
  <2>6. a \in {"end", "take"}
    OBVIOUS
  <2> HIDE DEF a, share, size
  <2>7. /\ s \in SplitRecord /\ s.at = a /\ s.nreq = share[1] /\ s.unit = share[2]
        /\ s.requests = split[v].requests /\ s.given = split[v].given
        /\ s.reply = split[v].reply
    BY <1>4, <2>3, <2>6 DEF SplitRecord, SplitAt
  <2>8. split[v].reply = {}
    BY <1>1, <1>4, <2>1 DEF SplitInv
  <2> HIDE DEF s
  <2>9. QED
    BY <1>1, <1>8, <2>1, <2>5, <2>6, <2>7, <2>8 DEF Types
<1>13. CASE TakeLocal(v)
  <2> DEFINE amount == split[v].nreq * split[v].unit
             enough == Size(queue[v]) >= amount
             a == IF enough THEN "pieces" ELSE "end"
             s == [split[v] EXCEPT !.at = a, !.last = queue[v][2]]
  <2>1. split' = [split EXCEPT ![v] = s] /\ split[v].at = "take" /\ UNCHANGED map
    BY <1>13 DEF TakeLocal
  <2>2. queue[v] \in Bounds /\ queue[v][1] \in Int /\ queue[v][2] \in Int
    <3>1. queue[v] \in Bounds
      BY <1>1 DEF Types
    <3>2. QED
      BY <3>1, BoundsFacts
  <2>3. amount \in Int
    BY <1>4 DEF SplitRecord
  <2>4. queue' \in [Proc -> Bounds]
    <3>1. queue' = [queue EXCEPT ![v] =
             [queue[v] EXCEPT ![2] = IF enough THEN queue[v][2] - amount ELSE queue[v][2]]]
      BY <1>13 DEF TakeLocal
    <3> HIDE DEF amount, enough
    <3>2. [queue[v] EXCEPT ![2] = IF enough THEN queue[v][2] - amount ELSE queue[v][2]]
             \in Bounds
      BY <2>2, <2>3, BoundsFacts
    <3>3. QED
      BY <1>1, <3>1, <3>2 DEF Types
  <2>5. a \in {"pieces", "end"}
    OBVIOUS
  <2> HIDE DEF a, enough, amount
  <2>6. /\ s \in SplitRecord /\ s.at = a /\ s.nreq = split[v].nreq /\ s.unit = split[v].unit
        /\ s.requests = split[v].requests /\ s.given = split[v].given
        /\ s.reply = split[v].reply
    BY <1>4, <2>2, <2>5 DEF SplitRecord, SplitAt
  <2>7. /\ split[v].reply = {} /\ split[v].unit >= 1
        /\ split[v].nreq \in 0 .. Cardinality(split[v].requests)
    BY <1>1, <1>4, <2>1 DEF SplitInv
  <2> HIDE DEF s
  <2>8. QED
    BY <1>1, <1>8, <2>1, <2>4, <2>5, <2>6, <2>7 DEF Types
<1>14. QED
  BY <1>9, <1>10, <1>11, <1>12, <1>13

LEMMA BusySplitter ==
    ASSUME CoreInv, NEW v \in Proc, split[v].at \in SplitAt
    PROVE  /\ ~LockIsFree(v) /\ split[v] \in SplitRecord
           /\ split[v].requests \in SUBSET Proc /\ split[v].given \in SUBSET Proc
           /\ split[v].requests = Requests(v) /\ split[v].given = GivenBy(v)
           /\ IsFiniteSet(split[v].requests) /\ Cardinality(split[v].requests) \in Nat
<1>1. ~LockIsFree(v) /\ split[v] \in SplitRecord
  BY SplitIsRecord DEF CoreInv
<1>2. split[v].requests \in SUBSET Proc /\ split[v].given \in SUBSET Proc
  BY <1>1 DEF SplitRecord
<1>3. IsFiniteSet(split[v].requests) /\ Cardinality(split[v].requests) \in Nat
  BY <1>2, ProcIsFinite, FS_Subset, FS_CardinalityType
<1>4. QED
  BY <1>1, <1>2, <1>3 DEF Requests, GivenBy

\* A slice goes to the processor of its number, which asked for it.
LEMMA SliceReplied ==
    ASSUME CoreInv, Starter = 0, NEW v \in Proc, ReplySlice(v)
    PROVE  \E r \in split[v].reply :
              /\ r \in Requests(v) /\ r \in 1 .. Slices - 1
              /\ split' = [split EXCEPT ![v] = [split[v] EXCEPT !.reply = split[v].reply \ {r},
                                !.requests = split[v].requests \ {r},
                                !.given = split[v].given \cup {r}]]
              /\ Reply(v, r, Slice(r))
<1> DEFINE r == Min(split[v].reply)
<1>1. split[v].at \in SplitAt /\ split[v].reply # {}
  BY DEF ReplySlice, SplitAt
<1>2. split[v].reply \subseteq Requests(v) \cap (1 .. Slices - 1)
  BY <1>1, BusySplitter DEF CoreInv, SplitInv
<1>3. Requests(v) \subseteq Nat
  BY <1>1, BusySplitter, ProcIsFinite
<1>4. r \in split[v].reply
  BY <1>1, <1>2, <1>3, MinIsMember
<1>5. r \in Proc /\ r \in Requests(v) /\ r \in 1 .. Slices - 1
  BY <1>1, <1>2, <1>4, BusySplitter
<1>6. Slices \in Nat
  BY SlicesRange, ConstantsAssumption DEF CoreInv, Types
<1>7. tid2pos[r] = r
  <2> HIDE DEF r
  <2>1. ~(r >= Slices)
    BY <1>5, <1>6
  <2>2. QED
    BY <1>5, <2>1, PositionOfFirst DEF CoreInv, Types
<1>8. Reply(v, r, Slice(r))
  BY <1>7 DEF ReplySlice
<1>9. split' = [split EXCEPT ![v] = [split[v] EXCEPT !.reply = split[v].reply \ {r},
                   !.requests = split[v].requests \ {r},
                   !.given = split[v].given \cup {r}]]
  BY DEF ReplySlice
<1> HIDE DEF r
<1>10. QED
  BY <1>4, <1>5, <1>8, <1>9

LEMMA PieceReplied ==
    ASSUME CoreInv, NEW v \in Proc, ReplyPiece(v)
    PROVE  \E r \in Requests(v) :
              /\ split' = [split EXCEPT ![v] = [split[v] EXCEPT
                                !.requests = split[v].requests \ {r},
                                !.given = split[v].given \cup {r},
                                !.nreq = split[v].nreq - 1,
                                !.last = split[v].last - split[v].unit]]
              /\ Reply(v, r, <<split[v].last - split[v].unit, split[v].last>>)
<1> DEFINE r == Min(split[v].requests)
<1>1. split[v].at \in SplitAt /\ split[v].at = "pieces" /\ split[v].nreq > 0
  BY DEF ReplyPiece, SplitAt
<1>2. split[v].nreq <= Cardinality(split[v].requests) /\ split[v].nreq \in Nat
  BY <1>1, BusySplitter DEF CoreInv, SplitInv
<1>3. split[v].requests # {}
  BY <1>1, <1>2, FS_EmptySet
<1>4. r \in split[v].requests
  <2>1. split[v].requests \subseteq Nat
    BY <1>1, BusySplitter, ProcIsFinite
  <2>2. QED
    BY <1>3, <2>1, MinIsMember
<1>5. r \in Requests(v)
  BY <1>1, <1>4, BusySplitter
<1>6. split' = [split EXCEPT ![v] = [split[v] EXCEPT
                    !.requests = split[v].requests \ {r},
                    !.given = split[v].given \cup {r},
                    !.nreq = split[v].nreq - 1,
                    !.last = split[v].last - split[v].unit]]
  BY DEF ReplyPiece
<1>7. Reply(v, r, <<split[v].last - split[v].unit, split[v].last>>)
  BY DEF ReplyPiece
<1> HIDE DEF r
<1>8. QED
  BY <1>5, <1>6, <1>7

LEMMA ReplyCore ==
    ASSUME CoreInv, Starter = 0, Next, NEW v \in Proc, ReplySlice(v) \/ ReplyPiece(v)
    PROVE  CoreInv'
<1> USE DEF shape, global, lwork, locals, adaptive
<1>1. Types /\ AskInv /\ SplitInv /\ AimInv /\ UNCHANGED shape /\ (ShapeOK' <=> ShapeOK)
  BY ShapeIsConstant DEF CoreInv
<1>2. Slices' = Slices /\ Slices \in Nat
  BY <1>1, ShapeIsConstant, SlicesRange, ConstantsAssumption DEF Types
<1>3. UNCHANGED <<pc, aim, piece, posts, workdone, workremain, map>>
  BY DEF ReplySlice, ReplyPiece
<1>4. split[v].at \in SplitAt
  BY DEF ReplySlice, ReplyPiece, SplitAt
<1>5. /\ ~LockIsFree(v) /\ split[v] \in SplitRecord
      /\ split[v].requests \in SUBSET Proc /\ split[v].given \in SUBSET Proc
      /\ split[v].requests = Requests(v) /\ split[v].given = GivenBy(v)
      /\ IsFiniteSet(split[v].requests) /\ Cardinality(split[v].requests) \in Nat
  BY <1>4, BusySplitter
<1>6. AimInv'
  BY <1>1, <1>2, <1>3 DEF AimInv
<1>7. ASSUME NEW r \in Requests(v), NEW b \in Bounds, Reply(v, r, b),
             NEW s \in SplitRecord, split' = [split EXCEPT ![v] = s],
             s.requests = split[v].requests \ {r}, s.given = split[v].given \cup {r},
             s.at # "slices" => s.reply = {},
             s.reply \subseteq s.requests \cap (1 .. Slices - 1),
             s.reply \cap map = {},
             s.at \in {"take", "pieces"} =>
                s.nreq \in 0 .. Cardinality(s.requests) /\ s.unit >= 1,
             workerdone' \in Int
      PROVE  CoreInv'
  <2>1. /\ s.requests \cap s.given = {} /\ s.requests \cup s.given = Asking(v)
    BY <1>1, <1>5, <1>7 DEF AskInv, Asking
  <2>2. AskInv'
    BY <1>1, <1>3, <1>5, <1>7, <2>1, SplitterAsk
  <2>3. SplitInv'
    BY <1>1, <1>2, <1>3, <1>7, OtherSplits
  <2>4. split' \in [Proc -> SplitRecord \cup {NoSplit}]
    BY <1>1, <1>7, SplitUpdate
  <2>5. Types'
    <3>1. r \in Proc
      BY <1>5, <1>7
    <3>2. queue' \in [Proc -> Bounds]
      BY <1>1, <1>7, <3>1 DEF Types, Reply
    <3>3. init' \in [Proc -> BOOLEAN] /\ splittable' \in [Proc -> BOOLEAN] /\ thieves' \in Int
      BY <1>1, <1>7, <3>1 DEF Types, Reply
    <3>4. QED
      BY <1>1, <1>2, <1>3, <1>7, <2>4, <3>2, <3>3 DEF Types
  <2>6. QED
    BY <1>6, <2>2, <2>3, <2>5 DEF CoreInv
<1>8. CASE ReplySlice(v)
  <2>1. PICK r \in split[v].reply :
          /\ r \in Requests(v) /\ r \in 1 .. Slices - 1
          /\ split' = [split EXCEPT ![v] = [split[v] EXCEPT !.reply = split[v].reply \ {r},
                            !.requests = split[v].requests \ {r},
                            !.given = split[v].given \cup {r}]]
          /\ Reply(v, r, Slice(r))
    BY <1>8, SliceReplied
  <2> DEFINE s == [split[v] EXCEPT !.reply = split[v].reply \ {r},
                            !.requests = split[v].requests \ {r},
                            !.given = split[v].given \cup {r}]
  <2>2. r \in Proc /\ Slice(r) \in Bounds
    BY <1>1, <1>2, <1>5, <2>1, SlicesAreBounds DEF Types
  <2>3. /\ s \in SplitRecord /\ s.at = split[v].at /\ s.reply = split[v].reply \ {r}
        /\ s.requests = split[v].requests \ {r} /\ s.given = split[v].given \cup {r}
    BY <1>5, <2>2 DEF SplitRecord
  <2>4. /\ split[v].at = "slices" /\ workerdone' = workerdone + 1
    BY <1>8 DEF ReplySlice
  <2>5. /\ split[v].reply \subseteq split[v].requests \cap (1 .. Slices - 1)
        /\ split[v].reply \cap map = {}
    BY <1>1, <1>5 DEF SplitInv
  <2>6. split' = [split EXCEPT ![v] = s] /\ workerdone' \in Int
    BY <1>1, <2>1, <2>4 DEF Types
  <2> HIDE DEF s
  <2>7. QED
    BY <1>7, <2>1, <2>2, <2>3, <2>4, <2>5, <2>6
<1>9. CASE ReplyPiece(v)
  <2>1. PICK r \in Requests(v) :
              /\ split' = [split EXCEPT ![v] = [split[v] EXCEPT
                                !.requests = split[v].requests \ {r},
                                !.given = split[v].given \cup {r},
                                !.nreq = split[v].nreq - 1,
                                !.last = split[v].last - split[v].unit]]
              /\ Reply(v, r, <<split[v].last - split[v].unit, split[v].last>>)
    BY <1>9, PieceReplied
  <2> DEFINE s == [split[v] EXCEPT
                                !.requests = split[v].requests \ {r},
                                !.given = split[v].given \cup {r},
                                !.nreq = split[v].nreq - 1,
                                !.last = split[v].last - split[v].unit]
  <2>2. r \in Proc /\ r \in split[v].requests
    BY <1>5, <2>1
  <2>3. split[v].last \in Int /\ split[v].unit \in Int /\ split[v].nreq \in Int
    BY <1>5 DEF SplitRecord
  <2>4. <<split[v].last - split[v].unit, split[v].last>> \in Bounds
    BY <2>3, BoundsFacts
  <2>5. /\ s \in SplitRecord /\ s.at = split[v].at /\ s.reply = split[v].reply
        /\ s.requests = split[v].requests \ {r} /\ s.given = split[v].given \cup {r}
        /\ s.nreq = split[v].nreq - 1 /\ s.unit = split[v].unit
    <3> DEFINE A == split[v].requests \ {r}
               B == split[v].given \cup {r}
               n == split[v].nreq - 1
               l == split[v].last - split[v].unit
    <3>1. A \in SUBSET Proc /\ B \in SUBSET Proc /\ n \in Int /\ l \in Int
      BY <1>5, <2>2, <2>3
    <3> HIDE DEF A, B, n, l
    <3>2. \A t \in SplitRecord :
             LET u == [t EXCEPT !.requests = A, !.given = B, !.nreq = n, !.last = l] IN
             /\ u \in SplitRecord /\ u.at = t.at /\ u.reply = t.reply
             /\ u.requests = A /\ u.given = B /\ u.nreq = n /\ u.unit = t.unit
      BY <3>1 DEF SplitRecord
    <3>3. s = [split[v] EXCEPT !.requests = A, !.given = B, !.nreq = n, !.last = l]
      BY DEF A, B, n, l
    <3> HIDE DEF s
    <3>4. QED
      BY <1>5, <3>2, <3>3 DEF A, B, n
  <2>6. /\ split[v].at = "pieces" /\ split[v].nreq > 0 /\ workerdone' = workerdone
    BY <1>9 DEF ReplyPiece
  <2>7. /\ split[v].reply = {} /\ split[v].unit >= 1
        /\ split[v].nreq <= Cardinality(split[v].requests)
    BY <1>1, <1>5, <2>6 DEF SplitInv
  <2>8. Cardinality(split[v].requests \ {r}) = Cardinality(split[v].requests) - 1
    BY <1>5, <2>2, FS_RemoveElement
  <2>11. split' = [split EXCEPT ![v] = s] /\ workerdone' \in Int
    BY <1>1, <2>1, <2>6 DEF Types
  <2> HIDE DEF s
  <2>9. s.nreq \in 0 .. Cardinality(s.requests)
    BY <1>5, <2>3, <2>5, <2>6, <2>7, <2>8
  <2>10. QED
    BY <1>7, <2>1, <2>4, <2>5, <2>6, <2>7, <2>9, <2>11
<1>10. QED
  BY <1>8, <1>9

\* The request of a thief is new, so is the splitter.
LEMMA NewSplit ==
    ASSUME CoreInv, NEW v \in Proc, BeginSplit(v)
    PROVE  \E R \in SUBSET {p \in Proc : pc[p] = "idle"}, s \in SplitRecord :
              /\ split' = [split EXCEPT ![v] = s] /\ LockIsFree(v)
              /\ s.at = "enter" /\ s.requests = R /\ s.given = {} /\ s.reply = {}
              /\ pc' = [p \in Proc |-> IF p \in R THEN "posted" ELSE pc[p]]
<1>1. PICK R \in SUBSET {p \in Proc : pc[p] = "idle" /\ posts[p] < MaxPosts} :
         /\ pc' = [p \in Proc |-> IF p \in R THEN "posted" ELSE pc[p]]
         /\ split' = [split EXCEPT ![v] =
               [at |-> "enter", requests |-> R, reply |-> {}, given |-> {},
                nreq |-> 0, unit |-> 0, last |-> 0]]
  BY DEF BeginSplit
<1> DEFINE s == [at |-> "enter", requests |-> R, reply |-> {}, given |-> {},
                 nreq |-> 0, unit |-> 0, last |-> 0]
<1>2. R \in SUBSET {p \in Proc : pc[p] = "idle"} /\ R \in SUBSET Proc
  OBVIOUS
<1>3. s \in SplitRecord /\ s.at = "enter" /\ s.requests = R /\ s.given = {} /\ s.reply = {}
  BY <1>2 DEF SplitRecord, SplitAt
<1>4. LockIsFree(v)
  BY DEF BeginSplit
<1> HIDE DEF s
<1>5. split' = [split EXCEPT ![v] = s]
  BY <1>1 DEF s
<1>6. QED
  BY <1>1, <1>2, <1>3, <1>4, <1>5

LEMMA BeginSplitCore ==
    ASSUME CoreInv, Next, NEW v \in Proc, BeginSplit(v)
    PROVE  CoreInv'
<1>1. Types /\ AskInv /\ SplitInv /\ AimInv /\ UNCHANGED shape /\ (ShapeOK' <=> ShapeOK)
      /\ Slices' = Slices
  BY ShapeIsConstant DEF CoreInv
<1>2. UNCHANGED <<shape, global, lwork, locals, adaptive, posts, started>>
  BY DEF BeginSplit
<1>3. PICK R \in SUBSET {p \in Proc : pc[p] = "idle"}, s \in SplitRecord :
              /\ split' = [split EXCEPT ![v] = s] /\ LockIsFree(v)
              /\ s.at = "enter" /\ s.requests = R /\ s.given = {} /\ s.reply = {}
              /\ pc' = [p \in Proc |-> IF p \in R THEN "posted" ELSE pc[p]]
  BY NewSplit
<1>4. Types'
  <2>1. split' \in [Proc -> SplitRecord \cup {NoSplit}]
    BY <1>1, <1>3, SplitUpdate
  <2>2. pc' \in [Proc -> Locations]
    BY <1>1, <1>3 DEF Types, Locations
  <2>3. QED
    BY <1>1, <1>2, <2>1, <2>2 DEF Types, global, lwork, locals, adaptive
<1>5. AskInv'
  <2>1. Requests(v)' = R /\ GivenBy(v)' = {} /\ Asking(v)' = R
    <3>1. Requests(v)' = s.requests /\ GivenBy(v)' = s.given
      BY <1>1, <1>3, SplitUpdate
    <3>2. QED
      BY <1>3, <3>1 DEF Asking
  <2>2. \A w \in Proc \ {v} :
           Requests(w)' = Requests(w) /\ GivenBy(w)' = GivenBy(w) /\ Asking(w)' = Asking(w)
    BY <1>1, <1>3, SplitUpdate
  <2>3. Asking(v) = {}
    BY <1>3 DEF Asking, Requests, GivenBy
  <2>4. \A w \in Proc : Asking(w) \cap R = {} /\ Asking(w) \subseteq Proc
    BY <1>1, AskingArePlaced DEF AskInv
  <2>5. \A r \in Proc : (r \in R => pc'[r] = "posted") /\ (r \notin R => pc'[r] = pc[r])
    BY <1>3
  <2>6. \A w \in Proc : \A r \in Asking(w)' : pc'[r] = "posted"
    BY <1>1, <2>1, <2>2, <2>4, <2>5 DEF AskInv
  <2>7. \A w, x \in Proc : w # x => Asking(w)' \cap Asking(x)' = {}
    BY <1>1, <2>1, <2>2, <2>4 DEF AskInv
  <2>8. \A r \in Proc : pc'[r] = "posted" => \E w \in Proc : r \in Asking(w)'
    BY <1>1, <2>1, <2>2, <2>3, <2>5 DEF AskInv
  <2>9. \A w \in Proc : Requests(w)' \cap GivenBy(w)' = {}
    BY <1>1, <2>1, <2>2 DEF AskInv
  <2>10. QED
    BY <2>6, <2>7, <2>8, <2>9 DEF AskInv
<1>6. SplitInv'
  BY <1>1, <1>2, <1>3, OtherSplits DEF global
<1>7. AimInv'
  BY <1>1, <1>2, <1>3 DEF AimInv, locals
<1>8. QED
  BY <1>4, <1>5, <1>6, <1>7 DEF CoreInv

LEMMA StartThiefCore ==
    ASSUME CoreInv, Next, NEW v \in Proc, NEW r \in Proc, StartThief(v, r)
    PROVE  CoreInv'
<1>1. Types /\ AskInv /\ SplitInv /\ AimInv /\ UNCHANGED shape /\ (ShapeOK' <=> ShapeOK)
      /\ Slices' = Slices
  BY ShapeIsConstant DEF CoreInv
<1>2. UNCHANGED <<shape, global, lwork, locals, adaptive, posts, started>>
  BY DEF StartThief
<1>3. ~LockIsFree(v) /\ split[v] \in SplitRecord /\ r \in GivenBy(v)
  BY <1>1, SplitIsRecord DEF StartThief, GivenBy
<1> DEFINE s == [split[v] EXCEPT !.given = split[v].given \ {r}]
<1>4. split' = [split EXCEPT ![v] = s] /\ pc' = [pc EXCEPT ![r] = "test"]
  BY DEF StartThief
<1>5. /\ s \in SplitRecord /\ s.at = split[v].at /\ s.requests = split[v].requests
      /\ s.given = split[v].given \ {r} /\ s.reply = split[v].reply
      /\ s.nreq = split[v].nreq /\ s.unit = split[v].unit
  BY <1>3 DEF SplitRecord
<1> HIDE DEF s
<1>6. Types'
  <2>1. split' \in [Proc -> SplitRecord \cup {NoSplit}]
    BY <1>1, <1>4, <1>5, SplitUpdate
  <2>2. pc' \in [Proc -> Locations]
    BY <1>1, <1>4 DEF Types, Locations, InLoop
  <2>3. QED
    BY <1>1, <1>2, <2>1, <2>2 DEF Types, global, lwork, locals, adaptive
<1>7. SplitInv'
  <2>1. map' \subseteq map
    BY <1>2 DEF global
  <2>2. QED
    BY <1>1, <1>3, <1>4, <1>5, <2>1, OtherSplits DEF SplitInv
<1>8. AskInv'
  <2>1. Requests(v)' = Requests(v) /\ GivenBy(v)' = GivenBy(v) \ {r}
        /\ Asking(v)' = Requests(v) \cup (GivenBy(v) \ {r})
    BY <1>1, <1>3, <1>4, <1>5, SplitUpdate DEF Requests, GivenBy
  <2>2. \A w \in Proc \ {v} :
           Requests(w)' = Requests(w) /\ GivenBy(w)' = GivenBy(w) /\ Asking(w)' = Asking(w)
    BY <1>1, <1>4, <1>5, SplitUpdate
  <2>3. r \in Asking(v) /\ r \notin Requests(v) /\ Asking(v)' = Asking(v) \ {r}
    BY <1>1, <1>3, <2>1 DEF AskInv, Asking
  <2>4. pc'[r] = "test" /\ \A q \in Proc \ {r} : pc'[q] = pc[q]
    BY <1>1, <1>4 DEF Types
  <2>5. \A w \in Proc : r \notin Asking(w)'
    BY <1>1, <2>2, <2>3 DEF AskInv
  <2>6. \A w \in Proc : Asking(w)' \subseteq Asking(w) /\ Asking(w) \subseteq Proc
    BY <1>1, <2>2, <2>3, AskingArePlaced
  <2>7. \A w \in Proc : \A q \in Asking(w)' : pc'[q] = "posted"
    BY <1>1, <2>4, <2>5, <2>6 DEF AskInv
  <2>8. \A w, x \in Proc : w # x => Asking(w)' \cap Asking(x)' = {}
    BY <1>1, <2>6 DEF AskInv
  <2>9. \A q \in Proc : pc'[q] = "posted" => \E w \in Proc : q \in Asking(w)'
    BY <1>1, <2>2, <2>3, <2>4 DEF AskInv
  <2>10. \A w \in Proc : Requests(w)' \cap GivenBy(w)' = {}
    BY <1>1, <2>1, <2>2 DEF AskInv
  <2>11. QED
    BY <2>7, <2>8, <2>9, <2>10 DEF AskInv
<1>9. AimInv'
  <2>1. pc'[r] = "test" /\ \A q \in Proc \ {r} : pc'[q] = pc[q]
    BY <1>1, <1>4 DEF Types
  <2>2. QED
    BY <1>1, <1>2, <2>1 DEF AimInv, locals
<1>10. QED
  BY <1>6, <1>7, <1>8, <1>9 DEF CoreInv

LEMMA EndSplitCore ==
    ASSUME CoreInv, Next, NEW v \in Proc, EndSplit(v)
    PROVE  CoreInv'
<1>1. Types /\ AskInv /\ SplitInv /\ AimInv /\ UNCHANGED shape /\ (ShapeOK' <=> ShapeOK)
      /\ Slices' = Slices
  BY ShapeIsConstant DEF CoreInv
<1>2. UNCHANGED <<shape, global, lwork, locals, adaptive, started>>
  BY DEF EndSplit
<1>3. split[v].at \in SplitAt /\ split' = [split EXCEPT ![v] = NoSplit]
  BY DEF EndSplit, SplitAt
<1>4. /\ split[v].requests = Requests(v) /\ split[v].given = GivenBy(v)
      /\ Requests(v) \subseteq Proc /\ GivenBy(v) \subseteq Proc
  BY <1>1, <1>3, BusySplitter DEF CoreInv
<1>5. pc' = [p \in Proc |-> IF p \in GivenBy(v) THEN "test"
                            ELSE IF p \in Requests(v) THEN "idle" ELSE pc[p]]
  BY <1>4 DEF EndSplit
<1>6. LockIsFree(v)' /\ split'[v] = NoSplit /\ \A w \in Proc \ {v} : split'[w] = split[w]
  BY <1>1, <1>3 DEF Types, LockIsFree
<1>7. \A w \in Proc \ {v} :
           Requests(w)' = Requests(w) /\ GivenBy(w)' = GivenBy(w) /\ Asking(w)' = Asking(w)
  BY <1>6 DEF Requests, GivenBy, Asking, LockIsFree
<1>8. Requests(v)' = {} /\ GivenBy(v)' = {} /\ Asking(v)' = {}
  BY <1>6 DEF Requests, GivenBy, Asking
<1>9. Types'
  <2>1. split' \in [Proc -> SplitRecord \cup {NoSplit}]
    BY <1>1, <1>3 DEF Types
  <2>2. pc' \in [Proc -> Locations]
    <3>1. "test" \in Locations /\ "idle" \in Locations
      BY DEF Locations, InLoop
    <3>2. \A p \in Proc : pc[p] \in Locations
      BY <1>1 DEF Types
    <3>3. QED
      BY <1>5, <3>1, <3>2
  <2>3. posts' \in [Proc -> Nat]
    BY <1>1 DEF EndSplit, Types
  <2>4. QED
    BY <1>1, <1>2, <2>1, <2>2, <2>3 DEF Types, global, lwork, locals, adaptive
<1>10. SplitInv'
  BY <1>1, <1>2, <1>6 DEF SplitInv, LockIsFree, global
<1>11. AskInv'
  <2>1. \A w \in Proc : \A q \in Asking(w)' : q \notin Asking(v) /\ pc'[q] = pc[q]
    BY <1>1, <1>4, <1>5, <1>7, <1>8, AskingArePlaced DEF AskInv, Asking
  <2>2. \A w \in Proc : \A q \in Asking(w)' : pc'[q] = "posted"
    BY <1>1, <1>7, <1>8, <2>1 DEF AskInv
  <2>3. \A w, x \in Proc : w # x => Asking(w)' \cap Asking(x)' = {}
    BY <1>1, <1>7, <1>8 DEF AskInv
  <2>4. \A q \in Proc : pc'[q] = "posted" => \E w \in Proc : q \in Asking(w)'
    <3> SUFFICES ASSUME NEW q \in Proc, pc'[q] = "posted"
                 PROVE  \E w \in Proc : q \in Asking(w)'
      OBVIOUS
    <3>1. q \notin Asking(v) /\ pc[q] = "posted"
      BY <1>5 DEF Asking
    <3>2. QED
      BY <1>1, <1>7, <3>1 DEF AskInv
  <2>5. \A w \in Proc : Requests(w)' \cap GivenBy(w)' = {}
    BY <1>1, <1>7, <1>8 DEF AskInv
  <2>6. QED
    BY <2>2, <2>3, <2>4, <2>5 DEF AskInv
<1>12. AimInv'
  BY <1>1, <1>2, <1>5 DEF AimInv, locals
<1>13. QED
  BY <1>9, <1>10, <1>11, <1>12 DEF CoreInv

LEMMA CoreNext ==
    ASSUME CoreInv, Starter = 0, [Next]_vars
    PROVE  CoreInv'
<1>1. CASE UNCHANGED vars
  <2> USE <1>1 DEF vars, shape, global, lwork, locals, adaptive
  <2>1. Slices' = Slices /\ (ShapeOK' <=> ShapeOK)
    BY DEF Slices, ShapeOK
  <2>2. Types'
    BY <2>1 DEF CoreInv, Types
  <2>3. AskInv' /\ SplitInv'
    BY <2>1, AskStep, SplitStep DEF CoreInv
  <2>4. AimInv'
    BY <2>1 DEF CoreInv, AimInv
  <2>5. QED
    BY <2>2, <2>3, <2>4 DEF CoreInv
<1>2. ASSUME Next, NEW p \in Proc, Participant(p) PROVE CoreInv'
  BY <1>2, WorkCore, FinishCore DEF Participant
<1>3. ASSUME Next, NEW v \in Proc, Splitter(v) PROVE CoreInv'
  BY <1>3, QuietSplitterCore, ReplyCore, EndSplitCore DEF Splitter
<1>4. QED
  BY <1>1, <1>2, <1>3, BeginSplitCore, StartThiefCore DEF Next

-------------------------------------------------------------------------------
(* Who takes part in the loop: the end of its frame.                       *)

\* Those the starter has to wait for: in the loop, or about to be.
Thieves == {r \in Proc \ {Starter} : pc[r] \notin {"idle", "posted"} \/ Given(r)}

LoopInv ==
    /\ \A p \in Proc : pc[p] \in {"decrdone", "merge", "idle", "posted"} => p # Starter
    /\ \A p \in Proc : pc[p] \in {"waitthieves", "waitdone", "over"} => p = Starter
    /\ \A p \in Proc : splittable[p] => pc[p] \in InLoop \ {"sync"} \/ Given(p)
    /\ \A p \in Proc : ~LockIsFree(p) => pc[p] \in InLoop \/ Given(p)
    /\ thieves = Cardinality(Thieves)
    /\ pc[Starter] \in {"waitdone", "over"} => thieves = 0

LEMMA CountOfThieves ==
    /\ \A S \in SUBSET Proc : IsFiniteSet(S) /\ Cardinality(S) \in Nat
    /\ \A S \in SUBSET Proc, r \in Proc :
        /\ r \notin S => Cardinality(S \cup {r}) = Cardinality(S) + 1
        /\ r \in S => Cardinality(S \ {r}) = Cardinality(S) - 1
    /\ \A S \in SUBSET Proc : Cardinality(S) = 0 <=> S = {}
<1>1. \A S \in SUBSET Proc : IsFiniteSet(S) /\ Cardinality(S) \in Nat
  BY ProcIsFinite, FS_Subset, FS_CardinalityType
<1>2. QED
  BY <1>1, FS_AddElement, FS_RemoveElement, FS_EmptySet

\* A given processor is known by its pc.
LEMMA GivenIsPosted ==
    ASSUME CoreInv, NEW r \in Proc, Given(r)
    PROVE  pc[r] = "posted"
BY DEF CoreInv, AskInv, Asking, Given

LEMMA NobodyLeft ==
    ASSUME CoreInv, LoopInv, pc[Starter] \in {"waitdone", "over"}
    PROVE  /\ Thieves = {}
           /\ \A p \in Proc : LockIsFree(p) /\ (p # Starter => pc[p] = "idle")
<1>1. Starter \in Proc
  BY ConstantsAssumption DEF Proc
<1>2. PICK S \in SUBSET Proc : S = Thieves
  BY DEF Thieves
<1>3. Cardinality(S) = 0
  BY <1>2 DEF LoopInv
<1>4. Thieves = {}
  BY <1>2, <1>3, CountOfThieves
<1>5. \A p \in Proc \ {Starter} : pc[p] \in {"idle", "posted"} /\ ~Given(p)
  BY <1>4 DEF Thieves
<1>6. pc[Starter] \notin InLoop /\ ~Given(Starter)
  <2>1. pc[Starter] \notin InLoop /\ pc[Starter] # "posted"
    BY DEF InLoop
  <2>2. QED
    BY <1>1, <2>1, GivenIsPosted
<1>7. \A p \in Proc : LockIsFree(p)
  BY <1>5, <1>6 DEF LoopInv, InLoop
<1>8. \A p \in Proc : Asking(p) = {}
  BY <1>7 DEF Asking, Requests, GivenBy
<1>9. \A p \in Proc : pc[p] # "posted"
  BY <1>8 DEF CoreInv, AskInv
<1>10. QED
  BY <1>4, <1>5, <1>7, <1>9

LEMMA LoopInit ==
    ASSUME Init
    PROVE  LoopInv
<1>1. /\ \A p \in Proc : LockIsFree(p) /\ (p # Starter => pc[p] = "idle")
      /\ pc[Starter] = "test" /\ thieves = 0
      /\ \A p \in Proc : splittable[p] => p = Starter
  BY ConstantsAssumption DEF Init, LockIsFree, Proc
<1>2. Thieves = {}
  BY <1>1 DEF Thieves, Given, GivenBy
<1>3. QED
  BY <1>1, <1>2, FS_EmptySet DEF LoopInv, InLoop

\* The steps after which the same processors take part.
LEMMA LoopSame ==
    ASSUME CoreInv, LoopInv, thieves' = thieves,
           \A r \in Proc : (r # Starter /\ (pc'[r] \notin {"idle", "posted"} \/ Given(r)')
                             <=> r \in Thieves)
    PROVE  thieves' = Cardinality(Thieves')
<1>1. Thieves' = Thieves
  BY DEF Thieves
<1>2. QED
  BY <1>1 DEF LoopInv

LEMMA ParticipantLoop ==
    ASSUME CoreInv, LoopInv, CoreInv', NEW p \in Proc, Participant(p)
    PROVE  LoopInv'
<1> USE DEF shape, global, lwork, locals, adaptive, Goto
<1>1. Types /\ Types' /\ Starter \in Proc
  BY ConstantsAssumption DEF CoreInv, Proc
<1>2. UNCHANGED split
  BY DEF Participant, Work, TestRemain, Pop, PopEmpty, BodyEnds, SubRemain, NextWork,
     FindSlice, PopSlice, CheckSlice, PopAny, NoneRemains, Select, Steal, RunPiece, Refill,
     Finish, Leave, UnsetSplittable, Synchronize, DecrDone, Merge, WaitThieves, WaitDone
<1>3. \A v \in Proc : (LockIsFree(v)' <=> LockIsFree(v)) /\ (Given(v)' <=> Given(v))
  BY <1>2 DEF LockIsFree, Given, GivenBy
<1>4. \A r \in Proc \ {p} : pc'[r] = pc[r]
  BY <1>1 DEF Types, Participant, Work, TestRemain, Pop, PopEmpty, BodyEnds, SubRemain,
     NextWork, FindSlice, PopSlice, CheckSlice, PopAny, TakeSlice, NoneRemains, Select, Steal, RunPiece,
     Refill, CallBody, Finish, Leave, UnsetSplittable, Synchronize, DecrDone, Merge,
     WaitThieves, WaitDone
<1>5. CASE Work(p) \/ Leave(p)
  <2>1. pc[p] \in InLoop /\ pc'[p] \in InLoop \ {"sync"}
    <3> USE <1>1 DEF Types, InLoop
    <3>1. CASE TestRemain(p) \/ PopEmpty(p) \/ BodyEnds(p) \/ SubRemain(p) \/ NextWork(p)
      BY <3>1 DEF TestRemain, PopEmpty, BodyEnds, SubRemain, NextWork
    <3>2. CASE FindSlice(p) \/ NoneRemains(p) \/ Select(p) \/ Leave(p)
      BY <3>2 DEF FindSlice, NoneRemains, Select, Leave
    <3>3. CASE PopSlice(p) \/ CheckSlice(p) \/ PopAny(p)
      BY <3>3 DEF PopSlice, CheckSlice, PopAny, TakeSlice
    <3>4. CASE Steal(p)
      BY <3>4 DEF Steal
    <3>5. CASE Pop(p) \/ RunPiece(p) \/ Refill(p)
      BY <3>5 DEF Pop, RunPiece, Refill, CallBody
    <3>6. QED
      BY <1>5, <3>1, <3>2, <3>3, <3>4, <3>5 DEF Work
  <2>2. UNCHANGED <<thieves, splittable>>
    BY <1>5 DEF Work, TestRemain, Pop, PopEmpty, BodyEnds, SubRemain, NextWork,
       FindSlice, PopSlice, CheckSlice, PopAny, NoneRemains, Select, Steal, RunPiece, Refill, Leave
  <2>3. thieves' = Cardinality(Thieves')
    BY <1>3, <1>4, <2>1, <2>2, LoopSame DEF Thieves, InLoop
  <2>4. QED
    BY <1>1, <1>3, <1>4, <2>1, <2>2, <2>3 DEF LoopInv, InLoop
<1>6. CASE UnsetSplittable(p) \/ Synchronize(p) \/ DecrDone(p)
  <2>1. /\ pc[p] \in {"return", "sync", "decrdone"} /\ thieves' = thieves
        /\ pc'[p] \in {"sync", "waitthieves", "decrdone", "merge"}
    BY <1>1, <1>6 DEF Types, UnsetSplittable, Synchronize, DecrDone
  <2>2. thieves' = Cardinality(Thieves')
    BY <1>3, <1>4, <2>1, LoopSame DEF Thieves
  <2>3. ~Given(p)
    BY <2>1, GivenIsPosted
  <2>4. CASE UnsetSplittable(p)
    BY <1>1, <1>3, <1>4, <2>2, <2>3, <2>4 DEF LoopInv, InLoop, UnsetSplittable, Types
  <2>5. CASE Synchronize(p)
    BY <1>1, <1>3, <1>4, <2>2, <2>3, <2>5 DEF LoopInv, InLoop, Synchronize, Types
  <2>6. CASE DecrDone(p)
    BY <1>1, <1>3, <1>4, <2>2, <2>3, <2>6 DEF LoopInv, InLoop, DecrDone, Types
  <2>7. QED
    BY <1>6, <2>4, <2>5, <2>6
<1>7. CASE Merge(p)
  <2>1. /\ pc[p] = "merge" /\ pc'[p] = "idle" /\ thieves' = thieves - 1
        /\ splittable' = splittable /\ p # Starter
    BY <1>1, <1>7 DEF Types, Merge, LoopInv
  <2>2. ~Given(p)
    BY <2>1, GivenIsPosted
  <2>3. PICK S \in SUBSET Proc : S = Thieves
    BY DEF Thieves
  <2>4. PICK T \in SUBSET Proc : T = Thieves'
    BY DEF Thieves
  <2>5. p \in S /\ T = S \ {p}
    BY <1>3, <1>4, <2>1, <2>2, <2>3, <2>4 DEF Thieves
  <2>6. Cardinality(T) = Cardinality(S) - 1 /\ Cardinality(S) \in Nat /\ Cardinality(T) \in Nat
    BY <2>5, CountOfThieves
  <2>7. thieves' = Cardinality(Thieves') /\ thieves = Cardinality(S)
    BY <2>1, <2>3, <2>4, <2>6 DEF LoopInv
  <2>8. pc'[Starter] \notin {"waitdone", "over"}
    BY <1>1, <1>4, <2>1, <2>6, <2>7 DEF LoopInv
  <2>9. QED
    BY <1>3, <1>4, <2>1, <2>2, <2>7, <2>8 DEF LoopInv, InLoop
<1>8. CASE p = Starter /\ (WaitThieves \/ WaitDone)
  <2>1. /\ pc[p] \in {"waitthieves", "waitdone"} /\ pc'[p] \in {"waitdone", "over"}
        /\ UNCHANGED <<thieves, splittable>>
    BY <1>1, <1>8 DEF Types, WaitThieves, WaitDone
  <2>2. thieves' = 0
    BY <1>8 DEF LoopInv, WaitThieves, WaitDone
  <2>3. ~Given(p)
    BY <2>1, GivenIsPosted
  <2>4. thieves' = Cardinality(Thieves')
    BY <1>3, <1>4, <2>1, LoopSame DEF Thieves
  <2>5. QED
    BY <1>3, <1>4, <1>8, <2>1, <2>2, <2>3, <2>4 DEF LoopInv, InLoop
<1>9. QED
  BY <1>5, <1>6, <1>7, <1>8 DEF Participant, Finish

LEMMA SplitterLoop ==
    ASSUME CoreInv, Starter = 0, LoopInv, CoreInv', NEW v \in Proc,
           BeginSplit(v) \/ Splitter(v) \/ (\E r \in Proc : StartThief(v, r))
    PROVE  LoopInv'
<1> USE DEF shape, global, lwork, locals, adaptive
<1>1. Types /\ Types' /\ Starter \in Proc
  BY ConstantsAssumption DEF CoreInv, Proc
<1>2. CASE BeginSplit(v)
  <2>1. PICK R \in SUBSET {p \in Proc : pc[p] = "idle"}, s \in SplitRecord :
              /\ split' = [split EXCEPT ![v] = s] /\ LockIsFree(v)
              /\ s.at = "enter" /\ s.requests = R /\ s.given = {} /\ s.reply = {}
              /\ pc' = [p \in Proc |-> IF p \in R THEN "posted" ELSE pc[p]]
    BY <1>2, NewSplit
  <2>2. splittable[v] /\ UNCHANGED <<splittable, thieves>>
    BY <1>2 DEF BeginSplit
  <2>3. /\ \A w \in Proc : GivenBy(w)' = GivenBy(w)
        /\ \A w \in Proc \ {v} : LockIsFree(w)' <=> LockIsFree(w)
    <3>1. GivenBy(v) = {} /\ GivenBy(v)' = {}
      BY <1>1, <2>1, SplitUpdate DEF GivenBy
    <3>2. QED
      BY <1>1, <2>1, <3>1, SplitUpdate
  <2>4. \A r \in Proc : Given(r)' <=> Given(r)
    BY <2>3 DEF Given
  <2>5. \A r \in Proc : \/ pc'[r] = pc[r]
                        \/ pc[r] = "idle" /\ pc'[r] = "posted"
    BY <2>1
  <2>6. thieves' = Cardinality(Thieves')
    BY <2>2, <2>4, <2>5, LoopSame DEF Thieves
  <2>7. QED
    BY <1>1, <2>2, <2>3, <2>4, <2>5, <2>6 DEF LoopInv, InLoop
<1>3. CASE EnterSplit(v) \/ ClearSlices(v) \/ SlicesReplied(v) \/ SizeLocal(v) \/ TakeLocal(v)
  <2>1. UNCHANGED <<pc, splittable, thieves>> /\ split[v].at \in SplitAt
    BY <1>3 DEF EnterSplit, ClearSlices, SlicesReplied, SizeLocal, TakeLocal, SplitAt
  <2>2. ~LockIsFree(v) /\ split[v] \in SplitRecord
    BY <1>1, <2>1, SplitIsRecord
  <2>3. \A w \in Proc : w # v => split'[w] = split[w]
    BY <1>1, <1>3 DEF EnterSplit, ClearSlices, SlicesReplied, SizeLocal, TakeLocal, Types
  <2>4. split'[v].given = split[v].given /\ split'[v].at \in SplitAt
    BY <1>1, <1>3, <2>2 DEF EnterSplit, ClearSlices, SlicesReplied, SizeLocal, TakeLocal,
       Types, SplitRecord, SplitAt
  <2>5. ~LockIsFree(v)'
    <3>1. NoSplit.at \notin SplitAt
      BY DEF NoSplit, SplitAt
    <3>2. QED
      BY <2>4, <3>1 DEF LockIsFree
  <2>6. \A w \in Proc : (LockIsFree(w)' <=> LockIsFree(w)) /\ GivenBy(w)' = GivenBy(w)
    BY <2>2, <2>3, <2>4, <2>5 DEF LockIsFree, GivenBy
  <2>7. \A r \in Proc : Given(r)' <=> Given(r)
    BY <2>6 DEF Given
  <2>8. thieves' = Cardinality(Thieves')
    BY <2>1, <2>7, LoopSame DEF Thieves
  <2>9. QED
    BY <2>1, <2>6, <2>7, <2>8 DEF LoopInv
<1>4. CASE ReplySlice(v) \/ ReplyPiece(v)
  <2>1. UNCHANGED pc /\ split[v].at \in SplitAt
    BY <1>4 DEF ReplySlice, ReplyPiece, SplitAt
  <2>2. /\ ~LockIsFree(v) /\ split[v] \in SplitRecord
        /\ split[v].requests = Requests(v) /\ split[v].given = GivenBy(v)
        /\ split[v].requests \in SUBSET Proc /\ split[v].given \in SUBSET Proc
    BY <2>1, BusySplitter
  <2>3. PICK r \in Requests(v) :
           /\ thieves' = thieves + 1 /\ splittable' = [splittable EXCEPT ![r] = TRUE]
           /\ split'[v].given = split[v].given \cup {r} /\ split'[v].at \in SplitAt
           /\ \A w \in Proc : w # v => split'[w] = split[w]
    <3>1. CASE ReplySlice(v)
      <4>1. PICK r \in split[v].reply :
              /\ r \in Requests(v)
              /\ split' = [split EXCEPT ![v] = [split[v] EXCEPT !.reply = split[v].reply \ {r},
                                !.requests = split[v].requests \ {r},
                                !.given = split[v].given \cup {r}]]
              /\ Reply(v, r, Slice(r))
        BY <3>1, SliceReplied
      <4>2. split'[v] = [split[v] EXCEPT !.reply = split[v].reply \ {r},
                                !.requests = split[v].requests \ {r},
                                !.given = split[v].given \cup {r}]
            /\ \A w \in Proc : w # v => split'[w] = split[w]
        BY <1>1, <4>1 DEF Types
      <4>3. split'[v].given = split[v].given \cup {r} /\ split'[v].at = split[v].at
        BY <2>2, <4>2 DEF SplitRecord
      <4>4. QED
        BY <2>1, <4>1, <4>2, <4>3 DEF Reply
    <3>2. CASE ReplyPiece(v)
      <4>1. PICK r \in Requests(v) :
              /\ split' = [split EXCEPT ![v] = [split[v] EXCEPT
                                !.requests = split[v].requests \ {r},
                                !.given = split[v].given \cup {r},
                                !.nreq = split[v].nreq - 1,
                                !.last = split[v].last - split[v].unit]]
              /\ Reply(v, r, <<split[v].last - split[v].unit, split[v].last>>)
        BY <3>2, PieceReplied
      <4>2. split'[v] = [split[v] EXCEPT
                                !.requests = split[v].requests \ {r},
                                !.given = split[v].given \cup {r},
                                !.nreq = split[v].nreq - 1,
                                !.last = split[v].last - split[v].unit]
            /\ \A w \in Proc : w # v => split'[w] = split[w]
        BY <1>1, <4>1 DEF Types
      <4>3. split'[v].given = split[v].given \cup {r} /\ split'[v].at = split[v].at
        BY <2>2, <4>2 DEF SplitRecord
      <4>4. QED
        BY <2>1, <4>1, <4>2, <4>3 DEF Reply
    <3>3. QED
      BY <1>4, <3>1, <3>2
  <2>4. r \in Proc /\ pc[r] = "posted" /\ ~Given(r)
    BY <2>2 DEF CoreInv, AskInv, Asking, Given
  <2>5. ~LockIsFree(v)'
    <3>1. NoSplit.at \notin SplitAt
      BY DEF NoSplit, SplitAt
    <3>2. QED
      BY <2>3, <3>1 DEF LockIsFree
  <2>6. /\ \A w \in Proc : LockIsFree(w)' <=> LockIsFree(w)
        /\ \A w \in Proc : w # v => GivenBy(w)' = GivenBy(w)
        /\ GivenBy(v)' = GivenBy(v) \cup {r}
    BY <2>2, <2>3, <2>5 DEF LockIsFree, GivenBy
  <2>7. \A q \in Proc : Given(q)' <=> (Given(q) \/ q = r)
    BY <2>6 DEF Given
  <2>8. /\ thieves' = thieves + 1 /\ splittable' = [splittable EXCEPT ![r] = TRUE]
    BY <2>3
  <2>9. r # Starter
    BY <1>1, <2>4 DEF LoopInv
  <2>10. PICK S \in SUBSET Proc : S = Thieves
    BY DEF Thieves
  <2>11. PICK T \in SUBSET Proc : T = Thieves'
    BY DEF Thieves
  <2>12. r \notin S /\ T = S \cup {r}
    BY <2>1, <2>4, <2>7, <2>9, <2>10, <2>11 DEF Thieves
  <2>13. Cardinality(T) = Cardinality(S) + 1
    BY <2>4, <2>12, CountOfThieves
  <2>14. thieves' = Cardinality(Thieves')
    BY <2>8, <2>10, <2>11, <2>13 DEF LoopInv
  <2>15. pc[Starter] \notin {"waitdone", "over"}
    BY <2>2, NobodyLeft
  <2>16. QED
    BY <1>1, <2>1, <2>4, <2>6, <2>7, <2>8, <2>9, <2>14, <2>15 DEF LoopInv, Types
<1>5. ASSUME NEW r \in Proc, StartThief(v, r) PROVE LoopInv'
  <2>1. /\ UNCHANGED <<splittable, thieves>> /\ ~LockIsFree(v) /\ r \in GivenBy(v)
        /\ pc' = [pc EXCEPT ![r] = "test"]
        /\ split' = [split EXCEPT ![v] = [split[v] EXCEPT !.given = split[v].given \ {r}]]
    BY <1>5 DEF StartThief, GivenBy
  <2>2. split[v] \in SplitRecord
    BY <1>1, <2>1, SplitIsRecord
  <2>3. /\ split'[v] = [split[v] EXCEPT !.given = split[v].given \ {r}]
        /\ \A w \in Proc : w # v => split'[w] = split[w]
    BY <1>1, <2>1 DEF Types
  <2>4. split'[v].given = split[v].given \ {r} /\ split'[v].at \in SplitAt
    BY <2>2, <2>3 DEF SplitRecord
  <2>5. ~LockIsFree(v)'
    <3>1. NoSplit.at \notin SplitAt
      BY DEF NoSplit, SplitAt
    <3>2. QED
      BY <2>4, <3>1 DEF LockIsFree
  <2>6. /\ \A w \in Proc : LockIsFree(w)' <=> LockIsFree(w)
        /\ \A w \in Proc : w # v => GivenBy(w)' = GivenBy(w)
        /\ GivenBy(v)' = GivenBy(v) \ {r}
    BY <2>1, <2>3, <2>4, <2>5 DEF LockIsFree, GivenBy
  <2>7. /\ Given(r) /\ pc[r] = "posted" /\ \A w \in Proc : w # v => r \notin GivenBy(w)
    BY <1>5, <2>1 DEF Given, CoreInv, AskInv, Asking
  <2>8. \A q \in Proc : Given(q)' <=> (Given(q) /\ q # r)
    BY <2>6, <2>7 DEF Given
  <2>9. pc'[r] = "test" /\ \A q \in Proc : q # r => pc'[q] = pc[q]
    BY <1>1, <2>1 DEF Types
  <2>10. r # Starter
    BY <1>5, <2>7 DEF LoopInv
  <2>11. thieves' = Cardinality(Thieves')
    BY <2>1, <2>7, <2>8, <2>9, <2>10, LoopSame DEF Thieves
  <2>12. QED
    BY <1>1, <2>1, <2>6, <2>8, <2>9, <2>10, <2>11 DEF LoopInv, InLoop
<1>6. CASE EndSplit(v)
  <2>1. UNCHANGED <<splittable, thieves>> /\ split[v].at \in SplitAt
        /\ split' = [split EXCEPT ![v] = NoSplit]
    BY <1>6 DEF EndSplit, SplitAt
  <2>2. /\ ~LockIsFree(v) /\ split[v].requests = Requests(v) /\ split[v].given = GivenBy(v)
        /\ Requests(v) \subseteq Proc /\ GivenBy(v) \subseteq Proc
    BY <2>1, BusySplitter
  <2>3. pc' = [p \in Proc |-> IF p \in GivenBy(v) THEN "test"
                              ELSE IF p \in Requests(v) THEN "idle" ELSE pc[p]]
    BY <1>6, <2>2 DEF EndSplit
  <2>4. LockIsFree(v)' /\ \A w \in Proc : w # v => split'[w] = split[w]
    BY <1>1, <2>1 DEF Types, LockIsFree
  <2>5. /\ GivenBy(v)' = {}
        /\ \A w \in Proc : w # v => GivenBy(w)' = GivenBy(w) /\ (LockIsFree(w)' <=> LockIsFree(w))
    BY <2>4 DEF GivenBy, LockIsFree
  <2>6. \A q \in Proc : q \in Requests(v) => pc[q] = "posted" /\ ~Given(q)
    BY DEF CoreInv, AskInv, Asking, Given
  <2>7. \A q \in Proc : q \in GivenBy(v) =>
           Given(q) /\ pc[q] = "posted" /\ \A w \in Proc : w # v => q \notin GivenBy(w)
    BY DEF CoreInv, AskInv, Asking, Given
  <2>8. \A q \in Proc : Given(q)' <=> (Given(q) /\ q \notin GivenBy(v))
    BY <2>5, <2>7 DEF Given
  <2>9. \A q \in Proc : pc[q] = "posted" => q # Starter
    BY DEF LoopInv
  <2>10. \A r \in Proc : (r # Starter /\ (pc'[r] \notin {"idle", "posted"} \/ Given(r)')
                             <=> r \in Thieves)
    BY <2>3, <2>6, <2>7, <2>8, <2>9 DEF Thieves
  <2>11. thieves' = Cardinality(Thieves')
    BY <2>1, <2>10, LoopSame
  <2>12. QED
    BY <1>1, <2>1, <2>3, <2>4, <2>5, <2>6, <2>7, <2>8, <2>9, <2>11 DEF LoopInv, InLoop
<1>7. QED
  BY <1>2, <1>3, <1>4, <1>5, <1>6 DEF Splitter

LEMMA LoopNext ==
    ASSUME CoreInv, Starter = 0, CoreInv', LoopInv, [Next]_vars
    PROVE  LoopInv'
<1>1. CASE UNCHANGED vars
  <2>1. UNCHANGED <<pc, splittable, split, thieves>>
    BY <1>1 DEF vars, adaptive
  <2>2. \A p \in Proc : (LockIsFree(p)' <=> LockIsFree(p)) /\ (Given(p)' <=> Given(p))
    BY <2>1 DEF LockIsFree, Given, GivenBy
  <2>3. Thieves' = Thieves
    BY <2>1, <2>2 DEF Thieves
  <2>4. QED
    BY <2>1, <2>2, <2>3 DEF LoopInv
<1>2. QED
  BY <1>1, ParticipantLoop, SplitterLoop DEF Next

\* When kaapic_foreach_workend pops the frame that holds the global work, no
\* processor is in the loop or in a splitter: the count of thieves of the
\* adaptive task is exact, and its task is not splittable any more.
THEOREM FrameIsFree ==
    ASSUME Starter = 0
    PROVE  Spec => []FrameIsUnused
<1>1. Init => CoreInv /\ LoopInv
  BY CoreInit, LoopInit
<1>2. CoreInv /\ LoopInv /\ [Next]_vars => (CoreInv /\ LoopInv)'
  BY CoreNext, LoopNext
<1>3. CoreInv /\ LoopInv => FrameIsUnused
  BY NobodyLeft DEF FrameIsUnused
<1>4. QED
  BY <1>1, <1>2, <1>3, PTL DEF Spec

-------------------------------------------------------------------------------
(* Where the iterations are, and what is left to report.                   *)

Replied(v) == IF LockIsFree(v) THEN {} ELSE split[v].reply
SliceLeft(k) == k \in map \/ \E v \in Proc : k \in Replied(v)

\* The iterations of the slice, the queue, the piece and the splitter of p.
Within(b) == Iterations(b[1], b[2])
InSlice(k) == IF SliceLeft(k) THEN Within(Slice(k)) ELSE {}
InQueue(p) == Within(queue[p])
InPiece(p) == IF pc[p] \in {"recheck", "got"} THEN Within(piece[p]) ELSE {}
InSplit(v) ==
    IF split[v].at = "pieces"
    THEN Iterations(split[v].last - split[v].nreq * split[v].unit, split[v].last)
    ELSE {}

Place == {"slice", "queue", "piece", "split"} \X Proc
Contents ==
    [k \in Place |->
        CASE k[1] = "slice" -> InSlice(k[2])
          [] k[1] = "queue" -> InQueue(k[2])
          [] k[1] = "piece" -> InPiece(k[2])
          [] OTHER -> InSplit(k[2])]

\* C shares T out among the places, but for the part D of it that is done.
Partition(C, D, T) ==
    /\ \A k \in Place : C[k] \subseteq T \ D
    /\ \A k, l \in Place : k # l => C[k] \cap C[l] = {}
    /\ \A i \in T \ D : \E k \in Place : i \in C[k]

PlaceInv == Partition(Contents, started, Iterations(0, total))

QueueInv ==
    \A p \in Proc :
        pc[p] \notin {"test", "pop", "body"} /\ ~Given(p) => queue[p][1] >= queue[p][2]

PieceInv ==
    \A p \in Proc : pc[p] \in {"recheck", "got", "body"} => piece[p][1] < piece[p][2]

Ending ==
    {"leave", "return", "sync", "decrdone", "merge", "waitthieves", "waitdone", "over"}

CountInv ==
    /\ workdone \in [Proc -> Nat]
    /\ started \subseteq Iterations(0, total)
    /\ RemainIsExact

EndInv == \A p \in Proc : pc[p] \in Ending => workremain = 0

WorkInv == PlaceInv /\ QueueInv /\ PieceInv /\ CountInv /\ EndInv

-------------------------------------------------------------------------------
(* A step moves iterations from a place to another, or starts some.        *)

\* From C to E, the place a loses X and Y, and the place b gets Y.
Moves(C, E, a, b, X, Y) ==
    /\ a # b /\ X \subseteq C[a] /\ Y \subseteq C[a] /\ X \cap Y = {}
    /\ E[a] = C[a] \ (X \cup Y)
    /\ E[b] = C[b] \cup Y
    /\ \A k \in Place : k # a /\ k # b => E[k] = C[k]

LEMMA PartitionStep ==
    ASSUME NEW C, NEW E, NEW D, NEW T, Partition(C, D, T),
           NEW a \in Place, NEW b \in Place, NEW X, NEW Y, Moves(C, E, a, b, X, Y)
    PROVE  Partition(E, D \cup X, T)
<1> USE DEF Moves
<1>1. C[a] \subseteq T \ D /\ \A k \in Place : k # a => C[k] \cap C[a] = {}
  BY DEF Partition
<1>2. \A k \in Place : E[k] \subseteq C[k] \cup Y
  OBVIOUS
<1>3. \A k \in Place : E[k] \subseteq T \ (D \cup X)
  <2>1. E[a] \subseteq T \ (D \cup X)
    BY <1>1
  <2>2. \A k \in Place : k # a => E[k] \subseteq T \ (D \cup X)
    <3> SUFFICES ASSUME NEW k \in Place, k # a, NEW i \in E[k]
                 PROVE  i \in T \ (D \cup X)
      OBVIOUS
    <3>1. CASE i \in Y
      BY <3>1, <1>1
    <3>2. CASE i \notin Y
      <4>1. i \in C[k]
        BY <3>2, <1>2
      <4>2. C[k] \subseteq T \ D /\ i \notin C[a]
        BY <4>1, <1>1 DEF Partition
      <4>3. QED
        BY <4>1, <4>2
    <3>3. QED
      BY <3>1, <3>2
  <2>3. QED
    BY <2>1, <2>2
<1>4. \A k, l \in Place : k # l => E[k] \cap E[l] = {}
  <2>1. \A k \in Place : k # a => E[a] \cap E[k] = {}
    BY <1>1, <1>2
  <2>2. \A k \in Place : k # a /\ k # b => E[b] \cap E[k] = {}
    BY <1>1 DEF Partition
  <2>3. \A k, l \in Place : k # l /\ k \notin {a, b} /\ l \notin {a, b} => E[k] \cap E[l] = {}
    BY DEF Partition
  <2>4. QED
    BY <2>1, <2>2, <2>3
<1>5. \A i \in T \ (D \cup X) : \E k \in Place : i \in E[k]
  <2> SUFFICES ASSUME NEW i \in T \ (D \cup X) PROVE \E k \in Place : i \in E[k]
    OBVIOUS
  <2>1. PICK k \in Place : i \in C[k]
    BY DEF Partition
  <2>2. CASE i \in Y
    BY <2>2
  <2>3. CASE i \notin Y
    BY <2>1, <2>3
  <2>4. QED
    BY <2>2, <2>3
<1>6. QED
  BY <1>3, <1>4, <1>5 DEF Partition

LEMMA PartitionMove ==
    ASSUME NEW C, NEW E, NEW D, NEW T, Partition(C, D, T),
           NEW a \in Place, NEW b \in Place, a # b, NEW Y \in SUBSET C[a],
           E[a] = C[a] \ Y, E[b] = C[b] \cup Y,
           \A k \in Place : k # a /\ k # b => E[k] = C[k]
    PROVE  Partition(E, D, T)
<1>1. Moves(C, E, a, b, {}, Y)
  BY DEF Moves
<1>2. Partition(E, D \cup {}, T)
  BY <1>1, PartitionStep
<1>3. D \cup {} = D
  OBVIOUS
<1>4. QED
  BY <1>2, <1>3, Zenon

LEMMA PartitionSame ==
    ASSUME NEW C, NEW E, NEW D, NEW T, Partition(C, D, T),
           \A k \in Place : E[k] = C[k]
    PROVE  Partition(E, D, T)
BY DEF Partition

LEMMA PartitionStart ==
    ASSUME NEW C, NEW E, NEW D, NEW T, Partition(C, D, T),
           NEW a \in Place, NEW X \in SUBSET C[a], E[a] = C[a] \ X,
           \A k \in Place : k # a => E[k] = C[k]
    PROVE  Partition(E, D \cup X, T)
<1>1. CASE \E b \in Place : a # b
  <2>1. PICK b \in Place : a # b
    BY <1>1
  <2>2. Moves(C, E, a, b, X, {})
    BY <2>1 DEF Moves
  <2>3. QED
    BY <2>2, PartitionStep
<1>2. CASE \A b \in Place : a = b
  BY <1>2 DEF Partition
<1>3. QED
  BY <1>1, <1>2

-------------------------------------------------------------------------------
(* The count of the iterations that are not reported.                      *)

Pairs(f) == UNION {{p} \X (1 .. f[p]) : p \in Proc}

LEMMA ProductOfOne ==
    ASSUME NEW p, NEW n \in Nat
    PROVE  IsFiniteSet({p} \X (1 .. n)) /\ Cardinality({p} \X (1 .. n)) = n
<1>1. IsFiniteSet({p}) /\ Cardinality({p}) = 1
  BY FS_Singleton
<1>2. IsFiniteSet(1 .. n) /\ Cardinality(1 .. n) = n
  BY FS_Interval
<1>3. /\ IsFiniteSet({p} \X (1 .. n))
      /\ Cardinality({p} \X (1 .. n)) = Cardinality({p}) * Cardinality(1 .. n)
  BY <1>1, <1>2, FS_Product
<1>4. QED
  BY <1>1, <1>2, <1>3

LEMMA PairsAreFinite ==
    ASSUME NEW f \in [Proc -> Nat]
    PROVE  IsFiniteSet(Pairs(f)) /\ Cardinality(Pairs(f)) \in Nat
<1> DEFINE Column(p) == {p} \X (1 .. f[p])
           S == {Column(p) : p \in Proc}
           g == [p \in Proc |-> Column(p)]
<1>1. IsFiniteSet(S)
  <2>1. g \in Surjection(Proc, S)
    BY DEF Surjection
  <2>2. QED
    BY <2>1, ProcIsFinite, FS_Surjection
<1>2. \A T \in S : IsFiniteSet(T)
  <2>1. \A p \in Proc : f[p] \in Nat
    OBVIOUS
  <2>2. \A p \in Proc : IsFiniteSet(Column(p))
    BY <2>1, ProductOfOne
  <2>3. QED
    BY <2>2
<1>3. IsFiniteSet(UNION S)
  BY <1>1, <1>2, FS_UNION
<1>4. Pairs(f) = UNION S
  BY DEF Pairs
<1>5. QED
  BY <1>3, <1>4, FS_CardinalityType

LEMMA PairsChange ==
    ASSUME NEW f \in [Proc -> Nat], NEW p \in Proc, NEW n \in Nat
    PROVE  Cardinality(Pairs([f EXCEPT ![p] = n])) = (Cardinality(Pairs(f)) - f[p]) + n
<1> DEFINE g == [f EXCEPT ![p] = n]
           A == {p} \X (1 .. f[p])
           B == {p} \X (1 .. n)
           Rest == UNION {{q} \X (1 .. f[q]) : q \in Proc \ {p}}
<1>1. Pairs(f) = Rest \cup A /\ Rest \cap A = {}
  BY DEF Pairs
<1>2. Pairs(g) = Rest \cup B /\ Rest \cap B = {}
  <2>1. g[p] = n /\ \A q \in Proc \ {p} : g[q] = f[q]
    OBVIOUS
  <2> HIDE DEF g
  <2>2. QED
    BY <2>1 DEF Pairs
<1>3. f[p] \in Nat
  OBVIOUS
<1>4. /\ IsFiniteSet(A) /\ Cardinality(A) = f[p]
      /\ IsFiniteSet(B) /\ Cardinality(B) = n
  BY <1>3, ProductOfOne
<1> HIDE DEF A, B, Rest, g
<1>5. IsFiniteSet(Rest)
  <2>1. Rest \in SUBSET Pairs(f)
    BY <1>1
  <2>2. QED
    BY <2>1, PairsAreFinite, FS_Subset
<1>6. Cardinality({}) = 0 /\ Cardinality(Rest) \in Nat
  BY <1>5, FS_EmptySet, FS_CardinalityType
<1>7. ASSUME NEW T, IsFiniteSet(T), Rest \cap T = {}
      PROVE  Cardinality(Rest \cup T) = Cardinality(Rest) + Cardinality(T)
  <2>1. Cardinality(Rest \cup T) = Cardinality(Rest) + Cardinality(T) - Cardinality(Rest \cap T)
    BY <1>5, <1>7, FS_Union
  <2>2. Cardinality(Rest \cap T) = 0
    BY <1>6, <1>7, Zenon
  <2>3. Cardinality(T) \in Nat
    BY <1>7, FS_CardinalityType
  <2>4. QED
    BY <1>6, <2>1, <2>2, <2>3
<1>8. Cardinality(Pairs(f)) = Cardinality(Rest) + f[p]
  <2>1. Cardinality(Rest \cup A) = Cardinality(Rest) + Cardinality(A)
    BY <1>1, <1>4, <1>7
  <2>2. QED
    BY <1>1, <1>4, <2>1, Zenon
<1>9. Cardinality(Pairs(g)) = Cardinality(Rest) + n
  <2>1. Cardinality(Rest \cup B) = Cardinality(Rest) + Cardinality(B)
    BY <1>2, <1>4, <1>7
  <2>2. QED
    BY <1>2, <1>4, <2>1, Zenon
<1>10. QED
  BY <1>3, <1>6, <1>8, <1>9 DEF g

LEMMA NoPairs ==
    ASSUME NEW f \in [Proc -> Nat], Cardinality(Pairs(f)) = 0, NEW p \in Proc
    PROVE  f[p] = 0
<1>1. Pairs(f) = {}
  BY PairsAreFinite, FS_EmptySet
<1>2. f[p] \in Nat /\ (f[p] # 0 => 1 \in 1 .. f[p])
  OBVIOUS
<1>3. f[p] # 0 => <<p, 1>> \in Pairs(f)
  BY <1>2 DEF Pairs
<1>4. QED
  BY <1>1, <1>3

LEMMA IterationsAreFinite ==
    ASSUME NEW n \in Nat, NEW D
    PROVE  IsFiniteSet(Iterations(0, n) \ D) /\ Cardinality(Iterations(0, n) \ D) \in Nat
<1>1. IsFiniteSet(Iterations(0, n))
  BY FS_Interval DEF Iterations
<1>2. QED
  BY <1>1, FS_Difference, FS_CardinalityType

LEMMA SizeOfIterations ==
    ASSUME NEW a \in Int, NEW b \in Int, a <= b
    PROVE  IsFiniteSet(Iterations(a, b)) /\ Cardinality(Iterations(a, b)) = b - a
<1>1. b - 1 \in Int
  OBVIOUS
<1>2. /\ IsFiniteSet(a .. b - 1)
      /\ Cardinality(a .. b - 1) = IF a > b - 1 THEN 0 ELSE (b - 1) - a + 1
  BY <1>1, FS_Interval
<1>3. QED
  BY <1>2 DEF Iterations

LEMMA CountSame ==
    ASSUME CountInv, UNCHANGED <<total, workremain, workdone, started>>
    PROVE  CountInv'
BY DEF CountInv, RemainIsExact, NotReported

\* What p reports is taken out of the global count.
LEMMA CountReport ==
    ASSUME ShapeOK, CountInv, NEW p \in Proc, UNCHANGED <<total, started>>,
           workremain' = workremain - workdone[p], workdone' = [workdone EXCEPT ![p] = 0]
    PROVE  CountInv'
<1>1. workdone \in [Proc -> Nat] /\ workdone[p] \in Nat /\ workdone' \in [Proc -> Nat]
  BY DEF CountInv
<1>2. NotReported = Pairs(workdone) /\ NotReported' = Pairs(workdone')
  BY DEF NotReported, Pairs
<1>3. Cardinality(Pairs(workdone')) = (Cardinality(Pairs(workdone)) - workdone[p]) + 0
  BY <1>1, PairsChange
<1>4. Cardinality(Pairs(workdone)) \in Nat
  BY <1>1, PairsAreFinite
<1>5. Cardinality(Iterations(0, total) \ started) \in Nat
  BY IterationsAreFinite DEF ShapeOK
<1>6. workremain = Cardinality(Iterations(0, total) \ started) + Cardinality(Pairs(workdone))
  BY <1>2, Zenon DEF CountInv, RemainIsExact
<1>7. workremain' = Cardinality(Iterations(0, total) \ started) + Cardinality(Pairs(workdone'))
  BY <1>1, <1>3, <1>4, <1>5, <1>6
<1>8. Iterations(0, total)' = Iterations(0, total)
  BY DEF Iterations
<1>9. RemainIsExact'
  BY <1>2, <1>7, <1>8, Zenon DEF RemainIsExact
<1>10. QED
  BY <1>1, <1>8, <1>9 DEF CountInv

\* The iterations of a..b-1 are started by p.
LEMMA CountStart ==
    ASSUME ShapeOK, CountInv, NEW p \in Proc, UNCHANGED <<total, workremain>>,
           NEW a \in Int, NEW b \in Int, a <= b,
           Iterations(a, b) \subseteq Iterations(0, total) \ started,
           started' = started \cup Iterations(a, b),
           workdone' = [workdone EXCEPT ![p] = workdone[p] + (b - a)]
    PROVE  CountInv'
<1> DEFINE X == Iterations(a, b)
           Rest == Iterations(0, total) \ started
<1>1. /\ workdone \in [Proc -> Nat] /\ workdone[p] \in Nat /\ b - a \in Nat
      /\ workdone[p] + (b - a) \in Nat /\ workdone' \in [Proc -> Nat]
  BY DEF CountInv
<1>2. NotReported = Pairs(workdone) /\ NotReported' = Pairs(workdone')
  BY DEF NotReported, Pairs
<1>3. Cardinality(Pairs(workdone'))
        = (Cardinality(Pairs(workdone)) - workdone[p]) + (workdone[p] + (b - a))
  BY <1>1, PairsChange
<1>4. Cardinality(Pairs(workdone)) \in Nat
  BY <1>1, PairsAreFinite
<1>5. Cardinality(Rest) \in Nat /\ IsFiniteSet(Rest)
  <2>1. total \in Nat
    BY ConstantsAssumption DEF ShapeOK
  <2>2. QED
    BY <2>1, IterationsAreFinite
<1>6. workremain = Cardinality(Rest) + Cardinality(Pairs(workdone))
  BY <1>2, Zenon DEF CountInv, RemainIsExact
<1>7. Cardinality(X) = b - a
  BY SizeOfIterations
<1>8. X \subseteq Rest
  OBVIOUS
<1>9. Iterations(0, total)' = Iterations(0, total)
  BY DEF Iterations
<1>10. (Iterations(0, total) \ started)' = Rest \ X
  BY <1>9
<1>11. started' \subseteq Iterations(0, total)'
  BY <1>8, <1>9 DEF CountInv
<1> HIDE DEF X, Rest
<1>12. Rest \cap X = X
  BY <1>8
<1>13. Cardinality(Rest \ X) = Cardinality(Rest) - Cardinality(Rest \cap X)
  BY <1>5, FS_Difference
<1>14. Cardinality(Rest \ X) = Cardinality(Rest) - (b - a)
  <2>1. Cardinality(Rest \cap X) = b - a
    BY <1>7, <1>12, Zenon
  <2>2. QED
    BY <1>13, <2>1
<1>15. workremain = Cardinality(Rest \ X) + Cardinality(Pairs(workdone'))
  BY <1>1, <1>3, <1>4, <1>5, <1>6, <1>14
<1>16. RemainIsExact'
  BY <1>2, <1>10, <1>15, Zenon DEF RemainIsExact
<1>17. QED
  BY <1>1, <1>11, <1>16 DEF CountInv

\* workremain is 0 only when all is started and reported.
LEMMA NothingRemains ==
    ASSUME ShapeOK, CountInv, workremain = 0
    PROVE  Iterations(0, total) \ started = {} /\ \A p \in Proc : workdone[p] = 0
<1>1. NotReported = Pairs(workdone) /\ workdone \in [Proc -> Nat]
  BY DEF NotReported, Pairs, CountInv
<1>2. Cardinality(Pairs(workdone)) \in Nat
  BY <1>1, PairsAreFinite
<1>3. /\ IsFiniteSet(Iterations(0, total) \ started)
      /\ Cardinality(Iterations(0, total) \ started) \in Nat
  BY IterationsAreFinite DEF ShapeOK
<1>4. workremain = Cardinality(Iterations(0, total) \ started) + Cardinality(Pairs(workdone))
  BY <1>1, Zenon DEF CountInv, RemainIsExact
<1>5. Cardinality(Iterations(0, total) \ started) = 0 /\ Cardinality(Pairs(workdone)) = 0
  BY <1>2, <1>3, <1>4
<1>6. Iterations(0, total) \ started = {}
  BY <1>3, <1>5, FS_EmptySet
<1>7. QED
  BY <1>1, <1>5, <1>6, NoPairs

LEMMA NothingWaits ==
    ASSUME ShapeOK, WorkInv, workremain = 0, NEW p \in Proc
    PROVE  InQueue(p) = {} /\ InPiece(p) = {}
<1>1. \A k \in Place : Contents[k] \subseteq Iterations(0, total) \ started
  BY DEF WorkInv, PlaceInv, Partition
<1>2. \A k \in Place : Contents[k] = {}
  BY <1>1, NothingRemains DEF WorkInv
<1>3. <<"queue", p>> \in Place /\ <<"piece", p>> \in Place
  BY DEF Place
<1>4. Contents[<<"queue", p>>] = InQueue(p) /\ Contents[<<"piece", p>>] = InPiece(p)
  BY <1>3 DEF Contents
<1>5. QED
  BY <1>2, <1>3, <1>4

-------------------------------------------------------------------------------
(* What each place holds.                                                  *)

LEMMA ContentsOf ==
    ASSUME NEW p \in Proc
    PROVE  /\ <<"slice", p>> \in Place /\ Contents[<<"slice", p>>] = InSlice(p)
           /\ <<"queue", p>> \in Place /\ Contents[<<"queue", p>>] = InQueue(p)
           /\ <<"piece", p>> \in Place /\ Contents[<<"piece", p>>] = InPiece(p)
           /\ <<"split", p>> \in Place /\ Contents[<<"split", p>>] = InSplit(p)
<1>1. /\ <<"slice", p>> \in Place /\ <<"queue", p>> \in Place
      /\ <<"piece", p>> \in Place /\ <<"split", p>> \in Place
  BY DEF Place
<1>2. QED
  BY <1>1 DEF Contents

LEMMA ContentsOfNext ==
    ASSUME NEW p \in Proc
    PROVE  /\ Contents'[<<"slice", p>>] = InSlice(p)'
           /\ Contents'[<<"queue", p>>] = InQueue(p)'
           /\ Contents'[<<"piece", p>>] = InPiece(p)'
           /\ Contents'[<<"split", p>>] = InSplit(p)'
BY DEF Contents, Place

LEMMA PlacesAre ==
    \A k \in Place : \E p \in Proc :
        k \in {<<"slice", p>>, <<"queue", p>>, <<"piece", p>>, <<"split", p>>}
BY DEF Place

\* The steps that leave the iterations where they are.
LEMMA ContentsSame ==
    ASSUME \A p \in Proc : /\ InSlice(p)' = InSlice(p) /\ InQueue(p)' = InQueue(p)
                           /\ InPiece(p)' = InPiece(p) /\ InSplit(p)' = InSplit(p),
           PlaceInv, UNCHANGED <<total, started>>
    PROVE  PlaceInv'
<1>1. \A k \in Place : Contents'[k] = Contents[k]
  <2>1. ASSUME NEW p \in Proc
        PROVE  /\ Contents'[<<"slice", p>>] = Contents[<<"slice", p>>]
               /\ Contents'[<<"queue", p>>] = Contents[<<"queue", p>>]
               /\ Contents'[<<"piece", p>>] = Contents[<<"piece", p>>]
               /\ Contents'[<<"split", p>>] = Contents[<<"split", p>>]
    BY <2>1, ContentsOf, ContentsOfNext
  <2>2. QED
    BY <2>1, PlacesAre
<1>2. QED
  BY <1>1, PartitionSame DEF PlaceInv, Iterations

LEMMA EmptyWithin ==
    ASSUME NEW b \in Bounds
    PROVE  Within(b) = {} <=> b[1] >= b[2]
<1>1. b[1] \in Int /\ b[2] \in Int
  BY BoundsFacts
<1>2. b[1] < b[2] => b[1] \in Within(b)
  BY <1>1 DEF Within, Iterations
<1>3. b[1] >= b[2] => Within(b) = {}
  BY <1>1 DEF Within, Iterations
<1>4. QED
  BY <1>1, <1>2, <1>3

-------------------------------------------------------------------------------
(* The steps of a processor that move no iteration.                        *)

LEMMA OthersStay ==
    ASSUME Types, NEW p \in Proc, Participant(p)
    PROVE  /\ UNCHANGED split
           /\ \A r \in Proc : r # p => pc'[r] = pc[r] /\ piece'[r] = piece[r]
           /\ \A r \in Proc : Given(r)' <=> Given(r)
           /\ \A v \in Proc : Replied(v)' = Replied(v) /\ InSplit(v)' = InSplit(v)
<1> USE DEF shape, global, lwork, locals, adaptive, Goto
<1>1. UNCHANGED split
  BY DEF Participant, Work, TestRemain, Pop, PopEmpty, BodyEnds, SubRemain, NextWork,
     FindSlice, PopSlice, CheckSlice, PopAny, NoneRemains, Select, Steal, RunPiece, Refill,
     Finish, Leave, UnsetSplittable, Synchronize, DecrDone, Merge, WaitThieves, WaitDone
<1>2. \A r \in Proc : r # p => pc'[r] = pc[r]
  BY DEF Types, Participant, Work, TestRemain, Pop, PopEmpty, BodyEnds, SubRemain,
     NextWork, FindSlice, PopSlice, CheckSlice, PopAny, TakeSlice, NoneRemains, Select, Steal, RunPiece,
     Refill, CallBody, Finish, Leave, UnsetSplittable, Synchronize, DecrDone, Merge,
     WaitThieves, WaitDone
<1>3. \A r \in Proc : r # p => piece'[r] = piece[r]
  BY DEF Types, Participant, Work, TestRemain, Pop, PopEmpty, BodyEnds, SubRemain,
     NextWork, FindSlice, PopSlice, CheckSlice, PopAny, TakeSlice, NoneRemains, Select, Steal, RunPiece,
     Refill, CallBody, Finish, Leave, UnsetSplittable, Synchronize, DecrDone, Merge,
     WaitThieves, WaitDone
<1>4. QED
  BY <1>1, <1>2, <1>3 DEF Given, GivenBy, Replied, LockIsFree, InSplit

LEMMA SliceStays ==
    ASSUME Next, NEW k, SliceLeft(k)' <=> SliceLeft(k)
    PROVE  InSlice(k)' = InSlice(k)
<1>1. startindex' = startindex
  BY ShapeIsConstant
<1>2. Slice(k)' = Slice(k)
  BY <1>1 DEF Slice
<1>3. QED
  BY <1>2 DEF InSlice, Within, Iterations

LEMMA QuietStep ==
    ASSUME CoreInv, WorkInv, Next, NEW p \in Proc, Participant(p),
           UNCHANGED <<map, queue, started>>,
           pc[p] \notin {"recheck", "got"}, pc'[p] \notin {"recheck", "got", "body"},
           \/ pc'[p] \in {"test", "pop"}
           \/ pc[p] \notin {"test", "pop", "body"} /\ ~Given(p)
           \/ queue[p][1] >= queue[p][2],
           pc'[p] \in Ending => workremain = 0,
           \/ UNCHANGED <<workremain, workdone>>
           \/ /\ workremain' = workremain - workdone[p]
              /\ workdone' = [workdone EXCEPT ![p] = 0]
    PROVE  WorkInv'
<1>1. /\ UNCHANGED split
      /\ \A r \in Proc : r # p => pc'[r] = pc[r] /\ piece'[r] = piece[r]
      /\ \A r \in Proc : Given(r)' <=> Given(r)
      /\ \A v \in Proc : Replied(v)' = Replied(v) /\ InSplit(v)' = InSplit(v)
  BY OthersStay DEF CoreInv
<1>2. UNCHANGED total /\ ShapeOK /\ CountInv
  BY ShapeIsConstant DEF shape, CoreInv, Types, WorkInv
<1>3. PlaceInv'
  <2>1. ASSUME NEW r \in Proc
        PROVE  /\ InSlice(r)' = InSlice(r) /\ InQueue(r)' = InQueue(r)
               /\ InPiece(r)' = InPiece(r) /\ InSplit(r)' = InSplit(r)
    <3>1. SliceLeft(r)' <=> SliceLeft(r)
      BY <1>1 DEF SliceLeft
    <3>2. InSlice(r)' = InSlice(r)
      BY <3>1, SliceStays
    <3>3. InQueue(r)' = InQueue(r)
      BY DEF InQueue, Within, Iterations
    <3>4. InPiece(r)' = InPiece(r)
      BY <1>1 DEF InPiece, Within, Iterations
    <3>5. QED
      BY <1>1, <3>2, <3>3, <3>4
  <2>2. QED
    BY <1>2, <2>1, ContentsSame DEF WorkInv
<1>4. QueueInv'
  BY <1>1 DEF WorkInv, QueueInv
<1>5. PieceInv'
  BY <1>1 DEF WorkInv, PieceInv
<1>6. CountInv'
  BY <1>2, CountSame, CountReport
<1>7. workremain = 0 => workremain' = 0
  BY <1>2, NothingRemains
<1>8. EndInv'
  BY <1>1, <1>7 DEF WorkInv, EndInv
<1>9. QED
  BY <1>3, <1>4, <1>5, <1>6, <1>8 DEF WorkInv

LEMMA QueueIsEmpty ==
    ASSUME CoreInv, WorkInv, NEW p \in Proc, workremain = 0 \/ Size(queue[p]) <= 0
    PROVE  queue[p][1] >= queue[p][2]
<1>1. ShapeOK /\ queue[p] \in Bounds
  BY DEF CoreInv, Types
<1>2. queue[p][1] \in Int /\ queue[p][2] \in Int
  BY <1>1, BoundsFacts
<1>3. CASE workremain = 0
  <2>1. Within(queue[p]) = {}
    BY <1>1, <1>3, NothingWaits DEF InQueue
  <2>2. QED
    BY <1>1, <2>1, EmptyWithin
<1>4. CASE Size(queue[p]) <= 0
  BY <1>2, <1>4 DEF Size
<1>5. QED
  BY <1>3, <1>4

LEMMA OwnQueue ==
    ASSUME CoreInv, NEW p \in Proc, pc[p] # "posted"
    PROVE  ~Given(p)
BY GivenIsPosted

LEMMA QuietWork ==
    ASSUME CoreInv, WorkInv, Next, NEW p \in Proc,
           \/ TestRemain(p) \/ PopEmpty(p) \/ BodyEnds(p) \/ SubRemain(p) \/ NextWork(p)
           \/ FindSlice(p) \/ NoneRemains(p) \/ Select(p)
    PROVE  WorkInv'
<1> USE DEF shape, global, lwork, locals, adaptive, Goto, Ending
<1>1. Participant(p) /\ pc \in [Proc -> Locations]
  BY DEF Participant, Work, CoreInv, Types
<1>2. UNCHANGED <<map, queue, started>>
  BY DEF TestRemain, PopEmpty, BodyEnds, SubRemain, NextWork, FindSlice, NoneRemains, Select
<1>3. CASE TestRemain(p)
  <2>1. /\ pc[p] = "test" /\ UNCHANGED <<workremain, workdone>>
        /\ pc'[p] = IF workremain = 0 THEN "leave" ELSE "pop"
    BY <1>1, <1>3 DEF TestRemain
  <2>2. pc'[p] = "pop" \/ queue[p][1] >= queue[p][2]
    BY <2>1, QueueIsEmpty
  <2>3. QED
    BY <1>1, <1>2, <2>1, <2>2, QuietStep
<1>4. CASE PopEmpty(p)
  <2>1. /\ pc[p] = "pop" /\ pc'[p] = "sub" /\ UNCHANGED <<workremain, workdone>>
        /\ Size(queue[p]) <= 0
    BY <1>1, <1>4 DEF PopEmpty
  <2>2. queue[p][1] >= queue[p][2]
    BY <2>1, QueueIsEmpty
  <2>3. QED
    BY <1>1, <1>2, <2>1, <2>2, QuietStep
<1>5. CASE BodyEnds(p)
  <2>1. pc[p] = "body" /\ pc'[p] = "test" /\ UNCHANGED <<workremain, workdone>>
    BY <1>1, <1>5 DEF BodyEnds
  <2>2. QED
    BY <1>1, <1>2, <2>1, QuietStep
<1>6. CASE SubRemain(p)
  <2>1. /\ pc[p] = "sub" /\ pc'[p] = "next" /\ workremain' = workremain - workdone[p]
        /\ workdone' = [workdone EXCEPT ![p] = 0]
    BY <1>1, <1>6 DEF SubRemain
  <2>2. ~Given(p)
    BY <2>1, OwnQueue
  <2>3. QED
    BY <1>1, <1>2, <2>1, <2>2, QuietStep
<1>7. CASE NextWork(p) \/ FindSlice(p) \/ NoneRemains(p) \/ Select(p)
  <2>1. /\ pc[p] \in {"next", "first1", "select"} /\ UNCHANGED <<workremain, workdone>>
        /\ pc'[p] \in {"leave", "first1", "select", "unset", "next", "steal"}
        /\ pc'[p] = "leave" => workremain = 0
    BY <1>1, <1>7 DEF NextWork, FindSlice, NoneRemains, Select
  <2>2. ~Given(p)
    BY <2>1, OwnQueue
  <2>3. QED
    BY <1>1, <1>2, <2>1, <2>2, QuietStep
<1>8. QED
  BY <1>3, <1>4, <1>5, <1>6, <1>7

LEMMA QuietFinish ==
    ASSUME CoreInv, WorkInv, Next, NEW p \in Proc,
           Finish(p) \/ (p = Starter /\ (WaitThieves \/ WaitDone))
    PROVE  WorkInv'
<1> USE DEF shape, global, lwork, locals, adaptive, Goto
<1>1. Participant(p) /\ pc \in [Proc -> Locations]
  BY DEF Participant, CoreInv, Types
<1>2. UNCHANGED <<map, queue, started>>
  BY DEF Finish, Leave, UnsetSplittable, Synchronize, DecrDone, Merge, WaitThieves, WaitDone
<1>3. pc[p] \in Ending /\ pc'[p] \notin {"test", "pop", "recheck", "got", "body"}
  BY <1>1 DEF Finish, Leave, UnsetSplittable, Synchronize, DecrDone, Merge, WaitThieves,
     WaitDone, Ending
<1>4. workremain = 0
  BY <1>3 DEF WorkInv, EndInv
<1>5. \/ UNCHANGED <<workremain, workdone>>
      \/ /\ workremain' = workremain - workdone[p]
         /\ workdone' = [workdone EXCEPT ![p] = 0]
  BY DEF Finish, Leave, UnsetSplittable, Synchronize, DecrDone, Merge, WaitThieves, WaitDone
<1>6. queue[p][1] >= queue[p][2]
  BY <1>4, QueueIsEmpty
<1>7. QED
  BY <1>1, <1>2, <1>3, <1>4, <1>5, <1>6, QuietStep DEF Ending

-------------------------------------------------------------------------------
(* The steps of a processor that take some iterations.                     *)

LEMMA FailedTake ==
    ASSUME CoreInv, WorkInv, Next, NEW p \in Proc,
           PopSlice(p) \/ PopAny(p) \/ Steal(p), UNCHANGED <<map, queue, piece>>,
           pc'[p] \in {"popany", "select"}
    PROVE  WorkInv'
<1>1. Participant(p)
  BY DEF Participant, Work
<1>2. /\ pc[p] \in {"unset", "popany", "steal"}
      /\ UNCHANGED <<workremain, workdone, started>>
  BY DEF PopSlice, PopAny, Steal, lwork, global
<1>3. ~Given(p)
  BY <1>2, OwnQueue
<1>4. QED
  BY <1>1, <1>2, <1>3, QuietStep DEF Ending

LEMMA CutIterations ==
    ASSUME NEW a \in Int, NEW m \in Int, NEW b \in Int, a <= m, m <= b
    PROVE  /\ Iterations(a, m) \subseteq Iterations(a, b)
           /\ Iterations(m, b) \subseteq Iterations(a, b)
           /\ Iterations(a, m) \cap Iterations(m, b) = {}
           /\ Iterations(a, m) = Iterations(a, b) \ Iterations(m, b)
           /\ Iterations(m, b) = Iterations(a, b) \ Iterations(a, m)
           /\ {} = Iterations(a, b) \ (Iterations(a, m) \cup Iterations(m, b))
BY DEF Iterations

LEMMA SliceIsNotEmpty ==
    ASSUME ShapeOK, NEW k \in 0 .. Slices - 1
    PROVE  Slice(k) \in Bounds /\ Slice(k)[1] < Slice(k)[2]
<1>1. Slice(k)[1] = startindex[k] /\ Slice(k)[2] = startindex[k + 1]
  BY DEF Slice
<1>2. QED
  BY <1>1, SlicesInOrder, SlicesAreBounds

LEMMA SlicesAreProc ==
    ASSUME ShapeOK
    PROVE  \A k \in 0 .. Slices - 1 : k \in Proc
BY SlicesRange, ConstantsAssumption DEF Proc

LEMMA ReplyIsOf ==
    ASSUME CoreInv, NEW v \in Proc
    PROVE  Replied(v) \subseteq Requests(v) /\ Replied(v) \cap map = {}
BY DEF CoreInv, SplitInv, Replied, Requests

\* The places of the processors, but for a and b, hold the same in C and in E.
SameBut(a, b, C, E) ==
    \A r \in Proc :
        /\ <<"slice", r>> \notin {a, b} => E[<<"slice", r>>] = C[<<"slice", r>>]
        /\ <<"queue", r>> \notin {a, b} => E[<<"queue", r>>] = C[<<"queue", r>>]
        /\ <<"piece", r>> \notin {a, b} => E[<<"piece", r>>] = C[<<"piece", r>>]
        /\ <<"split", r>> \notin {a, b} => E[<<"split", r>>] = C[<<"split", r>>]

LEMMA OtherPlaces ==
    ASSUME NEW a, NEW b, NEW C, NEW E, SameBut(a, b, C, E)
    PROVE  \A l \in Place : l # a /\ l # b => E[l] = C[l]
<1> SUFFICES ASSUME NEW l \in Place, l # a, l # b PROVE E[l] = C[l]
  OBVIOUS
<1>1. PICK r \in Proc :
        l \in {<<"slice", r>>, <<"queue", r>>, <<"piece", r>>, <<"split", r>>}
  BY PlacesAre
<1>2. QED
  BY <1>1 DEF SameBut

LEMMA PlaceStep ==
    ASSUME PlaceInv, UNCHANGED total, NEW a \in Place, NEW b \in Place, NEW X, NEW Y,
           Moves(Contents, Contents', a, b, X, Y), started' = started \cup X
    PROVE  PlaceInv'
BY PartitionStep DEF PlaceInv, Iterations

LEMMA TakenSlice ==
    ASSUME CoreInv, WorkInv, Next, NEW p \in Proc, Participant(p),
           pc[p] \in {"unset", "popany"}, NEW k \in map,
           NEW to \in {"recheck", "got"}, TakeSlice(p, k, to),
           UNCHANGED <<workremain, workdone, queue, started>>
    PROVE  WorkInv'
<1>1. /\ UNCHANGED split
      /\ \A r \in Proc : r # p => pc'[r] = pc[r] /\ piece'[r] = piece[r]
      /\ \A r \in Proc : Given(r)' <=> Given(r)
      /\ \A v \in Proc : Replied(v)' = Replied(v) /\ InSplit(v)' = InSplit(v)
  BY OthersStay DEF CoreInv
<1>2. UNCHANGED total /\ ShapeOK /\ CountInv /\ Slices \in Nat
  BY ShapeIsConstant, SlicesRange, ConstantsAssumption DEF shape, CoreInv, Types, WorkInv
<1>3. /\ map' = map \ {k} /\ pc'[p] = to /\ piece'[p] = Slice(k)
  BY DEF TakeSlice, CoreInv, Types
<1>4. k \in 0 .. Slices - 1 /\ k \in Proc
  BY <1>2, SlicesAreProc DEF CoreInv, Types
<1>5. Slice(k) \in Bounds /\ Slice(k)[1] < Slice(k)[2]
  BY <1>2, <1>4, SliceIsNotEmpty
<1>6. ~Given(p)
  BY OwnQueue
<1>7. PlaceInv'
  <2> DEFINE a == <<"slice", k>>
             b == <<"piece", p>>
             Y == Within(Slice(k))
  <2>1. SliceLeft(k) /\ ~SliceLeft(k)'
    BY <1>1, <1>3, ReplyIsOf DEF SliceLeft
  <2>2. Contents[a] = Y /\ Contents'[a] = {}
    BY <1>4, <2>1, ContentsOf, ContentsOfNext DEF InSlice
  <2>3. Contents[b] = {} /\ Contents'[b] = Y
    <3>1. InPiece(p) = {} /\ InPiece(p)' = Y
      BY <1>3 DEF InPiece, Within, Iterations
    <3>2. QED
      BY <3>1, ContentsOf, ContentsOfNext
  <2>4. \A r \in Proc : r # k => Contents'[<<"slice", r>>] = Contents[<<"slice", r>>]
    <3>1. \A r \in Proc : r # k => (SliceLeft(r)' <=> SliceLeft(r))
      BY <1>1, <1>3 DEF SliceLeft
    <3>2. \A r \in Proc : r # k => InSlice(r)' = InSlice(r)
      BY <3>1, SliceStays
    <3>3. QED
      BY <3>2, ContentsOf, ContentsOfNext
  <2>5. \A r \in Proc : r # p => Contents'[<<"piece", r>>] = Contents[<<"piece", r>>]
    <3>1. \A r \in Proc : r # p => InPiece(r)' = InPiece(r)
      BY <1>1 DEF InPiece, Within, Iterations
    <3>2. QED
      BY <3>1, ContentsOf, ContentsOfNext
  <2>6. \A r \in Proc : /\ Contents'[<<"queue", r>>] = Contents[<<"queue", r>>]
                        /\ Contents'[<<"split", r>>] = Contents[<<"split", r>>]
    <3>1. \A r \in Proc : InQueue(r)' = InQueue(r)
      BY DEF InQueue, Within, Iterations
    <3>2. QED
      BY <1>1, <3>1, ContentsOf, ContentsOfNext
  <2>7. a \in Place /\ b \in Place /\ a # b
    BY <1>4 DEF Place
  <2>8. \A l \in Place : l # a /\ l # b => Contents'[l] = Contents[l]
    <3>1. SameBut(a, b, Contents, Contents')
      BY <2>4, <2>5, <2>6 DEF SameBut
    <3>2. QED
      BY <3>1, OtherPlaces
  <2> HIDE DEF a, b, Y
  <2>9. Moves(Contents, Contents', a, b, {}, Y) /\ started' = started \cup {}
    BY <2>2, <2>3, <2>7, <2>8 DEF Moves
  <2>10. QED
    BY <1>2, <2>7, <2>9, PlaceStep DEF WorkInv
<1>8. QueueInv'
  BY <1>1, <1>3, <1>6 DEF WorkInv, QueueInv
<1>9. PieceInv'
  BY <1>1, <1>3, <1>5 DEF WorkInv, PieceInv
<1>10. CountInv'
  BY <1>2, CountSame
<1>11. EndInv'
  BY <1>1, <1>3 DEF WorkInv, EndInv, Ending
<1>12. QED
  BY <1>7, <1>8, <1>9, <1>10, <1>11 DEF WorkInv

LEMMA SliceWork ==
    ASSUME CoreInv, WorkInv, Next, NEW p \in Proc, PopSlice(p) \/ PopAny(p)
    PROVE  WorkInv'
<1>1. Participant(p) /\ pc[p] \in {"unset", "popany"}
      /\ UNCHANGED <<workremain, workdone, queue, started>>
  BY DEF Participant, Work, PopSlice, PopAny, lwork
<1>2. map # {} => Min(map) \in map
  <2>1. Slices \in Nat
    BY SlicesRange, ConstantsAssumption DEF CoreInv, Types
  <2>2. map \subseteq Nat
    BY <2>1 DEF CoreInv, Types
  <2>3. QED
    BY <2>2, MinIsMember
<1>3. \/ \E k \in map, to \in {"recheck", "got"} : TakeSlice(p, k, to)
      \/ pc'[p] \in {"popany", "select"} /\ UNCHANGED <<map, queue, piece>>
  BY <1>1, <1>2 DEF PopSlice, PopAny, CoreInv, Types
<1>4. QED
  BY <1>1, <1>3, TakenSlice, FailedTake

\* A slice is not forgotten: as long as it waits, something remains.
LEMMA SliceIsKept ==
    ASSUME CoreInv, WorkInv, NEW p \in Proc, CheckSlice(p)
    PROVE  pc[p] = "recheck" /\ pc' = [pc EXCEPT ![p] = "got"] /\ UNCHANGED piece
<1>1. pc[p] = "recheck" /\ ShapeOK /\ piece[p] \in Bounds
  BY DEF CheckSlice, Goto, CoreInv, Types
<1>2. InPiece(p) # {}
  BY <1>1, EmptyWithin, BoundsFacts DEF InPiece, WorkInv, PieceInv
<1>3. workremain # 0
  BY <1>1, <1>2, NothingWaits
<1>4. QED
  BY <1>1, <1>3 DEF CheckSlice, Goto

LEMMA CheckWork ==
    ASSUME CoreInv, WorkInv, Next, NEW p \in Proc, CheckSlice(p)
    PROVE  WorkInv'
<1>1. Participant(p) /\ UNCHANGED <<map, queue, started, workremain, workdone>>
  BY DEF Participant, Work, CheckSlice, global, lwork
<1>2. pc[p] = "recheck" /\ pc' = [pc EXCEPT ![p] = "got"] /\ UNCHANGED piece
  BY SliceIsKept
<1>3. /\ \A r \in Proc : r # p => pc'[r] = pc[r]
      /\ pc'[p] = "got"
  BY <1>2 DEF CoreInv, Types
<1>4. /\ \A r \in Proc : Given(r)' <=> Given(r)
      /\ \A v \in Proc : Replied(v)' = Replied(v) /\ InSplit(v)' = InSplit(v)
  BY <1>1, OthersStay DEF CoreInv
<1>5. UNCHANGED total /\ ShapeOK /\ CountInv
  BY ShapeIsConstant DEF shape, CoreInv, Types, WorkInv
<1>6. PlaceInv'
  <2>1. ASSUME NEW r \in Proc
        PROVE  /\ InSlice(r)' = InSlice(r) /\ InQueue(r)' = InQueue(r)
               /\ InPiece(r)' = InPiece(r) /\ InSplit(r)' = InSplit(r)
    <3>1. SliceLeft(r)' <=> SliceLeft(r)
      BY <1>1, <1>4 DEF SliceLeft
    <3>2. InSlice(r)' = InSlice(r)
      BY <3>1, SliceStays
    <3>3. InQueue(r)' = InQueue(r)
      BY <1>1 DEF InQueue, Within, Iterations
    <3>4. InPiece(r)' = InPiece(r)
      BY <1>2, <1>3 DEF InPiece, Within, Iterations
    <3>5. QED
      BY <1>4, <3>2, <3>3, <3>4
  <2>2. QED
    BY <1>1, <1>5, <2>1, ContentsSame DEF WorkInv
<1>7. QueueInv'
  BY <1>1, <1>2, <1>3, <1>4 DEF WorkInv, QueueInv
<1>8. PieceInv' /\ EndInv'
  BY <1>1, <1>2, <1>3 DEF WorkInv, PieceInv, EndInv, Ending
<1>9. CountInv'
  BY <1>1, <1>5, CountSame
<1>10. QED
  BY <1>6, <1>7, <1>8, <1>9 DEF WorkInv

LEMMA StealWork ==
    ASSUME CoreInv, WorkInv, Next, NEW p \in Proc, Steal(p)
    PROVE  WorkInv'
<1>1. /\ UNCHANGED split
      /\ \A r \in Proc : r # p => pc'[r] = pc[r] /\ piece'[r] = piece[r]
      /\ \A r \in Proc : Given(r)' <=> Given(r)
      /\ \A r \in Proc : Replied(r)' = Replied(r) /\ InSplit(r)' = InSplit(r)
  BY OthersStay DEF CoreInv, Participant, Work
<1>2. UNCHANGED total /\ ShapeOK /\ CountInv
  BY ShapeIsConstant DEF shape, CoreInv, Types, WorkInv
<1>3. PICK v \in Proc, unit \in Int :
         v = aim[p][1] /\ unit = aim[p][2] /\ unit >= 1 /\ pc[p] = "steal"
  <2>1. pc[p] = "steal" /\ aim[p] \in Bounds
    BY DEF Steal, CoreInv, Types
  <2>2. QED
    BY <2>1, BoundsFacts DEF CoreInv, AimInv
<1>4. UNCHANGED <<workremain, workdone, map, started>>
  BY DEF Steal, shape, global
<1>5. ~Given(p)
  BY <1>3, OwnQueue
<1>6. CASE pc'[p] = "select" /\ UNCHANGED <<queue, piece>>
  BY <1>4, <1>6, FailedTake
<1>7. CASE /\ Size(queue[v]) >= unit
           /\ queue' = [queue EXCEPT ![v][2] = @ - unit]
           /\ piece' = [piece EXCEPT ![p] = <<queue[v][2] - unit, queue[v][2]>>]
           /\ pc' = [pc EXCEPT ![p] = "got"]
  <2> DEFINE beg == queue[v][1]
             end == queue[v][2]
             middle == end - unit
  <2>1. queue[v] \in Bounds
    BY <1>3 DEF CoreInv, Types
  <2>2. /\ beg \in Int /\ end \in Int /\ middle \in Int
        /\ queue[v] = <<beg, end>> /\ [queue[v] EXCEPT ![2] = middle] = <<beg, middle>>
    BY <1>3, <2>1, BoundsFacts
  <2>3. beg <= middle /\ middle < end /\ middle <= end
    BY <1>3, <1>7, <2>2 DEF Size
  <2>4. /\ queue'[v] = <<beg, middle>> /\ piece'[p] = <<middle, end>> /\ pc'[p] = "got"
        /\ \A r \in Proc : r # v => queue'[r] = queue[r]
    BY <1>3, <1>7, <2>2 DEF CoreInv, Types
  <2> HIDE DEF beg, end, middle
  <2>5. PlaceInv'
    <3> DEFINE a == <<"queue", v>>
               b == <<"piece", p>>
               Y == Iterations(middle, end)
    <3>1. Contents[a] = Iterations(beg, end) /\ Contents'[a] = Iterations(beg, middle)
      <4>1. InQueue(v) = Iterations(beg, end) /\ InQueue(v)' = Iterations(beg, middle)
        BY <2>2, <2>4 DEF InQueue, Within, Iterations
      <4>2. QED
        BY <1>3, <4>1, ContentsOf, ContentsOfNext
    <3>2. Contents[b] = {} /\ Contents'[b] = Y
      <4>1. InPiece(p) = {} /\ InPiece(p)' = Y
        BY <1>3, <2>4 DEF InPiece, Within, Iterations
      <4>2. QED
        BY <4>1, ContentsOf, ContentsOfNext
    <3>3. \A r \in Proc : r # v => Contents'[<<"queue", r>>] = Contents[<<"queue", r>>]
      <4>1. \A r \in Proc : r # v => InQueue(r)' = InQueue(r)
        BY <2>4 DEF InQueue, Within, Iterations
      <4>2. QED
        BY <4>1, ContentsOf, ContentsOfNext
    <3>4. \A r \in Proc : r # p => Contents'[<<"piece", r>>] = Contents[<<"piece", r>>]
      <4>1. \A r \in Proc : r # p => InPiece(r)' = InPiece(r)
        BY <1>1 DEF InPiece, Within, Iterations
      <4>2. QED
        BY <4>1, ContentsOf, ContentsOfNext
    <3>5. \A r \in Proc : /\ Contents'[<<"slice", r>>] = Contents[<<"slice", r>>]
                          /\ Contents'[<<"split", r>>] = Contents[<<"split", r>>]
      <4>1. \A r \in Proc : SliceLeft(r)' <=> SliceLeft(r)
        BY <1>1, <1>4 DEF SliceLeft
      <4>2. \A r \in Proc : InSlice(r)' = InSlice(r)
        BY <4>1, SliceStays
      <4>3. QED
        BY <1>1, <4>2, ContentsOf, ContentsOfNext
    <3>6. a \in Place /\ b \in Place /\ a # b
      BY <1>3 DEF Place
    <3>7. \A l \in Place : l # a /\ l # b => Contents'[l] = Contents[l]
      <4>1. SameBut(a, b, Contents, Contents')
        BY <3>3, <3>4, <3>5 DEF SameBut
      <4>2. QED
        BY <4>1, OtherPlaces
    <3>8. Y \subseteq Iterations(beg, end)
          /\ Iterations(beg, middle) = Iterations(beg, end) \ Y
      BY <2>2, <2>3, CutIterations
    <3> HIDE DEF a, b, Y
    <3>9. Moves(Contents, Contents', a, b, {}, Y) /\ started' = started \cup {}
      BY <1>4, <3>1, <3>2, <3>6, <3>7, <3>8 DEF Moves
    <3>10. QED
      BY <1>2, <3>6, <3>9, PlaceStep DEF WorkInv
  <2>6. QueueInv'
    <3>1. pc[v] \in {"test", "pop", "body"} \/ Given(v)
      BY <1>3, <2>2, <2>3 DEF WorkInv, QueueInv
    <3>2. v # p
      BY <1>3, <1>5, <3>1
    <3>3. QED
      BY <1>1, <1>3, <1>5, <2>4, <3>1, <3>2 DEF WorkInv, QueueInv
  <2>7. PieceInv'
    BY <1>1, <2>3, <2>4 DEF WorkInv, PieceInv
  <2>8. CountInv'
    BY <1>2, <1>4, CountSame
  <2>9. EndInv'
    BY <1>1, <1>4, <2>4 DEF WorkInv, EndInv, Ending
  <2>10. QED
    BY <2>5, <2>6, <2>7, <2>8, <2>9 DEF WorkInv
<1>8. QED
  BY <1>3, <1>6, <1>7 DEF Steal, CoreInv, Types

-------------------------------------------------------------------------------
(* The calls of the body.                                                  *)

LEMMA StartStep ==
    ASSUME CoreInv, WorkInv, Next, NEW p \in Proc, Participant(p), UNCHANGED workremain,
           NEW beg \in Int, NEW end \in Int, beg < end, CallBody(p, <<beg, end>>),
           \A r \in Proc : r # p => queue'[r] = queue[r],
           NEW k \in Place, Iterations(beg, end) \subseteq Contents[k],
           PlaceInv'
    PROVE  WorkInv'
<1>1. /\ \A r \in Proc : r # p => pc'[r] = pc[r] /\ piece'[r] = piece[r]
      /\ \A r \in Proc : Given(r)' <=> Given(r)
  BY OthersStay DEF CoreInv
<1>2. UNCHANGED total /\ ShapeOK /\ CountInv
  BY ShapeIsConstant DEF shape, CoreInv, Types, WorkInv
<1>3. /\ pc'[p] = "body" /\ piece'[p] = <<beg, end>>
      /\ workdone' = [workdone EXCEPT ![p] = workdone[p] + (end - beg)]
      /\ started' = started \cup Iterations(beg, end)
  BY DEF CallBody, CoreInv, Types, Size
<1>4. QueueInv'
  BY <1>1, <1>3 DEF WorkInv, QueueInv
<1>5. PieceInv'
  BY <1>1, <1>3 DEF WorkInv, PieceInv
<1>6. Iterations(beg, end) \subseteq Iterations(0, total) \ started
  BY DEF WorkInv, PlaceInv, Partition
<1>7. CountInv'
  <2>1. beg <= end
    OBVIOUS
  <2>2. QED
    BY <1>2, <1>3, <1>6, <2>1, CountStart
<1>8. EndInv'
  BY <1>1, <1>3 DEF WorkInv, EndInv, Ending
<1>9. QED
  BY <1>4, <1>5, <1>7, <1>8 DEF WorkInv

\* What does not change when p calls the body.
LEMMA StartFrame ==
    ASSUME CoreInv, Next, NEW p \in Proc, Participant(p), UNCHANGED map,
           \A r \in Proc : r # p => queue'[r] = queue[r]
    PROVE  \A r \in Proc :
             /\ Contents'[<<"slice", r>>] = Contents[<<"slice", r>>]
             /\ r # p => Contents'[<<"queue", r>>] = Contents[<<"queue", r>>]
             /\ r # p => Contents'[<<"piece", r>>] = Contents[<<"piece", r>>]
             /\ Contents'[<<"split", r>>] = Contents[<<"split", r>>]
<1>1. /\ \A r \in Proc : r # p => pc'[r] = pc[r] /\ piece'[r] = piece[r]
      /\ \A r \in Proc : Replied(r)' = Replied(r) /\ InSplit(r)' = InSplit(r)
  BY OthersStay DEF CoreInv
<1>2. \A r \in Proc : SliceLeft(r)' <=> SliceLeft(r)
  BY <1>1 DEF SliceLeft
<1>3. \A r \in Proc : InSlice(r)' = InSlice(r)
  BY <1>2, SliceStays
<1>4. \A r \in Proc : r # p => InQueue(r)' = InQueue(r)
  BY DEF InQueue, Within, Iterations
<1>5. \A r \in Proc : r # p => InPiece(r)' = InPiece(r)
  BY <1>1 DEF InPiece, Within, Iterations
<1>6. QED
  <2> SUFFICES ASSUME NEW r \in Proc
               PROVE  /\ Contents'[<<"slice", r>>] = Contents[<<"slice", r>>]
                      /\ r # p => Contents'[<<"queue", r>>] = Contents[<<"queue", r>>]
                      /\ r # p => Contents'[<<"piece", r>>] = Contents[<<"piece", r>>]
                      /\ Contents'[<<"split", r>>] = Contents[<<"split", r>>]
    OBVIOUS
  <2>1. /\ Contents'[<<"slice", r>>] = InSlice(r)' /\ Contents'[<<"queue", r>>] = InQueue(r)'
        /\ Contents'[<<"piece", r>>] = InPiece(r)' /\ Contents'[<<"split", r>>] = InSplit(r)'
    BY ContentsOfNext
  <2>2. /\ Contents[<<"slice", r>>] = InSlice(r) /\ Contents[<<"queue", r>>] = InQueue(r)
        /\ Contents[<<"piece", r>>] = InPiece(r) /\ Contents[<<"split", r>>] = InSplit(r)
    BY ContentsOf
  <2>3. QED
    BY <1>1, <1>3, <1>4, <1>5, <2>1, <2>2, Zenon

LEMMA PopWork ==
    ASSUME CoreInv, WorkInv, Next, NEW p \in Proc, Pop(p)
    PROVE  WorkInv'
<1>1. Participant(p) /\ pc[p] = "pop" /\ UNCHANGED <<workremain, map>>
  BY DEF Participant, Work, Pop, global
<1>2. UNCHANGED total /\ ShapeOK
  BY ShapeIsConstant DEF shape, CoreInv, Types
<1>3. queue[p] \in Bounds
  BY DEF CoreInv, Types
<1>4. PICK beg \in Int, end \in Int, next \in Int :
        /\ beg = queue[p][1] /\ end = queue[p][2] /\ next = Min({beg + SeqGrain, end})
        /\ beg < next /\ beg <= next /\ next <= end
  <2>1. queue[p][1] \in Int /\ queue[p][2] \in Int /\ queue[p][2] - queue[p][1] > 0
    BY <1>3, BoundsFacts DEF Pop, Size
  <2>2. queue[p][1] + SeqGrain \in Int /\ queue[p][1] < queue[p][1] + SeqGrain
    BY <2>1, ConstantsAssumption
  <2> DEFINE m == Min({queue[p][1] + SeqGrain, queue[p][2]})
  <2>3. m \in Int /\ queue[p][1] < m /\ queue[p][1] <= m /\ m <= queue[p][2]
    BY <2>1, <2>2, MinOfTwo
  <2> HIDE DEF m
  <2>4. QED
    BY <2>1, <2>3 DEF m
<1>5. CallBody(p, <<beg, next>>) /\ queue' = [queue EXCEPT ![p][1] = next]
  BY <1>4 DEF Pop
<1>6. queue[p] = <<beg, end>> /\ [queue[p] EXCEPT ![1] = next] = <<next, end>>
  BY <1>3, <1>4, BoundsFacts
<1>7. queue'[p] = <<next, end>> /\ \A r \in Proc : r # p => queue'[r] = queue[r]
  BY <1>5, <1>6 DEF CoreInv, Types
<1>8. /\ Iterations(beg, next) \subseteq Iterations(beg, end)
      /\ Iterations(next, end) = Iterations(beg, end) \ Iterations(beg, next)
  <2>1. beg <= next /\ next <= end
    BY <1>4
  <2>2. QED
    BY <2>1, CutIterations
<1>9. /\ pc'[p] = "body" /\ started' = started \cup Iterations(beg, next)
  BY <1>5 DEF CallBody, CoreInv, Types
<1> DEFINE a == <<"queue", p>>
           X == Iterations(beg, next)
<1>10. Contents[a] = Iterations(beg, end) /\ Contents'[a] = Contents[a] \ X
  <2>1. InQueue(p) = Iterations(beg, end) /\ InQueue(p)' = Iterations(next, end)
    BY <1>6, <1>7 DEF InQueue, Within, Iterations
  <2>2. QED
    BY <1>8, <2>1, ContentsOf, ContentsOfNext
<1>11. \A r \in Proc : Contents'[<<"piece", r>>] = Contents[<<"piece", r>>]
  <2>1. InPiece(p)' = InPiece(p)
    BY <1>1, <1>9 DEF InPiece
  <2>2. QED
    BY <1>1, <1>7, <2>1, StartFrame, ContentsOf, ContentsOfNext
<1>12. \A l \in Place : l # a => Contents'[l] = Contents[l]
  <2>1. SameBut(a, a, Contents, Contents')
    BY <1>1, <1>7, <1>11, StartFrame DEF SameBut
  <2>2. QED
    BY <2>1, OtherPlaces
<1>13. a \in Place
  BY DEF Place
<1> HIDE DEF a, X
<1>14. X \subseteq Contents[a]
  BY <1>8, <1>10 DEF X
<1>15. PlaceInv'
  <2>1. Partition(Contents', started \cup X, Iterations(0, total))
    BY <1>10, <1>12, <1>13, <1>14, PartitionStart DEF WorkInv, PlaceInv
  <2>2. QED
    BY <1>2, <1>9, <2>1 DEF PlaceInv, Iterations, X
<1>16. QED
  BY <1>1, <1>4, <1>5, <1>7, <1>13, <1>14, <1>15, StartStep DEF X

LEMMA PieceWork ==
    ASSUME CoreInv, WorkInv, Next, NEW p \in Proc, RunPiece(p)
    PROVE  WorkInv'
<1>1. Participant(p) /\ pc[p] = "got" /\ UNCHANGED <<workremain, map, queue>>
      /\ CallBody(p, piece[p])
  BY DEF Participant, Work, RunPiece, global
<1>2. UNCHANGED total /\ ShapeOK
  BY ShapeIsConstant DEF shape, CoreInv, Types
<1>3. piece[p] \in Bounds
  BY DEF CoreInv, Types
<1>4. PICK beg \in Int, end \in Int : piece[p] = <<beg, end>> /\ beg < end
  BY <1>1, <1>3, BoundsFacts DEF WorkInv, PieceInv
<1>5. CallBody(p, <<beg, end>>)
  BY <1>1, <1>4
<1>6. /\ pc'[p] = "body" /\ started' = started \cup Iterations(beg, end)
  BY <1>5 DEF CallBody, CoreInv, Types
<1> DEFINE a == <<"piece", p>>
           X == Iterations(beg, end)
<1>7. Contents[a] = X /\ Contents'[a] = {}
  <2>1. InPiece(p) = X /\ InPiece(p)' = {}
    BY <1>1, <1>4, <1>6 DEF InPiece, Within
  <2>2. QED
    BY <2>1, ContentsOf, ContentsOfNext
<1>8. \A r \in Proc : Contents'[<<"queue", r>>] = Contents[<<"queue", r>>]
  <2>1. InQueue(p)' = InQueue(p)
    BY <1>1 DEF InQueue, Within, Iterations
  <2>2. QED
    BY <1>1, <2>1, StartFrame, ContentsOf, ContentsOfNext
<1>9. \A l \in Place : l # a => Contents'[l] = Contents[l]
  <2>1. SameBut(a, a, Contents, Contents')
    BY <1>1, <1>8, StartFrame DEF SameBut
  <2>2. QED
    BY <2>1, OtherPlaces
<1>10. a \in Place
  BY DEF Place
<1> HIDE DEF a, X
<1>11. X \subseteq Contents[a] /\ Contents'[a] = Contents[a] \ X
  BY <1>7
<1>12. PlaceInv'
  <2>1. Partition(Contents', started \cup X, Iterations(0, total))
    BY <1>9, <1>10, <1>11, PartitionStart DEF WorkInv, PlaceInv
  <2>2. QED
    BY <1>2, <1>6, <2>1 DEF PlaceInv, Iterations, X
<1>13. QED
  BY <1>1, <1>4, <1>5, <1>10, <1>11, <1>12, StartStep DEF X

LEMMA RefillWork ==
    ASSUME CoreInv, WorkInv, Next, NEW p \in Proc, Refill(p)
    PROVE  WorkInv'
<1>1. Participant(p) /\ pc[p] = "got" /\ UNCHANGED <<workremain, map>>
  BY DEF Participant, Work, Refill, global
<1>2. UNCHANGED total /\ ShapeOK
  BY ShapeIsConstant DEF shape, CoreInv, Types
<1>3. piece[p] \in Bounds /\ queue[p] \in Bounds
  BY DEF CoreInv, Types
<1>4. PICK beg \in Int, end \in Int, middle \in Int :
        /\ piece[p] = <<beg, end>> /\ middle = beg + SeqGrain
        /\ beg < middle /\ beg <= middle /\ middle <= end
  <2>1. piece[p][1] \in Int /\ piece[p][2] \in Int /\ piece[p][2] - piece[p][1] > SeqGrain
        /\ piece[p] = <<piece[p][1], piece[p][2]>>
    BY <1>3, BoundsFacts DEF Refill, Size
  <2>2. piece[p][1] + SeqGrain \in Int /\ piece[p][1] < piece[p][1] + SeqGrain
        /\ piece[p][1] <= piece[p][1] + SeqGrain
        /\ piece[p][1] + SeqGrain <= piece[p][2]
    BY <2>1, ConstantsAssumption
  <2>3. QED
    BY <2>1, <2>2
<1>5. CallBody(p, <<beg, middle>>) /\ queue' = [queue EXCEPT ![p] = <<middle, end>>]
  BY <1>4 DEF Refill
<1>6. queue'[p] = <<middle, end>> /\ \A r \in Proc : r # p => queue'[r] = queue[r]
  BY <1>5 DEF CoreInv, Types
<1>7. InQueue(p) = {}
  <2>1. ~Given(p)
    BY <1>1, OwnQueue
  <2>2. queue[p][1] >= queue[p][2]
    BY <1>1, <2>1 DEF WorkInv, QueueInv
  <2>3. QED
    BY <1>3, <2>2, EmptyWithin DEF InQueue
<1>8. /\ pc'[p] = "body" /\ started' = started \cup Iterations(beg, middle)
  BY <1>5 DEF CallBody, CoreInv, Types
<1> DEFINE a == <<"piece", p>>
           b == <<"queue", p>>
           X == Iterations(beg, middle)
           Y == Iterations(middle, end)
<1>9. /\ X \subseteq Iterations(beg, end) /\ Y \subseteq Iterations(beg, end)
      /\ X \cap Y = {} /\ {} = Iterations(beg, end) \ (X \cup Y)
  BY <1>4, CutIterations
<1>10. Contents[a] = Iterations(beg, end) /\ Contents'[a] = {}
  <2>1. InPiece(p) = Iterations(beg, end) /\ InPiece(p)' = {}
    BY <1>1, <1>4, <1>8 DEF InPiece, Within
  <2>2. QED
    BY <2>1, ContentsOf, ContentsOfNext
<1>11. Contents[b] = {} /\ Contents'[b] = Y
  <2>1. InQueue(p)' = Y
    BY <1>6 DEF InQueue, Within, Iterations
  <2>2. QED
    BY <1>7, <2>1, ContentsOf, ContentsOfNext
<1>12. \A l \in Place : l # a /\ l # b => Contents'[l] = Contents[l]
  <2>1. SameBut(a, b, Contents, Contents')
    BY <1>1, <1>6, StartFrame DEF SameBut
  <2>2. QED
    BY <2>1, OtherPlaces
<1>13. a \in Place /\ b \in Place /\ a # b
  BY DEF Place
<1> HIDE DEF a, b, X, Y
<1>14. Moves(Contents, Contents', a, b, X, Y) /\ X \subseteq Contents[a]
  BY <1>9, <1>10, <1>11, <1>12, <1>13 DEF Moves
<1>15. PlaceInv'
  BY <1>2, <1>8, <1>13, <1>14, PlaceStep DEF WorkInv, X
<1>16. QED
  BY <1>1, <1>4, <1>5, <1>6, <1>13, <1>14, <1>15, StartStep DEF X

LEMMA ParticipantWork ==
    ASSUME CoreInv, WorkInv, Next, NEW p \in Proc, Participant(p)
    PROVE  WorkInv'
BY QuietWork, QuietFinish, SliceWork, CheckWork, StealWork, PopWork, PieceWork, RefillWork
   DEF Participant, Work

-------------------------------------------------------------------------------
(* The steps of a splitter.                                                *)

LEMMA QuietSplit ==
    ASSUME CoreInv, WorkInv, Next,
           UNCHANGED <<workremain, workdone, started, queue, piece>>,
           \A k \in Proc : SliceLeft(k)' <=> SliceLeft(k),
           \A w \in Proc : InSplit(w)' = InSplit(w),
           \A r \in Proc : \/ pc'[r] = pc[r]
                           \/ /\ pc[r] \in {"idle", "posted"}
                              /\ pc'[r] \in {"idle", "posted", "test"},
           \A r \in Proc : Given(r) => Given(r)' \/ pc'[r] = "test"
    PROVE  WorkInv'
<1>1. UNCHANGED total /\ ShapeOK /\ CountInv
  BY ShapeIsConstant DEF shape, CoreInv, Types, WorkInv
<1>2. PlaceInv'
  <2>1. ASSUME NEW r \in Proc
        PROVE  /\ InSlice(r)' = InSlice(r) /\ InQueue(r)' = InQueue(r)
               /\ InPiece(r)' = InPiece(r) /\ InSplit(r)' = InSplit(r)
    <3>1. InSlice(r)' = InSlice(r)
      BY SliceStays
    <3>2. InQueue(r)' = InQueue(r)
      BY DEF InQueue, Within, Iterations
    <3>3. pc'[r] \in {"recheck", "got"} <=> pc[r] \in {"recheck", "got"}
      OBVIOUS
    <3>4. InPiece(r)' = InPiece(r)
      BY <3>3 DEF InPiece, Within, Iterations
    <3>5. QED
      BY <3>1, <3>2, <3>4
  <2>2. QED
    BY <1>1, <2>1, ContentsSame DEF WorkInv
<1>3. QueueInv'
  <2> SUFFICES ASSUME NEW r \in Proc, pc'[r] \notin {"test", "pop", "body"}, ~Given(r)'
               PROVE  queue'[r][1] >= queue'[r][2]
    BY DEF QueueInv
  <2>1. pc[r] \notin {"test", "pop", "body"} /\ ~Given(r)
    OBVIOUS
  <2>2. QED
    BY <2>1 DEF WorkInv, QueueInv
<1>4. PieceInv'
  BY DEF WorkInv, PieceInv
<1>5. CountInv'
  BY <1>1, CountSame
<1>6. EndInv'
  BY DEF WorkInv, EndInv, Ending
<1>7. QED
  BY <1>2, <1>3, <1>4, <1>5, <1>6 DEF WorkInv

LEMMA OtherSplitters ==
    ASSUME Types, NEW v \in Proc, NEW s \in SplitRecord,
           split' = [split EXCEPT ![v] = s]
    PROVE  /\ \A w \in Proc : w # v => /\ Replied(w)' = Replied(w)
                                       /\ InSplit(w)' = InSplit(w)
                                       /\ GivenBy(w)' = GivenBy(w)
           /\ Replied(v)' = s.reply /\ GivenBy(v)' = s.given
           /\ InSplit(v)' = IF s.at = "pieces"
                            THEN Iterations(s.last - s.nreq * s.unit, s.last) ELSE {}
<1>1. /\ split'[v] = s /\ ~LockIsFree(v)' /\ GivenBy(v)' = s.given
      /\ \A w \in Proc : w # v =>
           /\ split'[w] = split[w] /\ (LockIsFree(w)' <=> LockIsFree(w))
           /\ GivenBy(w)' = GivenBy(w)
  BY SplitUpdate
<1>2. Replied(v)' = s.reply /\ \A w \in Proc : w # v => Replied(w)' = Replied(w)
  BY <1>1 DEF Replied
<1>3. \A w \in Proc : w # v => InSplit(w)' = InSplit(w)
  BY <1>1 DEF InSplit, Iterations
<1>4. InSplit(v)' = IF s.at = "pieces"
                    THEN Iterations(s.last - s.nreq * s.unit, s.last) ELSE {}
  BY <1>1 DEF InSplit, Iterations
<1>5. QED
  BY <1>1, <1>2, <1>3, <1>4

\* A splitter that replies to nobody and takes nothing.
LEMMA IdleSplitter ==
    ASSUME CoreInv, WorkInv, Next, NEW v \in Proc, NEW s \in SplitRecord,
           split' = [split EXCEPT ![v] = s], ~LockIsFree(v), s.given = split[v].given,
           split[v].at # "pieces", s.at # "pieces",
           UNCHANGED <<pc, workremain, workdone, started, queue, piece>>,
           \A k \in Proc : k \in map' \/ k \in s.reply <=> k \in map \/ k \in split[v].reply
    PROVE  WorkInv'
<1>1. Types
  BY DEF CoreInv
<1>2. Replied(v) = split[v].reply /\ GivenBy(v) = split[v].given /\ InSplit(v) = {}
  BY DEF Replied, GivenBy, InSplit
<1>3. /\ \A w \in Proc : w # v => /\ Replied(w)' = Replied(w) /\ InSplit(w)' = InSplit(w)
                                  /\ GivenBy(w)' = GivenBy(w)
      /\ Replied(v)' = s.reply /\ GivenBy(v)' = s.given /\ InSplit(v)' = {}
  BY <1>1, OtherSplitters
<1>4. \A k \in Proc : SliceLeft(k)' <=> SliceLeft(k)
  BY <1>2, <1>3 DEF SliceLeft
<1>5. \A w \in Proc : InSplit(w)' = InSplit(w)
  BY <1>2, <1>3
<1>6. \A r \in Proc : Given(r)' <=> Given(r)
  BY <1>2, <1>3 DEF Given
<1>7. QED
  BY <1>4, <1>5, <1>6, QuietSplit

LEMMA NextSplitter ==
    ASSUME Types, Types', NEW v \in Proc, split'[v].at \in SplitAt,
           \A w \in Proc : w # v => split'[w] = split[w]
    PROVE  \E s \in SplitRecord : s = split'[v] /\ split' = [split EXCEPT ![v] = s]
<1>1. NoSplit.at \notin SplitAt
  BY DEF NoSplit, SplitAt
<1>2. split'[v] \in SplitRecord \cup {NoSplit}
  BY DEF Types
<1>3. split'[v] \in SplitRecord
  BY <1>1, <1>2
<1>4. split' = [split EXCEPT ![v] = split'[v]]
  BY DEF Types
<1>5. QED
  BY <1>3, <1>4

LEMMA IdleSplitterWork ==
    ASSUME CoreInv, CoreInv', WorkInv, Next, NEW v \in Proc,
           \/ EnterSplit(v) \/ ClearSlices(v) \/ SlicesReplied(v) \/ SizeLocal(v)
           \/ TakeLocal(v) /\ split'[v].at = "end"
    PROVE  WorkInv'
<1> USE DEF shape, global, lwork, locals, adaptive
<1>1. Types /\ Types' /\ SplitInv
  BY DEF CoreInv
<1>2. split[v].at \in SplitAt /\ split[v].at # "pieces"
  BY DEF EnterSplit, ClearSlices, SlicesReplied, SizeLocal, TakeLocal, SplitAt
<1>3. ~LockIsFree(v) /\ split[v] \in SplitRecord
  BY <1>2, BusySplitter
<1>4. \A w \in Proc : w # v => split'[w] = split[w]
  BY <1>1 DEF EnterSplit, ClearSlices, SlicesReplied, SizeLocal, TakeLocal, Types
<1>5. /\ split'[v].given = split[v].given
      /\ split'[v].at \in SplitAt /\ split'[v].at # "pieces"
  BY <1>1, <1>3 DEF EnterSplit, ClearSlices, SlicesReplied, SizeLocal, TakeLocal,
     Types, SplitRecord, SplitAt
<1>6. UNCHANGED <<pc, workremain, workdone, started, piece>>
  BY DEF EnterSplit, ClearSlices, SlicesReplied, SizeLocal, TakeLocal
<1>7. UNCHANGED queue
  <2>1. CASE TakeLocal(v) /\ split'[v].at = "end"
    <3>1. ~(Size(queue[v]) >= split[v].nreq * split[v].unit)
      <4>1. Size(queue[v]) >= split[v].nreq * split[v].unit => split'[v].at = "pieces"
        BY <1>1, <1>3, <2>1 DEF TakeLocal, Types, SplitRecord
      <4>2. QED
        BY <2>1, <4>1
    <3>2. queue' = [queue EXCEPT ![v] = [queue[v] EXCEPT ![2] = queue[v][2]]]
      BY <2>1, <3>1 DEF TakeLocal
    <3>3. queue[v] \in Bounds
      BY <1>1 DEF Types
    <3>4. [queue[v] EXCEPT ![2] = queue[v][2]] = queue[v]
      BY <3>3, BoundsFacts
    <3>5. QED
      BY <1>1, <3>2, <3>4 DEF Types
  <2>2. QED
    BY <2>1 DEF EnterSplit, ClearSlices, SlicesReplied, SizeLocal
<1>8. \A k \in Proc : k \in map' \/ k \in split'[v].reply <=> k \in map \/ k \in split[v].reply
  <2>1. CASE ClearSlices(v)
    <3>1. split[v].reply = {}
      BY <1>1, <1>3, <2>1 DEF SplitInv, ClearSlices
    <3>2. /\ split'[v].reply = map \cap Mask(split[v].requests)
          /\ map' = map \ Mask(split[v].requests)
      BY <1>1, <1>3, <2>1 DEF ClearSlices, Types, SplitRecord
    <3>3. QED
      BY <3>1, <3>2
  <2>2. CASE ~ClearSlices(v)
    <3>1. split'[v].reply = split[v].reply /\ map' = map
      BY <1>1, <1>3, <2>2 DEF EnterSplit, SlicesReplied, SizeLocal, TakeLocal,
         Types, SplitRecord
    <3>2. QED
      BY <3>1
  <2>3. QED
    BY <2>1, <2>2
<1>9. PICK s \in SplitRecord : s = split'[v] /\ split' = [split EXCEPT ![v] = s]
  BY <1>1, <1>4, <1>5, NextSplitter
<1>10. QED
  BY <1>2, <1>3, <1>5, <1>6, <1>7, <1>8, <1>9, IdleSplitter

LEMMA BeginSplitWork ==
    ASSUME CoreInv, WorkInv, Next, NEW v \in Proc, BeginSplit(v)
    PROVE  WorkInv'
<1>1. UNCHANGED <<map, workremain, workdone, started, queue, piece>>
  BY DEF BeginSplit, global, lwork, locals
<1>2. PICK R \in SUBSET {p \in Proc : pc[p] = "idle"}, s \in SplitRecord :
              /\ split' = [split EXCEPT ![v] = s] /\ LockIsFree(v)
              /\ s.at = "enter" /\ s.requests = R /\ s.given = {} /\ s.reply = {}
              /\ pc' = [p \in Proc |-> IF p \in R THEN "posted" ELSE pc[p]]
  BY NewSplit
<1>3. /\ \A w \in Proc : w # v => /\ Replied(w)' = Replied(w) /\ InSplit(w)' = InSplit(w)
                                  /\ GivenBy(w)' = GivenBy(w)
      /\ Replied(v)' = {} /\ GivenBy(v)' = {} /\ InSplit(v)' = {}
  BY <1>2, OtherSplitters DEF CoreInv
<1>4. Replied(v) = {} /\ GivenBy(v) = {} /\ InSplit(v) = {}
  BY <1>2 DEF Replied, GivenBy, InSplit, LockIsFree, NoSplit
<1>5. \A k \in Proc : SliceLeft(k)' <=> SliceLeft(k)
  BY <1>1, <1>3, <1>4 DEF SliceLeft
<1>6. \A w \in Proc : InSplit(w)' = InSplit(w)
  BY <1>3, <1>4
<1>7. \A r \in Proc : Given(r)' <=> Given(r)
  BY <1>3, <1>4 DEF Given
<1>8. \A r \in Proc : pc'[r] = pc[r] \/ (pc[r] = "idle" /\ pc'[r] = "posted")
  <2> SUFFICES ASSUME NEW r \in Proc
               PROVE  pc'[r] = pc[r] \/ (pc[r] = "idle" /\ pc'[r] = "posted")
    OBVIOUS
  <2>1. pc'[r] = IF r \in R THEN "posted" ELSE pc[r]
    BY <1>2
  <2>2. r \in R => pc[r] = "idle"
    BY <1>2
  <2>3. QED
    BY <2>1, <2>2
<1>9. QED
  BY <1>1, <1>5, <1>6, <1>7, <1>8, QuietSplit

LEMMA StartThiefWork ==
    ASSUME CoreInv, WorkInv, Next, NEW v \in Proc, NEW r \in Proc, StartThief(v, r)
    PROVE  WorkInv'
<1>1. /\ UNCHANGED <<map, workremain, workdone, started, queue, piece>>
      /\ ~LockIsFree(v) /\ r \in split[v].given /\ pc' = [pc EXCEPT ![r] = "test"]
      /\ split' = [split EXCEPT ![v] = [split[v] EXCEPT !.given = split[v].given \ {r}]]
  BY DEF StartThief, global, lwork, locals
<1>2. split[v] \in SplitRecord
  BY <1>1, SplitIsRecord DEF CoreInv
<1> DEFINE s == [split[v] EXCEPT !.given = split[v].given \ {r}]
<1>3. /\ s \in SplitRecord /\ s.at = split[v].at /\ s.reply = split[v].reply
      /\ s.given = split[v].given \ {r}
      /\ s.nreq = split[v].nreq /\ s.unit = split[v].unit /\ s.last = split[v].last
  BY <1>2 DEF SplitRecord
<1>4. split' = [split EXCEPT ![v] = s]
  BY <1>1
<1> HIDE DEF s
<1>5. /\ \A w \in Proc : w # v => /\ Replied(w)' = Replied(w) /\ InSplit(w)' = InSplit(w)
                                  /\ GivenBy(w)' = GivenBy(w)
      /\ Replied(v)' = s.reply /\ GivenBy(v)' = s.given
      /\ InSplit(v)' = IF s.at = "pieces"
                       THEN Iterations(s.last - s.nreq * s.unit, s.last) ELSE {}
  BY <1>3, <1>4, OtherSplitters DEF CoreInv
<1>6. Replied(v) = s.reply /\ GivenBy(v)' = GivenBy(v) \ {r} /\ InSplit(v)' = InSplit(v)
  BY <1>1, <1>3, <1>5 DEF Replied, GivenBy, InSplit
<1>7. \A k \in Proc : SliceLeft(k)' <=> SliceLeft(k)
  BY <1>1, <1>5, <1>6 DEF SliceLeft
<1>8. \A w \in Proc : InSplit(w)' = InSplit(w)
  BY <1>5, <1>6
<1>9. pc[r] = "posted" /\ pc'[r] = "test" /\ \A q \in Proc : q # r => pc'[q] = pc[q]
  <2>1. r \in Asking(v)
    BY <1>1 DEF Asking, GivenBy
  <2>2. QED
    BY <1>1, <2>1 DEF CoreInv, AskInv, Types
<1>10. \A q \in Proc : Given(q) => Given(q)' \/ pc'[q] = "test"
  BY <1>5, <1>6, <1>9 DEF Given
<1>11. QED
  BY <1>1, <1>7, <1>8, <1>9, <1>10, QuietSplit

LEMMA EndSplitWork ==
    ASSUME CoreInv, WorkInv, Next, NEW v \in Proc, EndSplit(v)
    PROVE  WorkInv'
<1>1. UNCHANGED <<map, workremain, workdone, started, queue, piece>>
  BY DEF EndSplit, global, lwork, locals
<1>2. /\ split[v].at \in SplitAt /\ split[v].at \in {"end", "pieces"}
      /\ split[v].at = "pieces" => split[v].nreq = 0
      /\ split' = [split EXCEPT ![v] = NoSplit]
  BY DEF EndSplit, SplitAt
<1>3. /\ ~LockIsFree(v) /\ split[v] \in SplitRecord
      /\ split[v].requests = Requests(v) /\ split[v].given = GivenBy(v)
  BY <1>2, BusySplitter
<1>4. pc' = [p \in Proc |-> IF p \in GivenBy(v) THEN "test"
                            ELSE IF p \in Requests(v) THEN "idle" ELSE pc[p]]
  BY <1>3 DEF EndSplit
<1>5. split'[v] = NoSplit /\ \A w \in Proc : w # v => split'[w] = split[w]
  BY <1>2 DEF CoreInv, Types
<1>6. /\ \A w \in Proc : w # v => /\ Replied(w)' = Replied(w) /\ InSplit(w)' = InSplit(w)
                                  /\ GivenBy(w)' = GivenBy(w)
      /\ Replied(v)' = {} /\ InSplit(v)' = {}
  BY <1>5 DEF Replied, InSplit, GivenBy, LockIsFree, NoSplit, Iterations
<1>7. Replied(v) = {}
  BY <1>2, <1>3 DEF Replied, CoreInv, SplitInv
<1>8. InSplit(v) = {}
  <2>1. CASE split[v].at = "pieces"
    <3>1. split[v].nreq = 0 /\ split[v].unit \in Int /\ split[v].last \in Int
      BY <1>2, <1>3, <2>1 DEF SplitRecord
    <3>2. split[v].last - split[v].nreq * split[v].unit = split[v].last
      BY <3>1
    <3>3. Iterations(split[v].last, split[v].last) = {}
      BY <3>1 DEF Iterations
    <3>4. QED
      BY <2>1, <3>2, <3>3 DEF InSplit
  <2>2. CASE split[v].at # "pieces"
    BY <2>2 DEF InSplit
  <2>3. QED
    BY <2>1, <2>2
<1>9. \A k \in Proc : SliceLeft(k)' <=> SliceLeft(k)
  BY <1>1, <1>6, <1>7 DEF SliceLeft
<1>10. \A w \in Proc : InSplit(w)' = InSplit(w)
  BY <1>6, <1>8
<1>11. \A q \in Proc : q \in Requests(v) \/ q \in GivenBy(v) => pc[q] = "posted"
  BY DEF CoreInv, AskInv, Asking
<1>12. \A q \in Proc : Given(q) => Given(q)' \/ pc'[q] = "test"
  BY <1>4, <1>6 DEF Given
<1>13. QED
  BY <1>1, <1>4, <1>9, <1>10, <1>11, <1>12, QuietSplit

\* The pieces for all requests are taken at once from the queue of the victim.
LEMMA TakeLocalWork ==
    ASSUME CoreInv, CoreInv', WorkInv, Next, NEW v \in Proc, TakeLocal(v),
           split'[v].at # "end"
    PROVE  WorkInv'
<1>1. /\ Types /\ Types' /\ SplitInv /\ UNCHANGED total /\ ShapeOK /\ CountInv
  BY ShapeIsConstant DEF shape, CoreInv, Types, WorkInv
<1>2. /\ split[v].at = "take" /\ split[v].at \in SplitAt
      /\ UNCHANGED <<pc, piece, map, workremain, workdone, started>>
  BY DEF TakeLocal, SplitAt, global, locals
<1>3. ~LockIsFree(v) /\ split[v] \in SplitRecord
  BY <1>2, BusySplitter
<1>4. PICK amount \in Nat :
        /\ amount = split[v].nreq * split[v].unit
        /\ split[v].nreq \in Nat /\ split[v].unit \in Nat
  <2>1. split[v].nreq \in Nat /\ split[v].unit >= 1 /\ split[v].unit \in Int
    BY <1>1, <1>2, <1>3 DEF SplitInv, SplitRecord
  <2>2. split[v].unit \in Nat
    BY <2>1
  <2>3. split[v].nreq * split[v].unit \in Nat
    BY <2>1, <2>2
  <2>4. QED
    BY <2>1, <2>2, <2>3
<1>5. queue[v] \in Bounds
  BY <1>1 DEF Types
<1>6. PICK beg \in Int, end \in Int, middle \in Int :
        queue[v] = <<beg, end>> /\ middle = end - amount
  BY <1>5, BoundsFacts
<1>7. Size(queue[v]) >= amount
  <2>1. ~(Size(queue[v]) >= amount) => split'[v].at = "end"
    BY <1>1, <1>3, <1>4 DEF TakeLocal, Types, SplitRecord
  <2>2. QED
    BY <2>1
<1>8. beg <= middle /\ middle <= end
  BY <1>6, <1>7 DEF Size
<1>9. queue'[v] = <<beg, middle>> /\ \A r \in Proc : r # v => queue'[r] = queue[r]
  <2>1. queue' = [queue EXCEPT ![v] = [queue[v] EXCEPT ![2] = middle]]
    BY <1>4, <1>6, <1>7 DEF TakeLocal
  <2>2. [queue[v] EXCEPT ![2] = middle] = <<beg, middle>>
    BY <1>5, <1>6, BoundsFacts
  <2>3. QED
    BY <1>1, <2>1, <2>2 DEF Types
<1> DEFINE s == [split[v] EXCEPT !.at = "pieces", !.last = end]
<1>10. split' = [split EXCEPT ![v] = s]
  <2>1. Size(queue[v]) >= split[v].nreq * split[v].unit /\ queue[v][2] = end
    BY <1>4, <1>6, <1>7
  <2>2. QED
    BY <2>1 DEF TakeLocal
<1>11. /\ s \in SplitRecord /\ s.at = "pieces" /\ s.last = end
       /\ s.nreq = split[v].nreq /\ s.unit = split[v].unit
       /\ s.reply = split[v].reply /\ s.given = split[v].given
  BY <1>3, <1>6 DEF SplitRecord, SplitAt
<1> HIDE DEF s
<1>12. /\ \A w \in Proc : w # v => /\ Replied(w)' = Replied(w) /\ InSplit(w)' = InSplit(w)
                                  /\ GivenBy(w)' = GivenBy(w)
      /\ Replied(v)' = s.reply /\ GivenBy(v)' = s.given
      /\ InSplit(v)' = Iterations(s.last - s.nreq * s.unit, s.last)
  BY <1>1, <1>10, <1>11, OtherSplitters
<1>13. /\ Replied(v)' = Replied(v) /\ GivenBy(v)' = GivenBy(v) /\ InSplit(v) = {}
       /\ InSplit(v)' = Iterations(middle, end)
  <2>1. Replied(v)' = Replied(v) /\ GivenBy(v)' = GivenBy(v) /\ InSplit(v) = {}
    BY <1>2, <1>3, <1>11, <1>12 DEF Replied, GivenBy, InSplit
  <2>2. s.last - s.nreq * s.unit = middle
    BY <1>4, <1>6, <1>11
  <2>3. QED
    BY <1>11, <1>12, <2>1, <2>2
<1>14. \A r \in Proc : Given(r)' <=> Given(r)
  BY <1>12, <1>13 DEF Given
<1>15. PlaceInv'
  <2> DEFINE a == <<"queue", v>>
             b == <<"split", v>>
             Y == Iterations(middle, end)
  <2>1. Contents[a] = Iterations(beg, end) /\ Contents'[a] = Iterations(beg, middle)
    <3>1. InQueue(v) = Iterations(beg, end) /\ InQueue(v)' = Iterations(beg, middle)
      BY <1>6, <1>9 DEF InQueue, Within, Iterations
    <3>2. QED
      BY <3>1, ContentsOf, ContentsOfNext
  <2>2. Contents[b] = {} /\ Contents'[b] = Y
    BY <1>13, ContentsOf, ContentsOfNext
  <2>3. \A r \in Proc : r # v =>
           /\ Contents'[<<"queue", r>>] = Contents[<<"queue", r>>]
           /\ Contents'[<<"split", r>>] = Contents[<<"split", r>>]
    <3>1. \A r \in Proc : r # v => InQueue(r)' = InQueue(r) /\ InSplit(r)' = InSplit(r)
      BY <1>9, <1>12 DEF InQueue, Within, Iterations
    <3>2. QED
      BY <3>1, ContentsOf, ContentsOfNext
  <2>4. \A r \in Proc : Contents'[<<"piece", r>>] = Contents[<<"piece", r>>]
    <3>1. \A r \in Proc : InPiece(r)' = InPiece(r)
      BY <1>2 DEF InPiece, Within, Iterations
    <3>2. QED
      BY <3>1, ContentsOf, ContentsOfNext
  <2>5. \A r \in Proc : Contents'[<<"slice", r>>] = Contents[<<"slice", r>>]
    <3>1. \A r \in Proc : SliceLeft(r)' <=> SliceLeft(r)
      BY <1>2, <1>12, <1>13 DEF SliceLeft
    <3>2. \A r \in Proc : InSlice(r)' = InSlice(r)
      BY <3>1, SliceStays
    <3>3. QED
      BY <3>2, ContentsOf, ContentsOfNext
  <2>6. a \in Place /\ b \in Place /\ a # b
    BY DEF Place
  <2>7. \A l \in Place : l # a /\ l # b => Contents'[l] = Contents[l]
    <3>1. SameBut(a, b, Contents, Contents')
      BY <2>3, <2>4, <2>5 DEF SameBut
    <3>2. QED
      BY <3>1, OtherPlaces
  <2>8. /\ Y \subseteq Iterations(beg, end)
        /\ Iterations(beg, middle) = Iterations(beg, end) \ Y
    BY <1>8, CutIterations
  <2> HIDE DEF a, b, Y
  <2>9. Moves(Contents, Contents', a, b, {}, Y) /\ started' = started \cup {}
    BY <1>2, <2>1, <2>2, <2>6, <2>7, <2>8 DEF Moves
  <2>10. QED
    BY <1>1, <2>6, <2>9, PlaceStep DEF WorkInv
<1>16. QueueInv'
  <2>1. (pc[v] \notin {"test", "pop", "body"} /\ ~Given(v)) => beg >= middle
    BY <1>6, <1>8 DEF WorkInv, QueueInv
  <2>2. QED
    BY <1>2, <1>9, <1>14, <2>1 DEF WorkInv, QueueInv
<1>17. PieceInv' /\ EndInv'
  BY <1>2 DEF WorkInv, PieceInv, EndInv
<1>18. CountInv'
  BY <1>1, <1>2, CountSame
<1>19. QED
  BY <1>15, <1>16, <1>17, <1>18 DEF WorkInv

\* The splitter of v, which becomes s, moves beg .. end - 1 from a to the queue of r.
Fills(v, s, r, beg, end, a) ==
    /\ split' = [split EXCEPT ![v] = s] /\ s.given = GivenBy(v) \cup {r}
    /\ UNCHANGED <<pc, piece, map, workremain, workdone, started>>
    /\ queue' = [queue EXCEPT ![r] = <<beg, end>>]
    /\ a # <<"queue", r>> /\ Iterations(beg, end) \subseteq Contents[a]
    /\ Contents'[a] = Contents[a] \ Iterations(beg, end)
    /\ \A q \in Proc :
         /\ <<"slice", q>> # a => Contents'[<<"slice", q>>] = Contents[<<"slice", q>>]
         /\ <<"split", q>> # a => Contents'[<<"split", q>>] = Contents[<<"split", q>>]
    /\ \A q \in Proc : <<"piece", q>> # a

\* A reply fills the queue of a processor that asks, which is empty.
LEMMA ReplyFills ==
    ASSUME CoreInv, WorkInv, Next, NEW v \in Proc, NEW s \in SplitRecord,
           NEW r \in Requests(v), NEW beg \in Int, NEW end \in Int, NEW a \in Place,
           Fills(v, s, r, beg, end, a)
    PROVE  WorkInv'
<1> USE DEF Fills
<1>1. /\ Types /\ UNCHANGED total /\ ShapeOK /\ CountInv
  BY ShapeIsConstant DEF shape, CoreInv, Types, WorkInv
<1>2. r \in Proc /\ pc[r] = "posted" /\ ~Given(r)
  BY <1>1, AskingArePlaced DEF CoreInv, AskInv, Asking, Given
<1>3. queue'[r] = <<beg, end>> /\ \A q \in Proc : q # r => queue'[q] = queue[q]
  BY <1>1, <1>2 DEF Types
<1>4. \A q \in Proc : Given(q)' <=> Given(q) \/ q = r
  <2>1. /\ \A w \in Proc : w # v => GivenBy(w)' = GivenBy(w)
        /\ GivenBy(v)' = GivenBy(v) \cup {r}
    BY <1>1, OtherSplitters
  <2>2. QED
    BY <2>1 DEF Given
<1>5. InQueue(r) = {}
  <2>1. queue[r] \in Bounds
    BY <1>1, <1>2 DEF Types
  <2>2. queue[r][1] >= queue[r][2]
    BY <1>2 DEF WorkInv, QueueInv
  <2>3. QED
    BY <2>1, <2>2, EmptyWithin DEF InQueue
<1> DEFINE b == <<"queue", r>>
           Y == Iterations(beg, end)
<1>6. Contents[b] = {} /\ Contents'[b] = Y
  <2>1. InQueue(r)' = Y
    BY <1>3 DEF InQueue, Within, Iterations
  <2>2. QED
    BY <1>2, <1>5, <2>1, ContentsOf, ContentsOfNext
<1>7. \A q \in Proc : q # r => Contents'[<<"queue", q>>] = Contents[<<"queue", q>>]
  <2>1. \A q \in Proc : q # r => InQueue(q)' = InQueue(q)
    BY <1>3 DEF InQueue, Within, Iterations
  <2>2. QED
    BY <2>1, ContentsOf, ContentsOfNext
<1>8. \A q \in Proc : Contents'[<<"piece", q>>] = Contents[<<"piece", q>>]
  <2>1. \A q \in Proc : InPiece(q)' = InPiece(q)
    BY DEF InPiece, Within, Iterations
  <2>2. QED
    BY <2>1, ContentsOf, ContentsOfNext
<1>9. b \in Place
  BY <1>2 DEF Place
<1>10. \A l \in Place : l # a /\ l # b => Contents'[l] = Contents[l]
  <2>1. SameBut(a, b, Contents, Contents')
    BY <1>7, <1>8 DEF SameBut
  <2>2. QED
    BY <2>1, OtherPlaces
<1> HIDE DEF b, Y
<1>11. Moves(Contents, Contents', a, b, {}, Y) /\ started' = started \cup {}
  BY <1>6, <1>10 DEF Moves, b, Y
<1>12. PlaceInv'
  BY <1>1, <1>9, <1>11, PlaceStep DEF WorkInv
<1>13. QueueInv'
  BY <1>3, <1>4 DEF WorkInv, QueueInv
<1>14. PieceInv' /\ EndInv'
  BY DEF WorkInv, PieceInv, EndInv
<1>15. CountInv'
  BY <1>1, CountSame
<1>16. QED
  BY <1>12, <1>13, <1>14, <1>15 DEF WorkInv

LEMMA ReplySliceWork ==
    ASSUME CoreInv, WorkInv, Starter = 0, Next, NEW v \in Proc, ReplySlice(v)
    PROVE  WorkInv'
<1>1. /\ Types /\ ShapeOK /\ Slices \in Nat
  BY SlicesRange, ConstantsAssumption DEF CoreInv, Types
<1>2. /\ split[v].at = "slices" /\ split[v].at \in SplitAt
      /\ UNCHANGED <<pc, piece, map, workremain, workdone, started>>
  BY DEF ReplySlice, SplitAt, locals
<1>3. ~LockIsFree(v) /\ split[v] \in SplitRecord /\ split[v].given = GivenBy(v)
      /\ split[v].requests \in SUBSET Proc /\ split[v].given \in SUBSET Proc
  BY <1>2, BusySplitter
<1>4. PICK r \in split[v].reply :
          /\ r \in Requests(v) /\ r \in 1 .. Slices - 1
          /\ split' = [split EXCEPT ![v] = [split[v] EXCEPT !.reply = split[v].reply \ {r},
                            !.requests = split[v].requests \ {r},
                            !.given = split[v].given \cup {r}]]
          /\ Reply(v, r, Slice(r))
  BY SliceReplied
<1> DEFINE s == [split[v] EXCEPT !.reply = split[v].reply \ {r},
                            !.requests = split[v].requests \ {r},
                            !.given = split[v].given \cup {r}]
<1>5. split' = [split EXCEPT ![v] = s]
  BY <1>4
<1>6. r \in Proc
  BY <1>1, <1>4, AskingArePlaced
<1>7. /\ s \in SplitRecord /\ s.at = "slices" /\ s.reply = split[v].reply \ {r}
      /\ s.given = split[v].given \cup {r}
  BY <1>2, <1>3, <1>6 DEF SplitRecord
<1> HIDE DEF s
<1>8. /\ \A w \in Proc : w # v => /\ Replied(w)' = Replied(w) /\ InSplit(w)' = InSplit(w)
                                  /\ GivenBy(w)' = GivenBy(w)
      /\ Replied(v)' = s.reply /\ InSplit(v)' = {}
  BY <1>1, <1>5, <1>7, OtherSplitters
<1>9. Replied(v) = split[v].reply /\ InSplit(v) = {}
  BY <1>2, <1>3 DEF Replied, InSplit
<1>10. /\ SliceLeft(r) /\ ~SliceLeft(r)'
       /\ \A q \in Proc : q # r => (SliceLeft(q)' <=> SliceLeft(q))
  <2>1. \A w \in Proc : w # v => r \notin Replied(w)
    BY <1>4, ReplyIsOf DEF CoreInv, AskInv, Asking
  <2>2. r \notin map
    BY <1>4, <1>9, ReplyIsOf
  <2>3. QED
    BY <1>2, <1>4, <1>7, <1>8, <1>9, <2>1, <2>2 DEF SliceLeft
<1>11. PICK beg \in Int, end \in Int : Slice(r) = <<beg, end>>
  <2>1. r \in 0 .. Slices - 1
    BY <1>1, <1>4
  <2>2. Slice(r) \in Bounds
    BY <1>1, <2>1, SlicesAreBounds
  <2>3. QED
    BY <2>2, BoundsFacts
<1>12. queue' = [queue EXCEPT ![r] = <<beg, end>>]
  BY <1>4, <1>11 DEF Reply
<1> DEFINE a == <<"slice", r>>
<1>13. a \in Place /\ Contents[a] = Iterations(beg, end) /\ Contents'[a] = {}
  <2>1. InSlice(r) = Iterations(beg, end) /\ InSlice(r)' = {}
    BY <1>10, <1>11 DEF InSlice, Within
  <2>2. QED
    BY <1>6, <2>1, ContentsOf, ContentsOfNext
<1>14. \A q \in Proc : q # r => Contents'[<<"slice", q>>] = Contents[<<"slice", q>>]
  <2>1. \A q \in Proc : q # r => InSlice(q)' = InSlice(q)
    BY <1>10, SliceStays
  <2>2. QED
    BY <2>1, ContentsOf, ContentsOfNext
<1>15. \A q \in Proc : Contents'[<<"split", q>>] = Contents[<<"split", q>>]
  <2>1. \A q \in Proc : InSplit(q)' = InSplit(q)
    BY <1>8, <1>9
  <2>2. QED
    BY <2>1, ContentsOf, ContentsOfNext
<1>16. /\ a # <<"queue", r>> /\ Iterations(beg, end) \subseteq Contents[a]
       /\ Contents'[a] = Contents[a] \ Iterations(beg, end)
       /\ \A q \in Proc : <<"piece", q>> # a
       /\ \A q \in Proc :
             /\ <<"slice", q>> # a => Contents'[<<"slice", q>>] = Contents[<<"slice", q>>]
             /\ <<"split", q>> # a => Contents'[<<"split", q>>] = Contents[<<"split", q>>]
  BY <1>13, <1>14, <1>15
<1> HIDE DEF a
<1>17. s.given = GivenBy(v) \cup {r}
  BY <1>3, <1>7
<1>18. Fills(v, s, r, beg, end, a)
  BY <1>2, <1>5, <1>12, <1>16, <1>17 DEF Fills
<1>19. QED
  BY <1>4, <1>7, <1>13, <1>18, ReplyFills

LEMMA ReplyPieceWork ==
    ASSUME CoreInv, WorkInv, Next, NEW v \in Proc, ReplyPiece(v)
    PROVE  WorkInv'
<1>1. Types
  BY DEF CoreInv
<1>2. /\ split[v].at = "pieces" /\ split[v].at \in SplitAt /\ split[v].nreq > 0
      /\ UNCHANGED <<pc, piece, map, workremain, workdone, started>>
  BY DEF ReplyPiece, SplitAt, locals, global
<1>3. ~LockIsFree(v) /\ split[v] \in SplitRecord /\ split[v].given = GivenBy(v)
      /\ split[v].requests \in SUBSET Proc /\ split[v].given \in SUBSET Proc
  BY <1>2, BusySplitter
<1>4. PICK r \in Requests(v) :
              /\ split' = [split EXCEPT ![v] = [split[v] EXCEPT
                                !.requests = split[v].requests \ {r},
                                !.given = split[v].given \cup {r},
                                !.nreq = split[v].nreq - 1,
                                !.last = split[v].last - split[v].unit]]
              /\ Reply(v, r, <<split[v].last - split[v].unit, split[v].last>>)
  BY PieceReplied
<1>5. PICK n \in Nat, unit \in Nat, last \in Int :
        /\ split[v].nreq = n + 1 /\ split[v].unit = unit /\ split[v].last = last
  <2>1. split[v].nreq \in Nat /\ split[v].unit >= 1 /\ split[v].unit \in Int
        /\ split[v].last \in Int
    BY <1>2, <1>3 DEF CoreInv, SplitInv, SplitRecord
  <2>2. split[v].nreq - 1 \in Nat /\ split[v].nreq = (split[v].nreq - 1) + 1
        /\ split[v].unit \in Nat
    BY <1>2, <2>1
  <2>3. QED
    BY <2>1, <2>2
<1>6. r \in Proc
  BY <1>1, AskingArePlaced
<1> DEFINE s == [split[v] EXCEPT
                                !.requests = split[v].requests \ {r},
                                !.given = split[v].given \cup {r},
                                !.nreq = split[v].nreq - 1,
                                !.last = split[v].last - split[v].unit]
<1>7. split' = [split EXCEPT ![v] = s]
  BY <1>4
<1>8. /\ s \in SplitRecord /\ s.at = "pieces" /\ s.reply = split[v].reply
      /\ s.given = split[v].given \cup {r} /\ s.nreq = n /\ s.unit = unit
      /\ s.last = last - unit
  <2> DEFINE A == split[v].requests \ {r}
             B == split[v].given \cup {r}
             m == split[v].nreq - 1
             l == split[v].last - split[v].unit
  <2>1. A \in SUBSET Proc /\ B \in SUBSET Proc /\ m = n /\ l = last - unit
    BY <1>3, <1>5, <1>6
  <2> HIDE DEF A, B, m, l
  <2>2. m \in Int /\ l \in Int
    BY <1>5, <2>1
  <2>3. \A t \in SplitRecord :
           LET u == [t EXCEPT !.requests = A, !.given = B, !.nreq = m, !.last = l] IN
           /\ u \in SplitRecord /\ u.at = t.at /\ u.reply = t.reply
           /\ u.given = B /\ u.nreq = m /\ u.unit = t.unit /\ u.last = l
    BY <2>1, <2>2 DEF SplitRecord
  <2>4. s = [split[v] EXCEPT !.requests = A, !.given = B, !.nreq = m, !.last = l]
    BY DEF A, B, m, l
  <2> HIDE DEF s
  <2>5. QED
    BY <1>2, <1>3, <1>5, <2>1, <2>3, <2>4 DEF B
<1> HIDE DEF s
<1>9. PICK rest \in Nat : rest = n * unit /\ (n + 1) * unit = rest + unit
  <2>1. n * unit \in Nat /\ (n + 1) * unit = n * unit + unit
    BY <1>5
  <2>2. QED
    BY <2>1
<1>10. PICK beg \in Int, first \in Int :
         beg = last - unit /\ first = (last - unit) - rest /\ first <= beg /\ beg <= last
  BY <1>5, <1>9
<1>11. /\ \A w \in Proc : w # v => /\ Replied(w)' = Replied(w) /\ InSplit(w)' = InSplit(w)
                                  /\ GivenBy(w)' = GivenBy(w)
      /\ Replied(v)' = s.reply
      /\ InSplit(v)' = Iterations(s.last - s.nreq * s.unit, s.last)
  BY <1>1, <1>7, <1>8, OtherSplitters
<1>12. InSplit(v) = Iterations(first, last) /\ InSplit(v)' = Iterations(first, beg)
  <2>1. s.last - s.nreq * s.unit = first /\ s.last = beg
    BY <1>5, <1>8, <1>9, <1>10
  <2>2. split[v].last - split[v].nreq * split[v].unit = first /\ split[v].last = last
    BY <1>5, <1>9, <1>10
  <2>3. QED
    BY <1>2, <1>11, <2>1, <2>2 DEF InSplit
<1>13. queue' = [queue EXCEPT ![r] = <<beg, last>>]
  BY <1>4, <1>5, <1>10 DEF Reply
<1>14. /\ Iterations(beg, last) \subseteq Iterations(first, last)
       /\ Iterations(first, beg) = Iterations(first, last) \ Iterations(beg, last)
  BY <1>10, CutIterations
<1> DEFINE a == <<"split", v>>
<1>15. /\ a \in Place /\ Contents[a] = Iterations(first, last)
       /\ Contents'[a] = Iterations(first, beg)
  BY <1>12, ContentsOf, ContentsOfNext
<1>16. \A q \in Proc : Contents'[<<"slice", q>>] = Contents[<<"slice", q>>]
  <2>1. Replied(v)' = Replied(v)
    BY <1>3, <1>8, <1>11 DEF Replied
  <2>2. \A q \in Proc : SliceLeft(q)' <=> SliceLeft(q)
    BY <1>2, <1>11, <2>1 DEF SliceLeft
  <2>3. \A q \in Proc : InSlice(q)' = InSlice(q)
    BY <2>2, SliceStays
  <2>4. QED
    BY <2>3, ContentsOf, ContentsOfNext
<1>17. \A q \in Proc : q # v => Contents'[<<"split", q>>] = Contents[<<"split", q>>]
  BY <1>11, ContentsOf, ContentsOfNext
<1>18. /\ a # <<"queue", r>> /\ Iterations(beg, last) \subseteq Contents[a]
       /\ Contents'[a] = Contents[a] \ Iterations(beg, last)
       /\ \A q \in Proc : <<"piece", q>> # a
       /\ \A q \in Proc :
             /\ <<"slice", q>> # a => Contents'[<<"slice", q>>] = Contents[<<"slice", q>>]
             /\ <<"split", q>> # a => Contents'[<<"split", q>>] = Contents[<<"split", q>>]
  BY <1>14, <1>15, <1>16, <1>17
<1> HIDE DEF a
<1>19. Fills(v, s, r, beg, last, a)
  BY <1>2, <1>3, <1>7, <1>8, <1>13, <1>18 DEF Fills
<1>20. QED
  BY <1>8, <1>15, <1>19, ReplyFills

LEMMA SplitterWork ==
    ASSUME CoreInv, CoreInv', WorkInv, Starter = 0, Next, NEW v \in Proc, Splitter(v)
    PROVE  WorkInv'
BY IdleSplitterWork, TakeLocalWork, ReplySliceWork, ReplyPieceWork, EndSplitWork
   DEF Splitter

-------------------------------------------------------------------------------
(* Initially the slices share the loop out.                                *)

LEMMA SlicesShare ==
    ASSUME ShapeOK
    PROVE  /\ \A k \in 0 .. Slices - 1 : Within(Slice(k)) \subseteq Iterations(0, total)
           /\ \A k, l \in 0 .. Slices - 1 : k # l => Within(Slice(k)) \cap Within(Slice(l)) = {}
           /\ \A i \in Iterations(0, total) : \E k \in 0 .. Slices - 1 : i \in Within(Slice(k))
<1>1. Slices \in Nat /\ total \in Nat
  BY SlicesRange, ConstantsAssumption DEF ShapeOK
<1>2. \A k : Within(Slice(k)) = Iterations(startindex[k], startindex[k + 1])
  BY DEF Within, Slice
<1>3. \A k \in 0 .. Slices : startindex[k] \in 0 .. total
  BY SlicesInOrder
<1>4. \A k \in 0 .. Slices - 1 : k \in 0 .. Slices /\ k + 1 \in 0 .. Slices /\ k \in Int
  BY <1>1
<1>5. \A k \in 0 .. Slices - 1 : Within(Slice(k)) \subseteq Iterations(0, total)
  BY <1>1, <1>2, <1>3, <1>4 DEF Iterations
<1>6. ASSUME NEW k \in 0 .. Slices - 1, NEW l \in 0 .. Slices - 1, k < l
      PROVE  Within(Slice(k)) \cap Within(Slice(l)) = {}
  <2>1. startindex[k + 1] <= startindex[l]
    <3>1. CASE k + 1 = l
      BY <3>1, <1>3, <1>4
    <3>2. CASE k + 1 < l
      BY <3>2, <1>3, <1>4, SlicesInOrder
    <3>3. QED
      BY <1>4, <1>6, <3>1, <3>2
  <2>2. /\ startindex[k] \in Int /\ startindex[k + 1] \in Int
        /\ startindex[l] \in Int /\ startindex[l + 1] \in Int
    BY <1>3, <1>4
  <2>3. Iterations(startindex[k], startindex[k + 1])
          \cap Iterations(startindex[l], startindex[l + 1]) = {}
    BY <2>1, <2>2 DEF Iterations
  <2>4. QED
    BY <1>2, <2>3
<1>7. \A k, l \in 0 .. Slices - 1 : k # l => Within(Slice(k)) \cap Within(Slice(l)) = {}
  <2> SUFFICES ASSUME NEW k \in 0 .. Slices - 1, NEW l \in 0 .. Slices - 1, k # l
               PROVE  Within(Slice(k)) \cap Within(Slice(l)) = {}
    OBVIOUS
  <2>1. k < l \/ l < k
    BY <1>4
  <2>2. l < k => Within(Slice(l)) \cap Within(Slice(k)) = {}
    BY <1>6
  <2>3. QED
    BY <1>6, <2>1, <2>2
<1>8. \A i \in Iterations(0, total) : \E k \in 0 .. Slices - 1 : i \in Within(Slice(k))
  <2> SUFFICES ASSUME NEW i \in Iterations(0, total)
               PROVE  \E k \in 0 .. Slices - 1 : i \in Within(Slice(k))
    OBVIOUS
  <2>1. i \in 0 .. total - 1
    BY DEF Iterations
  <2>2. PICK k \in 0 .. Slices - 1 : startindex[k] <= i /\ i < startindex[k + 1]
    BY <2>1, SlicesInOrder
  <2>3. startindex[k] \in Int /\ startindex[k + 1] \in Int /\ i \in Int
    BY <1>3, <1>4, <2>1
  <2>4. i \in Iterations(startindex[k], startindex[k + 1])
    BY <2>2, <2>3 DEF Iterations
  <2>5. QED
    BY <1>2, <2>4
<1>9. QED
  BY <1>5, <1>7, <1>8

LEMMA WorkInit ==
    ASSUME Init, Starter = 0
    PROVE  WorkInv
<1>1. ShapeOK /\ CoreInv /\ 0 \in Proc /\ Slices \in Nat \ {0} /\ total \in Nat
  BY CoreInit, SlicesRange, ConstantsAssumption DEF CoreInv, Types, ShapeOK, Proc
<1>2. \A p \in Proc : LockIsFree(p) /\ Replied(p) = {} /\ InSplit(p) = {}
  BY DEF Init, LockIsFree, NoSplit, Replied, InSplit
<1>3. \A p \in Proc : pc[p] \in {"test", "idle"} /\ InPiece(p) = {}
  BY DEF Init, InPiece
<1>4. \A k \in Proc : SliceLeft(k) <=> k \in 1 .. Slices - 1
  BY <1>2, FirstSliceTaken DEF SliceLeft
<1>6. queue[0] = Slice(0) /\ \A p \in Proc : p # 0 => queue[p] = <<0, 0>>
  BY <1>1, FirstSliceTaken DEF Empty
<1>7. InQueue(0) = Within(Slice(0)) /\ \A p \in Proc : p # 0 => InQueue(p) = {}
  BY <1>6 DEF InQueue, Within, Iterations
<1> DEFINE T == Iterations(0, total)
           Number(k) == IF k[1] = "slice" THEN k[2] ELSE 0
<1>8. \A k \in Place : Contents[k] # {} =>
         /\ Number(k) \in 0 .. Slices - 1 /\ Contents[k] = Within(Slice(Number(k)))
         /\ k \in {<<"slice", Number(k)>>, <<"queue", 0>>}
         /\ k[1] = "slice" => Number(k) # 0
  <2> SUFFICES ASSUME NEW k \in Place, Contents[k] # {}
               PROVE  /\ Number(k) \in 0 .. Slices - 1
                      /\ Contents[k] = Within(Slice(Number(k)))
                      /\ k \in {<<"slice", Number(k)>>, <<"queue", 0>>}
                      /\ k[1] = "slice" => Number(k) # 0
    OBVIOUS
  <2>1. PICK p \in Proc : k \in {<<"slice", p>>, <<"queue", p>>, <<"piece", p>>, <<"split", p>>}
    BY PlacesAre
  <2>2. CASE k = <<"slice", p>>
    <3>1. InSlice(p) # {}
      BY <2>2, ContentsOf
    <3>2. p \in 1 .. Slices - 1 /\ InSlice(p) = Within(Slice(p))
      BY <1>4, <3>1 DEF InSlice
    <3>3. Number(k) = p /\ Contents[k] = InSlice(p)
      BY <2>2, ContentsOf
    <3>4. p \in 0 .. Slices - 1 /\ p # 0
      BY <1>1, <3>2
    <3> HIDE DEF Number
    <3>5. QED
      BY <2>2, <3>2, <3>3, <3>4
  <2>3. CASE k = <<"queue", p>>
    <3>1. InQueue(p) # {} /\ Contents[k] = InQueue(p)
      BY <2>3, ContentsOf
    <3>2. p = 0
      BY <1>7, <3>1
    <3>3. QED
      BY <1>1, <1>7, <2>3, <3>1, <3>2
  <2>4. CASE k = <<"piece", p>> \/ k = <<"split", p>>
    BY <1>2, <1>3, <2>4, ContentsOf
  <2>5. QED
    BY <2>1, <2>2, <2>3, <2>4
<1>9. PlaceInv
  <2>1. started = {}
    BY DEF Init
  <2>2. \A k \in Place : Contents[k] \subseteq T
    BY <1>1, <1>8, SlicesShare
  <2>3. \A k, l \in Place : k # l => Contents[k] \cap Contents[l] = {}
    <3> SUFFICES ASSUME NEW k \in Place, NEW l \in Place, k # l,
                        Contents[k] # {}, Contents[l] # {}
                 PROVE  Contents[k] \cap Contents[l] = {}
      OBVIOUS
    <3>1. Number(k) # Number(l)
      BY <1>8
    <3> HIDE DEF Number
    <3>2. QED
      BY <1>1, <1>8, <3>1, SlicesShare
  <2>4. \A i \in T : \E k \in Place : i \in Contents[k]
    <3> SUFFICES ASSUME NEW i \in T PROVE \E k \in Place : i \in Contents[k]
      OBVIOUS
    <3>1. PICK n \in 0 .. Slices - 1 : i \in Within(Slice(n))
      BY <1>1, SlicesShare
    <3>2. n \in Proc
      BY <1>1, SlicesAreProc
    <3>3. CASE n = 0
      <4>1. i \in InQueue(n)
        BY <1>7, <3>1, <3>3
      <4>2. QED
        BY <3>2, <4>1, ContentsOf
    <3>4. CASE n # 0
      <4>1. SliceLeft(n)
        BY <1>1, <1>4, <3>2, <3>4
      <4>2. i \in InSlice(n)
        BY <3>1, <4>1 DEF InSlice
      <4>3. QED
        BY <3>2, <4>2, ContentsOf
    <3>5. QED
      BY <3>3, <3>4
  <2>5. QED
    BY <2>1, <2>2, <2>3, <2>4 DEF PlaceInv, Partition
<1>10. QueueInv
  BY <1>3, <1>6 DEF QueueInv, Init
<1>11. PieceInv /\ EndInv
  BY <1>3 DEF PieceInv, EndInv, Ending
<1>12. CountInv
  <2>1. workdone = [p \in Proc |-> 0] /\ started = {} /\ workremain = total
    BY DEF Init
  <2>2. NotReported = {}
    BY <2>1 DEF NotReported
  <2>3. Cardinality(NotReported) = 0
    BY <2>2, FS_EmptySet
  <2>4. Cardinality(T \ started) = total
    <3>1. T \ started = T
      BY <2>1
    <3>2. 0 <= total /\ 0 \in Int /\ total \in Int
      BY <1>1
    <3>3. Cardinality(T) = total - 0
      BY <3>2, SizeOfIterations
    <3>4. QED
      BY <1>1, <3>1, <3>3
  <2>5. workdone \in [Proc -> Nat] /\ started \subseteq T
    BY <2>1
  <2>6. QED
    BY <1>1, <2>1, <2>3, <2>4, <2>5 DEF CountInv, RemainIsExact
<1>13. QED
  BY <1>9, <1>10, <1>11, <1>12 DEF WorkInv

LEMMA WorkNext ==
    ASSUME CoreInv, Starter = 0, CoreInv', WorkInv, [Next]_vars
    PROVE  WorkInv'
<1>1. CASE UNCHANGED vars
  <2> USE <1>1 DEF vars, shape, global, lwork, locals, adaptive
  <2>1. startindex' = startindex
    BY DEF startindex, Slices
  <2>2. \A k : SliceLeft(k)' <=> SliceLeft(k)
    BY DEF SliceLeft, Replied, LockIsFree
  <2>3. \A r \in Proc : /\ InSlice(r)' = InSlice(r) /\ InQueue(r)' = InQueue(r)
                        /\ InPiece(r)' = InPiece(r) /\ InSplit(r)' = InSplit(r)
    BY <2>1, <2>2 DEF InSlice, InQueue, InPiece, InSplit, Within, Iterations, Slice
  <2>4. PlaceInv'
    BY <2>3, ContentsSame DEF WorkInv
  <2>5. \A r \in Proc : Given(r)' <=> Given(r)
    BY DEF Given, GivenBy, LockIsFree
  <2>6. QueueInv' /\ PieceInv' /\ EndInv'
    BY <2>5 DEF WorkInv, QueueInv, PieceInv, EndInv
  <2>7. CountInv'
    BY CountSame DEF WorkInv
  <2>8. QED
    BY <2>4, <2>6, <2>7 DEF WorkInv
<1>2. QED
  BY <1>1, ParticipantWork, SplitterWork, BeginSplitWork, StartThiefWork DEF Next

-------------------------------------------------------------------------------
(* An iteration that is not started waits in one place.                    *)

BoundsAt(k) ==
    CASE k[1] = "slice" -> Slice(k[2])
      [] k[1] = "queue" -> queue[k[2]]
      [] k[1] = "piece" -> piece[k[2]]
      [] OTHER -> <<split[k[2]].last - split[k[2]].nreq * split[k[2]].unit,
                    split[k[2]].last>>

\* The member of Waiting for a place.
WaitAt(k) == <<k[1], k[2], BoundsAt(k)>>

LEMMA WaitAtIs ==
    ASSUME NEW p \in Proc
    PROVE  /\ WaitAt(<<"slice", p>>) = <<"slice", p, Slice(p)>>
           /\ WaitAt(<<"queue", p>>) = <<"queue", p, queue[p]>>
           /\ WaitAt(<<"piece", p>>) = <<"piece", p, piece[p]>>
           /\ WaitAt(<<"split", p>>) =
                <<"split", p, <<split[p].last - split[p].nreq * split[p].unit,
                                split[p].last>> >>
BY DEF WaitAt, BoundsAt

LEMMA SliceLeftIsProc ==
    ASSUME CoreInv
    PROVE  \A k : SliceLeft(k) => k \in Proc
<1>1. \A k \in map : k \in Proc
  BY SlicesAreProc DEF CoreInv, Types
<1>2. \A v \in Proc : \A k \in Replied(v) : k \in Proc
  <2> SUFFICES ASSUME NEW v \in Proc, NEW k \in Replied(v) PROVE k \in Proc
    OBVIOUS
  <2>1. ~LockIsFree(v) /\ k \in split[v].reply
    BY DEF Replied
  <2>2. k \in 1 .. Slices - 1
    BY <2>1 DEF CoreInv, SplitInv
  <2>3. QED
    BY <2>2, SlicesAreProc DEF CoreInv, Types
<1>3. QED
  BY <1>1, <1>2 DEF SliceLeft

\* The five parts of Waiting.
WaitSlices == {<<"slice", pos, Slice(pos)>> : pos \in map}
WaitReplies(v) == {<<"slice", pos, Slice(pos)>> : pos \in split[v].reply}
WaitReplied == UNION {WaitReplies(v) : v \in {v \in Proc : ~LockIsFree(v)}}
WaitQueues == {<<"queue", p, queue[p]>> : p \in Proc}
WaitPieces == {<<"piece", p, piece[p]>> : p \in {p \in Proc : pc[p] \in {"recheck", "got"}}}
WaitSplits ==
    {<<"split", v, <<split[v].last - split[v].nreq * split[v].unit, split[v].last>> >> :
       v \in {v \in Proc : split[v].at = "pieces"}}

LEMMA WaitingIs ==
    /\ WaitSlices \subseteq Waiting /\ WaitQueues \subseteq Waiting
    /\ WaitPieces \subseteq Waiting /\ WaitSplits \subseteq Waiting
    /\ \A v \in Proc : ~LockIsFree(v) => WaitReplies(v) \subseteq Waiting
    /\ \A w \in Waiting :
         \/ w \in WaitSlices \/ w \in WaitQueues \/ w \in WaitPieces \/ w \in WaitSplits
         \/ \E v \in Proc : ~LockIsFree(v) /\ w \in WaitReplies(v)
<1>1. Waiting = WaitSlices \cup WaitReplied \cup WaitQueues \cup WaitPieces \cup WaitSplits
  BY Zenon DEF Waiting, WaitSlices, WaitReplied, WaitReplies, WaitQueues, WaitPieces,
     WaitSplits
<1>2. \A w : w \in Waiting <=>
        \/ w \in WaitSlices \/ w \in WaitReplied \/ w \in WaitQueues
        \/ w \in WaitPieces \/ w \in WaitSplits
  BY <1>1
<1>3. \A w : w \in WaitReplied <=> \E v \in Proc : ~LockIsFree(v) /\ w \in WaitReplies(v)
  BY Zenon DEF WaitReplied
<1>4. QED
  BY <1>2, <1>3

LEMMA WaitingHasPlace ==
    ASSUME CoreInv, NEW w \in Waiting
    PROVE  \E k \in Place : w = WaitAt(k) /\ Iterations(w[3][1], w[3][2]) = Contents[k]
<1>1. ASSUME NEW k, SliceLeft(k), w = <<"slice", k, Slice(k)>>
      PROVE  \E l \in Place : w = WaitAt(l) /\ Iterations(w[3][1], w[3][2]) = Contents[l]
  <2>1. k \in Proc
    BY <1>1, SliceLeftIsProc
  <2>2. Contents[<<"slice", k>>] = Iterations(w[3][1], w[3][2])
    BY <1>1, <2>1, ContentsOf DEF InSlice, Within
  <2>3. QED
    BY <1>1, <2>1, <2>2, ContentsOf, WaitAtIs
<1>2. ASSUME NEW p \in Proc, w = <<"queue", p, queue[p]>>
      PROVE  \E l \in Place : w = WaitAt(l) /\ Iterations(w[3][1], w[3][2]) = Contents[l]
  <2>1. Contents[<<"queue", p>>] = Iterations(w[3][1], w[3][2])
    BY <1>2, ContentsOf DEF InQueue, Within
  <2>2. QED
    BY <1>2, <2>1, ContentsOf, WaitAtIs
<1>3. ASSUME NEW p \in Proc, pc[p] \in {"recheck", "got"}, w = <<"piece", p, piece[p]>>
      PROVE  \E l \in Place : w = WaitAt(l) /\ Iterations(w[3][1], w[3][2]) = Contents[l]
  <2>1. Contents[<<"piece", p>>] = Iterations(w[3][1], w[3][2])
    BY <1>3, ContentsOf DEF InPiece, Within
  <2>2. QED
    BY <1>3, <2>1, ContentsOf, WaitAtIs
<1>4. ASSUME NEW v \in Proc, split[v].at = "pieces",
             w = <<"split", v, <<split[v].last - split[v].nreq * split[v].unit,
                                 split[v].last>> >>
      PROVE  \E l \in Place : w = WaitAt(l) /\ Iterations(w[3][1], w[3][2]) = Contents[l]
  <2>1. /\ w[3][1] = split[v].last - split[v].nreq * split[v].unit
        /\ w[3][2] = split[v].last
    BY <1>4
  <2>2. Contents[<<"split", v>>] = Iterations(w[3][1], w[3][2])
    BY <1>4, <2>1, ContentsOf, Zenon DEF InSplit
  <2>3. w = WaitAt(<<"split", v>>)
    BY <1>4, WaitAtIs, Zenon
  <2>4. QED
    BY <2>2, <2>3, ContentsOf
<1>5. \/ \E k : SliceLeft(k) /\ w = <<"slice", k, Slice(k)>>
      \/ \E p \in Proc : w = <<"queue", p, queue[p]>>
      \/ \E p \in Proc : pc[p] \in {"recheck", "got"} /\ w = <<"piece", p, piece[p]>>
      \/ \E v \in Proc :
            /\ split[v].at = "pieces"
            /\ w = <<"split", v, <<split[v].last - split[v].nreq * split[v].unit,
                                   split[v].last>> >>
  <2>1. ASSUME w \in WaitSlices PROVE \E k : SliceLeft(k) /\ w = <<"slice", k, Slice(k)>>
    BY <2>1 DEF WaitSlices, SliceLeft
  <2>2. ASSUME NEW v \in Proc, ~LockIsFree(v), w \in WaitReplies(v)
        PROVE  \E k : SliceLeft(k) /\ w = <<"slice", k, Slice(k)>>
    BY <2>2 DEF WaitReplies, SliceLeft, Replied
  <2>3. w \in WaitQueues => \E p \in Proc : w = <<"queue", p, queue[p]>>
    BY DEF WaitQueues
  <2>4. w \in WaitPieces => \E p \in Proc : pc[p] \in {"recheck", "got"} /\ w = <<"piece", p, piece[p]>>
    BY DEF WaitPieces
  <2>5. ASSUME w \in WaitSplits
        PROVE  \E v \in Proc :
                 /\ split[v].at = "pieces"
                 /\ w = <<"split", v, <<split[v].last - split[v].nreq * split[v].unit,
                                        split[v].last>> >>
    BY <2>5, Zenon DEF WaitSplits
  <2>6. QED
    BY <2>1, <2>2, <2>3, <2>4, <2>5, WaitingIs, Zenon
<1>6. QED
  BY <1>1, <1>2, <1>3, <1>4, <1>5, Zenon

LEMMA PlaceIsWaiting ==
    ASSUME CoreInv, NEW k \in Place, NEW i \in Contents[k]
    PROVE  WaitAt(k) \in Waiting
<1>1. PICK p \in Proc : k \in {<<"slice", p>>, <<"queue", p>>, <<"piece", p>>, <<"split", p>>}
  BY PlacesAre
<1>2. CASE k = <<"slice", p>>
  <2>1. SliceLeft(p)
    BY <1>2, ContentsOf DEF InSlice
  <2>2. CASE p \in map
    <3>1. <<"slice", p, Slice(p)>> \in WaitSlices
      BY <2>2 DEF WaitSlices
    <3>2. QED
      BY <1>2, <3>1, WaitingIs, WaitAtIs
  <2>3. CASE \E v \in Proc : p \in Replied(v)
    <3>1. PICK v \in Proc : ~LockIsFree(v) /\ p \in split[v].reply
      BY <2>3 DEF Replied
    <3>2. <<"slice", p, Slice(p)>> \in WaitReplies(v)
      BY <3>1 DEF WaitReplies
    <3>3. QED
      BY <1>2, <3>1, <3>2, WaitingIs, WaitAtIs
  <2>4. QED
    BY <2>1, <2>2, <2>3 DEF SliceLeft
<1>3. CASE k = <<"queue", p>>
  <2>1. <<"queue", p, queue[p]>> \in Waiting
    BY WaitingIs DEF WaitQueues
  <2>2. QED
    BY <1>3, <2>1, WaitAtIs, Zenon
<1>4. CASE k = <<"piece", p>>
  <2>1. pc[p] \in {"recheck", "got"}
    BY <1>4, ContentsOf DEF InPiece
  <2>2. <<"piece", p, piece[p]>> \in Waiting
    BY <2>1, WaitingIs DEF WaitPieces
  <2>3. QED
    BY <1>4, <2>2, WaitAtIs, Zenon
<1>5. CASE k = <<"split", p>>
  <2>1. split[p].at = "pieces"
    BY <1>5, ContentsOf DEF InSplit
  <2>2. <<"split", p, <<split[p].last - split[p].nreq * split[p].unit,
                        split[p].last>> >> \in Waiting
    <3>1. p \in {v \in Proc : split[v].at = "pieces"}
      BY <2>1
    <3>2. <<"split", p, <<split[p].last - split[p].nreq * split[p].unit,
                          split[p].last>> >> \in WaitSplits
      BY <3>1, Zenon DEF WaitSplits
    <3>3. QED
      BY <3>2, WaitingIs
  <2>3. QED
    BY <1>5, <2>2, WaitAtIs, Zenon
<1>6. QED
  BY <1>1, <1>2, <1>3, <1>4, <1>5

LEMMA OnePlace ==
    ASSUME CoreInv, WorkInv
    PROVE  NothingLost
<1> SUFFICES ASSUME NEW i \in Iterations(0, total)
             PROVE  Cardinality({w \in Waiting : i \in Iterations(w[3][1], w[3][2])}) =
                      IF i \in started THEN 0 ELSE 1
  BY Zenon DEF NothingLost
<1> DEFINE W == {w \in Waiting : i \in Iterations(w[3][1], w[3][2])}
<1>1. \A w \in W : \E k \in Place : w = WaitAt(k) /\ i \in Contents[k]
  BY WaitingHasPlace, Zenon
<1>2. CASE i \in started
  <2>1. \A k \in Place : i \notin Contents[k]
    BY <1>2 DEF WorkInv, PlaceInv, Partition
  <2>2. W = {}
    BY <1>1, <2>1, Zenon
  <2>3. Cardinality(W) = 0
    BY <2>2, FS_EmptySet, Zenon
  <2>4. QED
    BY <1>2, <2>3
<1>3. CASE i \notin started
  <2>1. PICK k \in Place : i \in Contents[k]
    BY <1>3 DEF WorkInv, PlaceInv, Partition
  <2>2. \A l \in Place : i \in Contents[l] => l = k
    BY <2>1 DEF WorkInv, PlaceInv, Partition
  <2>3. WaitAt(k) \in W
    <3>1. WaitAt(k) \in Waiting
      BY <2>1, PlaceIsWaiting
    <3>2. PICK l \in Place :
             /\ WaitAt(k) = WaitAt(l)
             /\ Iterations(WaitAt(k)[3][1], WaitAt(k)[3][2]) = Contents[l]
      BY <3>1, WaitingHasPlace, Zenon
    <3>3. \A m \in Place : m = <<m[1], m[2]>>
      BY DEF Place
    <3>4. \A m \in Place : WaitAt(m)[1] = m[1] /\ WaitAt(m)[2] = m[2]
      BY DEF WaitAt
    <3>5. k = l
      BY <2>1, <3>2, <3>3, <3>4
    <3>6. QED
      BY <2>1, <3>1, <3>2, <3>5, Zenon
  <2>4. \A w \in W : w = WaitAt(k)
    BY <1>1, <2>2, Zenon
  <2> HIDE DEF W
  <2>5. W = {WaitAt(k)}
    BY <2>3, <2>4
  <2>6. Cardinality(W) = 1
    BY <2>5, FS_Singleton, Zenon
  <2>7. QED
    BY <1>3, <2>6 DEF W
<1>4. QED
  BY <1>2, <1>3

\* Whatever the owner of a queue, the thieves that steal it directly and the
\* splitters of kaapic do at once, an iteration that no call of the body was
\* given is in one slice, queue, piece or reply, and a given one in none.
THEOREM IterationsHaveOnePlace ==
    ASSUME Starter = 0
    PROVE  Spec => []NothingLost
<1>1. Init => CoreInv /\ WorkInv
  BY CoreInit, WorkInit
<1>2. CoreInv /\ WorkInv /\ [Next]_vars => (CoreInv /\ WorkInv)'
  BY CoreNext, WorkNext
<1>3. CoreInv /\ WorkInv => NothingLost
  BY OnePlace
<1>4. QED
  BY <1>1, <1>2, <1>3, PTL DEF Spec

\* workremain, that every processor decrements late in kaapic_foreach_worknext
\* and kaapic_foreach_globalwork_next, counts what is not reported: when one of
\* them reads 0, all was given to the body and all of it was reported.
THEOREM RemainIsCounted ==
    ASSUME Starter = 0
    PROVE  Spec => []RemainIsExact
<1>1. Init => CoreInv /\ WorkInv
  BY CoreInit, WorkInit
<1>2. CoreInv /\ WorkInv /\ [Next]_vars => (CoreInv /\ WorkInv)'
  BY CoreNext, WorkNext
<1>3. CoreInv /\ WorkInv => RemainIsExact
  BY DEF WorkInv, CountInv
<1>4. QED
  BY <1>1, <1>2, <1>3, PTL DEF Spec

-------------------------------------------------------------------------------
(* The loop implements ParallelLoop.                                       *)

LEMMA QueueWaits ==
    ASSUME WorkInv, NEW p \in Proc
    PROVE  /\ InQueue(p) \subseteq Iterations(0, total) \ started
           /\ InPiece(p) \subseteq Iterations(0, total) \ started
<1>1. \A k \in Place : Contents[k] \subseteq Iterations(0, total) \ started
  BY DEF WorkInv, PlaceInv, Partition
<1>2. QED
  BY <1>1, ContentsOf

\* What a call of the body is given is not empty, and was waiting.
LEMMA BodyIsGivenWork ==
    ASSUME CoreInv, WorkInv, NEW p \in Proc, Pop(p) \/ RunPiece(p) \/ Refill(p)
    PROVE  \E beg, end \in Int :
             /\ beg < end /\ CallBody(p, <<beg, end>>)
             /\ Iterations(beg, end) \subseteq Iterations(0, total) \ started
<1>1. /\ queue[p] \in Bounds /\ piece[p] \in Bounds
      /\ InQueue(p) \subseteq Iterations(0, total) \ started
      /\ InPiece(p) \subseteq Iterations(0, total) \ started
  BY QueueWaits DEF CoreInv, Types
<1>2. CASE Pop(p)
  <2>1. PICK beg \in Int, end \in Int : queue[p] = <<beg, end>> /\ beg < end
    <3>1. queue[p][1] \in Int /\ queue[p][2] \in Int /\ queue[p][2] - queue[p][1] > 0
          /\ queue[p] = <<queue[p][1], queue[p][2]>>
      BY <1>1, <1>2, BoundsFacts DEF Pop, Size
    <3>2. QED
      BY <3>1
  <2>2. PICK next \in Int : next = Min({beg + SeqGrain, end})
    <3>1. beg + SeqGrain \in Int
      BY ConstantsAssumption
    <3>2. QED
      BY <3>1, MinOfTwo
  <2>3. beg < next /\ next <= end
    <3>1. beg + SeqGrain \in Int /\ beg < beg + SeqGrain
      BY ConstantsAssumption
    <3>2. QED
      BY <2>1, <2>2, <3>1, MinOfTwo
  <2>4. CallBody(p, <<beg, next>>)
    BY <1>2, <2>1, <2>2 DEF Pop
  <2>5. Iterations(beg, next) \subseteq InQueue(p)
    <3>1. beg <= next
      BY <2>3
    <3>2. InQueue(p) = Iterations(beg, end)
      BY <2>1 DEF InQueue, Within
    <3>3. QED
      BY <2>3, <3>1, <3>2, CutIterations
  <2>6. QED
    BY <1>1, <2>3, <2>4, <2>5
<1>3. CASE RunPiece(p)
  <2>1. pc[p] = "got" /\ CallBody(p, piece[p])
    BY <1>3 DEF RunPiece
  <2>2. PICK beg \in Int, end \in Int : piece[p] = <<beg, end>> /\ beg < end
    BY <1>1, <2>1, BoundsFacts DEF WorkInv, PieceInv
  <2>3. InPiece(p) = Iterations(beg, end)
    BY <2>1, <2>2 DEF InPiece, Within
  <2>4. QED
    BY <1>1, <2>1, <2>2, <2>3
<1>4. CASE Refill(p)
  <2>1. pc[p] = "got"
    BY <1>4 DEF Refill
  <2>2. PICK beg \in Int, end \in Int : piece[p] = <<beg, end>> /\ end - beg > SeqGrain
    <3>1. piece[p][1] \in Int /\ piece[p][2] \in Int
          /\ piece[p] = <<piece[p][1], piece[p][2]>>
      BY <1>1, BoundsFacts
    <3>2. QED
      BY <1>4, <3>1 DEF Refill, Size
  <2>3. PICK middle \in Int : middle = beg + SeqGrain
    BY ConstantsAssumption
  <2>4. beg < middle /\ middle <= end
    BY <2>2, <2>3, ConstantsAssumption
  <2>5. CallBody(p, <<beg, middle>>)
    BY <1>4, <2>2, <2>3 DEF Refill
  <2>6. Iterations(beg, middle) \subseteq InPiece(p)
    <3>1. beg <= middle
      BY <2>4
    <3>2. InPiece(p) = Iterations(beg, end)
      BY <2>1, <2>2 DEF InPiece, Within
    <3>3. QED
      BY <2>4, <3>1, <3>2, CutIterations
  <2>7. QED
    BY <1>1, <2>4, <2>5, <2>6
<1>5. QED
  BY <1>2, <1>3, <1>4

\* The others neither begin nor end a call of the body.
LEMMA OthersDoing ==
    ASSUME CoreInv, NEW p \in Proc, Participant(p)
    PROVE  \A r \in Proc : r # p => Doing(r)' = Doing(r) /\ pc'[r] = pc[r]
BY OthersStay DEF CoreInv, Doing, Iterations

LEMMA BeginStep ==
    ASSUME CoreInv, WorkInv, Next, NEW p \in Proc, Pop(p) \/ RunPiece(p) \/ Refill(p)
    PROVE  Abstract!Begin(p)
<1>1. PICK beg \in Int, end \in Int :
         /\ beg < end /\ CallBody(p, <<beg, end>>)
         /\ Iterations(beg, end) \subseteq Iterations(0, total) \ started
  BY BodyIsGivenWork
<1>2. Participant(p) /\ pc[p] \in {"pop", "got"}
  BY DEF Participant, Work, Pop, RunPiece, Refill
<1>3. pc'[p] = "body" /\ piece'[p] = <<beg, end>> /\ started' = started \cup Iterations(beg, end)
  BY <1>1 DEF CallBody, CoreInv, Types
<1>4. total' = total
  BY ShapeIsConstant DEF shape
<1> DEFINE S == Iterations(beg, end)
<1>5. S # {} /\ S \in SUBSET (Iterations(0, total) \ started)
  BY <1>1 DEF Iterations
<1>6. Doing(p) = {} /\ Doing(p)' = S
  BY <1>2, <1>3 DEF Doing, Iterations
<1> HIDE DEF S
<1>7. [q \in Proc |-> Doing(q)'] = [[q \in Proc |-> Doing(q)] EXCEPT ![p] = S]
  BY <1>2, <1>6, OthersDoing
<1>8. Iterations(0, total)' \ started' = (Iterations(0, total) \ started) \ S
  BY <1>3, <1>4 DEF Iterations, S
<1>9. (pc'[Starter] = "over") = (pc[Starter] = "over")
  <2>1. Starter \in Proc
    BY ConstantsAssumption DEF Proc
  <2>2. QED
    BY <1>2, <1>3, <2>1, OthersDoing
<1>10. [q \in Proc |-> Doing(q)][p] = {}
  BY <1>6
<1>11. QED
  BY <1>5, <1>7, <1>8, <1>9, <1>10 DEF Abstract!Begin

LEMMA EndStep ==
    ASSUME CoreInv, WorkInv, Next, NEW p \in Proc, BodyEnds(p)
    PROVE  Abstract!End(p)
<1>1. /\ Participant(p) /\ pc[p] = "body" /\ pc'[p] = "test"
      /\ UNCHANGED started
  BY DEF Participant, Work, BodyEnds, Goto, CoreInv, Types
<1>2. total' = total
  BY ShapeIsConstant DEF shape
<1>3. Doing(p) # {} /\ Doing(p)' = {}
  <2>1. piece[p] \in Bounds /\ piece[p][1] < piece[p][2]
    BY <1>1 DEF CoreInv, Types, WorkInv, PieceInv
  <2>2. Within(piece[p]) # {}
    BY <2>1, EmptyWithin, BoundsFacts
  <2>3. QED
    BY <1>1, <2>2 DEF Doing, Within
<1>4. [q \in Proc |-> Doing(q)'] = [[q \in Proc |-> Doing(q)] EXCEPT ![p] = {}]
  BY <1>1, <1>3, OthersDoing
<1>5. Iterations(0, total)' \ started' = Iterations(0, total) \ started
  BY <1>1, <1>2 DEF Iterations
<1>6. (pc'[Starter] = "over") = (pc[Starter] = "over")
  <2>1. Starter \in Proc
    BY ConstantsAssumption DEF Proc
  <2>2. QED
    BY <1>1, <2>1, OthersDoing
<1>7. [q \in Proc |-> Doing(q)][p] # {}
  BY <1>3
<1>8. QED
  BY <1>4, <1>5, <1>6, <1>7 DEF Abstract!End

LEMMA ReturnStep ==
    ASSUME CoreInv, LoopInv, WorkInv, Next, WaitDone
    PROVE  Abstract!Return
<1>1. Starter \in Proc
  BY ConstantsAssumption DEF Proc
<1>2. /\ Participant(Starter) /\ pc[Starter] = "waitdone" /\ pc'[Starter] = "over"
      /\ UNCHANGED started
  BY <1>1 DEF Participant, WaitDone, Goto, CoreInv, Types
<1>3. total' = total
  BY ShapeIsConstant DEF shape
<1>4. Iterations(0, total) \ started = {}
  BY <1>1, <1>2, NothingRemains DEF WorkInv, EndInv, Ending, CoreInv, Types
<1>5. \A p \in Proc : Doing(p) = {} /\ Doing(p)' = Doing(p)
  <2>1. \A p \in Proc : p # Starter => pc[p] = "idle" /\ Doing(p)' = Doing(p)
    BY <1>1, <1>2, NobodyLeft, OthersDoing
  <2>2. QED
    BY <1>1, <1>2, <2>1 DEF Doing
<1>6. Iterations(0, total)' \ started' = Iterations(0, total) \ started
  BY <1>2, <1>3 DEF Iterations
<1>7. [q \in Proc |-> Doing(q)'] = [q \in Proc |-> Doing(q)]
  BY <1>5
<1>8. (pc'[Starter] = "over") = TRUE /\ ~(pc[Starter] = "over")
  BY <1>2
<1>9. \A p \in Proc : [q \in Proc |-> Doing(q)][p] = {}
  BY <1>5
<1>10. QED
  BY <1>4, <1>6, <1>7, <1>8, <1>9 DEF Abstract!Return

LEMMA StutterStep ==
    ASSUME Next, UNCHANGED started, \A p \in Proc : Doing(p)' = Doing(p),
           pc'[Starter] = "over" <=> pc[Starter] = "over"
    PROVE  UNCHANGED Abstract!vars
<1>1. total' = total
  BY ShapeIsConstant DEF shape
<1>2. Iterations(0, total)' \ started' = Iterations(0, total) \ started
  BY <1>1 DEF Iterations
<1>3. [q \in Proc |-> Doing(q)'] = [q \in Proc |-> Doing(q)]
  OBVIOUS
<1>4. (pc'[Starter] = "over") = (pc[Starter] = "over")
  OBVIOUS
<1>5. QED
  BY <1>2, <1>3, <1>4 DEF Abstract!vars

LEMMA ParticipantImplements ==
    ASSUME CoreInv, LoopInv, WorkInv, Next, NEW p \in Proc, Participant(p)
    PROVE  [Abstract!Next]_(Abstract!vars)
<1> USE DEF shape, global, lwork, locals, adaptive, Goto
<1>1. CASE Pop(p) \/ RunPiece(p) \/ Refill(p)
  BY <1>1, BeginStep DEF Abstract!Next
<1>2. CASE BodyEnds(p)
  BY <1>2, EndStep DEF Abstract!Next
<1>3. CASE p = Starter /\ WaitDone
  BY <1>3, ReturnStep DEF Abstract!Next
<1>4. CASE \/ TestRemain(p) \/ PopEmpty(p) \/ SubRemain(p) \/ NextWork(p) \/ FindSlice(p)
           \/ PopSlice(p) \/ CheckSlice(p) \/ PopAny(p) \/ NoneRemains(p) \/ Select(p) \/ Steal(p)
           \/ Finish(p) \/ (p = Starter /\ WaitThieves)
  <2>1. UNCHANGED started /\ pc[p] \notin {"body", "over"}
    BY <1>4 DEF TestRemain, PopEmpty, SubRemain, NextWork, FindSlice, PopSlice, CheckSlice, PopAny,
       NoneRemains, Select, Steal, Finish, Leave, UnsetSplittable, Synchronize, DecrDone,
       Merge, WaitThieves
  <2>2. pc'[p] \notin {"body", "over"}
    BY <1>4 DEF TestRemain, PopEmpty, SubRemain, NextWork, FindSlice, PopSlice, CheckSlice, PopAny,
       TakeSlice, NoneRemains, Select, Steal, Finish, Leave, UnsetSplittable, Synchronize,
       DecrDone, Merge, WaitThieves, CoreInv, Types
  <2>3. Doing(p) = {} /\ Doing(p)' = {}
    BY <2>1, <2>2 DEF Doing
  <2>4. Starter \in Proc
    BY ConstantsAssumption DEF Proc
  <2>5. QED
    BY <2>1, <2>2, <2>3, <2>4, OthersDoing, StutterStep
<1>5. QED
  BY <1>1, <1>2, <1>3, <1>4 DEF Participant, Work

LEMMA SplitterImplements ==
    ASSUME CoreInv, Next, NEW v \in Proc,
           BeginSplit(v) \/ Splitter(v) \/ (\E r \in Proc : StartThief(v, r))
    PROVE  UNCHANGED Abstract!vars
<1> USE DEF shape, global, lwork, locals, adaptive
<1>1. UNCHANGED <<started, piece>>
  BY DEF BeginSplit, Splitter, EnterSplit, ClearSlices, ReplySlice, SlicesReplied,
     SizeLocal, TakeLocal, ReplyPiece, EndSplit, StartThief
<1>2. \A p \in Proc : \/ pc'[p] = pc[p]
                      \/ pc[p] \in {"idle", "posted"} /\ pc'[p] \in {"idle", "posted", "test"}
  <2>1. CASE BeginSplit(v)
    BY <2>1 DEF BeginSplit
  <2>2. CASE EnterSplit(v) \/ ClearSlices(v) \/ ReplySlice(v) \/ SlicesReplied(v)
             \/ SizeLocal(v) \/ TakeLocal(v) \/ ReplyPiece(v)
    BY <2>2 DEF EnterSplit, ClearSlices, ReplySlice, SlicesReplied, SizeLocal, TakeLocal,
       ReplyPiece
  <2>3. ASSUME NEW r \in Proc, StartThief(v, r)
        PROVE  pc[r] = "posted" /\ pc' = [pc EXCEPT ![r] = "test"]
    BY <2>3 DEF StartThief, CoreInv, AskInv, Asking, GivenBy
  <2>4. CASE EndSplit(v)
    <3>1. ~LockIsFree(v)
      <4>1. split[v].at \in SplitAt
        BY <2>4 DEF EndSplit, SplitAt
      <4>2. QED
        BY <4>1, SplitIsRecord DEF CoreInv
    <3>2. \A p \in Proc : p \in split[v].given \/ p \in split[v].requests => pc[p] = "posted"
      BY <3>1 DEF CoreInv, AskInv, Asking, GivenBy, Requests
    <3>3. QED
      BY <2>4, <3>2 DEF EndSplit
  <2>5. QED
    BY <2>1, <2>2, <2>3, <2>4 DEF Splitter, CoreInv, Types
<1>3. \A p \in Proc : Doing(p)' = Doing(p)
  BY <1>1, <1>2 DEF Doing, Iterations
<1>4. Starter \in Proc
  BY ConstantsAssumption DEF Proc
<1>5. QED
  BY <1>1, <1>2, <1>3, <1>4, StutterStep

\* Whatever the number of processors and the grains, kaapic_foreach is a
\* ParallelLoop: an iteration is given once to the body, and the call returns
\* when all were given and no processor is in the body.
THEOREM LoopIsImplemented ==
    ASSUME Starter = 0
    PROVE  Spec => ImplementsParallelLoop
<1>1. Init => CoreInv /\ LoopInv /\ WorkInv
  BY CoreInit, LoopInit, WorkInit
<1>2. CoreInv /\ LoopInv /\ WorkInv /\ [Next]_vars => (CoreInv /\ LoopInv /\ WorkInv)'
  BY CoreNext, LoopNext, WorkNext
<1>3. Init => Abstract!Init
  <2> SUFFICES ASSUME Init PROVE Abstract!Init
    OBVIOUS
  <2>1. total \in 1 .. MaxIter /\ started = {} /\ \A p \in Proc : pc[p] \notin {"body", "over"}
    BY DEF Init
  <2>2. Iterations(0, total) \ started = 0 .. total - 1
    BY <2>1 DEF Iterations
  <2>3. [p \in Proc |-> Doing(p)] = [p \in Proc |-> {}]
    BY <2>1 DEF Doing
  <2>4. (pc[Starter] = "over") = FALSE
    BY <2>1, ConstantsAssumption DEF Proc
  <2>5. QED
    BY <2>1, <2>2, <2>3, <2>4 DEF Abstract!Init
<1>4. CoreInv /\ LoopInv /\ WorkInv /\ [Next]_vars => [Abstract!Next]_(Abstract!vars)
  <2> SUFFICES ASSUME CoreInv, LoopInv, WorkInv, [Next]_vars
               PROVE  [Abstract!Next]_(Abstract!vars)
    OBVIOUS
  <2>1. CASE UNCHANGED vars
    <3>1. UNCHANGED <<total, started, pc, piece>>
      BY <2>1 DEF vars, shape, locals
    <3>2. /\ Iterations(0, total)' \ started' = Iterations(0, total) \ started
          /\ [p \in Proc |-> Doing(p)'] = [p \in Proc |-> Doing(p)]
          /\ (pc'[Starter] = "over") = (pc[Starter] = "over")
      BY <3>1 DEF Doing, Iterations
    <3>3. QED
      BY <3>2 DEF Abstract!vars
  <2>2. CASE Next
    BY <2>2, ParticipantImplements, SplitterImplements DEF Next
  <2>3. QED
    BY <2>1, <2>2
<1>5. QED
  BY <1>1, <1>2, <1>3, <1>4, PTL DEF Spec, ImplementsParallelLoop, Abstract!Spec
===============================================================================
