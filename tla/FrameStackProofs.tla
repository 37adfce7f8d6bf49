---------------------------- MODULE FrameStackProofs ----------------------------
(***************************************************************************)
(* Proofs about FrameStack, for every number of frames, positions, tasks   *)
(* and thieves.  OwnerInv is what the owner knows of its frames, whatever  *)
(* the machine; ThiefInv is what it leaves to the thief that has the lock, *)
(* on a machine that delays no store.                                      *)
(***************************************************************************)
EXTENDS FrameStack, SequenceTheorems, TLAPS

-------------------------------------------------------------------------------
(* What the owner sees of its stack.                                       *)

SFP == Own.sfp
PC(f) == Own.pc[f]
SP(f) == Own.sp[f]
SL(s) == Own.slot[s]

\* The first position of frame f.
First(f) == IF f = 0 THEN 1 ELSE SP(f - 1)

\* The tasks of frame f below k are over; no task at k or above is waited for.
DoneBelow(f, k) == \A s \in Slot : First(f) <= s /\ s < k => SL(s) \in finished
FreeFrom(k) == \A s \in Slot : k <= s => SL(s) \in finished \cup {0}

\* The owner is about to push a frame, executes the tasks of the frame below fp,
\* or pops.
Pushing == {"pushpc", "pushsp", "pushsfp"}
Executing == {"loop", "body", "child", "after", "block", "leave", "suspended"}
Popping == {"end", "pop", "empty", "setsfp"}
Popped == {"setsfp", "check", "waitlock"}

OwnTypes ==
    /\ versions \in Seq(StackView) /\ Len(versions) \in 1 .. (delay + 1)
    /\ delay \in {0, BufferSize}
    /\ opc \in OwnerPc
    /\ fp \in Frame
    /\ pc \in 1..(NSlot + 1)
    /\ sp \in 1..(NSlot + 1)
    /\ created \in 0..MaxTask

\* Frames follow each other, and their tasks are executed in order.
FramesInOrder ==
    opc # "resetpc" =>
        \A f \in Frame : f <= fp =>
            /\ First(f) <= PC(f) /\ PC(f) <= SP(f)
            /\ \A g \in Frame : g < f => SP(g) <= PC(f)

HistoryInv == \A f \in Frame : f <= fp \/ f <= SFP => DoneBelow(f, PC(f))

\* The task at the pc of a frame that is covered is the parent of the next one.
ParentInv ==
    \A f \in Frame :
        f < fp - 1 \/ (f = fp - 1 /\ opc \notin Executing) => PC(f) < SP(f)

PushInv ==
    /\ opc \in Pushing => fp < MaxFrame
    /\ opc \in {"pushsp", "pushsfp"} => pc = PC(fp) /\ sp = SP(fp) /\ PC(fp + 1) = sp
    /\ opc = "pushsfp" => SP(fp + 1) = sp

ExecInv ==
    opc \in Executing =>
        /\ fp >= 1
        /\ sp = SP(fp - 1) /\ PC(fp) = sp
        /\ PC(fp - 1) <= pc /\ pc <= sp
        /\ DoneBelow(fp - 1, pc)
        /\ opc # "loop" => pc < sp
        /\ opc \notin {"body", "child"} => SP(fp) = sp
        /\ SP(fp) > sp \/ opc = "child" => fp < MaxFrame
        /\ opc \in {"leave", "suspended"} => PC(fp - 1) = pc

PopInv ==
    /\ opc \in {"root", "pushed", "empty", "resetsp", "resetpc"} => fp = 0
    /\ opc \in {"end", "pop"} => fp < MaxFrame
    /\ opc = "pop" => fp >= 1
    /\ opc \in {"end", "empty", "resetsp"} => PC(fp) = SP(fp)
    /\ opc \in Popped => fp < MaxFrame /\ (PC(fp) = SP(fp) => fp = 0)
    /\ opc = "resetpc" => SP(0) = 1

FreeInv ==
    /\ opc \notin {"pushed", "child"} => FreeFrom(SP(fp))
    /\ opc \in {"pushed", "child"} => SP(fp) \in Slot /\ FreeFrom(SP(fp) + 1)
    /\ opc = "pop" => FreeFrom(SP(fp - 1))
    /\ opc \in {"empty", "resetsp", "resetpc"} => FreeFrom(1)
    /\ opc \in Popped /\ PC(fp) = SP(fp) => FreeFrom(1)

SfpInv ==
    /\ opc \notin Popping \cup {"suspended"} => SFP = fp
    /\ opc = "suspended" => SFP = fp - 1
    /\ opc \in Popping => SFP >= fp

OwnerInv ==
    /\ OwnTypes /\ FramesInOrder /\ HistoryInv /\ ParentInv
    /\ PushInv /\ ExecInv /\ PopInv /\ FreeInv /\ SfpInv

-------------------------------------------------------------------------------
(* The thief that has the lock.                                            *)

InFrame == {"setfp", "cmp", "readpc", "readsp", "scan"}

ThiefTypes ==
    /\ lock \in Thief \cup {None}
    /\ sync \in BOOLEAN
    /\ thieffp \in Seq(Frame \cup {NoFrame})
    /\ Len(thieffp) \in 1 .. (delay + 1)
    /\ tpc \in [Thief -> ThiefPc]
    /\ top \in [Thief -> 0..(MaxFrame + 1)]
    /\ ttop \in [Thief -> 1..(NSlot + 1)]
    /\ tsp \in [Thief -> 1..(NSlot + 1)]
    /\ DOMAIN seen = Thief

\* thieffp is that of the holder of the lock, or the frame below.
LockInv ==
    /\ \A th \in Thief : tpc[th] # "idle" <=> lock = th
    /\ lock = None => SeenThieffp = NoFrame
    /\ \A th \in Thief :
        /\ tpc[th] \in {"test", "setfp"} => SeenThieffp = top[th] - 1
        /\ tpc[th] \in InFrame \ {"setfp"} => SeenThieffp = top[th]
        /\ tpc[th] = "unlock" => SeenThieffp = NoFrame

\* What a thief in frame t has read of it is still there.
ReadOf(th, t) ==
    /\ t # 0 => DoneBelow(t, PC(t))
    /\ tpc[th] = "readsp" /\ t # 0 => ttop[th] <= PC(t)
    /\ tpc[th] = "scan" =>
         /\ tsp[th] <= SP(t)
         /\ \A s \in Slot : ttop[th] <= s /\ s < tsp[th] => SL(s) = seen[th][s]

ReadInv ==
    \A th \in Thief : tpc[th] \in InFrame => top[th] \in Frame /\ ReadOf(th, top[th])

\* A thief is not above the owner, nor reads a bottom frame that is empty.
NotAbove(th, t) ==
    /\ t <= fp
    /\ fp = 0 /\ PC(0) = SP(0) => tpc[th] \in {"setfp", "cmp"}

\* Where a thief in frame t may be, from the place of the owner: an owner that pops
\* lets it be above, and waits for it before it goes on.
PlaceOf(th, t) ==
    /\ opc \in {"root", "pushed", "resetpc"} \cup Executing => t <= fp
    /\ opc \in Pushing =>
         t <= fp + 1 /\ (t = fp + 1 => PC(t) = SP(fp) /\ SP(t) = SP(fp))
    /\ opc = "resetsp" \/ (opc = "waitlock" /\ ~sync) => NotAbove(th, t)

PlaceInv == \A th \in Thief : tpc[th] \in InFrame => PlaceOf(th, top[th])

ThiefInv == delay = 0 => ThiefTypes /\ LockInv /\ ReadInv /\ PlaceInv

-------------------------------------------------------------------------------
(* The stores of the owner.                                                *)

LEMMA ConstantFacts ==
    /\ MaxFrame \in Nat \ {0} /\ NSlot \in Nat \ {0} /\ MaxTask \in Nat \ {0}
    /\ BufferSize \in Nat
    /\ \A f : f \in Frame <=> f \in Int /\ 0 <= f /\ f <= MaxFrame
    /\ \A s : s \in Slot <=> s \in Int /\ 1 <= s /\ s <= NSlot
    /\ \A x : x \in 1 .. (NSlot + 1) <=> x \in Int /\ 1 <= x /\ x <= NSlot + 1
BY ConstantsAssumption DEF Frame, Slot

LEMMA OwnIsView ==
    ASSUME OwnTypes
    PROVE  /\ Own \in StackView
           /\ Own.sfp \in Frame
           /\ Own.pc \in [Frame -> 1 .. (NSlot + 1)]
           /\ Own.sp \in [Frame -> 1 .. (NSlot + 1)]
           /\ Own.slot \in [Slot -> 0 .. MaxTask]
<1>1. Own \in StackView
  <2>1. Len(versions) \in 1 .. Len(versions)
    BY ConstantFacts DEF OwnTypes
  <2>2. versions[Len(versions)] \in StackView
    BY <2>1, ElementOfSeq DEF OwnTypes
  <2>3. QED
    BY <2>2 DEF Own
<1>2. QED
  BY <1>1 DEF StackView

LEMMA OwnerStore ==
    ASSUME OwnTypes, NEW v \in StackView, OwnerStores(v)
    PROVE  /\ versions' \in Seq(StackView) /\ Len(versions') \in 1 .. (delay + 1)
           /\ Own' = v
<1>1. CASE delay = 0
  <2>1. versions' = <<v>>
    BY <1>1 DEF OwnerStores, Store
  <2>2. QED
    BY <1>1, <2>1 DEF Own
<1>2. CASE delay # 0
  <2>1. versions' = Append(versions, v) /\ Len(versions) <= delay
    BY <1>2 DEF OwnerStores, Store, CanStore
  <2>2. Len(versions) \in Nat /\ delay \in Nat /\ versions \in Seq(StackView)
    BY ConstantFacts DEF OwnTypes
  <2>3. versions' \in Seq(StackView) /\ Len(versions') = Len(versions) + 1
        /\ versions'[Len(versions) + 1] = v
    BY <2>1, <2>2
  <2>4. QED
    BY <2>1, <2>2, <2>3 DEF Own, OwnTypes
<1>3. QED
  BY <1>1, <1>2

\* What a store of each kind leaves.
PcStored(f, x) ==
    /\ Own'.pc = [Own.pc EXCEPT ![f] = x]
    /\ Own'.sp = Own.sp /\ Own'.slot = Own.slot /\ Own'.sfp = Own.sfp
SpStored(f, x) ==
    /\ Own'.sp = [Own.sp EXCEPT ![f] = x]
    /\ Own'.pc = Own.pc /\ Own'.slot = Own.slot /\ Own'.sfp = Own.sfp
SlotStored(s, x) ==
    /\ Own'.slot = [Own.slot EXCEPT ![s] = x]
    /\ Own'.pc = Own.pc /\ Own'.sp = Own.sp /\ Own'.sfp = Own.sfp
SfpStored(f) ==
    /\ Own'.sfp = f
    /\ Own'.pc = Own.pc /\ Own'.sp = Own.sp /\ Own'.slot = Own.slot
NothingStored ==
    /\ Own'.sfp = Own.sfp
    /\ Own'.pc = Own.pc /\ Own'.sp = Own.sp /\ Own'.slot = Own.slot

StoreTypes == versions' \in Seq(StackView) /\ Len(versions') \in 1 .. (delay + 1)

LEMMA StorePc ==
    ASSUME OwnTypes, NEW f \in Frame, NEW x \in 1 .. (NSlot + 1),
           OwnerStores([Own EXCEPT !.pc[f] = x])
    PROVE  StoreTypes /\ PcStored(f, x)
<1> DEFINE v == [Own EXCEPT !.pc[f] = x]
<1>1. /\ v \in StackView /\ v.pc = [Own.pc EXCEPT ![f] = x]
      /\ v.sp = Own.sp /\ v.slot = Own.slot /\ v.sfp = Own.sfp
  BY OwnIsView DEF StackView
<1> HIDE DEF v
<1>2. Own' = v /\ StoreTypes
  BY <1>1, OwnerStore DEF v, StoreTypes
<1>3. QED
  BY <1>1, <1>2 DEF PcStored

LEMMA StoreSp ==
    ASSUME OwnTypes, NEW f \in Frame, NEW x \in 1 .. (NSlot + 1),
           OwnerStores([Own EXCEPT !.sp[f] = x])
    PROVE  StoreTypes /\ SpStored(f, x)
<1> DEFINE v == [Own EXCEPT !.sp[f] = x]
<1>1. /\ v \in StackView /\ v.sp = [Own.sp EXCEPT ![f] = x]
      /\ v.pc = Own.pc /\ v.slot = Own.slot /\ v.sfp = Own.sfp
  BY OwnIsView DEF StackView
<1> HIDE DEF v
<1>2. Own' = v /\ StoreTypes
  BY <1>1, OwnerStore DEF v, StoreTypes
<1>3. QED
  BY <1>1, <1>2 DEF SpStored

LEMMA StoreSlot ==
    ASSUME OwnTypes, NEW s \in Slot, NEW x \in 0 .. MaxTask,
           OwnerStores([Own EXCEPT !.slot[s] = x])
    PROVE  StoreTypes /\ SlotStored(s, x)
<1> DEFINE v == [Own EXCEPT !.slot[s] = x]
<1>1. /\ v \in StackView /\ v.slot = [Own.slot EXCEPT ![s] = x]
      /\ v.pc = Own.pc /\ v.sp = Own.sp /\ v.sfp = Own.sfp
  BY OwnIsView DEF StackView
<1> HIDE DEF v
<1>2. Own' = v /\ StoreTypes
  BY <1>1, OwnerStore DEF v, StoreTypes
<1>3. QED
  BY <1>1, <1>2 DEF SlotStored

LEMMA StoreSfp ==
    ASSUME OwnTypes, NEW f \in Frame, OwnerStores([Own EXCEPT !.sfp = f])
    PROVE  StoreTypes /\ SfpStored(f)
<1> DEFINE v == [Own EXCEPT !.sfp = f]
<1>1. /\ v \in StackView /\ v.sfp = f
      /\ v.pc = Own.pc /\ v.sp = Own.sp /\ v.slot = Own.slot
  BY OwnIsView DEF StackView
<1> HIDE DEF v
<1>2. Own' = v /\ StoreTypes
  BY <1>1, OwnerStore DEF v, StoreTypes
<1>3. QED
  BY <1>1, <1>2 DEF SfpStored

\* Memory catches up: the owner sees the same.
LEMMA DrainStore ==
    ASSUME OwnTypes, DrainOwner
    PROVE  StoreTypes /\ Own' = Own
<1>1. /\ versions \in Seq(StackView) /\ Len(versions) \in 1 .. (delay + 1)
      /\ delay \in Nat /\ delay' = delay
      /\ Len(versions) # 1 /\ versions' = Tail(versions)
  BY ConstantFacts DEF OwnTypes, DrainOwner, Drained, lockVars
<1>2. /\ Tail(versions) \in Seq(StackView) /\ Len(Tail(versions)) = Len(versions) - 1
      /\ Tail(versions)[Len(versions) - 1] = versions[Len(versions)]
  <2>1. Len(versions) >= 2
    <3>1. \A n \in 1 .. (delay + 1) : n # 1 => n >= 2
      BY <1>1
    <3>2. QED
      BY <1>1, <3>1
  <2>2. versions # <<>>
    BY <2>1, EmptySeq
  <2>3. /\ Tail(versions) \in Seq(StackView) /\ Len(Tail(versions)) = Len(versions) - 1
        /\ \A i \in 1 .. Len(Tail(versions)) : Tail(versions)[i] = versions[i + 1]
    BY <1>1, <2>2, HeadTailProperties
  <2>4. Len(versions) - 1 \in 1 .. Len(Tail(versions))
    BY <1>1, <2>1, <2>3
  <2>5. QED
    BY <1>1, <2>3, <2>4
<1>3. QED
  BY <1>1, <1>2 DEF Own, StoreTypes

-------------------------------------------------------------------------------
(* The steps of the owner preserve what it knows.                          *)

\* The values of the variables of the owner, but for its stores.
OwnerVarsAre(o, f, p, s) == opc' = o /\ fp' = f /\ pc' = p /\ sp' = s

LEMMA PushPcOwner ==
    ASSUME OwnerInv, PushFramePc
    PROVE  OwnerInv'
<1> USE DEF OwnerInv, PC, SP, SL, SFP
<1>1. /\ opc = "pushpc" /\ OwnerVarsAre("pushsp", fp, Own.pc[fp], Own.sp[fp])
      /\ UNCHANGED <<finished, created, delay>>
  BY DEF PushFramePc, OwnerAt, OwnerVarsAre, ghostVars, lockVars
<1>2. /\ Own.pc \in [Frame -> 1 .. (NSlot + 1)] /\ Own.sp \in [Frame -> 1 .. (NSlot + 1)]
      /\ Own.sfp \in Frame /\ Own.slot \in [Slot -> 0 .. MaxTask]
  BY OwnIsView
<1>3. fp \in Frame /\ fp + 1 \in Frame /\ Own.pc[fp] \in 1 .. (NSlot + 1)
      /\ Own.sp[fp] \in 1 .. (NSlot + 1)
  <2>1. fp \in Frame /\ fp < MaxFrame
    BY <1>1 DEF OwnTypes, PushInv, Pushing
  <2>2. QED
    BY <1>2, <2>1, ConstantFacts
<1>4. StoreTypes /\ PcStored(fp + 1, Own.sp[fp])
  BY <1>3, StorePc DEF PushFramePc
<1> USE DEF OwnerVarsAre, PcStored, StoreTypes
<1>5. OwnTypes'
  BY <1>1, <1>3, <1>4 DEF OwnTypes, OwnerPc
<1>6. FramesInOrder'
  <2>1. \A f \in Frame : f <= fp => f # fp + 1
    BY <1>3, ConstantFacts
  <2>2. \A f \in Frame : f <= fp => Own'.pc[f] = Own.pc[f] /\ First(f)' = First(f)
    BY <1>2, <1>4, <2>1 DEF First
  <2>3. QED
    BY <1>1, <1>4, <2>2 DEF FramesInOrder
<1>7. HistoryInv'
  <2>1. Own.sfp = fp /\ \A f \in Frame : f <= fp => Own'.pc[f] = Own.pc[f]
    BY <1>1, <1>2, <1>3, <1>4, ConstantFacts DEF SfpInv, Popping
  <2>2. QED
    BY <1>1, <1>4, <2>1 DEF HistoryInv, DoneBelow, First
<1>8. ParentInv'
  BY <1>1, <1>2, <1>3, <1>4, ConstantFacts DEF ParentInv, Executing
<1>9. PushInv'
  BY <1>1, <1>2, <1>3, <1>4, ConstantFacts DEF PushInv, Pushing
<1>10. ExecInv' /\ PopInv' /\ SfpInv'
  BY <1>1, <1>2, <1>3, <1>4, ConstantFacts DEF ExecInv, PopInv, SfpInv, Executing, Popped, Popping
<1>11. FreeInv'
  BY <1>1, <1>2, <1>3, <1>4, ConstantFacts DEF FreeInv, FreeFrom, Popped
<1>12. QED
  BY <1>5, <1>6, <1>7, <1>8, <1>9, <1>10, <1>11

LEMMA PushSpOwner ==
    ASSUME OwnerInv, PushFrameSp
    PROVE  OwnerInv'
<1> USE DEF OwnerInv, PC, SP, SL, SFP, OwnerVarsAre, SpStored, StoreTypes
<1>1. /\ opc = "pushsp" /\ OwnerVarsAre("pushsfp", fp, pc, sp)
      /\ UNCHANGED <<finished, created, delay>>
  BY DEF PushFrameSp, OwnerAt, ghostVars, lockVars
<1>2. /\ Own.pc \in [Frame -> 1 .. (NSlot + 1)] /\ Own.sp \in [Frame -> 1 .. (NSlot + 1)]
      /\ Own.sfp \in Frame /\ Own.slot \in [Slot -> 0 .. MaxTask]
  BY OwnIsView
<1>3. fp \in Frame /\ fp + 1 \in Frame /\ sp \in 1 .. (NSlot + 1) /\ sp = Own.sp[fp]
      /\ Own.sfp = fp
  <2>1. fp \in Frame /\ fp < MaxFrame /\ Own.sfp = fp
    BY <1>1 DEF OwnTypes, PushInv, Pushing, SfpInv, Popping
  <2>2. pc = Own.pc[fp] /\ sp = Own.sp[fp] /\ Own.pc[fp + 1] = sp
        /\ (opc = "pushsfp" => Own.sp[fp + 1] = sp)
    BY <1>1 DEF PushInv
  <2>3. QED
    BY <1>1, <1>2, <2>1, <2>2, ConstantFacts
<1>4. StoreTypes /\ SpStored(fp + 1, sp)
  BY <1>3, StoreSp DEF PushFrameSp
<1>5. OwnTypes'
  BY <1>1, <1>3, <1>4 DEF OwnTypes, OwnerPc
<1>6. \A f \in Frame : f <= fp => /\ Own'.sp[f] = Own.sp[f] /\ First(f)' = First(f)
  BY <1>2, <1>3, <1>4, ConstantFacts DEF First
<1>7. FramesInOrder'
  <2> SUFFICES ASSUME NEW f \in Frame, f <= fp
               PROVE  /\ First(f) <= Own.pc[f] /\ Own.pc[f] <= Own.sp[f]
                      /\ \A g \in Frame : g < f => Own'.sp[g] <= Own.pc[f]
    BY <1>1, <1>3, <1>4, <1>6 DEF FramesInOrder
  <2>1. /\ First(f) <= Own.pc[f] /\ Own.pc[f] <= Own.sp[f]
        /\ \A g \in Frame : g < f => Own.sp[g] <= Own.pc[f]
    BY <1>1 DEF FramesInOrder
  <2>2. \A g \in Frame : g < f => g <= fp
    BY <1>3, ConstantFacts
  <2>3. QED
    BY <1>6, <2>1, <2>2
<1>8. HistoryInv'
  BY <1>1, <1>3, <1>4, <1>6 DEF HistoryInv, DoneBelow
<1>9. ParentInv' /\ PushInv'
  BY <1>1, <1>2, <1>3, <1>4, <1>6, ConstantFacts DEF ParentInv, PushInv, Executing, Pushing
<1>10. ExecInv' /\ PopInv' /\ SfpInv'
  BY <1>1, <1>3, <1>4, ConstantFacts DEF ExecInv, PopInv, SfpInv, Executing, Popped, Popping
<1>11. FreeInv'
  BY <1>1, <1>3, <1>4, <1>6 DEF FreeInv, FreeFrom, Popped
<1>12. QED
  BY <1>5, <1>7, <1>8, <1>9, <1>10, <1>11

LEMMA PushSfpOwner ==
    ASSUME OwnerInv, PushFrameSfp
    PROVE  OwnerInv'
<1> USE DEF OwnerInv, PC, SP, SL, SFP, OwnerVarsAre, SfpStored, StoreTypes
<1>1. /\ opc = "pushsfp" /\ OwnerVarsAre("loop", fp + 1, pc, sp)
      /\ UNCHANGED <<finished, created, delay>>
  BY DEF PushFrameSfp, OwnerAt, ghostVars, lockVars
<1>2. /\ Own.pc \in [Frame -> 1 .. (NSlot + 1)] /\ Own.sp \in [Frame -> 1 .. (NSlot + 1)]
      /\ Own.sfp \in Frame /\ Own.slot \in [Slot -> 0 .. MaxTask]
  BY OwnIsView
<1>3. /\ fp \in Frame /\ fp + 1 \in Frame /\ Own.sfp = fp
      /\ pc = Own.pc[fp] /\ sp = Own.sp[fp] /\ Own.pc[fp + 1] = sp /\ Own.sp[fp + 1] = sp
  <2>1. fp \in Frame /\ fp < MaxFrame /\ Own.sfp = fp
    BY <1>1 DEF OwnTypes, PushInv, Pushing, SfpInv, Popping
  <2>2. pc = Own.pc[fp] /\ sp = Own.sp[fp] /\ Own.pc[fp + 1] = sp
        /\ (opc = "pushsfp" => Own.sp[fp + 1] = sp)
    BY <1>1 DEF PushInv
  <2>3. QED
    BY <1>1, <1>2, <2>1, <2>2, ConstantFacts
<1>4. StoreTypes /\ SfpStored(fp + 1)
  BY <1>3, StoreSfp DEF PushFrameSfp
<1>5. OwnTypes'
  BY <1>1, <1>3, <1>4 DEF OwnTypes, OwnerPc
<1>6. \A f \in Frame : First(f)' = First(f)
  BY <1>4 DEF First
<1>7. First(fp + 1) = sp /\ First(fp) <= pc /\ pc <= sp
  BY <1>1, <1>2, <1>3, ConstantFacts DEF First, FramesInOrder
<1>8. \A f \in Frame : f <= fp + 1 => f <= fp \/ f = fp + 1
  BY <1>3, ConstantFacts
<1>9. FramesInOrder'
  <2>1. \A g \in Frame : g < fp + 1 => Own.sp[g] <= Own.pc[fp + 1]
    <3> SUFFICES ASSUME NEW g \in Frame, g < fp + 1 PROVE Own.sp[g] <= Own.pc[fp + 1]
      OBVIOUS
    <3>1. g = fp \/ g < fp
      BY <1>3, ConstantFacts
    <3>2. g < fp => Own.sp[g] <= Own.pc[fp]
      <4>1. fp <= fp /\ opc # "resetpc"
        BY <1>1, <1>3, ConstantFacts
      <4>2. QED
        BY <1>3, <4>1 DEF FramesInOrder
    <3>3. QED
      BY <1>2, <1>3, <1>7, <3>1, <3>2, ConstantFacts
  <2>2. QED
    BY <1>1, <1>2, <1>3, <1>4, <1>6, <1>7, <1>8, <2>1, ConstantFacts DEF FramesInOrder
<1>10. HistoryInv'
  <2>1. DoneBelow(fp + 1, Own.pc[fp + 1])
    BY <1>2, <1>3, <1>7, ConstantFacts DEF DoneBelow
  <2>2. QED
    BY <1>1, <1>3, <1>4, <1>6, <1>8, <2>1 DEF HistoryInv, DoneBelow
<1>11. ParentInv' /\ PushInv' /\ PopInv' /\ SfpInv'
  BY <1>1, <1>3, <1>4, ConstantFacts
     DEF ParentInv, PushInv, PopInv, SfpInv, Executing, Pushing, Popped, Popping
<1>12. ExecInv'
  <2>1. DoneBelow(fp, pc)
    BY <1>3, ConstantFacts DEF HistoryInv
  <2>2. fp + 1 - 1 = fp /\ fp + 1 >= 1
    BY <1>3, ConstantFacts
  <2>3. QED
    BY <1>1, <1>2, <1>3, <1>4, <1>6, <1>7, <2>1, <2>2, ConstantFacts
       DEF ExecInv, Executing, DoneBelow
<1>13. FreeInv'
  BY <1>1, <1>3, <1>4 DEF FreeInv, FreeFrom, Popped
<1>14. QED
  BY <1>5, <1>9, <1>10, <1>11, <1>12, <1>13

\* No frame of the stack goes beyond the top of the frame of the owner.
LEMMA FramesBelowTop ==
    ASSUME OwnerInv, opc # "resetpc"
    PROVE  \A f \in Frame : f <= fp => Own.pc[f] <= Own.sp[f] /\ Own.sp[f] <= Own.sp[fp]
<1> USE DEF PC, SP
<1> SUFFICES ASSUME NEW f \in Frame, f <= fp
             PROVE  Own.pc[f] <= Own.sp[f] /\ Own.sp[f] <= Own.sp[fp]
  OBVIOUS
<1>1. fp \in Frame /\ fp <= fp /\ (f = fp \/ f < fp)
  BY ConstantFacts DEF OwnerInv, OwnTypes
<1>2. Own.sp \in [Frame -> 1 .. (NSlot + 1)] /\ Own.pc \in [Frame -> 1 .. (NSlot + 1)]
  BY OwnIsView DEF OwnerInv
<1>3. Own.pc[f] <= Own.sp[f] /\ Own.pc[fp] <= Own.sp[fp]
      /\ (f < fp => Own.sp[f] <= Own.pc[fp])
  BY <1>1 DEF OwnerInv, FramesInOrder
<1>4. QED
  BY <1>1, <1>2, <1>3, ConstantFacts

LEMMA InitTaskOwner ==
    ASSUME OwnerInv, InitTask
    PROVE  OwnerInv'
<1> USE DEF OwnerInv, PC, SP, SL, SFP, OwnerVarsAre, SlotStored, StoreTypes
<1>1. /\ \/ opc = "root" /\ OwnerVarsAre("pushed", fp, pc, sp)
         \/ opc = "body" /\ fp < MaxFrame /\ OwnerVarsAre("child", fp, pc, sp)
      /\ created < MaxTask /\ created' = created + 1
      /\ UNCHANGED <<finished, delay>>
  BY DEF InitTask, OwnerAt, lockVars
<1>2. /\ Own.pc \in [Frame -> 1 .. (NSlot + 1)] /\ Own.sp \in [Frame -> 1 .. (NSlot + 1)]
      /\ Own.sfp \in Frame /\ Own.slot \in [Slot -> 0 .. MaxTask]
  BY OwnIsView
<1>3. fp \in Frame /\ Own.sp[fp] \in Slot /\ created + 1 \in 0 .. MaxTask
      /\ created + 1 \in 1 .. MaxTask /\ Own.sfp = fp
  BY <1>1, ConstantsAssumption DEF InitTask, OwnTypes, SfpInv, Popping
<1>4. StoreTypes /\ SlotStored(Own.sp[fp], created + 1)
  BY <1>3, StoreSlot DEF InitTask
<1>5. OwnTypes'
  BY <1>1, <1>3, <1>4 DEF OwnTypes, OwnerPc
<1>6. \A f \in Frame : f <= fp => Own.pc[f] <= Own.sp[f] /\ Own.sp[f] <= Own.sp[fp]
  BY <1>1, FramesBelowTop
<1>7. \A f \in Frame : First(f)' = First(f)
  BY <1>4 DEF First
<1>8. FramesInOrder' /\ ParentInv' /\ PushInv' /\ PopInv' /\ SfpInv'
  BY <1>1, <1>4, <1>7
     DEF FramesInOrder, ParentInv, PushInv, PopInv, SfpInv, Executing, Pushing, Popped, Popping
<1>9. \A s \in Slot : s < Own.sp[fp] => Own'.slot[s] = Own.slot[s]
  BY <1>2, <1>3, <1>4, ConstantFacts
<1>10. \A f \in Frame : f <= fp => \A s \in Slot : s < Own.pc[f] => s < Own.sp[fp]
  BY <1>2, <1>3, <1>6, ConstantFacts
<1>11. HistoryInv'
  BY <1>1, <1>3, <1>4, <1>7, <1>9, <1>10 DEF HistoryInv, DoneBelow
<1>12. ExecInv'
  <2>1. opc = "body" => /\ fp - 1 \in Frame /\ fp >= 1
                        /\ \A s \in Slot : s < pc => s < Own.sp[fp]
    <3>1. opc = "body" => fp >= 1 /\ pc <= sp /\ Own.pc[fp] = sp
      BY DEF ExecInv, Executing
    <3>2. Own.pc[fp] <= Own.sp[fp] /\ fp <= fp
      BY <1>3, <1>6, ConstantFacts
    <3>3. pc \in Int /\ sp \in Int /\ Own.sp[fp] \in Int
      BY <1>2, <1>3, ConstantFacts DEF OwnTypes
    <3>4. QED
      BY <1>3, <3>1, <3>2, <3>3, ConstantFacts
  <2>2. QED
    BY <1>1, <1>4, <1>7, <1>9, <2>1 DEF ExecInv, Executing, DoneBelow
<1>13. FreeInv'
  <2>1. \A s \in Slot : Own.sp[fp] <= s => Own.slot[s] \in finished \cup {0}
    BY <1>1 DEF FreeInv, FreeFrom
  <2>2. \A s \in Slot : Own.sp[fp] + 1 <= s =>
           Own.sp[fp] <= s /\ Own'.slot[s] = Own.slot[s]
    BY <1>2, <1>3, <1>4, ConstantFacts
  <2>3. QED
    BY <1>1, <1>3, <1>4, <2>1, <2>2 DEF FreeInv, FreeFrom, Popped
<1>14. QED
  BY <1>5, <1>8, <1>11, <1>12, <1>13

LEMMA PushTaskOwner ==
    ASSUME OwnerInv, PushTask
    PROVE  OwnerInv'
<1> USE DEF OwnerInv, PC, SP, SL, SFP, OwnerVarsAre, SpStored, StoreTypes
<1>1. /\ \/ opc = "pushed" /\ OwnerVarsAre("root", fp, pc, sp)
         \/ opc = "child" /\ OwnerVarsAre("body", fp, pc, sp)
      /\ UNCHANGED <<finished, delay, created>>
  BY DEF PushTask, OwnerAt, lockVars, ghostVars
<1>2. /\ Own.pc \in [Frame -> 1 .. (NSlot + 1)] /\ Own.sp \in [Frame -> 1 .. (NSlot + 1)]
      /\ Own.sfp \in Frame /\ Own.slot \in [Slot -> 0 .. MaxTask]
  BY OwnIsView
<1>3. fp \in Frame /\ Own.sp[fp] \in Slot /\ Own.sp[fp] + 1 \in 1 .. (NSlot + 1)
      /\ Own.sfp = fp
  BY <1>1, ConstantFacts DEF OwnTypes, SfpInv, Popping, FreeInv
<1>4. StoreTypes /\ SpStored(fp, Own.sp[fp] + 1)
  BY <1>3, StoreSp DEF PushTask
<1>5. OwnTypes'
  BY <1>1, <1>3, <1>4 DEF OwnTypes, OwnerPc
<1>6. \A f \in Frame : f <= fp => First(f)' = First(f)
  BY <1>2, <1>3, <1>4, ConstantFacts DEF First
<1>7. /\ \A f \in Frame : f # fp => Own'.sp[f] = Own.sp[f]
      /\ Own'.sp[fp] = Own.sp[fp] + 1
      /\ \A f \in Frame : f < fp => f # fp
  BY <1>2, <1>3, <1>4, ConstantFacts
<1>8. FramesInOrder'
  <2> SUFFICES ASSUME NEW f \in Frame, f <= fp
               PROVE  /\ First(f) <= Own.pc[f] /\ Own.pc[f] <= Own'.sp[f]
                      /\ \A g \in Frame : g < f => Own'.sp[g] <= Own.pc[f]
    BY <1>1, <1>3, <1>4, <1>6 DEF FramesInOrder
  <2>1. /\ First(f) <= Own.pc[f] /\ Own.pc[f] <= Own.sp[f]
        /\ \A g \in Frame : g < f => Own.sp[g] <= Own.pc[f]
    BY <1>1 DEF FramesInOrder
  <2>2. \A g \in Frame : g < f => g # fp
    BY <1>3, ConstantFacts
  <2>3. QED
    BY <1>2, <1>3, <1>7, <2>1, <2>2, ConstantFacts
<1>9. HistoryInv'
  BY <1>1, <1>3, <1>4, <1>6 DEF HistoryInv, DoneBelow
<1>10. ParentInv' /\ PushInv' /\ PopInv' /\ SfpInv'
  BY <1>1, <1>2, <1>3, <1>4, <1>7, ConstantFacts
     DEF ParentInv, PushInv, PopInv, SfpInv, Executing, Pushing, Popped, Popping
<1>11. ExecInv'
  <2>1. opc = "child" => /\ fp - 1 \in Frame /\ fp >= 1 /\ fp - 1 <= fp /\ fp - 1 # fp
    <3>1. opc = "child" => fp >= 1
      BY DEF ExecInv, Executing
    <3>2. QED
      BY <1>3, <3>1, ConstantFacts
  <2>2. QED
    BY <1>1, <1>4, <1>6, <1>7, <2>1 DEF ExecInv, Executing, DoneBelow
<1>12. FreeInv'
  BY <1>1, <1>2, <1>3, <1>4, <1>7, ConstantFacts DEF FreeInv, FreeFrom, Popped
<1>13. QED
  BY <1>5, <1>8, <1>9, <1>10, <1>11, <1>12

LEMMA SyncOwner ==
    ASSUME OwnerInv, Sync
    PROVE  OwnerInv'
<1> USE DEF OwnerInv, PC, SP, SL, SFP, OwnerVarsAre
<1>1. /\ opc = "root" /\ fp = 0 /\ OwnerVarsAre("pushpc", fp, pc, sp)
      /\ UNCHANGED <<finished, delay, created, versions>>
      /\ Own.pc[0] # Own.sp[0]
  BY DEF Sync, OwnerAt, lockVars, ghostVars, PopInv
<1>2. Own' = Own /\ \A f \in Frame : First(f)' = First(f)
  BY <1>1 DEF Own, First
<1>3. QED
  BY <1>1, <1>2, ConstantFacts
     DEF OwnTypes, OwnerPc, FramesInOrder, HistoryInv, DoneBelow, ParentInv, PushInv, PopInv,
         SfpInv, ExecInv, FreeInv, FreeFrom, Executing, Pushing, Popped, Popping

LEMMA MarkExecOwner ==
    ASSUME OwnerInv, MarkExec
    PROVE  OwnerInv'
<1> USE DEF OwnerInv, PC, SP, SL, SFP, OwnerVarsAre
<1>1. /\ opc = "loop" /\ pc # sp
      /\ \/ OwnerVarsAre("body", fp, pc, sp)
         \/ OwnerVarsAre("after", fp, pc, sp)
         \/ OwnerVarsAre("block", fp, pc, sp)
      /\ UNCHANGED <<finished, delay, created, versions>>
  BY DEF MarkExec, OwnerAt, lockVars, ghostVars
<1>2. Own' = Own /\ \A f \in Frame : First(f)' = First(f)
  BY <1>1 DEF Own, First
<1>3. pc <= sp => pc < sp
  BY <1>1, ConstantFacts DEF OwnTypes
<1>4. OwnTypes' /\ FramesInOrder' /\ HistoryInv' /\ FreeInv'
  BY <1>1, <1>2
     DEF OwnTypes, OwnerPc, FramesInOrder, HistoryInv, DoneBelow, FreeInv, FreeFrom, Popped
<1>5. ParentInv' /\ PushInv' /\ PopInv' /\ SfpInv'
  BY <1>1, <1>2
     DEF ParentInv, PushInv, PopInv, SfpInv, Executing, Pushing, Popped, Popping
<1>6. ExecInv'
  <2>1. fp >= 1 => fp - 1 \in Frame
    BY ConstantFacts DEF OwnTypes
  <2>2. QED
    BY <1>1, <1>2, <1>3, <2>1 DEF ExecInv, DoneBelow, Executing
<1>7. QED
  BY <1>4, <1>5, <1>6

\* The pc of the frame below is stored while its tasks are executed: frames stay
\* in order.
LEMMA PublishFrames ==
    ASSUME OwnerInv, opc \in Executing, opc' # "resetpc", fp' \in {fp, fp - 1},
           finished \subseteq finished', PcStored(fp - 1, pc)
    PROVE  /\ fp - 1 \in Frame /\ pc \in 1 .. (NSlot + 1)
           /\ Own'.pc[fp - 1] = pc
           /\ \A f \in Frame : f # fp - 1 => Own'.pc[f] = Own.pc[f]
           /\ \A f \in Frame : First(f)' = First(f)
           /\ FramesInOrder' /\ HistoryInv'
<1> USE DEF OwnerInv, PC, SP, SL, SFP, PcStored
<1>1. /\ Own.pc \in [Frame -> 1 .. (NSlot + 1)] /\ Own.sp \in [Frame -> 1 .. (NSlot + 1)]
      /\ Own.sfp \in Frame /\ Own.slot \in [Slot -> 0 .. MaxTask]
  BY OwnIsView
<1>2. fp \in Frame /\ pc \in 1 .. (NSlot + 1) /\ sp \in 1 .. (NSlot + 1)
  BY DEF OwnTypes
<1>3. /\ fp >= 1 /\ sp = Own.sp[fp - 1] /\ Own.pc[fp - 1] <= pc /\ pc <= sp
      /\ DoneBelow(fp - 1, pc)
  BY DEF ExecInv
<1>4. fp - 1 \in Frame /\ fp - 1 <= fp
  BY <1>2, <1>3, ConstantFacts
<1> \A f \in Frame : f <= fp' => f <= fp
  BY <1>2, ConstantFacts
<1>5. /\ Own'.pc[fp - 1] = pc
      /\ \A f \in Frame : f # fp - 1 => Own'.pc[f] = Own.pc[f]
      /\ \A f \in Frame : First(f)' = First(f)
  BY <1>1, <1>4 DEF First
<1>6. FramesInOrder'
  <2> SUFFICES ASSUME NEW f \in Frame, f <= fp
               PROVE  /\ First(f) <= Own'.pc[f] /\ Own'.pc[f] <= Own.sp[f]
                      /\ \A g \in Frame : g < f => Own.sp[g] <= Own'.pc[f]
    BY <1>5 DEF FramesInOrder
  <2>1. /\ First(f) <= Own.pc[f] /\ Own.pc[f] <= Own.sp[f]
        /\ \A g \in Frame : g < f => Own.sp[g] <= Own.pc[f]
    BY DEF FramesInOrder, Executing
  <2>2. First(f) \in Int
    BY <1>1, ConstantFacts DEF First
  <2>3. CASE f # fp - 1
    BY <1>5, <2>1, <2>3
  <2>4. CASE f = fp - 1
    BY <1>1, <1>2, <1>3, <1>5, <2>1, <2>2, <2>4, ConstantFacts
  <2>5. QED
    BY <2>3, <2>4
<1>7. HistoryInv'
  <2>1. \A f \in Frame : f <= fp \/ f <= Own.sfp => DoneBelow(f, Own'.pc[f])
    BY <1>3, <1>5 DEF HistoryInv
  <2>2. QED
    BY <1>5, <2>1 DEF HistoryInv, DoneBelow
<1>8. QED
  BY <1>2, <1>4, <1>5, <1>6, <1>7

LEMMA BlockOwner ==
    ASSUME OwnerInv, Block
    PROVE  OwnerInv'
<1> USE DEF OwnerInv, PC, SP, SL, SFP, OwnerVarsAre
<1>1. /\ opc = "block" /\ OwnerVarsAre("leave", fp, pc, sp)
      /\ UNCHANGED <<finished, delay, created>>
  BY DEF Block, OwnerAt, lockVars, ghostVars
<1>2. fp - 1 \in Frame /\ pc \in 1 .. (NSlot + 1)
  BY <1>1, ConstantFacts DEF OwnTypes, ExecInv, Executing
<1>3. StoreTypes /\ PcStored(fp - 1, pc)
  BY <1>2, StorePc DEF Block
<1>4. /\ Own'.pc[fp - 1] = pc
      /\ \A f \in Frame : f # fp - 1 => Own'.pc[f] = Own.pc[f]
      /\ \A f \in Frame : First(f)' = First(f)
      /\ FramesInOrder' /\ HistoryInv'
  BY <1>1, <1>3, PublishFrames DEF Executing
<1>5. OwnTypes'
  BY <1>1, <1>3 DEF OwnTypes, OwnerPc, StoreTypes
<1>6. fp \in Frame /\ fp # fp - 1 /\ \A f \in Frame : f < fp - 1 => f # fp - 1
  BY ConstantFacts DEF OwnTypes
<1>7. ParentInv' /\ PushInv' /\ PopInv' /\ SfpInv'
  BY <1>1, <1>3, <1>4, <1>6
     DEF ParentInv, PushInv, PopInv, SfpInv, Executing, Pushing, Popped, Popping, PcStored
<1>8. ExecInv'
  <2>1. pc <= pc
    BY <1>2, ConstantFacts
  <2>2. QED
    BY <1>1, <1>2, <1>3, <1>4, <1>6, <2>1 DEF ExecInv, DoneBelow, Executing, PcStored
<1>9. FreeInv'
  BY <1>1, <1>3 DEF FreeInv, FreeFrom, Popped, PcStored
<1>10. QED
  BY <1>4, <1>5, <1>7, <1>8, <1>9

LEMMA PublishPcOwner ==
    ASSUME OwnerInv, PublishPc
    PROVE  OwnerInv'
<1> USE DEF OwnerInv, PC, SP, SL, SFP, OwnerVarsAre
<1>1. /\ opc \in {"body", "after"} /\ fp' = fp /\ sp' = sp
      /\ UNCHANGED <<delay, created>>
      /\ \/ /\ Own.sp[fp] > sp /\ opc' = "pushpc" /\ pc' = pc /\ finished' = finished
         \/ /\ Own.sp[fp] = sp /\ opc' = "loop" /\ pc' = pc + 1
            /\ finished' = finished \cup {Own.slot[pc]}
  BY DEF PublishPc, OwnerAt, lockVars, ghostVars
<1>2. fp - 1 \in Frame /\ pc \in 1 .. (NSlot + 1) /\ sp \in 1 .. (NSlot + 1)
      /\ fp \in Frame /\ pc < sp /\ fp >= 1
  BY <1>1, ConstantFacts DEF OwnTypes, ExecInv, Executing
<1>3. StoreTypes /\ PcStored(fp - 1, pc)
  BY <1>2, StorePc DEF PublishPc
<1>4. /\ Own'.pc[fp - 1] = pc
      /\ \A f \in Frame : f # fp - 1 => Own'.pc[f] = Own.pc[f]
      /\ \A f \in Frame : First(f)' = First(f)
      /\ FramesInOrder' /\ HistoryInv'
  BY <1>1, <1>3, PublishFrames DEF Executing
<1>5. pc + 1 \in 1 .. (NSlot + 1) /\ pc + 1 <= sp /\ pc <= pc + 1
  BY <1>2, ConstantFacts
<1>6. OwnTypes'
  BY <1>1, <1>2, <1>3, <1>5 DEF OwnTypes, OwnerPc, StoreTypes
<1>7. fp # fp - 1 /\ \A f \in Frame : f < fp - 1 => f # fp - 1
  BY <1>2, ConstantFacts
<1>8. ParentInv' /\ PushInv' /\ PopInv' /\ SfpInv'
  <2>1. /\ sp = Own.sp[fp - 1]
        /\ Own.sp[fp] > sp => fp < MaxFrame
    BY <1>1 DEF ExecInv, Executing
  <2>2. QED
    BY <1>1, <1>2, <1>3, <1>4, <1>7, <2>1
       DEF ParentInv, PushInv, PopInv, SfpInv, Executing, Pushing, Popped, Popping, PcStored
<1>9. ExecInv'
  <2> SUFFICES ASSUME opc' = "loop" PROVE ExecInv'
    BY <1>1 DEF ExecInv, Executing
  <2>1. Own.sp[fp] = sp /\ pc' = pc + 1 /\ finished' = finished \cup {Own.slot[pc]}
    BY <1>1
  <2>2. sp = Own.sp[fp - 1] /\ Own.pc[fp] = sp /\ DoneBelow(fp - 1, pc)
    BY <1>1 DEF ExecInv, Executing
  <2>3. DoneBelow(fp - 1, pc)'
    <3>1. \A s \in Slot : s < pc + 1 => s < pc \/ s = pc
      BY <1>2, ConstantFacts
    <3>2. QED
      BY <1>1, <1>2, <1>3, <1>4, <2>1, <2>2, <3>1 DEF DoneBelow, PcStored
  <2>4. ~(Own.sp[fp] > sp)
    BY <1>2, <2>1, ConstantFacts
  <2>5. QED
    BY <1>1, <1>2, <1>3, <1>4, <1>5, <1>7, <2>1, <2>2, <2>3, <2>4
       DEF ExecInv, Executing, PcStored
<1>10. FreeInv'
  BY <1>1, <1>3 DEF FreeInv, FreeFrom, Popped, PcStored
<1>11. QED
  BY <1>4, <1>6, <1>8, <1>9, <1>10

LEMMA LeaveOwner ==
    ASSUME OwnerInv, Leave
    PROVE  OwnerInv'
<1> USE DEF OwnerInv, PC, SP, SL, SFP, OwnerVarsAre, SfpStored, StoreTypes
<1>1. /\ opc = "leave" /\ OwnerVarsAre("suspended", fp, pc, sp)
      /\ UNCHANGED <<finished, delay, created>>
  BY DEF Leave, OwnerAt, lockVars, ghostVars
<1>2. fp - 1 \in Frame /\ fp \in Frame /\ fp >= 1 /\ Own.sfp = fp
  BY <1>1, ConstantFacts DEF OwnTypes, ExecInv, Executing, SfpInv, Popping
<1>3. StoreTypes /\ SfpStored(fp - 1)
  BY <1>2, StoreSfp DEF Leave
<1>4. \A f \in Frame : First(f)' = First(f) /\ (f <= fp - 1 => f <= fp)
  BY <1>2, <1>3, ConstantFacts DEF First
<1>5. OwnTypes' /\ FramesInOrder' /\ HistoryInv' /\ FreeInv'
  BY <1>1, <1>3, <1>4
     DEF OwnTypes, OwnerPc, FramesInOrder, HistoryInv, DoneBelow, FreeInv, FreeFrom, Popped
<1>6. ParentInv' /\ PushInv' /\ PopInv' /\ SfpInv'
  BY <1>1, <1>3
     DEF ParentInv, PushInv, PopInv, SfpInv, Executing, Pushing, Popped, Popping
<1>7. ExecInv'
  BY <1>1, <1>2, <1>3, <1>4 DEF ExecInv, DoneBelow, Executing
<1>8. QED
  BY <1>5, <1>6, <1>7

LEMMA ResumeOwner ==
    ASSUME OwnerInv, Resume
    PROVE  OwnerInv'
<1> USE DEF OwnerInv, PC, SP, SL, SFP
<1>1. /\ opc = "suspended" /\ opc' = "pushpc" /\ fp' = fp - 1 /\ pc' = pc /\ sp' = sp
      /\ finished \subseteq finished' /\ UNCHANGED <<delay, created, versions>>
  BY DEF Resume, OwnerAt, lockVars, SfpInv
<1>2. fp - 1 \in Frame /\ fp \in Frame /\ fp >= 1 /\ Own.sfp = fp - 1
      /\ fp - 1 < MaxFrame /\ fp - 1 <= fp
      /\ Own.sp[fp] = sp /\ Own.sp[fp - 1] = sp
  BY <1>1, ConstantFacts DEF OwnTypes, ExecInv, Executing, SfpInv
<1>3. Own' = Own
  BY <1>1 DEF Own
<1>4. \A f \in Frame : First(f)' = First(f) /\ (f <= fp - 1 => f <= fp)
                       /\ (f < fp - 1 - 1 => f < fp - 1) /\ (f = fp - 1 - 1 => f < fp - 1)
  BY <1>2, <1>3, ConstantFacts DEF First
<1>5. OwnTypes' /\ FramesInOrder' /\ HistoryInv' /\ FreeInv'
  BY <1>1, <1>2, <1>3, <1>4
     DEF OwnTypes, OwnerPc, FramesInOrder, HistoryInv, DoneBelow, FreeInv, FreeFrom, Popped
<1>6. ParentInv' /\ PushInv' /\ PopInv' /\ SfpInv' /\ ExecInv'
  BY <1>1, <1>2, <1>3, <1>4
     DEF ParentInv, PushInv, PopInv, SfpInv, ExecInv, Executing, Pushing, Popped, Popping
<1>7. QED
  BY <1>5, <1>6

LEMMA EndOfFrameOwner ==
    ASSUME OwnerInv, EndOfFrame
    PROVE  OwnerInv'
<1> USE DEF OwnerInv, PC, SP, SL, SFP, OwnerVarsAre
<1>1. /\ opc = "loop" /\ OwnerVarsAre("end", fp - 1, pc, sp) /\ pc = sp
      /\ UNCHANGED <<finished, delay, created>>
  BY DEF EndOfFrame, OwnerAt, lockVars, ghostVars
<1>2. /\ fp - 1 \in Frame /\ fp \in Frame /\ pc \in 1 .. (NSlot + 1) /\ Own.sfp = fp
      /\ fp - 1 < MaxFrame /\ fp >= fp - 1
      /\ Own.sp[fp] = sp /\ Own.sp[fp - 1] = sp
  BY <1>1, ConstantFacts DEF OwnTypes, ExecInv, Executing, SfpInv, Popping
<1>3. StoreTypes /\ PcStored(fp - 1, pc)
  BY <1>2, StorePc DEF EndOfFrame
<1>4. /\ Own'.pc[fp - 1] = pc
      /\ \A f \in Frame : f # fp - 1 => Own'.pc[f] = Own.pc[f]
      /\ \A f \in Frame : First(f)' = First(f)
      /\ FramesInOrder' /\ HistoryInv'
  BY <1>1, <1>3, PublishFrames DEF Executing
<1>5. OwnTypes'
  BY <1>1, <1>2, <1>3 DEF OwnTypes, OwnerPc, StoreTypes
<1>6. \A f \in Frame : (f < fp - 1 - 1 \/ f = fp - 1 - 1) => f < fp - 1 /\ f # fp - 1
  BY <1>2, ConstantFacts
<1>7. ParentInv'
  BY <1>1, <1>3, <1>4, <1>6 DEF ParentInv, PcStored
<1>8. PushInv' /\ PopInv' /\ SfpInv' /\ ExecInv'
  BY <1>1, <1>2, <1>3, <1>4, <1>6
     DEF PushInv, PopInv, SfpInv, ExecInv, Executing, Pushing, Popped, Popping, PcStored
<1>9. FreeInv'
  BY <1>1, <1>2, <1>3 DEF FreeInv, FreeFrom, Popped, PcStored
<1>10. QED
  BY <1>4, <1>5, <1>7, <1>8, <1>9

LEMMA EndOrPopOwner ==
    ASSUME OwnerInv, EndOrPop
    PROVE  OwnerInv'
<1> USE DEF OwnerInv, PC, SP, SL, SFP, OwnerVarsAre
<1>1. /\ opc = "end"
      /\ \/ fp > 0 /\ OwnerVarsAre("pop", fp, pc, sp)
         \/ fp = 0 /\ OwnerVarsAre("setsfp", fp, pc, sp)
      /\ UNCHANGED <<finished, delay, created, versions>>
  BY DEF EndOrPop, OwnerAt, lockVars, ghostVars
<1>2. Own' = Own
  BY <1>1 DEF Own
<1>3. fp \in Frame /\ (fp > 0 => fp >= 1) /\ fp <= fp
  BY ConstantFacts DEF OwnTypes
<1>4. \A f \in Frame : First(f)' = First(f)
  BY <1>2 DEF First
<1>5. OwnTypes' /\ FramesInOrder' /\ HistoryInv'
  BY <1>1, <1>2, <1>4 DEF OwnTypes, OwnerPc, FramesInOrder, HistoryInv, DoneBelow
<1>6. ParentInv' /\ PushInv' /\ PopInv' /\ SfpInv' /\ ExecInv'
  BY <1>1, <1>2, <1>3
     DEF ParentInv, PushInv, PopInv, SfpInv, ExecInv, Executing, Pushing, Popped, Popping
<1>7. FreeInv'
  <2>1. FreeFrom(Own.sp[fp]) /\ DoneBelow(fp, Own.sp[fp])
    BY <1>1, <1>3 DEF FreeInv, HistoryInv, PopInv
  <2>2. Own.sp[fp] \in Int
    BY <1>3, OwnIsView, ConstantFacts
  <2>3. FreeFrom(First(fp))
    BY <2>1, <2>2, ConstantFacts DEF FreeFrom, DoneBelow
  <2>4. First(fp) = IF fp > 0 THEN Own.sp[fp - 1] ELSE 1
    BY <1>1, ConstantFacts DEF First
  <2>5. QED
    BY <1>1, <1>2, <2>1, <2>3, <2>4 DEF FreeInv, FreeFrom, Popped
<1>8. QED
  BY <1>5, <1>6, <1>7

LEMMA PopFrameOwner ==
    ASSUME OwnerInv, PopFrame
    PROVE  OwnerInv'
<1> USE DEF OwnerInv, PC, SP, SL, SFP
<1>1. /\ opc = "pop" /\ fp' = fp - 1 /\ pc' = pc /\ sp' = sp
      /\ UNCHANGED <<delay, created>>
      /\ finished' = finished \cup {Own.slot[Own.pc[fp - 1]]}
  BY DEF PopFrame, lockVars
<1>2. /\ Own.pc \in [Frame -> 1 .. (NSlot + 1)] /\ Own.sp \in [Frame -> 1 .. (NSlot + 1)]
      /\ Own.sfp \in Frame /\ Own.slot \in [Slot -> 0 .. MaxTask]
  BY OwnIsView
<1>3. /\ fp - 1 \in Frame /\ fp \in Frame /\ fp >= 1 /\ fp - 1 < MaxFrame /\ fp - 1 <= fp
      /\ Own.sfp >= fp /\ Own.sfp >= fp - 1
  <2>1. fp \in Frame /\ fp >= 1 /\ fp < MaxFrame /\ Own.sfp >= fp
    BY <1>1 DEF OwnTypes, PopInv, SfpInv, Popping
  <2>2. QED
    BY <1>2, <2>1, ConstantFacts
<1>4. PICK p \in 1 .. (NSlot + 1), q \in 1 .. (NSlot + 1) :
        p = Own.pc[fp - 1] /\ q = Own.sp[fp - 1]
  BY <1>2, <1>3
<1>5. p < q /\ p + 1 \in 1 .. (NSlot + 1) /\ p + 1 <= q /\ p \in Slot /\ p <= p + 1
      /\ (p + 1 >= q => p + 1 = q) /\ ~(p + 1 < q /\ p + 1 = q)
  <2>1. Own.pc[fp - 1] < Own.sp[fp - 1]
    BY <1>1, <1>3 DEF ParentInv, Executing
  <2>2. QED
    BY <1>4, <2>1, ConstantFacts
<1>6. /\ \/ p + 1 < q /\ opc' = "setsfp"
         \/ p + 1 = q /\ fp - 1 > 0 /\ opc' = "pop"
         \/ p + 1 = q /\ fp - 1 = 0 /\ opc' = "empty"
      /\ OwnerStores([Own EXCEPT !.pc[fp - 1] = p + 1])
  <2>1. [Own EXCEPT !.pc[fp - 1] = @ + 1] = [Own EXCEPT !.pc[fp - 1] = Own.pc[fp - 1] + 1]
    OBVIOUS
  <2>2. fp - 1 > 0 \/ fp - 1 = 0
    BY <1>3, ConstantFacts
  <2>3. QED
    BY <1>4, <1>5, <2>1, <2>2 DEF PopFrame
<1>7. StoreTypes /\ PcStored(fp - 1, p + 1)
  BY <1>3, <1>5, <1>6, StorePc
<1>8. /\ Own'.pc[fp - 1] = p + 1
      /\ \A f \in Frame : f # fp - 1 => Own'.pc[f] = Own.pc[f]
      /\ \A f \in Frame : First(f)' = First(f)
      /\ Own'.sp = Own.sp /\ Own'.slot = Own.slot /\ Own'.sfp = Own.sfp
  BY <1>2, <1>3, <1>7 DEF PcStored, First
<1>9. OwnTypes'
  BY <1>1, <1>3, <1>6, <1>7 DEF OwnTypes, OwnerPc, StoreTypes
<1>10. FramesInOrder'
  <2> SUFFICES ASSUME NEW f \in Frame, f <= fp - 1
               PROVE  /\ First(f) <= Own'.pc[f] /\ Own'.pc[f] <= Own.sp[f]
                      /\ \A g \in Frame : g < f => Own.sp[g] <= Own'.pc[f]
    BY <1>1, <1>8 DEF FramesInOrder
  <2>1. /\ First(f) <= Own.pc[f] /\ Own.pc[f] <= Own.sp[f]
        /\ \A g \in Frame : g < f => Own.sp[g] <= Own.pc[f]
    <3>1. f <= fp
      BY <1>3, ConstantFacts
    <3>2. QED
      BY <1>1, <3>1 DEF FramesInOrder
  <2>2. First(f) \in Int
    BY <1>2, ConstantFacts DEF First
  <2>3. CASE f # fp - 1
    BY <1>8, <2>1, <2>3
  <2>4. CASE f = fp - 1
    BY <1>2, <1>4, <1>5, <1>8, <2>1, <2>2, <2>4, ConstantFacts
  <2>5. QED
    BY <2>3, <2>4
<1>11. \A s \in Slot : First(fp - 1) <= s /\ s < p + 1 => Own'.slot[s] \in finished'
  <2>1. DoneBelow(fp - 1, p)
    BY <1>3, <1>4 DEF HistoryInv
  <2>2. \A s \in Slot : s < p + 1 => s < p \/ s = p
    BY <1>5, ConstantFacts
  <2>3. QED
    BY <1>1, <1>4, <1>8, <2>1, <2>2 DEF DoneBelow
<1>12. HistoryInv'
  <2>1. \A f \in Frame : (f <= fp - 1 => f <= fp)
    BY <1>3, ConstantFacts
  <2>2. QED
    BY <1>1, <1>8, <1>11, <2>1 DEF HistoryInv, DoneBelow
<1>13. \A f \in Frame : (f < fp - 1 \/ f < fp - 1 - 1 \/ f = fp - 1 - 1) =>
          f < fp - 1 /\ f # fp - 1
  BY <1>3, ConstantFacts
<1>14. ParentInv'
  BY <1>1, <1>6, <1>8, <1>13 DEF ParentInv, Executing
<1>15. PushInv' /\ PopInv' /\ SfpInv' /\ ExecInv'
  <2>1. fp - 1 > 0 => fp - 1 >= 1
    BY <1>3, ConstantFacts
  <2>2. p + 1 < q => p + 1 # q
    BY <1>5
  <2>3. QED
    BY <1>1, <1>3, <1>4, <1>6, <1>8, <2>1, <2>2
       DEF PushInv, PopInv, SfpInv, ExecInv, Executing, Pushing, Popped, Popping
<1>16. FreeInv'
  <2>1. FreeFrom(q)
    BY <1>1, <1>4 DEF FreeInv
  <2>2. \A s \in Slot : q <= s => Own'.slot[s] \in finished' \cup {0}
    BY <1>1, <1>8, <2>1 DEF FreeFrom
  <2>3. p + 1 = q => \A s \in Slot : First(fp - 1) <= s => Own'.slot[s] \in finished' \cup {0}
    BY <1>4, <1>11, <2>2, ConstantFacts
  <2>4. First(fp - 1) = IF fp - 1 = 0 THEN 1 ELSE Own.sp[fp - 1 - 1]
    BY DEF First
  <2>5. fp - 1 > 0 => fp - 1 # 0
    BY <1>3, ConstantFacts
  <2>6. p + 1 < q => p + 1 # q
    BY <1>5
  <2>7. QED
    BY <1>1, <1>4, <1>6, <1>8, <2>2, <2>3, <2>4, <2>5, <2>6 DEF FreeInv, FreeFrom, Popped
<1>17. QED
  BY <1>9, <1>10, <1>12, <1>14, <1>15, <1>16

LEMMA EmptyFrameOwner ==
    ASSUME OwnerInv, EmptyFrame
    PROVE  OwnerInv'
<1> USE DEF OwnerInv, PC, SP, SL, SFP, OwnerVarsAre
<1>1. /\ opc = "empty" /\ fp = 0 /\ OwnerVarsAre("setsfp", fp, pc, sp)
      /\ UNCHANGED <<finished, delay, created>>
  BY DEF EmptyFrame, OwnerAt, lockVars, ghostVars, PopInv
<1>2. /\ Own.pc \in [Frame -> 1 .. (NSlot + 1)] /\ Own.sp \in [Frame -> 1 .. (NSlot + 1)]
      /\ 0 \in Frame /\ Own.pc[0] = Own.sp[0] /\ fp < MaxFrame
  BY <1>1, OwnIsView, ConstantFacts DEF PopInv
<1>3. StoreTypes /\ SpStored(fp, Own.pc[fp])
  BY <1>1, <1>2, StoreSp DEF EmptyFrame
<1>4. Own'.sp = Own.sp
  BY <1>1, <1>2, <1>3 DEF SpStored
<1> USE DEF SpStored, StoreTypes
<1>5. \A f \in Frame : First(f)' = First(f)
  BY <1>4 DEF First
<1>6. OwnTypes' /\ FramesInOrder' /\ HistoryInv' /\ ParentInv'
  BY <1>1, <1>3, <1>4, <1>5
     DEF OwnTypes, OwnerPc, FramesInOrder, HistoryInv, DoneBelow, ParentInv, Executing
<1>7. PushInv' /\ PopInv' /\ SfpInv' /\ ExecInv' /\ FreeInv'
  BY <1>1, <1>2, <1>3, <1>4
     DEF PushInv, PopInv, SfpInv, ExecInv, FreeInv, FreeFrom, Executing, Pushing, Popped,
         Popping
<1>8. QED
  BY <1>6, <1>7

LEMMA SetSfpOwner ==
    ASSUME OwnerInv, SetSfp
    PROVE  OwnerInv'
<1> USE DEF OwnerInv, PC, SP, SL, SFP, OwnerVarsAre, SfpStored, StoreTypes
<1>1. /\ opc = "setsfp" /\ OwnerVarsAre("check", fp, pc, sp)
      /\ UNCHANGED <<finished, delay, created>>
  BY DEF SetSfp, OwnerAt, lockVars, ghostVars
<1>2. fp \in Frame
  BY DEF OwnTypes
<1>3. StoreTypes /\ SfpStored(fp)
  BY <1>2, StoreSfp DEF SetSfp
<1>4. \A f \in Frame : First(f)' = First(f)
  BY <1>3 DEF First
<1>5. OwnTypes' /\ FramesInOrder' /\ HistoryInv' /\ ParentInv'
  BY <1>1, <1>3, <1>4
     DEF OwnTypes, OwnerPc, FramesInOrder, HistoryInv, DoneBelow, ParentInv, Executing
<1>6. PushInv' /\ PopInv' /\ SfpInv' /\ ExecInv' /\ FreeInv'
  BY <1>1, <1>3
     DEF PushInv, PopInv, SfpInv, ExecInv, FreeInv, FreeFrom, Executing, Pushing, Popped,
         Popping
<1>7. QED
  BY <1>5, <1>6

LEMMA AfterPopOwner ==
    ASSUME OwnerInv, CheckThief \/ WaitLock
    PROVE  OwnerInv'
<1> USE DEF OwnerInv, PC, SP, SL, SFP
<1>1. /\ opc \in {"check", "waitlock"} /\ opc' \in {"waitlock", AfterPop}
      /\ UNCHANGED <<fp, pc, sp, finished, delay, created, versions>>
  BY DEF CheckThief, WaitLock, ownerVars, lockVars, ghostVars
<1>2. Own' = Own
  BY <1>1 DEF Own
<1>3. fp \in Frame /\ Own.pc \in [Frame -> 1 .. (NSlot + 1)]
      /\ Own.sp \in [Frame -> 1 .. (NSlot + 1)]
  BY OwnIsView DEF OwnTypes
<1>4. opc' \in {"waitlock", "pushpc", "resetsp"}
      /\ (opc' = "resetsp" => Own.pc[fp] = Own.sp[fp])
  <2>1. Own.pc[fp] <= Own.sp[fp]
    <3>1. fp <= fp
      BY <1>3, ConstantFacts
    <3>2. QED
      BY <1>1, <1>3, <3>1 DEF FramesInOrder
  <2>2. QED
    BY <1>1, <1>3, <2>1, ConstantFacts DEF AfterPop
<1>5. \A f \in Frame : First(f)' = First(f)
  BY <1>2 DEF First
<1>6. OwnTypes' /\ FramesInOrder' /\ HistoryInv' /\ ParentInv'
  BY <1>1, <1>2, <1>4, <1>5
     DEF OwnTypes, OwnerPc, FramesInOrder, HistoryInv, DoneBelow, ParentInv, Executing
<1>7. PushInv' /\ PopInv' /\ SfpInv' /\ ExecInv' /\ FreeInv'
  BY <1>1, <1>2, <1>4
     DEF PushInv, PopInv, SfpInv, ExecInv, FreeInv, FreeFrom, Executing, Pushing, Popped,
         Popping
<1>8. QED
  BY <1>6, <1>7

LEMMA ResetSpOwner ==
    ASSUME OwnerInv, ResetSp
    PROVE  OwnerInv'
<1> USE DEF OwnerInv, PC, SP, SL, SFP, OwnerVarsAre, SpStored, StoreTypes
<1>1. /\ opc = "resetsp" /\ fp = 0 /\ OwnerVarsAre("resetpc", fp, pc, sp)
      /\ UNCHANGED <<finished, delay, created>>
  BY DEF ResetSp, OwnerAt, lockVars, ghostVars, PopInv
<1>2. /\ Own.sp \in [Frame -> 1 .. (NSlot + 1)]
      /\ 0 \in Frame /\ 1 \in 1 .. (NSlot + 1) /\ Own.sfp = 0
  BY <1>1, OwnIsView, ConstantFacts DEF SfpInv, Popping
<1>3. StoreTypes /\ SpStored(0, 1)
  BY <1>2, StoreSp DEF ResetSp
<1>4. Own'.sp[0] = 1 /\ First(0)' = First(0)
      /\ \A f \in Frame : (f <= 0 => f = 0) /\ ~(f < 0 - 1) /\ f # 0 - 1
  BY <1>2, <1>3, ConstantFacts DEF First
<1>5. OwnTypes' /\ FramesInOrder' /\ HistoryInv' /\ ParentInv'
  BY <1>1, <1>2, <1>3, <1>4
     DEF OwnTypes, OwnerPc, FramesInOrder, HistoryInv, DoneBelow, ParentInv, Executing
<1>6. PushInv' /\ PopInv' /\ SfpInv' /\ ExecInv' /\ FreeInv'
  BY <1>1, <1>2, <1>3, <1>4
     DEF PushInv, PopInv, SfpInv, ExecInv, FreeInv, FreeFrom, Executing, Pushing, Popped,
         Popping
<1>7. QED
  BY <1>5, <1>6

LEMMA ResetPcOwner ==
    ASSUME OwnerInv, ResetPc
    PROVE  OwnerInv'
<1> USE DEF OwnerInv, PC, SP, SL, SFP, PcStored, StoreTypes
<1>1. /\ opc = "resetpc" /\ opc' \in {"root", "stop"} /\ fp = 0
      /\ UNCHANGED <<fp, pc, sp, finished, delay, created>>
  BY DEF ResetPc, lockVars, ghostVars, PopInv
<1>2. /\ Own.pc \in [Frame -> 1 .. (NSlot + 1)] /\ Own.sp[0] = 1
      /\ 0 \in Frame /\ 1 \in 1 .. (NSlot + 1) /\ Own.sfp = 0
  BY <1>1, OwnIsView, ConstantFacts DEF SfpInv, PopInv, Popping
<1>3. StoreTypes /\ PcStored(0, 1)
  BY <1>2, StorePc DEF ResetPc
<1>4. Own'.pc[0] = 1 /\ First(0)' = 1
      /\ \A f \in Frame : (f <= 0 => f = 0) /\ ~(f < 0) /\ ~(f < 0 - 1) /\ f # 0 - 1
  BY <1>2, <1>3, ConstantFacts DEF First
<1>5. OwnTypes' /\ FramesInOrder' /\ ParentInv'
  BY <1>1, <1>2, <1>3, <1>4
     DEF OwnTypes, OwnerPc, FramesInOrder, ParentInv, Executing
<1>6. HistoryInv'
  <2>1. \A s \in Slot : ~(s < 1)
    BY ConstantFacts
  <2>2. QED
    BY <1>1, <1>2, <1>3, <1>4, <2>1 DEF HistoryInv, DoneBelow
<1>7. PushInv' /\ PopInv' /\ SfpInv' /\ ExecInv' /\ FreeInv'
  BY <1>1, <1>2, <1>3, <1>4
     DEF PushInv, PopInv, SfpInv, ExecInv, FreeInv, FreeFrom, Executing, Pushing, Popped,
         Popping
<1>8. QED
  BY <1>5, <1>6, <1>7

-------------------------------------------------------------------------------
(* What the owner knows is an invariant.                                   *)

OwnerView == <<Own, opc, fp, pc, sp, delay, created, finished>>

\* Steps that are not of the owner: it sees the same.
LEMMA OthersOwner ==
    ASSUME OwnerInv, StoreTypes, UNCHANGED OwnerView
    PROVE  OwnerInv'
<1> USE DEF OwnerView, PC, SP, SL, SFP
<1>1. \A f \in Frame : First(f)' = First(f)
  BY DEF First
<1>2. OwnTypes' /\ FramesInOrder' /\ HistoryInv' /\ ParentInv' /\ PushInv' /\ PopInv'
      /\ FreeInv' /\ SfpInv'
  BY <1>1
     DEF OwnerInv, StoreTypes, OwnTypes, FramesInOrder, HistoryInv, DoneBelow, ParentInv,
         PushInv, PopInv, FreeInv, FreeFrom, SfpInv
<1>3. ExecInv'
  <2>1. opc \in Executing => fp - 1 \in Frame
    BY ConstantFacts DEF OwnerInv, OwnTypes, ExecInv
  <2>2. QED
    BY <1>1, <2>1 DEF OwnerInv, ExecInv, DoneBelow
<1>4. QED
  BY <1>2, <1>3 DEF OwnerInv

LEMMA ThiefOwner ==
    ASSUME OwnerInv, DrainThief \/ \E th \in Thief : LockStack(th) \/ ThiefStep(th)
    PROVE  StoreTypes /\ UNCHANGED OwnerView
<1>1. UNCHANGED <<versions, ownerVars, delay, ghostVars>>
  <2>1. CASE DrainThief
    BY <2>1 DEF DrainThief, lockVars
  <2>2. ASSUME NEW th \in Thief, LockStack(th) \/ ThiefStep(th)
        PROVE  UNCHANGED <<versions, ownerVars, delay, ghostVars>>
    BY <2>2
       DEF LockStack, ThiefStep, TestFrame, SetThieffp, CompareFrame, ReadPc, ReadSp,
           ScanTask, LeaveFrame, ClearThieffp, UnlockStack, lockVars
  <2>3. QED
    BY <2>1, <2>2
<1>2. QED
  BY <1>1 DEF OwnerInv, OwnTypes, StoreTypes, OwnerView, Own, ownerVars, ghostVars

LEMMA OwnerInit == Init => OwnerInv
<1> SUFFICES ASSUME Init PROVE OwnerInv
  OBVIOUS
<1> DEFINE v == [sfp |-> 0, pc |-> [f \in Frame |-> 1], sp |-> [f \in Frame |-> 1],
                 slot |-> [s \in Slot |-> 0]]
<1>1. v \in StackView /\ v.sfp = 0 /\ v.pc = [f \in Frame |-> 1]
      /\ v.sp = [f \in Frame |-> 1] /\ v.slot = [s \in Slot |-> 0]
  BY ConstantsAssumption DEF StackView, Frame
<1>2. versions = <<v>>
  BY DEF Init
<1> HIDE DEF v
<1>3. Own = v /\ versions \in Seq(StackView) /\ Len(versions) = 1
  BY <1>1, <1>2 DEF Own
<1>4. opc = "root" /\ fp = 0 /\ pc = 1 /\ sp = 1 /\ delay \in {0, BufferSize}
      /\ created = 0 /\ finished = {}
  BY DEF Init
<1>5. OwnTypes
  BY <1>3, <1>4, ConstantsAssumption DEF OwnTypes, OwnerPc, Frame
<1> USE DEF PC, SP, SL, SFP
<1>6. /\ \A f \in Frame : Own.pc[f] = 1 /\ Own.sp[f] = 1 /\ (f <= 0 => f = 0)
                          /\ ~(f < 0 - 1) /\ f # 0 - 1 /\ ~(f < 0)
      /\ \A s \in Slot : Own.slot[s] = 0 /\ ~(s < 1)
      /\ Own.sfp = 0 /\ First(0) = 1 /\ 0 \in Frame
  BY <1>1, <1>3, ConstantFacts DEF First
<1>7. QED
  BY <1>4, <1>5, <1>6
     DEF OwnerInv, FramesInOrder, HistoryInv, DoneBelow, ParentInv, PushInv, PopInv,
         SfpInv, ExecInv, FreeInv, FreeFrom, Executing, Pushing, Popped, Popping

LEMMA OwnerNext == OwnerInv /\ [Next]_vars => OwnerInv'
<1> SUFFICES ASSUME OwnerInv, [Next]_vars PROVE OwnerInv'
  OBVIOUS
<1>1. CASE OwnerStep
  BY <1>1, InitTaskOwner, PushTaskOwner, SyncOwner, PushPcOwner, PushSpOwner, PushSfpOwner,
     MarkExecOwner, BlockOwner, LeaveOwner, ResumeOwner, PublishPcOwner, EndOfFrameOwner,
     EndOrPopOwner, PopFrameOwner, EmptyFrameOwner, SetSfpOwner, AfterPopOwner,
     ResetSpOwner, ResetPcOwner
  DEF OwnerStep
<1>2. CASE DrainThief \/ \E th \in Thief : LockStack(th) \/ ThiefStep(th)
  BY <1>2, ThiefOwner, OthersOwner
<1>3. CASE DrainOwner
  <2>1. StoreTypes /\ Own' = Own
    BY <1>3, DrainStore DEF OwnerInv
  <2>2. QED
    BY <1>3, <2>1, OthersOwner DEF DrainOwner, OwnerView, ownerVars, lockVars, ghostVars
<1>4. CASE UNCHANGED vars
  BY <1>4, OthersOwner
     DEF vars, OwnerView, ownerVars, lockVars, ghostVars, Own, OwnerInv, OwnTypes, StoreTypes
<1>5. QED
  BY <1>1, <1>2, <1>3, <1>4 DEF Next

\* On any machine the owner knows where its frames begin and end.
THEOREM OwnerInvIsInvariant == Spec => []OwnerInv
<1>1. Init => OwnerInv
  BY OwnerInit
<1>2. OwnerInv /\ [Next]_vars => OwnerInv'
  BY OwnerNext
<1>3. QED
  BY <1>1, <1>2, PTL DEF Spec

-------------------------------------------------------------------------------
(* No task is overwritten.                                                 *)

\* What each step of the owner stores.
LEMMA StoreAny ==
    ASSUME OwnTypes, NEW v, OwnerStores(v)
    PROVE  Own' = v
<1>1. CASE delay = 0
  BY <1>1 DEF OwnerStores, Store, Own
<1>2. CASE delay # 0
  <2> DEFINE S == StackView \cup {v}
  <2>1. versions' = Append(versions, v) /\ versions \in Seq(StackView)
    BY <1>2 DEF OwnerStores, Store, OwnTypes
  <2>2. versions \in Seq(S)
    <3>1. /\ Len(versions) \in Nat /\ DOMAIN versions = 1 .. Len(versions)
          /\ \A i \in 1 .. Len(versions) : versions[i] \in S
      BY <2>1
    <3>2. QED
      BY <2>1, <3>1, SeqDef
  <2> HIDE DEF S
  <2>3. v \in S
    BY DEF S
  <2>4. Len(versions') = Len(versions) + 1 /\ versions'[Len(versions) + 1] = v
    BY <2>1, <2>2, <2>3
  <2>5. QED
    BY <2>4 DEF Own
<1>3. QED
  BY <1>1, <1>2

Unstored == Sync \/ MarkExec \/ Resume \/ EndOrPop \/ CheckThief \/ WaitLock

OwnerEffect ==
    \/ Unstored /\ Own' = Own
    \/ InitTask /\ SlotStored(Own.sp[fp], created + 1)
    \/ PushTask /\ SpStored(fp, Own.sp[fp] + 1)
    \/ PushFramePc /\ PcStored(fp + 1, Own.sp[fp])
    \/ PushFrameSp /\ SpStored(fp + 1, sp)
    \/ PushFrameSfp /\ SfpStored(fp + 1)
    \/ (Block \/ PublishPc \/ EndOfFrame) /\ PcStored(fp - 1, pc)
    \/ Leave /\ SfpStored(fp - 1)
    \/ PopFrame /\ PcStored(fp - 1, Own.pc[fp - 1] + 1)
    \/ EmptyFrame /\ SpStored(fp, Own.pc[fp])
    \/ SetSfp /\ SfpStored(fp)
    \/ ResetSp /\ SpStored(0, 1)
    \/ ResetPc /\ PcStored(0, 1)

LEMMA OwnerEffects ==
    ASSUME OwnerInv, OwnerStep
    PROVE  OwnerEffect
<1>1. OwnTypes
  BY DEF OwnerInv
<1>2. Own \in StackView
  BY <1>1, OwnIsView
<1>3. ASSUME NEW f, NEW x, OwnerStores([Own EXCEPT !.pc[f] = x])
      PROVE  PcStored(f, x)
  BY <1>1, <1>2, <1>3, StoreAny DEF PcStored, StackView
<1>4. ASSUME NEW f, NEW x, OwnerStores([Own EXCEPT !.sp[f] = x])
      PROVE  SpStored(f, x)
  BY <1>1, <1>2, <1>4, StoreAny DEF SpStored, StackView
<1>5. ASSUME NEW s, NEW x, OwnerStores([Own EXCEPT !.slot[s] = x])
      PROVE  SlotStored(s, x)
  BY <1>1, <1>2, <1>5, StoreAny DEF SlotStored, StackView
<1>6. ASSUME NEW f, OwnerStores([Own EXCEPT !.sfp = f])
      PROVE  SfpStored(f)
  BY <1>1, <1>2, <1>6, StoreAny DEF SfpStored, StackView
<1>7. CASE Unstored
  <2>1. versions' = versions
    BY <1>7 DEF Unstored, Sync, MarkExec, Resume, EndOrPop, CheckThief, WaitLock
  <2>2. QED
    BY <1>7, <2>1 DEF Own, OwnerEffect
<1>8. CASE InitTask \/ PushTask
  BY <1>8, <1>4, <1>5 DEF InitTask, PushTask, OwnerEffect
<1>9. CASE PushFramePc \/ Block \/ PublishPc \/ EndOfFrame
  BY <1>9, <1>3 DEF PushFramePc, Block, PublishPc, EndOfFrame, OwnerEffect
<1>10. CASE PopFrame
  <2>1. OwnerStores([Own EXCEPT !.pc[fp - 1] = Own.pc[fp - 1] + 1])
    BY <1>10 DEF PopFrame
  <2>2. QED
    BY <1>10, <1>3, <2>1 DEF OwnerEffect
<1>11. CASE PushFrameSp \/ EmptyFrame \/ ResetSp \/ ResetPc
  BY <1>11, <1>3, <1>4 DEF PushFrameSp, EmptyFrame, ResetSp, ResetPc, OwnerEffect
<1>12. CASE PushFrameSfp \/ Leave \/ SetSfp
  BY <1>12, <1>6 DEF PushFrameSfp, Leave, SetSfp, OwnerEffect
<1>13. QED
  BY <1>7, <1>8, <1>9, <1>10, <1>11, <1>12 DEF OwnerStep, Unstored

-------------------------------------------------------------------------------
(* No task is overwritten.                                                 *)

LEMMA SlotStep ==
    ASSUME OwnerInv, [Next]_vars, NEW s \in Slot, Own'.slot[s] # Own.slot[s]
    PROVE  Own.slot[s] \in finished \cup {0}
<1>1. CASE OwnerStep
  <2>1. OwnerEffect
    BY <1>1, OwnerEffects
  <2>2. InitTask /\ SlotStored(Own.sp[fp], created + 1)
    BY <2>1 DEF OwnerEffect, SpStored, PcStored, SfpStored
  <2>3. Own.slot \in [Slot -> 0 .. MaxTask]
    BY OwnIsView DEF OwnerInv
  <2>4. s = Own.sp[fp]
    BY <2>2, <2>3 DEF SlotStored
  <2>5. FreeFrom(Own.sp[fp])
    BY <2>2 DEF InitTask, OwnerAt, OwnerInv, FreeInv, SP
  <2>6. s <= s
    BY ConstantFacts
  <2>7. QED
    BY <2>4, <2>5, <2>6 DEF FreeFrom, SL
<1>2. CASE DrainThief \/ \E th \in Thief : LockStack(th) \/ ThiefStep(th)
  BY <1>2, ThiefOwner DEF OwnerView
<1>3. CASE DrainOwner
  BY <1>3, DrainStore DEF OwnerInv
<1>4. CASE UNCHANGED vars
  BY <1>4 DEF vars, Own
<1>5. QED
  BY <1>1, <1>2, <1>3, <1>4 DEF Next

\* NoTaskIsOverwritten: on any machine, with any number of frames, positions and
\* thieves, kaapi_task_init writes a slot of the stack of tasks only when the task
\* that was in it is over with all it created.
THEOREM NothingOverwritten == Spec => NoTaskIsOverwritten
<1> DEFINE Kept == \A s \in Slot :
              Own'.slot[s] # Own.slot[s] => Own.slot[s] \in finished \cup {0}
<1>1. OwnerInv /\ [Next]_vars => [Kept]_vars
  BY SlotStep
<1>2. QED
  BY <1>1, OwnerInvIsInvariant, PTL DEF Spec, NoTaskIsOverwritten

-------------------------------------------------------------------------------
(* The steps of the owner leave what the thief has read.                   *)

ThiefView == <<thieffp, tpc, top, ttop, tsp, seen, lock, delay>>

LEMMA OwnerKeeps ==
    ASSUME OwnerStep
    PROVE  UNCHANGED ThiefView /\ (sync' = sync \/ (CheckThief /\ sync' = TRUE))
<1> USE DEF ThiefView, thiefVars, lockVars
<1>1. CASE Unstored
  BY <1>1 DEF Unstored, Sync, MarkExec, Resume, EndOrPop, CheckThief, WaitLock
<1>2. CASE InitTask \/ PushTask \/ PushFramePc \/ PushFrameSp \/ PushFrameSfp
  BY <1>2 DEF InitTask, PushTask, PushFramePc, PushFrameSp, PushFrameSfp
<1>3. CASE Block \/ Leave \/ PublishPc \/ EndOfFrame \/ PopFrame
  BY <1>3 DEF Block, Leave, PublishPc, EndOfFrame, PopFrame
<1>4. CASE EmptyFrame \/ SetSfp \/ ResetSp \/ ResetPc
  BY <1>4 DEF EmptyFrame, SetSfp, ResetSp, ResetPc
<1>5. QED
  BY <1>1, <1>2, <1>3, <1>4 DEF OwnerStep, Unstored

\* No task that is over is forgotten.
LEMMA FinishedGrows ==
    ASSUME OwnerStep
    PROVE  finished \subseteq finished'
<1> USE DEF ghostVars
<1>1. CASE Unstored
  BY <1>1 DEF Unstored, Sync, MarkExec, Resume, EndOrPop, CheckThief, WaitLock
<1>2. CASE InitTask \/ PushTask \/ PushFramePc \/ PushFrameSp \/ PushFrameSfp
  BY <1>2 DEF InitTask, PushTask, PushFramePc, PushFrameSp, PushFrameSfp
<1>3. CASE Block \/ Leave \/ PublishPc \/ EndOfFrame \/ PopFrame
  BY <1>3 DEF Block, Leave, PublishPc, EndOfFrame, PopFrame
<1>4. CASE EmptyFrame \/ SetSfp \/ ResetSp \/ ResetPc
  BY <1>4 DEF EmptyFrame, SetSfp, ResetSp, ResetPc
<1>5. QED
  BY <1>1, <1>2, <1>3, <1>4 DEF OwnerStep, Unstored

\* The pc of frame fp - 1 goes up.
LEMMA PcGoesUp ==
    ASSUME OwnerInv, OwnerInv', OwnerStep, ThiefTypes,
           NEW th \in Thief, NEW t \in Frame, ReadOf(th, t),
           Block \/ PublishPc \/ EndOfFrame \/ PopFrame, OwnerEffect
    PROVE  ReadOf(th, t)'
<1> USE DEF PC, SP, SL
<1>1. UNCHANGED ThiefView /\ finished \subseteq finished'
  BY OwnerKeeps, FinishedGrows
<1>2. /\ Own.pc \in [Frame -> 1 .. (NSlot + 1)] /\ Own.sp \in [Frame -> 1 .. (NSlot + 1)]
      /\ fp \in Frame
  BY OwnIsView DEF OwnerInv, OwnTypes
<1>3. PICK x : PcStored(fp - 1, x) /\ fp - 1 \in Frame /\ x \in Int /\ Own.pc[fp - 1] <= x
               /\ fp - 1 <= fp' /\ fp >= 1
  <2>1. CASE Block \/ PublishPc \/ EndOfFrame
    <3>1. PcStored(fp - 1, pc) /\ opc \in Executing /\ fp' \in {fp, fp - 1}
      BY <2>1
         DEF OwnerEffect, Block, PublishPc, EndOfFrame, PopFrame, OwnerAt, Executing, Unstored,
             Sync, MarkExec, Resume, EndOrPop, CheckThief, WaitLock, InitTask, PushTask,
             PushFramePc, PushFrameSp, PushFrameSfp, Leave, EmptyFrame, SetSfp, ResetSp,
             ResetPc
    <3>2. fp >= 1 /\ Own.pc[fp - 1] <= pc /\ pc \in Int
      BY <3>1, ConstantFacts DEF OwnerInv, ExecInv, OwnTypes
    <3>3. QED
      BY <1>2, <3>1, <3>2, ConstantFacts
  <2>2. CASE PopFrame
    <3>1. opc = "pop" /\ PcStored(fp - 1, Own.pc[fp - 1] + 1) /\ fp' = fp - 1
      BY <2>2
         DEF OwnerEffect, Block, PublishPc, EndOfFrame, PopFrame, OwnerAt, Unstored,
             Sync, MarkExec, Resume, EndOrPop, CheckThief, WaitLock, InitTask, PushTask,
             PushFramePc, PushFrameSp, PushFrameSfp, Leave, EmptyFrame, SetSfp, ResetSp,
             ResetPc
    <3>2. fp >= 1
      BY <3>1 DEF OwnerInv, PopInv
    <3>3. fp - 1 \in Frame /\ Own.pc[fp - 1] \in Int
      BY <1>2, <3>2, ConstantFacts
    <3>4. QED
      BY <1>2, <3>1, <3>2, <3>3, ConstantFacts
  <2>3. QED
    BY <2>1, <2>2
<1>4. /\ Own'.pc[fp - 1] = x /\ \A f \in Frame : f # fp - 1 => Own'.pc[f] = Own.pc[f]
      /\ \A f \in Frame : First(f)' = First(f)
      /\ Own'.sp = Own.sp /\ Own'.slot = Own.slot
  BY <1>2, <1>3 DEF PcStored, First
<1>5. t = fp - 1 => DoneBelow(t, PC(t))'
  BY <1>3 DEF OwnerInv, HistoryInv
<1>6. t # fp - 1 /\ t # 0 => DoneBelow(t, PC(t))'
  BY <1>1, <1>4 DEF ReadOf, DoneBelow
<1>7. ttop[th] <= Own.pc[t] => ttop[th] <= Own'.pc[t]
  <2>1. ttop[th] \in Int /\ Own.pc[t] \in Int
    BY <1>2, ConstantFacts DEF ThiefTypes
  <2>2. QED
    BY <1>3, <1>4, <2>1
<1>8. QED
  BY <1>1, <1>4, <1>5, <1>6, <1>7 DEF ReadOf, ThiefView

\* A store in a frame, when it changes something, is not seen where the thief is.
LEMMA OwnerReads ==
    ASSUME OwnerInv, OwnerInv', OwnerStep, ThiefTypes,
           NEW th \in Thief, NEW t \in Frame, ReadOf(th, t), PlaceOf(th, t)
    PROVE  ReadOf(th, t)'
<1> USE DEF PC, SP, SL
<1>1. UNCHANGED ThiefView /\ finished \subseteq finished' /\ OwnerEffect
  BY OwnerKeeps, FinishedGrows, OwnerEffects
<1>2. /\ Own.pc \in [Frame -> 1 .. (NSlot + 1)] /\ Own.sp \in [Frame -> 1 .. (NSlot + 1)]
      /\ Own.slot \in [Slot -> 0 .. MaxTask] /\ fp \in Frame
      /\ tsp[th] \in Int /\ ttop[th] \in Int
  BY OwnIsView, ConstantFacts DEF OwnerInv, OwnTypes, ThiefTypes
<1>3. Own.sp[t] \in Int
  BY <1>2, ConstantFacts
<1>4. ASSUME Own'.pc[t] = Own.pc[t], First(t)' = First(t),
             \A s \in Slot : Own'.slot[s] = Own.slot[s], Own'.sp[t] \in {Own.sp[t], Own.sp[t] + 1}
      PROVE  ReadOf(th, t)'
  <2>1. t # 0 => DoneBelow(t, PC(t))'
    BY <1>1, <1>4 DEF ReadOf, DoneBelow
  <2>2. tsp[th] <= Own.sp[t] => tsp[th] <= Own'.sp[t]
    BY <1>2, <1>4, <1>3
  <2>3. QED
    BY <1>1, <1>4, <2>1, <2>2 DEF ReadOf, ThiefView
<1>5. ASSUME Own'.pc = Own.pc, Own'.sp = Own.sp, Own'.slot = Own.slot
      PROVE  ReadOf(th, t)'
  BY <1>4, <1>3, <1>5 DEF First
<1>6. CASE Unstored /\ Own' = Own
  BY <1>5, <1>6
<1>7. CASE InitTask /\ SlotStored(Own.sp[fp], created + 1)
  <2>1. opc \in {"root", "body"} /\ t <= fp /\ finished' = finished
    BY <1>7 DEF InitTask, OwnerAt, PlaceOf, Executing
  <2>2. Own.pc[t] <= Own.sp[t] /\ Own.sp[t] <= Own.sp[fp]
    BY <2>1, FramesBelowTop
  <2>3. \A s \in Slot : s < Own.sp[fp] => Own'.slot[s] = Own.slot[s]
    BY <1>2, <1>7, ConstantFacts DEF SlotStored
  <2>4. \A s \in Slot : (s < Own.pc[t] \/ s < Own.sp[t]) => s < Own.sp[fp]
    BY <1>2, <2>2, ConstantFacts
  <2>5. Own'.pc = Own.pc /\ Own'.sp = Own.sp /\ First(t)' = First(t)
    BY <1>7 DEF SlotStored, First
  <2>6. t # 0 => DoneBelow(t, PC(t))'
    BY <2>1, <2>3, <2>4, <2>5 DEF ReadOf, DoneBelow
  <2>7. tsp[th] <= Own.sp[t] => \A s \in Slot : s < tsp[th] => s < Own.sp[t]
    BY <1>2, <1>3, ConstantFacts
  <2>8. QED
    BY <1>1, <2>3, <2>4, <2>5, <2>6, <2>7 DEF ReadOf, ThiefView
<1>8. CASE PushTask /\ SpStored(fp, Own.sp[fp] + 1)
  <2>1. opc \in {"pushed", "child"} /\ t <= fp
    BY <1>8 DEF PushTask, OwnerAt, PlaceOf, Executing
  <2>2. First(t)' = First(t) /\ Own'.pc = Own.pc /\ Own'.slot = Own.slot
    BY <1>2, <1>8, <2>1, ConstantFacts DEF First, SpStored
  <2>3. Own'.sp[t] \in {Own.sp[t], Own.sp[t] + 1}
    BY <1>2, <1>3, <1>8, ConstantFacts DEF SpStored
  <2>4. QED
    BY <1>4, <2>2, <2>3
<1>9. CASE PushFramePc /\ PcStored(fp + 1, Own.sp[fp])
  <2>1. opc = "pushpc" /\ (t = fp + 1 => Own.pc[t] = Own.sp[fp])
    BY <1>9 DEF PushFramePc, OwnerAt, PlaceOf, Pushing
  <2>2. Own'.pc[t] = Own.pc[t]
    BY <1>2, <1>9, <2>1 DEF PcStored
  <2>3. QED
    BY <1>4, <1>3, <1>9, <2>2 DEF PcStored, First
<1>10. CASE PushFrameSp /\ SpStored(fp + 1, sp)
  <2>1. opc = "pushsp" /\ t <= fp + 1 /\ (t = fp + 1 => Own.sp[t] = Own.sp[fp])
        /\ sp = Own.sp[fp]
    BY <1>10 DEF PushFrameSp, OwnerAt, PlaceOf, Pushing, OwnerInv, PushInv
  <2>2. Own'.sp[t] = Own.sp[t]
    BY <1>2, <1>10, <2>1 DEF SpStored
  <2>3. t # 0 => t - 1 \in Frame /\ t - 1 # fp + 1
    BY <1>2, <2>1, ConstantFacts
  <2>4. First(t)' = First(t)
    BY <1>2, <1>10, <2>3 DEF SpStored, First
  <2>5. QED
    BY <1>4, <1>3, <1>10, <2>2, <2>4 DEF SpStored
<1>11. CASE \/ PushFrameSfp /\ SfpStored(fp + 1)
            \/ Leave /\ SfpStored(fp - 1)
            \/ SetSfp /\ SfpStored(fp)
  BY <1>5, <1>11 DEF SfpStored
<1>12. CASE Block \/ PublishPc \/ EndOfFrame \/ PopFrame
  BY <1>1, <1>12, PcGoesUp
<1>13. CASE EmptyFrame /\ SpStored(fp, Own.pc[fp])
  <2>1. Own.pc[fp] = Own.sp[fp]
    BY <1>13 DEF EmptyFrame, OwnerAt, OwnerInv, PopInv
  <2>2. Own'.sp = Own.sp
    BY <1>2, <1>13, <2>1 DEF SpStored
  <2>3. QED
    BY <1>5, <1>13, <2>2 DEF SpStored
<1>14. CASE ResetSp /\ SpStored(0, 1)
  <2>1. opc = "resetsp" /\ fp = 0 /\ Own.pc[0] = Own.sp[0]
    BY <1>14 DEF ResetSp, OwnerAt, OwnerInv, PopInv
  <2>2. t = 0 /\ tpc[th] \in {"setfp", "cmp"}
    BY <2>1, ConstantFacts DEF PlaceOf, NotAbove
  <2>3. QED
    BY <1>1, <2>2 DEF ReadOf, ThiefView
<1>15. CASE ResetPc /\ PcStored(0, 1)
  <2>1. opc = "resetpc" /\ fp = 0
    BY <1>15 DEF ResetPc, OwnerInv, PopInv
  <2>2. t = 0
    BY <2>1, ConstantFacts DEF PlaceOf
  <2>3. QED
    BY <1>1, <1>15, <2>2 DEF ReadOf, PcStored, ThiefView
<1>16. QED
  BY <1>1, <1>6, <1>7, <1>8, <1>9, <1>10, <1>11, <1>12, <1>13, <1>14, <1>15
     DEF OwnerEffect

\* With no store delayed, the owner checks thieffp before it goes on.
LEMMA OwnerPlaces ==
    ASSUME OwnerInv, OwnerStep, ThiefTypes, LockInv,
           NEW th \in Thief, NEW t \in Frame, t = top[th], tpc[th] \in InFrame,
           PlaceOf(th, t)
    PROVE  PlaceOf(th, t)'
<1> USE DEF PC, SP, OwnerAt
<1>1. UNCHANGED ThiefView /\ OwnerEffect /\ (sync' = sync \/ (CheckThief /\ sync' = TRUE))
  BY OwnerKeeps, OwnerEffects
<1>2. /\ Own.pc \in [Frame -> 1 .. (NSlot + 1)] /\ Own.sp \in [Frame -> 1 .. (NSlot + 1)]
      /\ fp \in Frame
  BY OwnIsView DEF OwnerInv, OwnTypes
<1>3. ASSUME opc' \in Popping \cup {"check", "stop"} PROVE PlaceOf(th, t)'
  BY <1>3 DEF PlaceOf, Popping, Executing, Pushing
<1>4. ASSUME opc' \in {"root", "pushed", "resetpc"} \cup Executing, t <= fp'
      PROVE  PlaceOf(th, t)'
  BY <1>4 DEF PlaceOf, Executing, Pushing
<1>5. ASSUME opc' \in Pushing, t <= fp' PROVE PlaceOf(th, t)'
  <2>1. fp' \in Int
    <3>1. fp' \in {fp, fp + 1, fp - 1, 0, Own.sfp}
      BY <1>1
         DEF OwnerEffect, Unstored, Sync, MarkExec, Resume, EndOrPop, CheckThief, WaitLock,
             InitTask, PushTask, PushFramePc, PushFrameSp, PushFrameSfp, Block, PublishPc,
             EndOfFrame, Leave, PopFrame, EmptyFrame, SetSfp, ResetSp, ResetPc
    <3>2. QED
      BY <1>2, <3>1, OwnIsView, ConstantFacts DEF OwnerInv
  <2>2. t <= fp' + 1 /\ t # fp' + 1
    BY <1>5, <2>1, ConstantFacts
  <2>3. QED
    BY <1>5, <2>2 DEF PlaceOf, Executing, Pushing
<1>6. CASE InitTask \/ PushTask \/ MarkExec \/ Block \/ Leave \/ ResetPc
  <2>1. fp' = fp /\ opc \in {"root", "pushed", "resetpc"} \cup Executing
        /\ opc' \in {"root", "pushed", "resetpc", "stop"} \cup Executing
    BY <1>6 DEF InitTask, PushTask, MarkExec, Block, Leave, ResetPc, Executing
  <2>2. QED
    BY <1>3, <1>4, <2>1 DEF PlaceOf
<1>7. CASE Sync \/ PublishPc
  <2>1. /\ fp' = fp /\ opc \in {"root"} \cup Executing
        /\ opc' \in Pushing \cup Executing
    BY <1>7 DEF Sync, PublishPc, Pushing, Executing, OwnerInv, PopInv
  <2>2. QED
    BY <1>4, <1>5, <2>1 DEF PlaceOf
<1>8. CASE PushFramePc
  <2>1. /\ opc = "pushpc" /\ opc' = "pushsp" /\ fp' = fp
        /\ PcStored(fp + 1, Own.sp[fp])
    BY <1>1, <1>8
       DEF PushFramePc, OwnerEffect, Unstored, Sync, MarkExec, Resume, EndOrPop, CheckThief,
           WaitLock, InitTask, PushTask, PushFrameSp, PushFrameSfp, Block, PublishPc,
           EndOfFrame, Leave, PopFrame, EmptyFrame, SetSfp, ResetSp, ResetPc
  <2>2. t = fp + 1 => Own'.pc[t] = Own.sp[fp]
    BY <1>2, <2>1 DEF PcStored
  <2>3. QED
    BY <2>1, <2>2 DEF PlaceOf, Pushing, Executing, PcStored
<1>9. CASE PushFrameSp
  <2>1. /\ opc = "pushsp" /\ opc' = "pushsfp" /\ fp' = fp /\ sp = Own.sp[fp]
        /\ SpStored(fp + 1, sp)
    BY <1>1, <1>9
       DEF PushFramePc, OwnerEffect, Unstored, Sync, MarkExec, Resume, EndOrPop, CheckThief,
           WaitLock, InitTask, PushTask, PushFrameSp, PushFrameSfp, Block, PublishPc,
           EndOfFrame, Leave, PopFrame, EmptyFrame, SetSfp, ResetSp, ResetPc, OwnerInv, PushInv
  <2>2. fp # fp + 1
    BY <1>2, ConstantFacts
  <2>3. Own'.sp[fp] = Own.sp[fp] /\ (t = fp + 1 => Own'.sp[t] = Own.sp[fp])
    BY <1>2, <2>1, <2>2 DEF SpStored
  <2>4. QED
    BY <2>1, <2>3 DEF PlaceOf, Pushing, Executing, SpStored
<1>10. CASE PushFrameSfp
  <2>1. opc = "pushsfp" /\ opc' = "loop" /\ fp' = fp + 1
    BY <1>10 DEF PushFrameSfp
  <2>2. QED
    BY <1>4, <2>1 DEF PlaceOf, Pushing, Executing
<1>11. CASE Resume
  <2>1. opc = "suspended" /\ opc' = "pushpc" /\ fp' = fp - 1 /\ Own' = Own
    BY <1>11 DEF Resume, OwnerInv, SfpInv, SFP, Own
  <2>2. t <= fp /\ Own.pc[fp] = sp /\ Own.sp[fp] = sp /\ Own.sp[fp - 1] = sp
    BY <2>1 DEF PlaceOf, Executing, OwnerInv, ExecInv
  <2>3. t <= fp - 1 + 1 /\ (t = fp - 1 + 1 => t = fp)
    BY <1>2, <2>2, ConstantFacts
  <2>4. QED
    BY <2>1, <2>2, <2>3 DEF PlaceOf, Pushing, Executing
<1>12. CASE EndOfFrame \/ EndOrPop \/ PopFrame \/ EmptyFrame \/ SetSfp
  <2>1. opc' \in Popping \cup {"check", "stop"}
    BY <1>12 DEF EndOfFrame, EndOrPop, PopFrame, EmptyFrame, SetSfp, Popping
  <2>2. QED
    BY <1>3, <2>1
<1>13. CASE CheckThief \/ WaitLock
  <2>1. /\ opc \in {"check", "waitlock"} /\ fp' = fp /\ Own' = Own
        /\ opc' = AfterPop \/ (CheckThief /\ opc' = "waitlock" /\ sync' = TRUE)
    BY <1>13 DEF CheckThief, WaitLock, Own, ownerVars
  <2>2. opc' = AfterPop => NotAbove(th, t)
    <3>1. CASE CheckThief
      <4>1. opc' = AfterPop => ~(fp <= SeenThieffp)
        BY <3>1 DEF CheckThief, MustWait, AfterPop
      <4>2. SeenThieffp = t \/ (tpc[th] = "setfp" /\ SeenThieffp = t - 1)
        BY DEF LockInv, InFrame
      <4>3. ~(fp <= SeenThieffp) => t <= fp /\ (SeenThieffp = t => fp # 0)
        BY <1>2, <4>2, ConstantFacts
      <4>4. QED
        BY <4>1, <4>2, <4>3 DEF NotAbove
    <3>2. CASE WaitLock
      <4>1. opc = "waitlock" /\ (~sync \/ lock = None)
        BY <3>2 DEF WaitLock
      <4>2. lock = th /\ lock # None
        BY ConstantsAssumption DEF LockInv, InFrame
      <4>3. QED
        BY <4>1, <4>2 DEF PlaceOf
    <3>3. QED
      BY <1>13, <3>1, <3>2
  <2>3. CASE opc' = AfterPop /\ opc' = "pushpc"
    BY <1>5, <2>1, <2>2, <2>3 DEF NotAbove, Pushing
  <2>4. CASE opc' = AfterPop /\ opc' = "resetsp"
    BY <1>1, <2>1, <2>2, <2>4 DEF PlaceOf, NotAbove, Pushing, Executing, ThiefView
  <2>5. CASE opc' = "waitlock" /\ sync' = TRUE
    BY <2>5 DEF PlaceOf, Pushing, Executing
  <2>6. QED
    BY <2>1, <2>3, <2>4, <2>5 DEF AfterPop
<1>14. CASE ResetSp
  <2>1. opc = "resetsp" /\ opc' = "resetpc" /\ fp' = fp
    BY <1>14 DEF ResetSp
  <2>2. QED
    BY <1>4, <2>1 DEF PlaceOf, NotAbove
<1>15. QED
  BY <1>6, <1>7, <1>8, <1>9, <1>10, <1>11, <1>12, <1>13, <1>14 DEF OwnerStep

LEMMA OwnerThief ==
    ASSUME OwnerInv, OwnerInv', OwnerStep, ThiefInv
    PROVE  ThiefInv'
<1>1. UNCHANGED ThiefView /\ (sync' = sync \/ sync' = TRUE)
  BY OwnerKeeps
<1>2. delay = 0 => ThiefTypes /\ LockInv /\ ReadInv /\ PlaceInv
  BY DEF ThiefInv
<1> SUFFICES ASSUME delay = 0 PROVE ThiefTypes' /\ LockInv' /\ ReadInv' /\ PlaceInv'
  BY <1>1 DEF ThiefInv, ThiefView
<1>3. ThiefTypes' /\ LockInv'
  BY <1>1, <1>2 DEF ThiefTypes, LockInv, ThiefView, SeenThieffp
<1>4. ASSUME NEW th \in Thief, tpc[th] \in InFrame
      PROVE  top[th] \in Frame /\ ReadOf(th, top[th])' /\ PlaceOf(th, top[th])'
  <2>1. PICK t \in Frame : t = top[th] /\ ReadOf(th, t) /\ PlaceOf(th, t)
    BY <1>2, <1>4 DEF ReadInv, PlaceInv
  <2>2. ReadOf(th, t)' /\ PlaceOf(th, t)'
    BY <1>2, <1>4, <2>1, OwnerReads, OwnerPlaces
  <2>3. top'[th] = t
    BY <1>1, <2>1 DEF ThiefView
  <2>4. QED
    BY <2>1, <2>2, <2>3
<1>5. QED
  BY <1>1, <1>3, <1>4 DEF ReadInv, PlaceInv, ThiefView

-------------------------------------------------------------------------------
(* The steps of the thief that has the lock.                               *)

\* Nobody else is out of idle.
Alone(th) == \A o \in Thief : o # th => tpc[o] = "idle" /\ tpc'[o] = "idle"

\* On a machine that delays no store, memory is what the owner has stored.
Ordered == delay = 0 /\ Mem = Own /\ thieffp \in Seq(Frame \cup {NoFrame}) /\ Len(thieffp) = 1

LEMMA MemIsOwn ==
    ASSUME OwnerInv, ThiefInv, delay = 0
    PROVE  Ordered
<1>1. versions \in Seq(StackView) /\ Len(versions) = 1
  BY DEF OwnerInv, OwnTypes
<1>2. thieffp \in Seq(Frame \cup {NoFrame}) /\ Len(thieffp) = 1
  BY DEF ThiefInv, ThiefTypes
<1>3. Head(versions) = versions[1]
  BY <1>1
<1>4. QED
  BY <1>1, <1>2, <1>3 DEF Ordered, Mem, Own

\* What is left to show of a step of the thief th.
LEMMA ThiefStepIs ==
    ASSUME OwnerInv, ThiefTypes, LockInv, ReadInv, PlaceInv, Ordered,
           NEW th \in Thief, Alone(th), UNCHANGED OwnerView,
           ThiefTypes', delay' = 0,
           lock' = IF tpc'[th] = "idle" THEN None ELSE th,
           tpc'[th] = "idle" => SeenThieffp' = NoFrame,
           tpc'[th] \in {"test", "setfp"} => SeenThieffp' = top'[th] - 1,
           tpc'[th] \in InFrame \ {"setfp"} => SeenThieffp' = top'[th],
           tpc'[th] = "unlock" => SeenThieffp' = NoFrame,
           tpc'[th] \in InFrame =>
               top'[th] \in Frame /\ ReadOf(th, top[th])' /\ PlaceOf(th, top[th])'
    PROVE  ThiefInv'
<1>1. LockInv'
  BY ConstantsAssumption DEF LockInv, Alone, InFrame
<1>2. ReadInv' /\ PlaceInv'
  BY DEF ReadInv, PlaceInv, Alone, InFrame
<1>3. QED
  BY <1>1, <1>2 DEF ThiefInv

LEMMA OneStore ==
    ASSUME Ordered, NEW x \in Frame \cup {NoFrame}, thieffp' = Store(thieffp, x)
    PROVE  /\ thieffp' \in Seq(Frame \cup {NoFrame}) /\ Len(thieffp') = 1
           /\ SeenThieffp' = x
<1>1. thieffp' = <<x>>
  BY DEF Ordered, Store
<1>2. QED
  BY <1>1 DEF SeenThieffp

LEMMA LockThief ==
    ASSUME OwnerInv, ThiefInv, delay = 0, NEW th \in Thief, LockStack(th)
    PROVE  ThiefInv'
<1>1. ThiefTypes /\ LockInv /\ ReadInv /\ PlaceInv /\ Ordered
  BY MemIsOwn DEF ThiefInv
<1>2. /\ lock = None /\ lock' = th
      /\ tpc' = [tpc EXCEPT ![th] = "test"] /\ top' = [top EXCEPT ![th] = 0]
      /\ UNCHANGED <<versions, ownerVars, thieffp, ttop, tsp, seen, sync, delay, ghostVars>>
  BY DEF LockStack, ThiefAt
<1>3. UNCHANGED OwnerView
  BY <1>2 DEF OwnerView, Own, ownerVars, ghostVars
<1>4. Alone(th) /\ tpc'[th] = "test" /\ top'[th] = 0 /\ SeenThieffp' = 0 - 1
  BY <1>1, <1>2, ConstantsAssumption DEF Alone, LockInv, ThiefTypes, SeenThieffp, NoFrame
<1>5. ThiefTypes'
  BY <1>1, <1>2, ConstantsAssumption DEF ThiefTypes, ThiefPc
<1>6. delay' = 0
  BY <1>2
<1>7. QED
  BY <1>1, <1>2, <1>3, <1>4, <1>5, <1>6, ThiefStepIs DEF InFrame

LEMMA HolderIsAlone ==
    ASSUME LockInv, NEW th \in Thief, tpc[th] # "idle",
           \A o \in Thief : o # th => tpc'[o] = tpc[o]
    PROVE  Alone(th) /\ lock = th
BY DEF LockInv, Alone

LEMMA TestThief ==
    ASSUME OwnerInv, ThiefInv, delay = 0, NEW th \in Thief, TestFrame(th)
    PROVE  ThiefInv'
<1>1. ThiefTypes /\ LockInv /\ ReadInv /\ PlaceInv /\ Ordered
  BY MemIsOwn DEF ThiefInv
<1>2. /\ top[th] <= Own.sfp /\ tpc[th] = "test" /\ tpc' = [tpc EXCEPT ![th] = "setfp"]
      /\ UNCHANGED <<versions, ownerVars, thieffp, top, ttop, tsp, seen, lockVars, ghostVars>>
  BY <1>1 DEF TestFrame, ThiefAt, Ordered
<1>3. UNCHANGED OwnerView /\ delay' = 0 /\ lock' = lock /\ sync' = sync
  BY <1>2 DEF OwnerView, Own, ownerVars, ghostVars, lockVars
<1>4. ThiefTypes' /\ tpc'[th] = "setfp" /\ \A o \in Thief : o # th => tpc'[o] = tpc[o]
  BY <1>1, <1>2, <1>3 DEF ThiefTypes, ThiefPc
<1>5. Alone(th) /\ lock = th
  BY <1>1, <1>2, <1>4, HolderIsAlone
<1>6. SeenThieffp' = top'[th] - 1
  BY <1>1, <1>2 DEF LockInv, SeenThieffp
<1>7. top[th] \in Frame /\ top[th] \in Int /\ fp \in Frame
  BY <1>1, <1>2, OwnIsView, ConstantFacts DEF ThiefTypes, OwnerInv, OwnTypes
<1>8. DoneBelow(top[th], PC(top[th])) /\ DoneBelow(top[th], PC(top[th]))'
  <2>1. DoneBelow(top[th], PC(top[th]))
    BY <1>2, <1>7 DEF OwnerInv, HistoryInv, SFP
  <2>2. QED
    BY <1>2, <1>3, <2>1 DEF DoneBelow, PC, SP, SL, First, OwnerView
<1>9. ReadOf(th, top[th])'
  BY <1>4, <1>8 DEF ReadOf
<1>10. PlaceOf(th, top[th])'
  <2>1. opc \notin Popping => Own.sfp = fp \/ (opc = "suspended" /\ Own.sfp = fp - 1)
    BY DEF OwnerInv, SfpInv, SFP
  <2>2. opc \notin Popping => top[th] <= fp
    BY <1>2, <1>7, <2>1, ConstantFacts
  <2>3. top[th] <= fp => top[th] # fp + 1 /\ top[th] <= fp + 1
    BY <1>7, ConstantFacts
  <2>4. QED
    BY <1>2, <1>3, <1>4, <2>2, <2>3
       DEF PlaceOf, NotAbove, Popping, Pushing, Executing, OwnerView, PC, SP
<1>11. QED
  BY <1>1, <1>2, <1>3, <1>4, <1>5, <1>6, <1>7, <1>9, <1>10, ThiefStepIs DEF InFrame

\* A step in a frame that reads only what is not empty.
LEMMA StayInPlace ==
    ASSUME OwnerInv, NEW th \in Thief, NEW t \in Frame, PlaceOf(th, t),
           UNCHANGED <<OwnerView, sync>>,
           tpc'[th] \in {"setfp", "cmp"} \/ tpc[th] \notin {"setfp", "cmp"} \/ PC(t) # SP(t)
    PROVE  PlaceOf(th, t)'
<1> USE DEF OwnerView, PC, SP
<1>1. NotAbove(th, t) => NotAbove(th, t)'
  <2>1. t <= fp /\ fp = 0 => t = 0
    BY ConstantFacts DEF OwnerInv, OwnTypes
  <2>2. QED
    BY <2>1 DEF NotAbove
<1>2. QED
  BY <1>1 DEF PlaceOf

LEMMA SetThief ==
    ASSUME OwnerInv, ThiefInv, delay = 0, NEW th \in Thief, SetThieffp(th)
    PROVE  ThiefInv'
<1>1. ThiefTypes /\ LockInv /\ ReadInv /\ PlaceInv /\ Ordered
  BY MemIsOwn DEF ThiefInv
<1>2. /\ tpc[th] = "setfp" /\ tpc' = [tpc EXCEPT ![th] = "cmp"]
      /\ thieffp' = Store(thieffp, top[th])
      /\ UNCHANGED <<versions, ownerVars, top, ttop, tsp, seen, lockVars, ghostVars>>
  BY DEF SetThieffp, ThiefAt
<1>3. UNCHANGED OwnerView /\ delay' = 0 /\ lock' = lock /\ sync' = sync
  BY <1>2 DEF OwnerView, Own, ownerVars, ghostVars, lockVars
<1>4. top[th] \in Frame /\ ReadOf(th, top[th]) /\ PlaceOf(th, top[th])
  BY <1>1, <1>2 DEF ReadInv, PlaceInv, InFrame
<1>5. thieffp' \in Seq(Frame \cup {NoFrame}) /\ Len(thieffp') = 1 /\ SeenThieffp' = top'[th]
  BY <1>1, <1>2, <1>4, OneStore
<1>6. ThiefTypes' /\ tpc'[th] = "cmp" /\ \A o \in Thief : o # th => tpc'[o] = tpc[o]
  BY <1>1, <1>2, <1>3, <1>5 DEF ThiefTypes, ThiefPc
<1>7. Alone(th) /\ lock = th
  BY <1>1, <1>2, <1>6, HolderIsAlone
<1>8. ReadOf(th, top[th])'
  BY <1>2, <1>3, <1>4, <1>6 DEF ReadOf, DoneBelow, First, PC, SP, SL, OwnerView
<1>9. PlaceOf(th, top[th])'
  <2>1. PICK t \in Frame : t = top[th]
    BY <1>4
  <2>2. PlaceOf(th, t)'
    BY <1>3, <1>4, <1>6, <2>1, StayInPlace
  <2>3. QED
    BY <1>2, <2>1, <2>2
<1>10. QED
  BY <1>1, <1>2, <1>3, <1>4, <1>5, <1>6, <1>7, <1>8, <1>9, ThiefStepIs DEF InFrame

\* The steps that read the frame, and those that go through what they have read.
LEMMA ReadThief ==
    ASSUME OwnerInv, ThiefInv, delay = 0, NEW th \in Thief,
           \/ CompareFrame(th) /\ tpc'[th] = "readpc"
           \/ ReadPc(th) \/ ReadSp(th) \/ ScanTask(th)
    PROVE  ThiefInv'
<1>1. ThiefTypes /\ LockInv /\ ReadInv /\ PlaceInv /\ Ordered
  BY MemIsOwn DEF ThiefInv
<1>2. /\ tpc[th] \in InFrame \ {"setfp"} /\ tpc'[th] \in {"readpc", "readsp", "scan"}
      /\ \A o \in Thief : o # th => tpc'[o] = tpc[o]
      /\ UNCHANGED <<versions, ownerVars, thieffp, top, lockVars, ghostVars>>
      /\ tpc' \in [Thief -> ThiefPc]
  BY <1>1 DEF CompareFrame, ReadPc, ReadSp, ScanTask, ThiefAt, InFrame, ThiefTypes, ThiefPc
<1>3. UNCHANGED OwnerView /\ delay' = 0 /\ lock' = lock /\ sync' = sync
  BY <1>2 DEF OwnerView, Own, ownerVars, ghostVars, lockVars
<1>4. PICK t \in Frame : t = top[th] /\ ReadOf(th, t) /\ PlaceOf(th, t)
  BY <1>1, <1>2 DEF ReadInv, PlaceInv
<1>5. Own.pc[t] \in 1 .. (NSlot + 1) /\ Own.sp[t] \in 1 .. (NSlot + 1)
  BY OwnIsView DEF OwnerInv
<1>6. Alone(th) /\ lock = th
  BY <1>1, <1>2, HolderIsAlone DEF InFrame
<1>7. SeenThieffp' = top'[th]
  BY <1>1, <1>2 DEF LockInv, SeenThieffp
<1>8. PlaceOf(th, t)'
  <2>1. tpc[th] \notin {"setfp", "cmp"} \/ PC(t) # SP(t)
    BY <1>1, <1>2, <1>4
       DEF CompareFrame, ReadPc, ReadSp, ScanTask, ThiefAt, PC, SP, Ordered, InFrame
  <2>2. QED
    BY <1>3, <1>4, <2>1, StayInPlace
<1> USE DEF PC, SP, SL
<1>9. t # 0 => DoneBelow(t, PC(t))'
  BY <1>3, <1>4 DEF ReadOf, DoneBelow, First, OwnerView
<1>10. CASE CompareFrame(th) /\ tpc'[th] = "readpc"
  <2>1. UNCHANGED <<ttop, tsp, seen>>
    BY <1>10 DEF CompareFrame
  <2>2. ReadOf(th, t)'
    BY <1>9, <1>10 DEF ReadOf
  <2>3. ThiefTypes'
    BY <1>1, <1>2, <1>3, <2>1 DEF ThiefTypes
  <2>4. QED
    BY <1>1, <1>2, <1>3, <1>4, <1>6, <1>7, <1>8, <2>2, <2>3, ThiefStepIs DEF InFrame
<1>11. CASE ReadPc(th)
  <2>1. /\ ttop' = [ttop EXCEPT ![th] = Own.pc[t]] /\ tpc'[th] = "readsp"
        /\ UNCHANGED <<tsp, seen>>
    BY <1>1, <1>4, <1>11 DEF ReadPc, ThiefAt, Ordered, ThiefTypes
  <2>2. ttop'[th] <= Own.pc[t]
    BY <1>1, <1>5, <2>1, ConstantFacts DEF ThiefTypes
  <2>3. ReadOf(th, t)'
    BY <1>3, <1>9, <2>1, <2>2 DEF ReadOf, OwnerView
  <2>4. ThiefTypes'
    BY <1>1, <1>2, <1>3, <1>5, <2>1 DEF ThiefTypes
  <2>5. QED
    BY <1>1, <1>2, <1>3, <1>4, <1>6, <1>7, <1>8, <2>3, <2>4, ThiefStepIs DEF InFrame
<1>12. CASE ReadSp(th)
  <2>1. /\ tsp' = [tsp EXCEPT ![th] = Own.sp[t]] /\ tpc'[th] = "scan"
        /\ seen' = [seen EXCEPT ![th] = Own.slot] /\ UNCHANGED ttop
    BY <1>1, <1>4, <1>12 DEF ReadSp, ThiefAt, Ordered, ThiefTypes
  <2>2. tsp'[th] <= Own.sp[t] /\ seen'[th] = Own.slot
    BY <1>1, <1>5, <2>1, ConstantFacts DEF ThiefTypes
  <2>3. ReadOf(th, t)'
    BY <1>3, <1>9, <2>1, <2>2 DEF ReadOf, OwnerView
  <2>4. ThiefTypes'
    BY <1>1, <1>2, <1>3, <1>5, <2>1 DEF ThiefTypes
  <2>5. QED
    BY <1>1, <1>2, <1>3, <1>4, <1>6, <1>7, <1>8, <2>3, <2>4, ThiefStepIs DEF InFrame
<1>13. CASE ScanTask(th)
  <2>1. /\ ttop' = [ttop EXCEPT ![th] = ttop[th] + 1] /\ tpc'[th] = "scan" /\ tpc[th] = "scan"
        /\ ttop[th] < tsp[th] /\ UNCHANGED <<tsp, seen>>
    BY <1>1, <1>13 DEF ScanTask, ThiefAt, ThiefTypes
  <2>2. ttop'[th] = ttop[th] + 1 /\ ttop[th] + 1 \in 1 .. (NSlot + 1)
        /\ \A s \in Slot : ttop[th] + 1 <= s => ttop[th] <= s
    BY <1>1, <2>1, ConstantFacts DEF ThiefTypes
  <2>3. ReadOf(th, t)'
    BY <1>3, <1>4, <1>9, <2>1, <2>2 DEF ReadOf, OwnerView
  <2>4. ThiefTypes'
    BY <1>1, <1>2, <1>3, <2>1, <2>2 DEF ThiefTypes
  <2>5. QED
    BY <1>1, <1>2, <1>3, <1>4, <1>6, <1>7, <1>8, <2>3, <2>4, ThiefStepIs DEF InFrame
<1>14. QED
  BY <1>10, <1>11, <1>12, <1>13

\* The steps that leave the frame, the stack or the lock.
LEMMA LeaveThief ==
    ASSUME OwnerInv, ThiefInv, delay = 0, NEW th \in Thief,
           \/ CompareFrame(th) /\ tpc'[th] = "test"
           \/ LeaveFrame(th) \/ ClearThieffp(th) \/ UnlockStack(th)
    PROVE  ThiefInv'
<1>1. ThiefTypes /\ LockInv /\ ReadInv /\ PlaceInv /\ Ordered
  BY MemIsOwn DEF ThiefInv
<1>2. /\ tpc[th] # "idle" /\ tpc'[th] \in {"test", "unlock", "idle"}
      /\ \A o \in Thief : o # th => tpc'[o] = tpc[o]
      /\ UNCHANGED <<versions, ownerVars, delay, ttop, tsp, seen, ghostVars>>
      /\ tpc' \in [Thief -> ThiefPc]
  BY <1>1 DEF CompareFrame, LeaveFrame, ClearThieffp, UnlockStack, ThiefAt, ThiefTypes,
              ThiefPc, lockVars
<1>3. UNCHANGED OwnerView /\ delay' = 0
  BY <1>2 DEF OwnerView, Own, ownerVars, ghostVars
<1>4. Alone(th) /\ lock = th
  BY <1>1, <1>2, HolderIsAlone
<1>5. CASE (CompareFrame(th) /\ tpc'[th] = "test") \/ LeaveFrame(th)
  <2>1. /\ tpc[th] \in InFrame \ {"setfp"} /\ tpc'[th] = "test"
        /\ top' = [top EXCEPT ![th] = top[th] + 1] /\ UNCHANGED <<thieffp, lockVars>>
    BY <1>1, <1>5 DEF CompareFrame, LeaveFrame, ThiefAt, NextFrame, ThiefTypes, InFrame
  <2>2. top[th] \in Frame /\ SeenThieffp = top[th]
    BY <1>1, <2>1 DEF ReadInv, LockInv
  <2>3. /\ top'[th] = top[th] + 1 /\ top[th] + 1 \in 0 .. (MaxFrame + 1)
        /\ SeenThieffp' = top'[th] - 1
    <3>1. top[th] = top[th] + 1 - 1 /\ top[th] + 1 \in 0 .. (MaxFrame + 1)
      BY <2>2, ConstantFacts
    <3>2. QED
      BY <1>1, <2>1, <2>2, <3>1 DEF ThiefTypes, SeenThieffp
  <2>4. ThiefTypes'
    BY <1>1, <1>2, <2>1, <2>3 DEF ThiefTypes, lockVars
  <2>5. QED
    BY <1>1, <1>3, <1>4, <2>1, <2>3, <2>4, ThiefStepIs DEF InFrame, lockVars
<1>6. CASE ClearThieffp(th)
  <2>1. /\ tpc'[th] = "unlock" /\ thieffp' = Store(thieffp, NoFrame)
        /\ UNCHANGED <<top, lockVars>>
    BY <1>1, <1>6 DEF ClearThieffp, ThiefAt, ThiefTypes
  <2>2. thieffp' \in Seq(Frame \cup {NoFrame}) /\ Len(thieffp') = 1 /\ SeenThieffp' = NoFrame
    BY <1>1, <2>1, OneStore
  <2>3. ThiefTypes'
    BY <1>1, <1>2, <1>3, <2>1, <2>2 DEF ThiefTypes, lockVars
  <2>4. QED
    BY <1>1, <1>3, <1>4, <2>1, <2>2, <2>3, ThiefStepIs DEF InFrame, lockVars
<1>7. CASE UnlockStack(th)
  <2>1. /\ tpc'[th] = "idle" /\ tpc[th] = "unlock" /\ lock' = None /\ sync' = FALSE
        /\ UNCHANGED <<top, thieffp>>
    BY <1>1, <1>7 DEF UnlockStack, ThiefAt, ThiefTypes
  <2>2. SeenThieffp' = NoFrame
    BY <1>1, <2>1 DEF LockInv, SeenThieffp
  <2>3. ThiefTypes'
    BY <1>1, <1>2, <1>3, <2>1 DEF ThiefTypes
  <2>4. QED
    BY <1>1, <1>3, <1>4, <2>1, <2>2, <2>3, ThiefStepIs DEF InFrame
<1>8. QED
  BY <1>5, <1>6, <1>7

-------------------------------------------------------------------------------
(* What the owner leaves to the thief is an invariant.                     *)

LEMMA ThiefInit == Init => ThiefInv
<1> SUFFICES ASSUME Init PROVE ThiefTypes /\ LockInv /\ ReadInv /\ PlaceInv
  BY DEF ThiefInv
<1>1. /\ lock = None /\ sync = FALSE /\ thieffp = <<NoFrame>> /\ delay \in {0, BufferSize}
      /\ tpc = [th \in Thief |-> "idle"] /\ top = [th \in Thief |-> 0]
      /\ ttop = [th \in Thief |-> 1] /\ tsp = [th \in Thief |-> 1]
      /\ seen = [th \in Thief |-> <<>>]
  BY DEF Init
<1>2. ThiefTypes
  <2>1. thieffp \in Seq(Frame \cup {NoFrame}) /\ Len(thieffp) = 1
    BY <1>1
  <2>2. 1 \in 1 .. (delay + 1)
    BY <1>1, ConstantsAssumption
  <2>3. 0 \in 0 .. (MaxFrame + 1) /\ 1 \in 1 .. (NSlot + 1)
    BY ConstantsAssumption
  <2>4. QED
    BY <1>1, <2>1, <2>2, <2>3 DEF ThiefTypes, ThiefPc
<1>3. SeenThieffp = NoFrame
  BY <1>1 DEF SeenThieffp
<1>4. LockInv /\ ReadInv /\ PlaceInv
  BY <1>1, <1>3, ConstantsAssumption DEF LockInv, ReadInv, PlaceInv, InFrame
<1>5. QED
  BY <1>2, <1>4

LEMMA ThiefNext == OwnerInv /\ OwnerInv' /\ ThiefInv /\ [Next]_vars => ThiefInv'
<1> SUFFICES ASSUME OwnerInv, OwnerInv', ThiefInv, [Next]_vars PROVE ThiefInv'
  OBVIOUS
<1>1. delay' = delay
  <2>1. CASE OwnerStep
    BY <2>1, OwnerKeeps DEF ThiefView
  <2>2. CASE DrainThief \/ \E th \in Thief : LockStack(th) \/ ThiefStep(th)
    BY <2>2, ThiefOwner DEF OwnerView
  <2>3. CASE DrainOwner \/ UNCHANGED vars
    BY <2>3 DEF DrainOwner, vars, lockVars
  <2>4. QED
    BY <2>1, <2>2, <2>3 DEF Next
<1> SUFFICES ASSUME delay = 0 PROVE ThiefInv'
  BY <1>1 DEF ThiefInv
<1>2. CASE OwnerStep
  BY <1>2, OwnerThief
<1>3. ASSUME NEW th \in Thief, LockStack(th) \/ ThiefStep(th)
      PROVE  ThiefInv'
  <2>1. CompareFrame(th) => tpc'[th] \in {"readpc", "test"}
    BY DEF CompareFrame, ThiefAt, ThiefInv, ThiefTypes
  <2>2. QED
    BY <1>3, <2>1, LockThief, TestThief, SetThief, ReadThief, LeaveThief DEF ThiefStep
<1>4. CASE DrainOwner \/ DrainThief
  BY <1>4 DEF DrainOwner, DrainThief, Drained, OwnerInv, OwnTypes, ThiefInv, ThiefTypes
<1>5. CASE UNCHANGED vars
  <2>1. UNCHANGED <<ThiefView, sync, OwnerView>>
    BY <1>5 DEF vars, ThiefView, OwnerView, thiefVars, lockVars, ownerVars, ghostVars, Own
  <2>2. ThiefTypes' /\ LockInv'
    BY <2>1 DEF ThiefInv, ThiefTypes, LockInv, ThiefView, SeenThieffp
  <2>3. \A th \in Thief : ReadOf(th, top[th]) => ReadOf(th, top[th])'
    BY <2>1 DEF ReadOf, DoneBelow, First, PC, SP, SL, ThiefView, OwnerView
  <2>4. \A th \in Thief : PlaceOf(th, top[th]) => PlaceOf(th, top[th])'
    BY <2>1 DEF PlaceOf, NotAbove, PC, SP, ThiefView, OwnerView
  <2>5. ReadInv' /\ PlaceInv'
    BY <2>1, <2>3, <2>4 DEF ThiefInv, ReadInv, PlaceInv, ThiefView
  <2>6. QED
    BY <2>2, <2>5 DEF ThiefInv
<1>6. QED
  BY <1>2, <1>3, <1>4, <1>5 DEF Next

\* With no store delayed, the lock, thieffp and the check of the pop keep the owner
\* out of what the thief has read.
THEOREM ThiefInvIsInvariant == Spec => []ThiefInv
<1>1. Init => ThiefInv
  BY ThiefInit
<1>2. OwnerInv /\ OwnerInv' /\ ThiefInv /\ [Next]_vars => ThiefInv'
  BY ThiefNext
<1>3. QED
  BY <1>1, <1>2, OwnerInvIsInvariant, PTL DEF Spec

\* NoStaleScanIfOrdered: on a machine that delays no store, the owner gives no
\* position a thief has still to look at to a new task: the pop of
\* kaapi_stack_execframe waits for a thief that may be in what it takes back.
THEOREM ScanIsNotStale == Spec => []NoStaleScanIfOrdered
<1>1. OwnerInv /\ ThiefInv => NoStaleScanIfOrdered
  <2> SUFFICES ASSUME OwnerInv, ThiefInv, delay = 0, NEW th \in Thief, tpc[th] = "scan",
                      NEW s \in ttop[th] .. (tsp[th] - 1)
               PROVE  Mem.slot[s] = seen[th][s]
    BY DEF NoStaleScanIfOrdered, NoStaleScan
  <2>1. ThiefTypes /\ ReadInv /\ Mem = Own
    BY MemIsOwn DEF ThiefInv, Ordered
  <2>2. PICK t \in Frame : t = top[th] /\ ReadOf(th, t)
    BY <2>1 DEF ReadInv, InFrame
  <2>3. Own.sp[t] \in 1 .. (NSlot + 1)
    BY OwnIsView DEF OwnerInv
  <2>4. ttop[th] \in 1 .. (NSlot + 1) /\ tsp[th] \in 1 .. (NSlot + 1) /\ tsp[th] <= Own.sp[t]
    BY <2>1, <2>2 DEF ThiefTypes, ReadOf, SP
  <2>5. s \in Slot /\ ttop[th] <= s /\ s < tsp[th]
    BY <2>3, <2>4, ConstantFacts
  <2>6. QED
    BY <2>1, <2>2, <2>5 DEF ReadOf, SL
<1>2. QED
  BY <1>1, OwnerInvIsInvariant, ThiefInvIsInvariant, PTL

\* HistoryIsCompleteAbove: on a machine that delays no store, when a thief has read
\* a frame that execframe pushed, the tasks of that frame it does not look at are
\* over with all they created.
THEOREM HistoryAboveIsComplete == Spec => HistoryIsCompleteAbove
<1> DEFINE Complete == delay = 0 => StartsAfterFinished(Frame \ {0})
<1>1. OwnerInv /\ ThiefInv /\ [Next]_vars => [Complete]_vars
  <2> SUFFICES ASSUME OwnerInv, ThiefInv, delay = 0, NEW th \in Thief,
                      tpc[th] = "readsp", top[th] \in Frame \ {0},
                      NEW s \in Base(top[th]) .. (ttop[th] - 1)
               PROVE  Mem.slot[s] \in finished
    BY DEF StartsAfterFinished
  <2>1. ThiefTypes /\ ReadInv /\ Mem = Own
    BY MemIsOwn DEF ThiefInv, Ordered
  <2>2. PICK t \in Frame : t = top[th] /\ t # 0 /\ t - 1 \in Frame /\ ReadOf(th, t)
    BY <2>1, ConstantFacts DEF ReadInv, InFrame
  <2>3. Own.sp[t - 1] \in 1 .. (NSlot + 1) /\ Own.pc[t] \in 1 .. (NSlot + 1)
        /\ ttop[th] \in 1 .. (NSlot + 1)
    BY <2>1, <2>2, OwnIsView DEF OwnerInv, ThiefTypes
  <2>4. Base(t) = Own.sp[t - 1] /\ First(t) = Own.sp[t - 1]
    BY <2>1, <2>2 DEF Base, First, SP
  <2>5. ttop[th] <= Own.pc[t] /\ DoneBelow(t, Own.pc[t])
    BY <2>2 DEF ReadOf, PC
  <2>6. s \in Slot /\ First(t) <= s /\ s < Own.pc[t]
    BY <2>2, <2>3, <2>4, <2>5, ConstantFacts
  <2>7. QED
    BY <2>1, <2>5, <2>6 DEF DoneBelow, SL
<1>2. QED
  BY <1>1, OwnerInvIsInvariant, ThiefInvIsInvariant, PTL DEF Spec, HistoryIsCompleteAbove
================================================================================
