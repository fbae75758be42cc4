------------------------- MODULE CaptureRing_proofs -------------------------
(***************************************************************************)
(* Proofs about CaptureRing for any ring, any detection cadence and any    *)
(* interleaving: first what holds with or without the timing assumption    *)
(* InferenceOutlastsHandoff, then what needs it. And about its exposure    *)
(* control for every setting and scene.                                    *)
(***************************************************************************)
EXTENDS MCCaptureRing, FiniteSetTheorems, TLAPS

InFlight(s) == frames[s] + encoding[s] + rels[s]

-----------------------------------------------------------------------------
(* What holds whatever the hand-off does                                    *)

\* A pinned slot is in the mailbox or with the inference thread.
PinnedInside == /\ \A s \in Slots : infPending[s] => s \in {mailbox, infIdx}
                /\ infPc = "wait" => infIdx = NoSlot

\* An encoder mark stands for a message, as long as the child lives.
MarkAnswered == childAlive =>
  \A s \in Slots : encPending[s] => CaptureHolds(s) \/ InFlight(s) > 0

\* A slot is kept back only for a mark or a pin: NoSlotLost is inductive once
\* each of them is known to have somebody behind it.
RingInv == TypeOK /\ PinnedInside /\ MarkAnswered /\ NoSlotLost

USE NoSlotAssumption, DetectAssumption, StabilizeAssumption, SockBoundAssumption

LEMMA NoneType == None \in [Slots -> Nat]
BY DEF None

LEMMA InitRing == Init => RingInv
<1> SUFFICES ASSUME Init PROVE RingInv
  OBVIOUS
<1> USE DEF Init, CaptureHolds, InFlight
<1>1. TypeOK
  <2>1. /\ camera \in SUBSET Slots
        /\ encPending \in [Slots -> BOOLEAN] /\ infPending \in [Slots -> BOOLEAN]
    OBVIOUS
  <2>2. /\ stable \in 0..StabilizeFrames /\ capCount \in 0..(DetectEveryN - 1)
    OBVIOUS
  <2>3. frames \in [Slots -> Nat] /\ encoding \in [Slots -> Nat] /\ rels \in [Slots -> Nat]
    BY NoneType
  <2>4. QED
    BY <2>1, <2>2, <2>3 DEF TypeOK
<1>2. PinnedInside
  BY DEF PinnedInside
<1>3. MarkAnswered
  BY DEF MarkAnswered
<1>4. NoSlotLost
  BY DEF NoSlotLost
<1>5. QED
  BY <1>1, <1>2, <1>3, <1>4 DEF RingInv

LEMMA RingCapture ==
  ASSUME RingInv, Capture
  PROVE  RingInv'
<1> USE DEF RingInv, TypeOK, PinnedInside, MarkAnswered, NoSlotLost, InFlight,
            CaptureHolds, captureVars, inferenceVars, childVars
<1>1. CASE CaptureCheck
  <2>1. TypeOK'
    BY <1>1 DEF CaptureCheck
  <2>2. PinnedInside'
    BY <1>1 DEF CaptureCheck
  <2>3. MarkAnswered'
    BY <1>1 DEF CaptureCheck
  <2>4. NoSlotLost'
    BY <1>1 DEF CaptureCheck
  <2>5. QED
    BY <2>1, <2>2, <2>3, <2>4
<1>2. CASE CaptureDequeue
  BY <1>2 DEF CaptureDequeue, NextCount
<1>3. CASE CaptureFail
  BY <1>3 DEF CaptureFail
<1>4. CASE CapturePost
  <2>1. TypeOK'
    BY <1>4 DEF CapturePost
  <2>2. PinnedInside'
    BY <1>4 DEF CapturePost
  <2>3. MarkAnswered'
    BY <1>4 DEF CapturePost
  <2>4. NoSlotLost'
    BY <1>4 DEF CapturePost
  <2>5. QED
    BY <2>1, <2>2, <2>3, <2>4
<1>5. CASE CaptureMark
  BY <1>5 DEF CaptureMark
<1>6. CASE CaptureSend
  BY <1>6 DEF CaptureSend
<1>7. CASE CaptureSendFail
  BY <1>7 DEF CaptureSendFail
<1>8. CASE CaptureRecycle
  BY <1>8 DEF CaptureRecycle, TryRequeue, InUse
<1>9. QED
  BY <1>1, <1>2, <1>3, <1>4, <1>5, <1>6, <1>7, <1>8 DEF Capture, CaptureRun

LEMMA RingInference ==
  ASSUME RingInv, Inference
  PROVE  RingInv'
<1> USE DEF RingInv, TypeOK, PinnedInside, MarkAnswered, NoSlotLost, InFlight,
            CaptureHolds, captureVars, inferenceVars, childVars
<1>1. CASE InfTake
  BY <1>1 DEF InfTake
<1>2. CASE InfQuit
  BY <1>2 DEF InfQuit
<1>3. CASE InfFinish
  <2>1. TypeOK'
    BY <1>3, ZenonT(40) DEF InfFinish, TryRequeue, InUse
  <2>2. PinnedInside'
    BY <1>3 DEF InfFinish, TryRequeue, InUse
  <2>3. MarkAnswered'
    BY <1>3 DEF InfFinish, TryRequeue, InUse
  <2>4. NoSlotLost'
    BY <1>3 DEF InfFinish, TryRequeue, InUse
  <2>5. QED
    BY <2>1, <2>2, <2>3, <2>4
<1>4. CASE InfFail
  BY <1>4 DEF InfFail
<1>5. QED
  BY <1>1, <1>2, <1>3, <1>4 DEF Inference

LEMMA RingSlot ==
  ASSUME RingInv, NEW s \in Slots, ForSlot(s)
  PROVE  RingInv'
<1> USE DEF RingInv, TypeOK, PinnedInside, MarkAnswered, NoSlotLost, InFlight,
            CaptureHolds, captureVars, inferenceVars, childVars
<1>1. CASE ReleaseRecv(s)
  BY <1>1 DEF ReleaseRecv, TryRequeue, InUse
<1>2. CASE ChildDrop(s)
  BY <1>2 DEF ChildDrop, Drops
<1>3. CASE ChildPush(s)
  BY <1>3 DEF ChildPush, Drops
<1>4. CASE ChildRelease(s)
  BY <1>4 DEF ChildRelease
<1>5. QED
  BY <1>1, <1>2, <1>3, <1>4 DEF ForSlot

LEMMA RingOther ==
  ASSUME RingInv,
         ReleaseEnd \/ ChildSwitchFps \/ ChildCrash \/ KeyHit \/ UNCHANGED vars
  PROVE  RingInv'
<1> USE DEF RingInv, TypeOK, PinnedInside, MarkAnswered, NoSlotLost, InFlight,
            CaptureHolds, captureVars, inferenceVars, childVars
<1>1. CASE ReleaseEnd
  BY <1>1 DEF ReleaseEnd
<1>2. CASE ChildSwitchFps
  BY <1>2 DEF ChildSwitchFps
<1>3. CASE ChildCrash
  <2>1. TypeOK'
    <3>1. frames' \in [Slots -> Nat] /\ encoding' \in [Slots -> Nat]
      BY <1>3, NoneType DEF ChildCrash
    <3>2. childAlive' \in BOOLEAN
      BY <1>3 DEF ChildCrash
    <3>3. UNCHANGED <<camera, encPending, infPending, mailbox, infQuit, term,
                      captureVars, inferenceVars, relPc, rels, fpsDiv, parity>>
      BY <1>3 DEF ChildCrash
    <3>4. QED
      BY <3>1, <3>2, <3>3
  <2>2. PinnedInside' /\ MarkAnswered' /\ NoSlotLost'
    BY <1>3 DEF ChildCrash
  <2>3. QED
    BY <2>1, <2>2
<1>4. CASE KeyHit
  BY <1>4 DEF KeyHit
<1>5. CASE UNCHANGED vars
  BY <1>5 DEF vars
<1>6. QED
  BY <1>1, <1>2, <1>3, <1>4, <1>5

LEMMA RingStep == RingInv /\ [Next]_vars => RingInv'
BY RingCapture, RingInference, RingSlot, RingOther DEF Next

LEMMA RingInvariance == Spec => []RingInv
BY InitRing, RingStep, PTL DEF Spec

\* Type correctness of the ring's state, however the hand-off ends.
THEOREM TypeCorrect == Spec => []TypeOK
BY RingInvariance, PTL DEF RingInv

\* No slot is ever without somebody who will give it back, short of a crash. The
\* race of the hand-off shares slots that should not be; it loses none.
THEOREM NoSlotLostThm == Spec => []NoSlotLost
BY RingInvariance, PTL DEF RingInv

LEMMA NothingLeakedAlive ==
  ASSUME RingInv, childAlive
  PROVE  Leaked = {}
BY DEF RingInv, TypeOK, MarkAnswered, InFlight, Leaked

\* While the child lives no mark is left without a message that will clear it.
THEOREM NothingLeaksAlive == Spec => [](childAlive => Leaked = {})
BY NothingLeakedAlive, RingInvariance, PTL

\* Inference holds two slots at most.
THEOREM AtMostTwoPinnedThm == Spec => []AtMostTwoPinned
<1> DEFINE P == {s \in Slots : infPending[s]}
<1>1. ASSUME RingInv PROVE AtMostTwoPinned
  <2>1. P \subseteq {mailbox} \cup {infIdx}
    BY <1>1 DEF RingInv, PinnedInside
  <2>2. IsFiniteSet({mailbox}) /\ Cardinality({mailbox}) = 1
    BY FS_Singleton
  <2>3. /\ IsFiniteSet({mailbox} \cup {infIdx})
        /\ Cardinality({mailbox} \cup {infIdx})
             = IF infIdx \in {mailbox} THEN Cardinality({mailbox})
                                       ELSE Cardinality({mailbox}) + 1
    BY ONLY <2>2, FS_AddElement, Zenon
  <2>4. /\ IsFiniteSet({mailbox} \cup {infIdx})
        /\ Cardinality({mailbox} \cup {infIdx}) <= 2
    BY ONLY <2>2, <2>3
  <2>5. IsFiniteSet(P) /\ Cardinality(P) <= Cardinality({mailbox} \cup {infIdx})
    BY <2>1, <2>4, FS_Subset
  <2>6. Cardinality(P) \in Nat /\ Cardinality({mailbox} \cup {infIdx}) \in Nat
    BY <2>4, <2>5, FS_CardinalityType
  <2>7. QED
    BY <2>4, <2>5, <2>6 DEF AtMostTwoPinned
<1>2. QED
  BY <1>1, RingInvariance, PTL

-----------------------------------------------------------------------------
(* What holds when a detection outlasts the hand-off                        *)

\* What the driver has, nobody else holds.
CameraFree ==
  \A s \in camera : ~encPending[s] /\ ~infPending[s] /\ ~CaptureHolds(s)

\* A message about a slot, or its buffer in the pipeline, is covered by the
\* slot's encoder mark, and there is only one.
Covered == \A s \in Slots :
  /\ InFlight(s) <= 1
  /\ InFlight(s) > 0 => encPending[s] /\ ~CaptureHolds(s)

\* How far the capture thread is with its slot.
CaptureProgress ==
  /\ capPc \in {"post", "mark"} => ~encPending[capIdx]
  /\ capPc = "post" => ~infPending[capIdx]
  /\ capPc \in {"send", "recycle"} => encPending[capIdx]

\* A slot is pinned while it is in the mailbox or with the inference thread.
Pinned == /\ \A s \in Slots : infPending[s] <=> s \in {mailbox, infIdx}
          /\ mailbox = NoSlot \/ mailbox # infIdx

\* Every slot has somebody.
Held == \A s \in Slots \ camera :
  \/ encPending[s] \/ infPending[s]
  \/ capPc \in {"post", "mark"} /\ capIdx = s

Marks == CameraFree /\ Covered /\ CaptureProgress /\ Pinned /\ Held

\* The strengthening: neither CameraExclusive nor OneDisposition is inductive
\* without the flags that connect them.
IInv == RingInv /\ Marks

LEMMA InitMarks == Init => Marks
<1> SUFFICES ASSUME Init PROVE Marks
  OBVIOUS
<1> USE DEF Init, CaptureHolds, InFlight
<1>1. CameraFree
  BY DEF CameraFree
<1>2. Covered
  BY DEF Covered, None
<1>3. CaptureProgress
  BY DEF CaptureProgress
<1>4. Pinned
  BY DEF Pinned
<1>5. Held
  BY DEF Held
<1>6. QED
  BY <1>1, <1>2, <1>3, <1>4, <1>5 DEF Marks

LEMMA CaptureStep ==
  ASSUME IInv, Capture
  PROVE  Marks'
<1> USE DEF IInv, RingInv, TypeOK, PinnedInside, Marks, CameraFree, Covered,
            CaptureProgress, Pinned, Held, InFlight, CaptureHolds, captureVars,
            inferenceVars, childVars
<1>1. CASE CaptureCheck
  <2>1. CameraFree'
    BY <1>1 DEF CaptureCheck
  <2>2. Covered'
    BY <1>1 DEF CaptureCheck
  <2>3. CaptureProgress'
    BY <1>1 DEF CaptureCheck
  <2>4. Pinned'
    BY <1>1 DEF CaptureCheck
  <2>5. Held'
    BY <1>1 DEF CaptureCheck
  <2>6. QED
    BY <2>1, <2>2, <2>3, <2>4, <2>5
<1>2. CASE CaptureDequeue
  BY <1>2 DEF CaptureDequeue, NextCount
<1>3. CASE CaptureFail
  BY <1>3 DEF CaptureFail
<1>4. CASE CapturePost
  <2>1. CameraFree'
    BY <1>4 DEF CapturePost
  <2>2. Covered'
    BY <1>4 DEF CapturePost
  <2>3. CaptureProgress'
    BY <1>4 DEF CapturePost
  <2>4. Pinned'
    BY <1>4 DEF CapturePost
  <2>5. Held'
    BY <1>4 DEF CapturePost
  <2>6. QED
    BY <2>1, <2>2, <2>3, <2>4, <2>5
<1>5. CASE CaptureMark
  BY <1>5 DEF CaptureMark
<1>6. CASE CaptureSend
  BY <1>6 DEF CaptureSend
<1>7. CASE CaptureSendFail
  BY <1>7 DEF CaptureSendFail
<1>8. CASE CaptureRecycle
  BY <1>8 DEF CaptureRecycle, TryRequeue, InUse
<1>9. QED
  BY <1>1, <1>2, <1>3, <1>4, <1>5, <1>6, <1>7, <1>8 DEF Capture, CaptureRun

LEMMA InferenceStep ==
  ASSUME InferenceOutlastsHandoff, IInv, Inference
  PROVE  Marks'
<1> USE DEF IInv, RingInv, TypeOK, PinnedInside, Marks, CameraFree, Covered,
            CaptureProgress, Pinned, Held, InFlight, CaptureHolds, captureVars,
            inferenceVars, childVars
<1>1. CASE InfTake
  BY <1>1 DEF InfTake
<1>2. CASE InfQuit
  BY <1>2 DEF InfQuit
<1>3. CASE InfFinish
  <2>1. CameraFree'
    BY <1>3 DEF InfFinish, HandoffOver, TryRequeue, InUse
  <2>2. Covered'
    BY <1>3 DEF InfFinish, HandoffOver, TryRequeue, InUse
  <2>3. CaptureProgress'
    BY <1>3 DEF InfFinish, HandoffOver, TryRequeue, InUse
  <2>4. Pinned'
    BY <1>3 DEF InfFinish, HandoffOver, TryRequeue, InUse
  <2>5. Held'
    BY <1>3 DEF InfFinish, HandoffOver, TryRequeue, InUse
  <2>6. QED
    BY <2>1, <2>2, <2>3, <2>4, <2>5
<1>4. CASE InfFail
  BY <1>4 DEF InfFail
<1>5. QED
  BY <1>1, <1>2, <1>3, <1>4 DEF Inference

LEMMA SlotStep ==
  ASSUME IInv, NEW s \in Slots, ForSlot(s)
  PROVE  Marks'
<1> USE DEF IInv, RingInv, TypeOK, PinnedInside, Marks, CameraFree, Covered,
            CaptureProgress, Pinned, Held, InFlight, CaptureHolds, captureVars,
            inferenceVars, childVars
<1>1. CASE ReleaseRecv(s)
  BY <1>1 DEF ReleaseRecv, TryRequeue, InUse
<1>2. CASE ChildDrop(s)
  BY <1>2 DEF ChildDrop, Drops
<1>3. CASE ChildPush(s)
  <2>1. CameraFree'
    BY <1>3 DEF ChildPush, Drops
  <2>2. Covered'
    BY <1>3 DEF ChildPush, Drops
  <2>3. CaptureProgress'
    BY <1>3 DEF ChildPush, Drops
  <2>4. Pinned'
    BY <1>3 DEF ChildPush, Drops
  <2>5. Held'
    BY <1>3 DEF ChildPush, Drops
  <2>6. QED
    BY <2>1, <2>2, <2>3, <2>4, <2>5
<1>4. CASE ChildRelease(s)
  BY <1>4 DEF ChildRelease
<1>5. QED
  BY <1>1, <1>2, <1>3, <1>4 DEF ForSlot

LEMMA OtherStep ==
  ASSUME IInv,
         ReleaseEnd \/ ChildSwitchFps \/ ChildCrash \/ KeyHit \/ UNCHANGED vars
  PROVE  Marks'
<1> USE DEF IInv, RingInv, TypeOK, PinnedInside, Marks, CameraFree, Covered,
            CaptureProgress, Pinned, Held, InFlight, CaptureHolds, captureVars,
            inferenceVars, childVars
<1>1. CASE ReleaseEnd
  BY <1>1 DEF ReleaseEnd
<1>2. CASE ChildSwitchFps
  BY <1>2 DEF ChildSwitchFps
<1>3. CASE ChildCrash
  <2>1. CameraFree'
    BY <1>3 DEF ChildCrash, None
  <2>2. Covered'
    BY <1>3 DEF ChildCrash, None
  <2>3. CaptureProgress'
    BY <1>3 DEF ChildCrash, None
  <2>4. Pinned'
    BY <1>3 DEF ChildCrash, None
  <2>5. Held'
    BY <1>3 DEF ChildCrash, None
  <2>6. QED
    BY <2>1, <2>2, <2>3, <2>4, <2>5
<1>4. CASE KeyHit
  BY <1>4 DEF KeyHit
<1>5. CASE UNCHANGED vars
  BY <1>5 DEF vars
<1>6. QED
  BY <1>1, <1>2, <1>3, <1>4, <1>5

LEMMA InvariantLemma ==
  ASSUME InferenceOutlastsHandoff
  PROVE  Spec => []IInv
<1>1. Init => IInv
  BY InitRing, InitMarks DEF IInv
<1>2. IInv /\ [Next]_vars => IInv'
  <2> SUFFICES ASSUME IInv, [Next]_vars PROVE IInv'
    OBVIOUS
  <2>1. RingInv'
    BY RingStep DEF IInv
  <2>2. Marks'
    BY CaptureStep, InferenceStep, SlotStep, OtherStep DEF Next
  <2>3. QED
    BY <2>1, <2>2 DEF IInv
<1>3. QED
  BY <1>1, <1>2, PTL DEF Spec

\* The contract of main_yolox.cpp:88-91: the camera never writes into a slot
\* the encoder or the DRP-AI still reads, or the capture thread still works on.
THEOREM CameraExclusiveThm ==
  ASSUME InferenceOutlastsHandoff
  PROVE  Spec => []CameraExclusive
<1>1. ASSUME IInv, NEW s \in camera
      PROVE  ~EncUses(s) /\ ~InfUses(s)
  BY <1>1 DEF IInv, RingInv, TypeOK, Marks, CameraFree, Covered, Pinned, InFlight, EncUses, InfUses
<1>2. ASSUME IInv, NEW s \in camera
      PROVE  ~CaptureHolds(s)
  BY <1>2 DEF IInv, Marks, CameraFree
<1>3. IInv => CameraExclusive
  BY <1>1, <1>2 DEF CameraExclusive
<1>4. QED
  BY <1>3, InvariantLemma, PTL

\* Every frame is answered once: a slot is in one place of the child at most.
THEOREM OneDispositionThm ==
  ASSUME InferenceOutlastsHandoff
  PROVE  Spec => []OneDisposition
<1>1. IInv => OneDisposition
  BY DEF IInv, Marks, Covered, InFlight, OneDisposition
<1>2. QED
  BY <1>1, InvariantLemma, PTL

-----------------------------------------------------------------------------
(* The refinement of SlotOwnership: one step lemma per group of actions.    *)

LEMMA CaptureRefines ==
  ASSUME IInv, Capture
  PROVE  Ownership!Next \/ UNCHANGED Ownership!vars
<1> USE DEF IInv, RingInv, TypeOK, Marks, CameraFree, Covered, CaptureProgress, Pinned,
            CaptureHolds, captureVars, inferenceVars, childVars, readers,
            Ownership!vars
<1>1. CASE CaptureCheck
  BY <1>1 DEF CaptureCheck
<1>2. CASE CaptureDequeue
  <2>1. PICK s \in camera : camera' = camera \ {s} /\ capIdx' = s
    BY <1>2 DEF CaptureDequeue
  <2>2. readers' = [readers EXCEPT ![s] = {"capture"}]
    BY <1>2, <2>1, ZenonT(40) DEF CaptureDequeue
  <2>3. Ownership!Take(s, "capture")
    BY <2>1, <2>2 DEF Ownership!Take
  <2>4. QED
    BY <2>1, <2>3 DEF Ownership!Next
<1>3. CASE CaptureFail
  BY <1>3 DEF CaptureFail
<1>4. CASE CapturePost
  <2>1. CASE mailbox = NoSlot
    <3>1. readers[capIdx] # {}
      BY <1>4 DEF CapturePost
    <3>2. readers' = [readers EXCEPT ![capIdx] = @ \cup {"inference"}]
      BY <1>4, <2>1, ZenonT(40) DEF CapturePost
    <3>3. Ownership!Share(capIdx, "inference")
      BY <1>4, <3>1, <3>2 DEF CapturePost, Ownership!Share
    <3>4. QED
      BY <1>4, <3>3 DEF CapturePost, Ownership!Next
  <2>2. CASE mailbox # NoSlot
    BY <1>4, <2>2 DEF CapturePost
  <2>3. QED
    BY <2>1, <2>2
<1>5. CASE CaptureMark
  <2>1. readers' = [readers EXCEPT ![capIdx] = (@ \ {"capture"}) \cup {"encoder"}]
    BY <1>5 DEF CaptureMark
  <2>2. Ownership!HandOver(capIdx, "capture", "encoder")
    BY <1>5, <2>1 DEF CaptureMark, Ownership!HandOver
  <2>3. QED
    BY <1>5, <2>2 DEF CaptureMark, Ownership!Next
<1>6. CASE CaptureSend
  BY <1>6 DEF CaptureSend
<1>7. CASE CaptureSendFail
  BY <1>7 DEF CaptureSendFail
<1>8. CASE CaptureRecycle
  <2>1. readers' = [readers EXCEPT ![capIdx] = @ \ {"encoder"}]
    BY <1>8 DEF CaptureRecycle
  <2>2. readers[capIdx] = {"encoder"} <=> ~infPending[capIdx]
    BY <1>8 DEF CaptureRecycle
  <2>3. Ownership!Drop(capIdx, "encoder")
    BY <1>8, <2>1, <2>2 DEF CaptureRecycle, TryRequeue, InUse, Ownership!Drop
  <2>4. QED
    BY <1>8, <2>3 DEF CaptureRecycle, Ownership!Next
<1>9. QED
  BY <1>1, <1>2, <1>3, <1>4, <1>5, <1>6, <1>7, <1>8 DEF Capture, CaptureRun

LEMMA InferenceRefines ==
  ASSUME InferenceOutlastsHandoff, IInv, Inference
  PROVE  Ownership!Next \/ UNCHANGED Ownership!vars
<1> USE DEF IInv, RingInv, TypeOK, Marks, CameraFree, Covered, CaptureProgress, Pinned,
            CaptureHolds, captureVars, inferenceVars, childVars, readers,
            Ownership!vars
<1>1. CASE InfTake
  BY <1>1 DEF InfTake
<1>2. CASE InfQuit
  BY <1>2 DEF InfQuit
<1>3. CASE InfFinish
  <2>1. readers' = [readers EXCEPT ![infIdx] = @ \ {"inference"}]
    BY <1>3, ZenonT(40) DEF InfFinish
  <2>2. readers[infIdx] = {"inference"} <=> ~encPending[infIdx]
    <3>1. infIdx \in Slots /\ infPending[infIdx] /\ encPending[infIdx] \in BOOLEAN
      BY <1>3 DEF InfFinish
    <3>2. ~(capPc \in {"post", "mark"} /\ capIdx = infIdx)
      BY <1>3, <3>1 DEF InfFinish, HandoffOver
    <3>3. readers[infIdx] = (IF encPending[infIdx] THEN {"encoder"} ELSE {}) \cup {"inference"}
      BY <3>1, <3>2
    <3>4. QED
      BY ONLY <3>1, <3>3
  <2>3. Ownership!Drop(infIdx, "inference")
    BY <1>3, <2>1, <2>2 DEF InfFinish, TryRequeue, InUse, Ownership!Drop
  <2>4. QED
    BY <1>3, <2>3 DEF InfFinish, Ownership!Next
<1>4. CASE InfFail
  BY <1>4 DEF InfFail
<1>5. QED
  BY <1>1, <1>2, <1>3, <1>4 DEF Inference

LEMMA ReleaseRefines ==
  ASSUME IInv, NEW s \in Slots, ReleaseRecv(s)
  PROVE  Ownership!Next
<1> USE DEF IInv, RingInv, TypeOK, Marks, CameraFree, Covered, InFlight, CaptureHolds, readers,
            captureVars, inferenceVars, childVars, ReleaseRecv
<1>1. encPending[s] /\ ~CaptureHolds(s)
  OBVIOUS
<1>2. readers' = [readers EXCEPT ![s] = @ \ {"encoder"}]
  BY <1>1
<1>3. readers[s] = {"encoder"} <=> ~infPending[s]
  <2>1. readers[s] = {"encoder"} \cup (IF infPending[s] THEN {"inference"} ELSE {})
    BY <1>1
  <2>2. infPending[s] \in BOOLEAN
    OBVIOUS
  <2>3. QED
    BY ONLY <2>1, <2>2
<1>4. Ownership!Drop(s, "encoder")
  BY <1>1, <1>2, <1>3 DEF TryRequeue, InUse, Ownership!Drop
<1>5. QED
  BY <1>4 DEF Ownership!Next

\* The threads of the application together implement SlotOwnership: whoever
\* lets go of a slot last, and nobody else, gives it back to the camera.
THEOREM ImplementsOwnershipThm ==
  ASSUME InferenceOutlastsHandoff
  PROVE  Spec => ImplementsOwnership
<1>1. Init => Ownership!Init
  BY DEF Init, Ownership!Init, readers
<1>2. IInv /\ [Next]_vars => [Ownership!Next]_(Ownership!vars)
  <2> SUFFICES ASSUME IInv, [Next]_vars
               PROVE  Ownership!Next \/ UNCHANGED Ownership!vars
    OBVIOUS
  <2>1. CASE Capture
    BY <2>1, CaptureRefines
  <2>2. CASE Inference
    BY <2>2, InferenceRefines
  <2>3. ASSUME NEW s \in Slots, ForSlot(s)
        PROVE  Ownership!Next \/ UNCHANGED Ownership!vars
    <3>1. CASE ReleaseRecv(s)
      BY <3>1, ReleaseRefines
    <3>2. CASE ChildDrop(s) \/ ChildPush(s) \/ ChildRelease(s)
      BY <3>2 DEF ChildDrop, ChildPush, ChildRelease, Ownership!vars, readers,
                  captureVars
    <3>3. QED
      BY <2>3, <3>1, <3>2 DEF ForSlot
  <2>4. CASE ReleaseEnd \/ ChildSwitchFps \/ ChildCrash \/ KeyHit
    BY <2>4 DEF ReleaseEnd, ChildSwitchFps, ChildCrash, KeyHit, Ownership!vars,
                readers, captureVars
  <2>5. CASE UNCHANGED vars
    BY <2>5 DEF vars, Ownership!vars, readers, captureVars
  <2>6. QED
    BY <2>1, <2>2, <2>3, <2>4, <2>5 DEF Next
<1>3. QED
  BY <1>1, <1>2, InvariantLemma, PTL DEF Spec, Ownership!Spec, ImplementsOwnership

\* What SlotOwnership comes to: the camera has exactly the slots without a reader.
AtCameraUnread == \A s \in Slots : s \in camera <=> readers[s] = {}

LEMMA OwnershipKeeps ==
  Ownership!Spec => [](camera \subseteq Slots /\ DOMAIN readers = Slots /\ AtCameraUnread)
<1> DEFINE Kept == camera \subseteq Slots /\ DOMAIN readers = Slots /\ AtCameraUnread
<1> USE DEF AtCameraUnread
<1>1. Ownership!Init => Kept
  <2> HIDE DEF readers
  <2>1. QED
    BY DEF Ownership!Init
<1>2. Kept /\ [Ownership!Next]_(Ownership!vars) => Kept'
  <2> SUFFICES ASSUME Kept, [Ownership!Next]_(Ownership!vars) PROVE Kept'
    OBVIOUS
  <2> HIDE DEF readers
  <2>1. CASE UNCHANGED Ownership!vars
    BY <2>1 DEF Ownership!vars
  <2>2. ASSUME NEW s \in Slots, NEW r, Ownership!Take(s, r) PROVE Kept'
    BY <2>2 DEF Ownership!Take
  <2>3. ASSUME NEW s \in Slots, NEW r, Ownership!Share(s, r) PROVE Kept'
    BY <2>3 DEF Ownership!Share
  <2>4. ASSUME NEW s \in Slots, NEW r, NEW q, Ownership!HandOver(s, r, q) PROVE Kept'
    BY <2>4 DEF Ownership!HandOver
  <2>5. ASSUME NEW s \in Slots, NEW r, Ownership!Drop(s, r) PROVE Kept'
    BY <2>5 DEF Ownership!Drop
  <2>6. QED
    BY <2>1, <2>2, <2>3, <2>4, <2>5 DEF Ownership!Next
<1>3. QED
  BY <1>1, <1>2, PTL DEF Ownership!Spec

\* "Re-QBUF'd to the camera ONLY when BOTH consumers are done" (main_yolox.cpp:88-91),
\* and then it is: the driver has a slot exactly when neither g_enc_pending nor
\* g_inf_pending is set and the capture thread is not about to set one.
THEOREM CameraHasTheRest ==
  ASSUME InferenceOutlastsHandoff
  PROVE  Spec => []AtCameraUnread
BY ImplementsOwnershipThm, OwnershipKeeps, PTL DEF ImplementsOwnership

-----------------------------------------------------------------------------
(* What a dead child took with it                                           *)

\* The capture thread goes round with a slot that was not marked, and takes its
\* own mark away again when the send fails.
LEMMA CaptureLeaksNothing ==
  ASSUME IInv, Capture, ~childAlive
  PROVE  Leaked' = Leaked
<1> USE DEF IInv, RingInv, TypeOK, Marks, CameraFree, CaptureProgress, Covered, Leaked, CaptureHolds,
            InFlight, childVars
<1>1. CASE CaptureCheck \/ CaptureFail \/ CapturePost \/ CaptureSendFail
  BY <1>1 DEF CaptureCheck, CaptureFail, CapturePost, CaptureSendFail
<1>2. CASE CaptureDequeue
  BY <1>2 DEF CaptureDequeue
<1>3. CASE CaptureMark
  BY <1>3 DEF CaptureMark
<1>4. CASE CaptureSend
  BY <1>4 DEF CaptureSend
<1>5. CASE CaptureRecycle
  BY <1>5 DEF CaptureRecycle
<1>6. QED
  BY <1>1, <1>2, <1>3, <1>4, <1>5 DEF Capture, CaptureRun

\* A mark that a message of the child still clears was not lost with it.
LEMMA ReleaseLeaksNothing ==
  ASSUME IInv, NEW s \in Slots, ReleaseRecv(s)
  PROVE  Leaked' = Leaked
BY DEF IInv, RingInv, TypeOK, Marks, Covered, Leaked, CaptureHolds, InFlight, ReleaseRecv, captureVars,
       childVars

\* The death of the child is the only step that costs slots, and it costs them once.
THEOREM LeakOnlyAtCrashThm ==
  ASSUME InferenceOutlastsHandoff
  PROVE  Spec => LeakOnlyAtCrash
<1>1. ASSUME IInv, IInv', [Next]_vars, Leaked' # Leaked
      PROVE  childAlive /\ ~childAlive'
  <2>1. CASE childAlive /\ childAlive'
    <3>1. Leaked = {}
      BY <1>1, <2>1, NothingLeakedAlive DEF IInv
    <3>2. Leaked' = {}
      BY <1>1, <2>1 DEF IInv, RingInv, TypeOK, MarkAnswered, InFlight, Leaked
    <3>3. QED
      BY <1>1, <3>1, <3>2
  <2>2. CASE ~childAlive
    <3>1. CASE Capture
      BY <1>1, <2>2, <3>1, CaptureLeaksNothing
    <3>2. CASE Inference \/ ReleaseEnd \/ KeyHit \/ UNCHANGED vars
      BY <1>1, <3>2 DEF Inference, InfTake, InfQuit, InfFinish, InfFail, ReleaseEnd,
           KeyHit, vars, captureVars, inferenceVars, childVars, Leaked, CaptureHolds
    <3>3. ASSUME NEW s \in Slots, ForSlot(s)
          PROVE  FALSE
      <4>1. CASE ReleaseRecv(s)
        BY <1>1, <4>1, ReleaseLeaksNothing
      <4>2. QED
        BY <2>2, <3>3, <4>1 DEF ForSlot, ChildDrop, ChildPush, ChildRelease
    <3>4. CASE ChildSwitchFps \/ ChildCrash
      BY <2>2, <3>4 DEF ChildSwitchFps, ChildCrash
    <3>5. QED
      BY <1>1, <3>1, <3>2, <3>3, <3>4 DEF Next
  <2>3. QED
    BY <1>1, <2>1, <2>2 DEF IInv, RingInv, TypeOK
<1>2. QED
  BY <1>1, InvariantLemma, PTL DEF Spec, LeakOnlyAtCrash

-----------------------------------------------------------------------------
(* The auto exposure, for the constants of camera.cpp                       *)

\* AE_EXP_MIN to AE_DEADBAND (camera.cpp:746-752) and the whole targets that
\* AE_TARGET can set (785).
AeConstants ==
  /\ ExpMin = 100 /\ ExpMax = 16666 /\ GainMin = 1 /\ GainMax = 64 /\ DeadBand = 2
  /\ Target \in Nat /\ 2 <= Target /\ Target <= 253

LEMMA DivBounds ==
  ASSUME NEW a \in Nat, NEW b \in Nat \ {0}
  PROVE  a \div b \in Nat /\ b * (a \div b) <= a /\ a < b * (a \div b) + b
BY SMT

LEMMA TimesMonotone ==
  ASSUME NEW a \in Nat, NEW b \in Nat, NEW c \in Nat, a <= b
  PROVE  a * c \in Nat /\ b * c \in Nat /\ a * c <= b * c
BY SMT

LEMMA SceneType ==
  ASSUME NEW scene \in Scenes
  PROVE  scene.target \in Nat /\ scene.clip \in Nat
<1>1. scene.target \in TargetLevels /\ scene.clip \in ClipLevels BY DEF Scenes
<1>2. TargetLevels \subseteq Nat /\ ClipLevels \subseteq Nat BY SMT, ExposureAssumption
<1> QED BY <1>1, <1>2

LEMMA LevelInRange ==
  ASSUME AeConstants, NEW setting \in Settings
  PROVE  LET k == Level(setting) IN k \in Nat /\ 100 <= k /\ k <= 1066624
<1> DEFINE e == setting.exposure
           g == setting.gain
<1>1. e \in ExpMin..ExpMax /\ g \in GainMin..GainMax BY DEF Settings
<1>2. Level(setting) = e * g BY DEF Level
<1> HIDE DEF e, g
<1>3. e \in Nat /\ 100 <= e /\ e <= 16666 BY ONLY SMT, AeConstants, <1>1 DEF AeConstants
<1>4. g \in Nat /\ 1 <= g /\ g <= 64 BY ONLY SMT, AeConstants, <1>1 DEF AeConstants
<1>5. e * g \in Nat /\ 100 * g <= e * g /\ e * g <= 16666 * g BY ONLY SMT, <1>3, <1>4, TimesMonotone
<1> DEFINE k == e * g
<1> HIDE DEF k
<1>6. k \in Nat /\ 100 <= k /\ k <= 1066624 BY ONLY SMT, <1>4, <1>5 DEF k
<1> QED BY <1>2, <1>6 DEF k

\* The gain is the smallest that the longest exposure needs for the level, to
\* within a thousandth of it.
LEMMA TheGain ==
  ASSUME AeConstants, NEW lf \in Nat
  PROVE  LET g == Decompose(lf).gain
         IN /\ g \in 1..64
            /\ g >= 2 => lf >= 16666000 * (g - 1) + 16666
            /\ lf <= 1066624000 => lf <= 16666000 * g + 16666
<1> USE DEF AeConstants
<1> DEFINE q == (lf + 999 * 16666) \div (1000 * 16666)
<1>1. Decompose(lf).gain = Clamp(q, 1, 64) BY SMT DEF Decompose
<1>2. q \in Nat /\ 16666000 * q <= lf + 16649334 /\ lf + 16649334 < 16666000 * q + 16666000
  BY SMT
<1> QED BY SMT, <1>1, <1>2 DEF Clamp

\* A level is taken apart to the nearest setting while the longest exposure is
\* enough for it, and to within a thousandth above.
LEMMA DecomposeNear ==
  ASSUME AeConstants, NEW lf \in Nat, 100000 <= lf, lf <= 1066624000
  PROVE  LET m == Level(Decompose(lf))
         IN /\ m \in Nat /\ 100 <= m /\ m <= 1066624
            /\ lf <= 16666000 => 1000 * m <= lf + 500 /\ lf < 1000 * m + 500
            /\ lf > 16666000 => 1000 * (1000 * m - lf) <= lf /\ 1000 * (lf - 1000 * m) <= lf
<1> USE DEF AeConstants
<1> DEFINE g == Decompose(lf).gain
           e == (lf + 500 * g) \div (1000 * g)
           m == Level(Decompose(lf))
           p == g * e
<1>1. g \in 1..64 /\ (g >= 2 => lf >= 16666000 * (g - 1) + 16666) /\ lf <= 16666000 * g + 16666
  BY SMT, TheGain
<1>2. Decompose(lf).exposure = Clamp(e, 100, 16666) BY SMT DEF Decompose
<1>3. m = Clamp(e, 100, 16666) * g BY SMT, <1>2 DEF Level
<1> HIDE DEF m
<1>4. e \in Nat /\ (1000 * g) * e <= lf + 500 * g /\ lf + 500 * g < (1000 * g) * e + 1000 * g
  <2> DEFINE a == lf + 500 * g
             b == 1000 * g
  <2>1. a \in Nat /\ b \in Nat \ {0} BY SMT, <1>1
  <2> HIDE DEF a, b
  <2>2. a \div b \in Nat /\ b * (a \div b) <= a /\ a < b * (a \div b) + b BY SMT, <2>1, DivBounds
  <2> QED BY SMT, <2>2 DEF a, b
<1>5. p \in Nat /\ 1000 * p <= lf + 500 * g /\ lf + 500 * g < 1000 * p + 1000 * g
  <2> HIDE DEF g, e
  <2> QED BY SMT, <1>1, <1>4
<1> HIDE DEF g, e, p
<1>6. CASE g = 1
  <2>1. p = e BY SMT, <1>4, <1>6 DEF p
  <2>2. m = Clamp(e, 100, 16666) BY SMT, <1>3, <1>4, <1>6 DEF Clamp
  <2>3. lf <= 16682666 BY SMT, <1>1, <1>6
  <2> QED BY SMT, <1>4, <1>5, <1>6, <2>1, <2>2, <2>3 DEF Clamp, m
<1>7. CASE g >= 2
  <2>1. e > 100
    <3> SUFFICES ASSUME e <= 100 PROVE FALSE BY SMT, <1>4
    <3>1. g * e <= 100 * g BY SMT, <1>1, <1>4
    <3> QED BY SMT, <1>1, <1>5, <1>7, <3>1 DEF p
  <2>2. CASE e <= 16666
    <3>1. m = p BY SMT, <1>1, <1>3, <1>4, <2>1, <2>2 DEF Clamp, p
    <3>2. p <= 16666 * g BY SMT, <1>1, <1>4, <2>2 DEF p
    <3> QED BY SMT, <1>1, <1>5, <1>7, <3>1, <3>2 DEF m
  <2>3. CASE e > 16666
    <3>1. m = 16666 * g BY SMT, <1>1, <1>3, <1>4, <2>3 DEF Clamp
    <3>2. p >= 16667 * g BY SMT, <1>1, <1>4, <2>3 DEF p
    <3> QED BY SMT, <1>1, <1>5, <1>7, <3>1, <3>2 DEF m
  <2> QED BY SMT, <1>4, <2>2, <2>3
<1> QED BY SMT, <1>1, <1>6, <1>7

\* Outside the dead band the level is off the target by 2/253 of it at least.
LEMMA OffTarget ==
  ASSUME AeConstants, NEW scene \in Scenes, NEW k \in Nat, ~InBand(scene, k)
  PROVE  LET t == scene.target IN 253 * (k - t) >= 2 * t \/ 253 * (t - k) >= 2 * t
<1> USE DEF AeConstants
<1> DEFINE t == scene.target
           off == Target * (k - t)
<1>1. t \in Nat /\ Target \in Nat /\ 2 <= Target /\ Target <= 253 BY SMT, SceneType
<1>2. off <= -2 * t \/ 2 * t <= off BY SMT, <1>1 DEF InBand
<1> HIDE DEF t
<1>3. CASE k >= t
  <2>1. off \in Int /\ off <= 253 * (k - t) /\ off >= 0 BY SMT, <1>1, <1>3
  <2> HIDE DEF off
  <2> QED BY SMT, <1>1, <1>2, <1>3, <2>1 DEF t
<1>4. CASE t > k
  <2>1. /\ Target * (t - k) \in Nat /\ Target * (t - k) <= 253 * (t - k)
        /\ off \in Int /\ off = -(Target * (t - k))
    BY SMT, <1>1, <1>4
  <2> HIDE DEF off
  <2> QED BY SMT, <1>1, <1>2, <1>4, <2>1 DEF t
<1> QED BY SMT, <1>1, <1>3, <1>4

\* One correction outside the dead band, or of a clipped picture.
LEMMA OneCorrection ==
  ASSUME AeConstants, NEW scene \in Scenes, NEW k \in Nat, 100 <= k, k <= 1066624,
         Clipped(scene, k) \/ ~InBand(scene, k)
  PROVE  LET t == scene.target
             m == Level(Decompose(Clamp(Corrected(scene, k), 100000, 1066624000)))
         IN /\ m \in Nat /\ 100 <= m /\ m <= 1066624
            /\ Clipped(scene, k) => IF k = 100 THEN m = k ELSE m < k
            /\ ~Clipped(scene, k) /\ k < t => IF k = 1066624 THEN m = k ELSE k < m /\ m <= t
            /\ ~Clipped(scene, k) /\ t <= k => IF k = 100 THEN m = k ELSE m < k /\ t <= m
<1> USE DEF AeConstants
<1> DEFINE t == scene.target
           p == Corrected(scene, k)
           x == Clamp(p, 100000, 1066624000)
           m == Level(Decompose(x))
<1>1. t \in Nat BY SMT, SceneType
<1>2. p = IF Clipped(scene, k) THEN 850 * k ELSE Clamp(400 * k + 600 * t, 550 * k, 1600 * k)
  BY SMT DEF Corrected
<1>3. ~Clipped(scene, k) => 253 * (k - t) >= 2 * t \/ 253 * (t - k) >= 2 * t
  BY SMT, OffTarget
<1> HIDE DEF p, t
<1>4. p \in Nat BY SMT, <1>1, <1>2 DEF Clamp
<1>5. /\ x \in Nat /\ 100000 <= x /\ x <= 1066624000
      /\ x = p \/ (p < 100000 /\ x = 100000) \/ (p > 1066624000 /\ x = 1066624000)
  BY SMT, <1>4 DEF Clamp
<1> HIDE DEF x
<1>6. /\ m \in Nat /\ 100 <= m /\ m <= 1066624
      /\ x <= 16666000 => 1000 * m <= x + 500 /\ x < 1000 * m + 500
      /\ x > 16666000 => 1000 * (1000 * m - x) <= x /\ 1000 * (x - 1000 * m) <= x
  BY SMT, <1>5, DecomposeNear
<1>7. x = 1066624000 => m = 1066624
  <2>1. Level(Decompose(1066624000)) = 1066624 BY SMT DEF Level, Decompose, Clamp
  <2> QED BY SMT, <2>1
<1> HIDE DEF m
<1>8. ASSUME Clipped(scene, k) PROVE IF k = 100 THEN m = k ELSE m < k
  BY SMT, <1>1, <1>2, <1>4, <1>5, <1>6, <1>8
<1>9. ASSUME ~Clipped(scene, k), k < t
      PROVE  IF k = 1066624 THEN m = k ELSE k < m /\ m <= t
  <2>1. 253 * (t - k) >= 2 * t BY SMT, <1>1, <1>3, <1>9
  <2>2. p = 400 * k + 600 * t \/ (p = 1600 * k /\ 2 * k <= t)
    BY SMT, <1>1, <1>2, <1>9 DEF Clamp
  <2>3. 1000 * k + 600 <= p /\ p + 400 <= 1000 * t /\ 100470 * k <= 100 * p /\ 1000 * p <= 997000 * t
    BY SMT, <1>1, <1>9, <2>1, <2>2
  <2>4. CASE p > 1066624000 \/ k = 1066624
    <3>1. x = 1066624000 BY SMT, <1>4, <1>5, <2>3, <2>4
    <3>2. m = 1066624 BY SMT, <1>7, <3>1
    <3>3. t >= 1066624 BY SMT, <1>1, <1>4, <1>9, <2>3, <2>4
    <3> QED BY SMT, <3>2, <3>3
  <2>5. CASE p <= 1066624000 /\ k # 1066624
    <3>1. x = p BY SMT, <1>4, <1>5, <2>3, <2>5
    <3>2. k < m
      <4>1. CASE x <= 16666000 BY SMT, <1>5, <1>6, <2>3, <3>1, <4>1
      <4>2. CASE x > 16666000 BY SMT, <1>5, <1>6, <2>3, <3>1, <4>2
      <4> QED BY SMT, <1>5, <4>1, <4>2
    <3>3. m <= t BY SMT, <1>1, <1>5, <1>6, <2>3, <3>1
    <3> QED BY SMT, <2>5, <3>2, <3>3
  <2> QED BY SMT, <1>4, <2>4, <2>5
<1>10. ASSUME ~Clipped(scene, k), t <= k
       PROVE  IF k = 100 THEN m = k ELSE m < k /\ t <= m
  <2>1. 253 * (k - t) >= 2 * t BY SMT, <1>1, <1>3, <1>10
  <2>2. p = 400 * k + 600 * t \/ (p = 550 * k /\ 4 * t <= k)
    BY SMT, <1>1, <1>2, <1>10 DEF Clamp
  <2>3. t < k BY SMT, <1>1, <1>10, <2>1
  <2>4. m < k \/ k = 100
    <3>1. p + 600 <= 1000 * k \/ p = 550 * k BY SMT, <1>1, <2>2, <2>3
    <3>2. 1000 * p <= 997000 * k BY SMT, <1>1, <2>1, <2>2
    <3> QED BY SMT, <1>4, <1>5, <1>6, <3>1, <3>2
  <2>5. t <= m
    <3>1. 1000 * t + 400 <= p \/ 4 * t <= k BY SMT, <1>1, <2>2, <2>3
    <3> QED BY SMT, <1>1, <1>4, <1>5, <1>6, <2>1, <2>2, <2>3, <3>1
  <2>6. CASE k = 100 BY SMT, <1>1, <1>4, <1>5, <1>6, <2>2, <2>3, <2>6
  <2> QED BY SMT, <2>4, <2>5, <2>6
<1> QED BY SMT, <1>6, <1>8, <1>9, <1>10 DEF m, x, p, t

\* Every correction of every setting makes progress with every scene.
LEMMA ProgressEverywhere ==
  ASSUME AeConstants, NEW scene \in Scenes, NEW setting \in Settings
  PROVE  Progress(scene, setting)
<1> DEFINE t == scene.target
           c == scene.clip
           k == Level(setting)
           m == Level(AeUpdate(scene, setting))
           n == Level(Decompose(Clamp(Corrected(scene, k), 100000, 1066624000)))
<1>1. t \in Nat /\ c \in Nat /\ (Clipped(scene, k) <=> k >= c) /\ (Clipped(scene, m) <=> m >= c)
  BY SMT, SceneType DEF Clipped
<1>2. k \in Nat /\ 100 <= k /\ k <= 1066624 BY SMT, LevelInRange
<1>3. LevelMin = 100 /\ LevelMax = 1066624 BY SMT DEF AeConstants, LevelMin, LevelMax
<1>4. m = IF ~Clipped(scene, k) /\ InBand(scene, k) THEN k ELSE n
  BY SMT, <1>3 DEF AeUpdate
<1>5. ~(~Clipped(scene, k) /\ InBand(scene, k)) =>
         /\ Clipped(scene, k) => IF k = 100 THEN n = k ELSE n < k
         /\ ~Clipped(scene, k) /\ k < t => IF k = 1066624 THEN n = k ELSE k < n /\ n <= t
         /\ ~Clipped(scene, k) /\ t <= k => IF k = 100 THEN n = k ELSE n < k /\ t <= n
         /\ n \in Nat /\ 100 <= n /\ n <= 1066624
  <2> HIDE DEF k
  <2> QED BY SMT, <1>2, OneCorrection
<1>6. Progress(scene, setting) <=>
        IF AtRest(scene, k) THEN m = k
        ELSE IF Clipped(scene, k) THEN m < k
        ELSE Nearer(scene, k, m) /\ (Harmless(scene) => ~Clipped(scene, m))
  BY SMT DEF Progress
<1> HIDE DEF k, m, n, t, c
<1>7. CASE ~Clipped(scene, k) /\ InBand(scene, k)
  BY SMT, <1>4, <1>6, <1>7 DEF AtRest
<1>8. CASE Clipped(scene, k)
  BY SMT, <1>2, <1>3, <1>4, <1>5, <1>6, <1>8 DEF AtRest
<1>9. CASE ~Clipped(scene, k) /\ ~InBand(scene, k) /\ k < t
  <2>1. m = n BY SMT, <1>4, <1>9
  <2>2. CASE k = 1066624
    BY SMT, <1>1, <1>2, <1>3, <1>5, <1>6, <1>9, <2>1, <2>2 DEF AtRest, t
  <2>3. CASE k # 1066624
    <3>1. k < m /\ m <= t /\ m <= 1066624 BY SMT, <1>5, <1>9, <2>1, <2>3
    <3>2. Nearer(scene, k, m)
      BY SMT, <1>1, <1>2, <1>3, <1>5, <1>9, <2>1, <3>1 DEF Nearer, Clamp, t
    <3>3. ASSUME Harmless(scene) PROVE ~Clipped(scene, m)
      <4>1. Target \in Nat /\ 2 <= Target BY SMT DEF AeConstants
      <4>2. Target * c > (Target + 2) * t BY SMT, <3>3 DEF Harmless, AeConstants, t, c
      <4>3. (Target + 2) * t = Target * t + 2 * t BY SMT, <1>1, <4>1
      <4>4. Target * c > Target * t BY SMT, <1>1, <4>1, <4>2, <4>3
      <4>5. c > t
        <5> SUFFICES ASSUME c <= t PROVE FALSE BY SMT, <1>1
        <5>1. Target * c <= Target * t BY SMT, <1>1, <4>1
        <5> QED BY SMT, <1>1, <4>1, <4>4, <5>1
      <4> QED BY SMT, <1>1, <1>5, <1>9, <2>1, <3>1, <4>5
    <3>4. ~AtRest(scene, k) BY SMT, <1>1, <1>2, <1>3, <1>9, <2>3 DEF AtRest, t
    <3> QED BY SMT, <1>6, <1>9, <3>2, <3>3, <3>4
  <2> QED BY <2>2, <2>3
<1>10. CASE ~Clipped(scene, k) /\ ~InBand(scene, k) /\ t <= k
  <2>1. m = n BY SMT, <1>4, <1>10
  <2>2. CASE k = 100
    BY SMT, <1>1, <1>2, <1>3, <1>5, <1>6, <1>10, <2>1, <2>2 DEF AtRest, t
  <2>3. CASE k # 100
    <3>1. m < k /\ t <= m /\ 100 <= m BY SMT, <1>5, <1>10, <2>1, <2>3
    <3>2. Nearer(scene, k, m)
      BY SMT, <1>1, <1>2, <1>3, <1>5, <1>10, <2>1, <3>1 DEF Nearer, Clamp, t
    <3>3. ~Clipped(scene, m) BY SMT, <1>1, <1>2, <1>5, <1>10, <2>1, <3>1
    <3>4. ~AtRest(scene, k)
      BY SMT, <1>1, <1>2, <1>3, <1>5, <1>10, <2>1, <2>3, <3>1 DEF AtRest, t
    <3> QED BY SMT, <1>6, <1>10, <3>2, <3>3, <3>4
  <2> QED BY <2>2, <2>3
<1> QED BY SMT, <1>1, <1>2, <1>7, <1>8, <1>9, <1>10

\* The auto exposure gets nearer to the target with every correction and comes to
\* rest, whatever the setting, the scene and AE_TARGET, not only those that are run.
THEOREM AutoExposureSettlesThm ==
  ASSUME AeConstants
  PROVE  Spec => []AutoExposureSettles
<1>1. AllProgress
  <2>1. StartSettings \subseteq Settings BY ExposureAssumption
  <2> QED BY <2>1, ProgressEverywhere DEF AllProgress
<1>2. AutoExposureSettles BY <1>1 DEF AutoExposureSettles
<1> QED BY <1>2, PTL
=============================================================================
