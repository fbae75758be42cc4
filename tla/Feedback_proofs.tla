-------------------------- MODULE Feedback_proofs --------------------------
(***************************************************************************)
(* Proofs about the feedback of the viewer: about Feedback for any number  *)
(* of reports and viewers and any network (NeverBackThm: for one that is   *)
(* late by no more datagrams than Resync), and about KeyFrameLoop, the     *)
(* requests that travel with the reports, for any times.                   *)
(***************************************************************************)
EXTENDS Feedback, KeyFrameLoop, FiniteSetTheorems, TLAPS

-----------------------------------------------------------------------------
(* The feedback thread                                                      *)

\* The datagrams under way that the thread takes for old.
Late == {d \in net : d.seq <= last_seq}

Underway == /\ IsFiniteSet(net)
            /\ \A d \in net : d.viewer <= viewer

ReadingIsLast == /\ have_seq <=> reading # Nothing
                 /\ have_seq => reading.seq = last_seq /\ reading.viewer <= viewer
                 /\ reading.viewer = viewer => last_seq <= seq
                 /\ \A d \in net : d.viewer = viewer => d.seq <= seq

\* Once a report of the present viewer is taken there are fewer late datagrams
\* left than it takes to fill the count of old ones, when the network has no more
\* than that under way.
FewLate == Capacity <= Resync /\ reading.viewer = viewer
             => stale_run + Cardinality(Late) < Resync

\* Each arrival of the present viewer that was not taken has been counted.
RowCounted == reading.viewer # viewer => row <= stale_run

IInv == TypeOK /\ Underway /\ ReadingIsLast /\ FewLate /\ RowCounted

-----------------------------------------------------------------------------
LEMMA NothingIsNobody == ASSUME TypeOK PROVE Nothing.viewer = 0 /\ viewer # 0 /\ viewer \in Nat
BY BoundsAssumption DEF TypeOK, Nothing

LEMMA InitInv == Init => IInv
<1> SUFFICES ASSUME Init PROVE IInv OBVIOUS
<1> USE CapacityAssumption, BoundsAssumption DEF Init, NewThread
<1>1. IsFiniteSet(net) /\ Cardinality(net) = 0 BY FS_EmptySet
<1>2. TypeOK
  <2>1. net \subseteq Datagrams /\ Cardinality(net) <= Capacity BY <1>1
  <2>2. reading \in {Nothing} \cup [viewer : 1..MaxViewers, seq : 1..MaxSeq] OBVIOUS
  <2>3. /\ viewer \in 1..MaxViewers /\ seq \in 0..MaxSeq /\ last_seq \in 0..MaxSeq
        /\ stale_run \in 0..(Resync - 1) /\ row \in 0..Resync
    BY DEF Resync
  <2>4. have_seq \in BOOLEAN OBVIOUS
  <2> QED BY ONLY <2>1, <2>2, <2>3, <2>4 DEF TypeOK
<1>3. Underway BY <1>1 DEF Underway
<1>4. reading.viewer # viewer /\ row = stale_run BY DEF Nothing
<1>5. ReadingIsLast BY <1>4 DEF ReadingIsLast, Nothing
<1>6. FewLate BY <1>4 DEF FewLate
<1>7. RowCounted BY DEF RowCounted
<1> QED BY <1>2, <1>3, <1>5, <1>6, <1>7 DEF IInv

LEMMA SendInv == ASSUME IInv, Send PROVE IInv'
<1> USE DEF IInv
<1>1. PICK copies \in SUBSET BOOLEAN :
        net' = net \cup [viewer : {viewer}, seq : {seq + 1}, copy : copies]
  BY DEF Send
<1> DEFINE new == [viewer : {viewer}, seq : {seq + 1}, copy : copies]
<1>2. viewer \in 1..MaxViewers /\ seq \in 0..MaxSeq /\ seq' = seq + 1 /\ seq' \in 1..MaxSeq
  BY BoundsAssumption DEF TypeOK, Send
<1>3. \A d \in new : d.viewer = viewer /\ d.seq = seq + 1 /\ d \in Datagrams
  BY <1>2 DEF Datagrams, Send
<1>4. IsFiniteSet(net')
  <2>1. new \subseteq {[viewer |-> viewer, seq |-> seq + 1, copy |-> TRUE],
                       [viewer |-> viewer, seq |-> seq + 1, copy |-> FALSE]}
    <3> SUFFICES ASSUME NEW d \in new
                 PROVE  \E c \in BOOLEAN : d = [viewer |-> viewer, seq |-> seq + 1, copy |-> c]
      OBVIOUS
    <3>1. PICK c \in copies : d = [viewer |-> viewer, seq |-> seq + 1, copy |-> c] OBVIOUS
    <3> QED BY <3>1
  <2>2. IsFiniteSet({[viewer |-> viewer, seq |-> seq + 1, copy |-> TRUE],
                     [viewer |-> viewer, seq |-> seq + 1, copy |-> FALSE]})
    <3> DEFINE a == [viewer |-> viewer, seq |-> seq + 1, copy |-> TRUE]
               b == [viewer |-> viewer, seq |-> seq + 1, copy |-> FALSE]
    <3> HIDE DEF a, b
    <3>1. IsFiniteSet({a}) BY FS_Singleton
    <3>2. IsFiniteSet({a} \cup {b}) BY <3>1, FS_AddElement
    <3>3. {a} \cup {b} = {a, b} OBVIOUS
    <3>4. IsFiniteSet({a, b}) BY <3>2, <3>3
    <3> QED BY <3>4 DEF a, b
  <2>3. IsFiniteSet(new) BY ONLY <2>1, <2>2, FS_Subset
  <2> QED BY <1>1, <2>3, FS_Union DEF Underway
<1>5. TypeOK' BY <1>1, <1>2, <1>3 DEF TypeOK, Send, threadVars
<1>6. Underway' BY <1>1, <1>2, <1>3, <1>4 DEF Underway, Send
<1>7. ReadingIsLast'
  <2>1. UNCHANGED <<viewer, last_seq, have_seq, reading>> BY DEF Send, threadVars
  <2>2. \A d \in net' : d.viewer = viewer => d.seq <= seq'
    <3> SUFFICES ASSUME NEW d \in net', d.viewer = viewer PROVE d.seq <= seq'
      OBVIOUS
    <3>1. CASE d \in new BY <1>2, <1>3, <3>1
    <3>2. CASE d \in net
      <4>1. d.seq \in Nat /\ d.seq <= seq BY <3>2, BoundsAssumption DEF ReadingIsLast, TypeOK, Datagrams
      <4> QED BY <4>1, <1>2
    <3> QED BY <1>1, <3>1, <3>2
  <2>3. reading.viewer = viewer => last_seq <= seq'
    BY <1>2, BoundsAssumption DEF ReadingIsLast, TypeOK
  <2>4. /\ have_seq' <=> reading' # Nothing
        /\ have_seq' => reading'.seq = last_seq' /\ reading'.viewer <= viewer'
    BY <2>1 DEF ReadingIsLast
  <2> QED BY <2>1, <2>2, <2>3, <2>4 DEF ReadingIsLast
<1>8. FewLate'
  <2> SUFFICES ASSUME reading.viewer = viewer
               PROVE  Late' = Late
    BY DEF FewLate, Send, threadVars
  <2>1. last_seq <= seq /\ last_seq \in Nat /\ last_seq' = last_seq
    BY BoundsAssumption DEF ReadingIsLast, TypeOK, Send, threadVars
  <2> QED BY <1>1, <1>2, <1>3, <2>1 DEF Late
<1>9. RowCounted' BY DEF RowCounted, Send, threadVars
<1> QED BY <1>5, <1>6, <1>7, <1>8, <1>9

\* With fewer datagrams under way there are fewer late ones.
LEMMA FewerLate ==
  ASSUME IInv, net' \subseteq net, UNCHANGED <<viewer, threadVars>>
  PROVE  IsFiniteSet(net') /\ Cardinality(net') <= Cardinality(net) /\ FewLate'
<1> USE DEF IInv
<1>1. IsFiniteSet(net') /\ Cardinality(net') <= Cardinality(net)
  BY FS_Subset DEF Underway
<1>2. IsFiniteSet(Late) BY FS_Subset DEF Underway, Late
<1>3. Late' \subseteq Late BY DEF Late, threadVars
<1>4. /\ Cardinality(Late') \in Nat /\ Cardinality(Late) \in Nat
      /\ Cardinality(Late') <= Cardinality(Late)
  BY <1>2, <1>3, FS_Subset, FS_CardinalityType
<1>5. stale_run \in Nat BY DEF TypeOK, Resync
<1>6. FewLate' BY <1>4, <1>5 DEF FewLate, threadVars, Resync
<1> QED BY <1>1, <1>6

LEMMA LoseInv == ASSUME IInv, Lose PROVE IInv'
<1> USE DEF IInv
<1>1. net' \subseteq net /\ UNCHANGED <<viewerVars, threadVars, row>> BY DEF Lose
<1>2. UNCHANGED <<viewer, threadVars>> BY <1>1 DEF viewerVars
<1>3. IsFiniteSet(net') /\ Cardinality(net') <= Cardinality(net) /\ FewLate'
  BY <1>1, <1>2, FewerLate
<1>4. Cardinality(net) \in Nat /\ Cardinality(net') \in Nat
  BY <1>3, FS_CardinalityType DEF Underway
<1>5. TypeOK' BY <1>1, <1>3, <1>4, CapacityAssumption DEF TypeOK, viewerVars, threadVars
<1>6. Underway' /\ ReadingIsLast' /\ RowCounted'
  BY <1>1, <1>3 DEF Underway, ReadingIsLast, RowCounted, viewerVars, threadVars
<1> QED BY <1>3, <1>5, <1>6

LEMMA ViewerRestartInv == ASSUME IInv, ViewerRestart PROVE IInv'
<1> USE DEF IInv
<1>1. /\ viewer \in 1..MaxViewers /\ viewer' = viewer + 1 /\ viewer' \in 1..MaxViewers
      /\ seq' = 0 /\ row' = 0 /\ UNCHANGED <<net, threadVars>>
  BY BoundsAssumption DEF TypeOK, ViewerRestart
<1>2. reading'.viewer # viewer' /\ reading' = reading
  BY <1>1, NothingIsNobody DEF ReadingIsLast, threadVars, TypeOK, Nothing
<1>3. TypeOK' BY <1>1, BoundsAssumption DEF TypeOK, threadVars, Resync
<1>4. Underway' BY <1>1 DEF Underway, TypeOK, Datagrams
<1>5. ReadingIsLast'
  <2>1. \A d \in net : d.viewer # viewer' BY <1>1 DEF Underway, TypeOK, Datagrams
  <2>2. have_seq => reading.viewer <= viewer'
    BY <1>1, NothingIsNobody DEF ReadingIsLast, TypeOK
  <2> QED BY <1>1, <1>2, <2>1, <2>2 DEF ReadingIsLast, threadVars
<1>6. FewLate' BY <1>2 DEF FewLate
<1>7. RowCounted' BY <1>1 DEF RowCounted, TypeOK, threadVars, Resync
<1> QED BY <1>3, <1>4, <1>5, <1>6, <1>7

LEMMA ThreadRestartInv == ASSUME IInv, ThreadRestart PROVE IInv'
<1> USE DEF IInv
<1>1. /\ last_seq' = 0 /\ have_seq' = FALSE /\ stale_run' = 0 /\ reading' = Nothing
      /\ row' = 0 /\ UNCHANGED <<viewerVars, net>>
  BY DEF ThreadRestart
<1>2. reading'.viewer # viewer' BY <1>1, NothingIsNobody DEF viewerVars
<1>3. TypeOK'
  <2>1. /\ last_seq' \in 0..MaxSeq /\ stale_run' \in 0..(Resync - 1) /\ row' \in 0..Resync
    BY <1>1, BoundsAssumption DEF Resync
  <2>2. have_seq' \in BOOLEAN BY <1>1
  <2>3. reading' \in {Nothing} \cup [viewer : 1..MaxViewers, seq : 1..MaxSeq] BY <1>1
  <2> QED BY <1>1, <2>1, <2>2, <2>3 DEF TypeOK, viewerVars
<1>4. Underway' /\ RowCounted' BY <1>1 DEF Underway, viewerVars, RowCounted
<1>5. ReadingIsLast' BY <1>1, <1>2 DEF ReadingIsLast, viewerVars
<1>6. FewLate' BY <1>2 DEF FewLate
<1> QED BY <1>3, <1>4, <1>5, <1>6

-----------------------------------------------------------------------------
\* Taking a report leaves at most two datagrams under way, late or not. A late
\* one of the present viewer is not taken: too few are left to fill the count.
LEMMA AcceptInv ==
  ASSUME IInv, NEW d \in net, Receive(d), Accept(d)
  PROVE  IInv'
<1> USE DEF IInv
<1>1. /\ net' = net \ {d} /\ UNCHANGED viewerVars
      /\ last_seq' = d.seq /\ have_seq' = TRUE /\ stale_run' = 0
      /\ reading' = [viewer |-> d.viewer, seq |-> d.seq]
  BY DEF Receive, Accept
<1>2. d.viewer \in 1..MaxViewers /\ d.seq \in 1..MaxSeq /\ d.viewer <= viewer
  BY DEF TypeOK, Datagrams, Underway
<1>3. /\ IsFiniteSet(net') /\ Cardinality(net') = Cardinality(net) - 1
      /\ Cardinality(net) \in Nat /\ Cardinality(net') \in Nat
  BY <1>1, FS_RemoveElement, FS_CardinalityType DEF Underway
<1>4. TypeOK'
  <2>1. row' \in 0..Resync BY DEF Receive, TypeOK, Resync
  <2>2. reading' \in [viewer : 1..MaxViewers, seq : 1..MaxSeq] BY <1>1, <1>2
  <2>3. Cardinality(net') <= Capacity BY <1>3, CapacityAssumption DEF TypeOK
  <2> QED BY <1>1, <1>2, <2>1, <2>2, <2>3, BoundsAssumption DEF TypeOK, viewerVars, Resync
<1>5. Underway' BY <1>1, <1>3 DEF Underway, viewerVars
<1>6. ReadingIsLast'
  <2>1. reading' # Nothing BY <1>1, <1>2 DEF Nothing
  <2> QED BY <1>1, <1>2, <2>1 DEF ReadingIsLast, viewerVars
<1>7. FewLate'
  <2>1. IsFiniteSet(Late') /\ Cardinality(Late') <= Cardinality(net')
    BY <1>3, FS_Subset DEF Late
  <2>2. Cardinality(Late') \in Nat BY <2>1, FS_CardinalityType
  <2> QED BY <1>1, <1>3, <2>1, <2>2, CapacityAssumption DEF FewLate, TypeOK, Resync
<1>8. RowCounted'
  <2>1. reading'.viewer # viewer' => row' = 0 BY <1>1 DEF Receive, viewerVars
  <2> QED BY <1>1, <2>1 DEF RowCounted
<1> QED BY <1>4, <1>5, <1>6, <1>7, <1>8

LEMMA RefuseInv ==
  ASSUME IInv, NEW d \in net, Receive(d), IsOld(d), Refuse(d)
  PROVE  IInv'
<1> USE DEF IInv
<1>1. /\ net' = net \ {d} /\ UNCHANGED viewerVars
      /\ stale_run' = stale_run + 1 /\ stale_run' < Resync
      /\ UNCHANGED <<last_seq, have_seq, reading>> /\ d.seq <= last_seq
  BY DEF Receive, Refuse, IsOld
<1>2. stale_run \in Nat BY DEF TypeOK, Resync
<1>3. /\ IsFiniteSet(net') /\ Cardinality(net') = Cardinality(net) - 1
      /\ Cardinality(net) \in Nat /\ Cardinality(net') \in Nat
  BY <1>1, FS_RemoveElement, FS_CardinalityType DEF Underway
<1>4. TypeOK'
  <2>1. row' \in 0..Resync BY DEF Receive, TypeOK, Resync
  <2>2. Cardinality(net') <= Capacity BY <1>3, CapacityAssumption DEF TypeOK
  <2> QED BY <1>1, <1>2, <2>1, <2>2 DEF TypeOK, viewerVars, Resync
<1>5. Underway' /\ ReadingIsLast' BY <1>1, <1>3 DEF Underway, ReadingIsLast, viewerVars
<1>6. FewLate'
  <2>1. d \in Late /\ Late' = Late \ {d} BY <1>1 DEF Late
  <2>2. IsFiniteSet(Late) BY FS_Subset DEF Underway, Late
  <2>3. Cardinality(Late') = Cardinality(Late) - 1 /\ Cardinality(Late) \in Nat
    BY <2>1, <2>2, FS_RemoveElement, FS_CardinalityType
  <2> QED BY <1>1, <1>2, <2>3 DEF FewLate, viewerVars
<1>7. RowCounted' BY <1>1, <1>2 DEF RowCounted, Receive, viewerVars, TypeOK, Resync
<1> QED BY <1>4, <1>5, <1>6, <1>7

LEMMA ReceiveCases ==
  ASSUME NEW d, Receive(d)
  PROVE  Accept(d) \/ (IsOld(d) /\ Refuse(d))
BY DEF Receive

LEMMA NextInv == ASSUME IInv, [Next]_vars PROVE IInv'
<1>1. CASE UNCHANGED vars
  BY <1>1 DEF vars, viewerVars, threadVars, IInv, TypeOK, Underway, ReadingIsLast,
              FewLate, Late, RowCounted
<1>2. ASSUME NEW d \in net, Receive(d) PROVE IInv'
  BY <1>2, ReceiveCases, AcceptInv, RefuseInv
<1> QED BY <1>1, <1>2, SendInv, LoseInv, ViewerRestartInv, ThreadRestartInv DEF Next

THEOREM Invariance == Spec => []IInv
BY InitInv, NextInv, PTL DEF Spec

\* The state of the feedback keeps its type.
THEOREM TypeCorrect == Spec => []TypeOK
<1>1. IInv => TypeOK BY DEF IInv
<1> QED BY <1>1, Invariance, PTL

\* Three reports in a row of a viewer started anew are enough to be heard.
THEOREM HeardInThreeThm == Spec => []HeardInThree
<1>1. IInv => HeardInThree BY DEF IInv, TypeOK, RowCounted, HeardInThree, Resync
<1> QED BY <1>1, Invariance, PTL

\* However they are lost, repeated and reordered, with three datagrams under way
\* the ladder never goes back to an older report of the viewer it listens to.
THEOREM NeverBackThm == ASSUME Capacity <= Resync PROVE Spec => NeverBack
<1> DEFINE Ahead == reading.viewer = viewer /\ reading'.viewer = viewer'
                      => reading'.seq >= reading.seq
<1>1. ASSUME IInv, [Next]_vars PROVE Ahead \/ UNCHANGED vars
  <2> SUFFICES ASSUME reading.viewer = viewer, reading'.viewer = viewer', reading' # reading
               PROVE  reading'.seq >= reading.seq
    <3>1. IInv => reading.seq \in Nat
      BY BoundsAssumption DEF IInv, TypeOK, Nothing
    <3> QED BY <1>1, <3>1
  <2>1. have_seq BY <1>1, NothingIsNobody DEF IInv, ReadingIsLast
  <2>2. ASSUME NEW d \in net, Receive(d) PROVE reading'.seq >= reading.seq
    <3>1. Accept(d) /\ net' = net \ {d} BY <2>2, ReceiveCases DEF Receive, Refuse
    <3>2. reading'.seq = d.seq /\ reading.seq = last_seq BY <1>1, <2>1, <3>1 DEF Accept, IInv, ReadingIsLast
    <3>3. d.seq \in Nat /\ last_seq \in Nat
      BY <1>1, BoundsAssumption DEF IInv, TypeOK, Datagrams
    <3>4. CASE d.seq <= last_seq
      <4>1. stale_run + 1 >= Resync BY <2>1, <2>2, <3>1, <3>4 DEF Receive, IsOld, Refuse, Accept
      <4>2. d \in Late /\ IsFiniteSet(Late)
        BY <1>1, <3>4, FS_Subset DEF Late, IInv, Underway
      <4>3. Cardinality(Late) \in Nat /\ Cardinality(Late) # 0
        BY <4>2, FS_CardinalityType, FS_EmptySet
      <4>4. stale_run + Cardinality(Late) < Resync BY <1>1 DEF IInv, FewLate
      <4> QED BY <1>1, <4>1, <4>3, <4>4 DEF IInv, TypeOK, Resync
    <3> QED BY <3>2, <3>3, <3>4
  <2>3. CASE Send \/ Lose \/ ViewerRestart BY <2>3 DEF Send, Lose, ViewerRestart, threadVars
  <2>4. CASE ThreadRestart
    BY <1>1, <2>4, NothingIsNobody DEF ThreadRestart, IInv, viewerVars
  <2>5. CASE UNCHANGED vars BY <2>5 DEF vars, threadVars
  <2> QED BY <1>1, <2>2, <2>3, <2>4, <2>5 DEF Next
<1> QED BY <1>1, Invariance, PTL DEF Spec, NeverBack

-----------------------------------------------------------------------------
(* The key frame loop                                                       *)

USE TimesAssumption

\* Since the gate last looked, and did not say LOST, the picture has aged by no more
\* than the gate's timer has run down.
AgeSinceGate == gate = "LOST" \/ age <= Hold + (GatePeriod - gateIn)

LoopInv == LoopTypeOK /\ AgeSinceGate

LEMMA InitLoopInv == ASSUME LoopInit PROVE LoopInv
<1> USE DEF LoopInit
<1>1. age \in 0..MaxAge /\ gateIn \in 0..GatePeriod BY DEF MaxAge
<1>2. hintAge \in 0..HintGap /\ idrAge \in 0..IdrMin OBVIOUS
<1>3. LoopTypeOK BY <1>1, <1>2 DEF LoopTypeOK
<1>4. AgeSinceGate BY DEF AgeSinceGate
<1> QED BY <1>3, <1>4 DEF LoopInv

LEMMA OlderBound ==
  ASSUME NEW max \in Nat, NEW a \in 0..max
  PROVE  Older(a, max) \in 0..max /\ Older(a, max) <= a + 1
BY DEF Older

LEMMA TickInv == ASSUME LoopInv, Tick PROVE LoopInv'
<1> USE DEF LoopInv
<1>1. MaxAge \in Nat BY DEF MaxAge
<1>2. age' \in 0..MaxAge /\ age' <= age + 1
  BY <1>1, OlderBound DEF LoopTypeOK, Tick
<1>3. hintAge' \in 0..HintGap /\ idrAge' \in 0..IdrMin
  BY OlderBound DEF LoopTypeOK, Tick
<1>4. gateIn' = gateIn - 1 /\ gateIn' \in 0..GatePeriod
  BY DEF LoopTypeOK, Tick
<1>5. UNCHANGED <<intact, everDecoded, key, gate, pushed, lost, hint, asked, report>>
  BY DEF Tick, pictureVars
<1>6. LoopTypeOK'
  <2>1. age' \in (0..MaxAge)' BY <1>2 DEF MaxAge
  <2>2. /\ intact' \in BOOLEAN /\ everDecoded' \in BOOLEAN /\ key' \in BOOLEAN
        /\ pushed' \in BOOLEAN /\ lost' \in BOOLEAN
        /\ hint' \in BOOLEAN /\ asked' \in BOOLEAN /\ report' \in BOOLEAN
    BY <1>5 DEF LoopTypeOK
  <2>3. gate' \in {"HEALTHY", "DEGRADED", "LOST"} BY <1>5 DEF LoopTypeOK
  <2> QED BY ONLY <1>3, <1>4, <2>1, <2>2, <2>3 DEF LoopTypeOK
<1>7. AgeSinceGate'
  <2>1. age \in Nat /\ gateIn \in Nat /\ age' \in Nat BY <1>1, <1>2 DEF LoopTypeOK
  <2>2. age' <= age + 1 /\ gateIn' = gateIn - 1 /\ gate' = gate BY <1>2, <1>4, <1>5
  <2> QED BY ONLY TimesAssumption, AgeSinceGate, <2>1, <2>2 DEF AgeSinceGate
<1> QED BY <1>6, <1>7

\* The stream makes the picture younger, and leaves the gate alone.
LEMMA StreamInv ==
  ASSUME LoopInv, Frame \/ KeyFrame \/ FrameLost
  PROVE  LoopInv'
<1> USE DEF LoopInv
<1>1. age' = 0 \/ age' = age
  BY DEF Frame, KeyFrame, FrameLost, Decoded
<1>2. UNCHANGED <<gate, gateIn, hintAge, hint, asked, report, idrAge>>
  BY DEF Frame, KeyFrame, FrameLost, Decoded, askVars
<1>3. everDecoded' \in BOOLEAN /\ intact' \in BOOLEAN /\ key' \in BOOLEAN
  BY DEF LoopTypeOK, Frame, KeyFrame, FrameLost, Decoded
<1>4. pushed' \in BOOLEAN /\ lost' \in BOOLEAN
  BY DEF LoopTypeOK, Frame, KeyFrame, FrameLost, Decoded
<1>5. LoopTypeOK' BY <1>1, <1>2, <1>3, <1>4 DEF LoopTypeOK, MaxAge
<1>6. AgeSinceGate' BY <1>1, <1>2 DEF AgeSinceGate, LoopTypeOK
<1> QED BY <1>5, <1>6

LEMMA GateTickInv == ASSUME LoopInv, GateTick PROVE LoopInv'
<1> USE DEF LoopInv
<1>1. PICK loss \in Losses, seiOld \in BOOLEAN : gate' = Verdict(loss, seiOld)
  BY DEF GateTick
<1>2. /\ gateIn' = GatePeriod /\ pushed' = FALSE /\ lost' = FALSE
      /\ UNCHANGED <<intact, everDecoded, key, age, asked, report, idrAge>>
  BY DEF GateTick, pictureVars
<1>3. gate' \in {"HEALTHY", "DEGRADED", "LOST"} BY <1>1 DEF Verdict
<1>4. (hint' = TRUE /\ hintAge' = 0) \/ UNCHANGED <<hint, hintAge>>
  BY DEF GateTick, SendHint
<1>4a. hint' \in BOOLEAN BY <1>4 DEF LoopTypeOK
<1>4b. hintAge' \in 0..HintGap BY <1>4 DEF LoopTypeOK
<1>5. LoopTypeOK'
  <2>1. age' \in 0..MaxAge /\ idrAge' \in 0..IdrMin BY <1>2 DEF LoopTypeOK
  <2>2. gateIn' \in 0..GatePeriod BY <1>2
  <2>3. /\ intact' \in BOOLEAN /\ everDecoded' \in BOOLEAN /\ key' \in BOOLEAN
        /\ pushed' \in BOOLEAN /\ lost' \in BOOLEAN /\ asked' \in BOOLEAN /\ report' \in BOOLEAN
    BY <1>2 DEF LoopTypeOK
  <2> QED BY ONLY <1>3, <1>4a, <1>4b, <2>1, <2>2, <2>3 DEF LoopTypeOK, MaxAge
<1>6. age > Hold => gate' = "LOST" BY <1>1 DEF Verdict
<1>7. AgeSinceGate'
  <2>1. age \in Nat BY DEF LoopTypeOK, MaxAge
  <2> QED BY ONLY TimesAssumption, <1>2, <1>6, <2>1 DEF AgeSinceGate
<1> QED BY <1>5, <1>7

\* A request on its way touches neither the gate nor the age of the picture.
LEMMA RequestInv ==
  ASSUME LoopInv,
         \/ HintLost \/ HintHeard \/ Report \/ ReportLost \/ ReportTaken
  PROVE  LoopInv'
<1> USE DEF LoopInv
<1>1. UNCHANGED <<intact, everDecoded, age, gate, gateIn, pushed, lost, hintAge>>
  BY DEF HintLost, HintHeard, Report, ReportLost, ReportTaken,
         pictureVars, gateVars
<1>2. hint' \in BOOLEAN /\ asked' \in BOOLEAN /\ report' \in BOOLEAN
  BY DEF HintLost, HintHeard, Report, ReportLost, ReportTaken, LoopTypeOK
<1>3. key' \in BOOLEAN
  BY DEF HintLost, HintHeard, Report, ReportLost, ReportTaken,
         LoopTypeOK, pictureVars
<1>4. idrAge' \in 0..IdrMin
  BY DEF HintLost, HintHeard, Report, ReportLost, ReportTaken, LoopTypeOK
<1>5. LoopTypeOK' BY <1>1, <1>2, <1>3, <1>4 DEF LoopTypeOK, MaxAge
<1>6. AgeSinceGate' BY <1>1 DEF AgeSinceGate
<1> QED BY <1>5, <1>6

THEOREM LoopInvariance == LoopSpec => []LoopInv
<1>1. ASSUME LoopInv, UNCHANGED loopVars PROVE LoopInv'
  BY <1>1 DEF LoopInv, LoopTypeOK, MaxAge, AgeSinceGate, loopVars, pictureVars,
              gateVars, askVars
<1>2. LoopInv /\ [LoopNext]_(loopVars) => LoopInv'
  BY <1>1, TickInv, StreamInv, GateTickInv, RequestInv DEF LoopNext
<1> QED BY <1>2, InitLoopInv, PTL DEF LoopSpec

\* The state of the key frame loop keeps its type.
THEOREM LoopTypeCorrect == LoopSpec => []LoopTypeOK
<1>1. LoopInv => LoopTypeOK BY DEF LoopInv
<1> QED BY <1>1, LoopInvariance, PTL

\* Whatever the timers, a picture that stands still, or never came, is called LOST
\* one period of the gate after it is too old.
THEOREM FreezeNoticedThm == LoopSpec => []FreezeNoticed
<1>1. LoopInv => FreezeNoticed
  BY DEF LoopInv, AgeSinceGate, LoopTypeOK, FreezeNoticed
<1> QED BY <1>1, LoopInvariance, PTL
=============================================================================
