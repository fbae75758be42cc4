------------------------- MODULE LinkFraming_proofs -------------------------
(***************************************************************************)
(* For any number of sending threads and messages, and any one length from *)
(* 1 to 255 that all payloads have, the framing gives its receiver a       *)
(* LossyChannel.                                                           *)
(***************************************************************************)
EXTENDS LinkFraming, SequenceTheorems, TLAPS

\* What the bytes of the wire promise: a message's first byte is put on it when
\* the message is begun, so first bytes appear in the order of the messages.
FirstAt(p) == wire[p].i = 1
FirstsInOrder ==
  \A p, q \in 1..Len(wire) : p < q /\ FirstAt(p) /\ FirstAt(q) => wire[p].m < wire[q].m
WireBegun == \A p \in 1..Len(wire) : wire[p].m <= started
WritingBegun == \A s \in Senders : writing[s] # Idle => writing[s].m <= started /\ writing[s].i > 1

\* Every message that begins after the place where recv_msg stands is newer
\* than what it returned last.
AheadIsNewer ==
  /\ heard <= started
  /\ \A q \in 1..Len(wire) : q > at /\ FirstAt(q) => heard < wire[q].m

IInv == TypeOK /\ FirstsInOrder /\ WireBegun /\ WritingBegun /\ AheadIsNewer

-----------------------------------------------------------------------------
LEMMA MsgLenType == MsgLen \in Nat /\ MsgLen >= 5
BY PayloadAssumption DEF MsgLen, HeaderLen

LEMMA WireType ==
  ASSUME TypeOK
  PROVE  \A p \in 1..Len(wire) : wire[p].m \in 1..MaxMsgs
<1> SUFFICES ASSUME NEW p \in 1..Len(wire) PROVE wire[p].m \in 1..MaxMsgs
  OBVIOUS
<1>1. wire[p] \in Bytes BY ElementOfSeq DEF TypeOK
<1> QED BY <1>1 DEF Bytes

LEMMA InitInv == Init => IInv
<1> SUFFICES ASSUME Init PROVE IInv OBVIOUS
<1> USE MsgsAssumption DEF Init
<1>1. wire \in Seq(Bytes) /\ Len(wire) = 0
  <2>1. wire = <<>> OBVIOUS
  <2>2. <<>> \in Seq(Bytes) /\ Len(<<>>) = 0 BY ONLY EmptySeq
  <2> QED BY ONLY <2>1, <2>2
<1>2. TypeOK
  <2>1. writing \in [Senders -> Bytes \cup {Idle}] OBVIOUS
  <2>2. side \in Sides /\ closed \in BOOLEAN OBVIOUS
  <2>3. started \in 0..MaxMsgs /\ heard \in 0..MaxMsgs /\ calm \in 0..MaxMsgs \cup {None}
    OBVIOUS
  <2>4. at \in Nat /\ pos \in Nat /\ at <= pos /\ pos <= Len(wire) BY <1>1
  <2> QED BY <1>1, <2>1, <2>2, <2>3, <2>4 DEF TypeOK
<1>3. WritingBegun BY DEF WritingBegun
<1>4. FirstsInOrder /\ WireBegun /\ AheadIsNewer BY <1>1 DEF FirstsInOrder, WireBegun, AheadIsNewer
<1> QED BY <1>2, <1>3, <1>4 DEF IInv

\* Putting a byte leaves the bytes before it where they are.
LEMMA PutWire ==
  ASSUME TypeOK, NEW b \in Bytes, wire' = Append(wire, b)
  PROVE  /\ wire' \in Seq(Bytes)
         /\ Len(wire') = Len(wire) + 1 /\ Len(wire) \in Nat
         /\ wire'[Len(wire) + 1] = b
         /\ \A p \in 1..Len(wire) : wire'[p] = wire[p]
BY AppendProperties DEF TypeOK

LEMMA PutWriting ==
  ASSUME TypeOK, WritingBegun, NEW s \in Senders, NEW b \in Bytes, Put(s, b)
  PROVE  /\ writing' \in [Senders -> Bytes \cup {Idle}]
         /\ \A t \in Senders \ {s} : writing'[t] = writing[t]
         /\ writing'[s] = IF b.i = MsgLen THEN Idle ELSE [m |-> b.m, i |-> b.i + 1]
<1>1. b.m \in 1..MaxMsgs /\ b.i \in 1..MsgLen BY DEF Bytes
<1>2. b.i # MsgLen => b.i + 1 \in 1..MsgLen BY <1>1, MsgLenType
<1>3. b.i # MsgLen => [m |-> b.m, i |-> b.i + 1] \in Bytes BY <1>1, <1>2 DEF Bytes
<1>4. writing \in [Senders -> Bytes \cup {Idle}] BY DEF TypeOK
<1> QED BY <1>3, <1>4 DEF Put

\* The messages on the wire stay in order when the byte of a message begun is
\* put there, a first byte only of the newest message.
LEMMA PutInv ==
  ASSUME IInv, NEW s \in Senders, NEW b \in Bytes, Put(s, b), UNCHANGED recvVars,
         started' \in Nat, started <= started', b.m <= started',
         b.i = 1 => b.m > started
  PROVE  FirstsInOrder' /\ WireBegun' /\ WritingBegun' /\ AheadIsNewer'
<1> USE DEF IInv
<1>1. b.m \in Nat /\ b.i \in 1..MsgLen /\ started \in Nat /\ heard \in Nat /\ at \in Nat
  BY MsgsAssumption DEF Bytes, TypeOK
<1>2. /\ Len(wire') = Len(wire) + 1 /\ Len(wire) \in Nat
      /\ wire'[Len(wire) + 1] = b
      /\ \A p \in 1..Len(wire) : wire'[p] = wire[p]
  BY PutWire DEF Put
<1>3. \A p \in 1..Len(wire) : wire[p].m \in Nat /\ wire[p].m <= started
  BY WireType, MsgsAssumption DEF WireBegun
<1>4. WireBegun' BY <1>1, <1>2, <1>3 DEF WireBegun
<1>5. FirstsInOrder'
  <2> SUFFICES ASSUME NEW p \in 1..Len(wire'), NEW q \in 1..Len(wire'),
                      p < q, FirstAt(p)', FirstAt(q)'
               PROVE  wire'[p].m < wire'[q].m
    BY DEF FirstsInOrder
  <2>1. p \in 1..Len(wire) /\ wire'[p] = wire[p] BY <1>2
  <2>2. CASE q \in 1..Len(wire)
    <3>1. wire'[q] = wire[q] BY <1>2, <2>2
    <3> QED BY <2>1, <2>2, <3>1 DEF FirstsInOrder, FirstAt
  <2>3. CASE q = Len(wire) + 1
    <3>1. b.m > started BY <1>2, <2>3 DEF FirstAt
    <3> QED BY <1>1, <1>2, <1>3, <2>1, <2>3, <3>1
  <2> QED BY <1>2, <2>2, <2>3
<1>6. AheadIsNewer' BY SMTT(40), <1>1, <1>2, <1>3 DEF AheadIsNewer, FirstAt, recvVars
<1>7. WritingBegun'
  <2> SUFFICES ASSUME NEW t \in Senders, writing'[t] # Idle
               PROVE  writing'[t].m <= started' /\ writing'[t].i > 1
    BY DEF WritingBegun
  <2>1. CASE t = s
    <3>1. writing'[t] = [m |-> b.m, i |-> b.i + 1] BY <2>1, PutWriting
    <3> QED BY <3>1, <1>1, MsgLenType
  <2>2. CASE t # s
    <3>1. writing'[t] = writing[t] BY <2>2, PutWriting
    <3>2. writing[t].m <= started /\ writing[t].i > 1 BY <3>1 DEF WritingBegun
    <3>3. writing[t] \in Bytes BY <3>1 DEF TypeOK
    <3> QED BY <1>1, <3>1, <3>2, <3>3 DEF Bytes
  <2> QED BY <2>1, <2>2
<1> QED BY <1>4, <1>5, <1>6, <1>7

-----------------------------------------------------------------------------
LEMMA BeginInv == ASSUME IInv, NEW s \in Senders, Begin(s) PROVE IInv'
<1> DEFINE b == [m |-> started + 1, i |-> 1]
<1>1. started \in Nat /\ started + 1 \in 1..MaxMsgs /\ started' = started + 1
  BY MsgsAssumption DEF IInv, TypeOK, Begin
<1>2. b \in Bytes BY <1>1, MsgLenType DEF Bytes
<1>3. Put(s, b) BY DEF Begin
<1>4. FirstsInOrder' /\ WireBegun' /\ WritingBegun' /\ AheadIsNewer'
  BY <1>1, <1>2, <1>3, PutInv DEF Begin
<1>5. TypeOK'
  <2>1. wire' \in Seq(Bytes) /\ Len(wire') = Len(wire) + 1 /\ Len(wire) \in Nat
    BY <1>2, <1>3, PutWire DEF IInv, Put
  <2>2. writing' \in [Senders -> Bytes \cup {Idle}] BY <1>2, <1>3, PutWriting DEF IInv
  <2>3. calm' \in 0..MaxMsgs \cup {None} BY DEF IInv, TypeOK, Begin
  <2>4. started' \in 0..MaxMsgs BY <1>1
  <2>5. pos' <= Len(wire') /\ at' <= pos' BY <2>1 DEF IInv, TypeOK, Begin, recvVars
  <2> QED BY <2>1, <2>2, <2>3, <2>4, <2>5 DEF IInv, TypeOK, Begin, recvVars
<1> QED BY <1>4, <1>5 DEF IInv

LEMMA ContinueInv == ASSUME IInv, NEW s \in Senders, Continue(s) PROVE IInv'
<1> DEFINE b == writing[s]
<1>1. b \in Bytes /\ b.m <= started /\ b.i > 1 BY DEF IInv, TypeOK, WritingBegun, Continue
<1>2. started \in Nat /\ started' = started BY MsgsAssumption DEF IInv, TypeOK, Continue
<1>3. Put(s, b) BY DEF Continue
<1>4. FirstsInOrder' /\ WireBegun' /\ WritingBegun' /\ AheadIsNewer'
  <2>1. b.i # 1 BY <1>1 DEF Bytes
  <2> HIDE DEF b
  <2> QED BY <1>1, <1>2, <1>3, <2>1, PutInv DEF Continue
<1>5. TypeOK'
  <2>1. wire' \in Seq(Bytes) /\ Len(wire') = Len(wire) + 1 /\ Len(wire) \in Nat
    BY <1>1, <1>3, PutWire DEF IInv, Put
  <2>2. writing' \in [Senders -> Bytes \cup {Idle}] BY <1>1, <1>3, PutWriting DEF IInv
  <2>3. pos' <= Len(wire') /\ at' <= pos' BY <2>1 DEF IInv, TypeOK, Continue, recvVars
  <2> QED BY <2>1, <2>2, <2>3 DEF IInv, TypeOK, Continue, recvVars
<1> QED BY <1>4, <1>5 DEF IInv

LEMMA GiveUpInv == ASSUME IInv, NEW s \in Senders, GiveUp(s) PROVE IInv'
<1>1. \A t \in Senders : writing'[t] = writing[t] \/ writing'[t] = Idle
  BY DEF IInv, TypeOK, GiveUp
<1>2. WritingBegun' BY <1>1 DEF IInv, WritingBegun, GiveUp
<1>3. TypeOK' BY DEF IInv, TypeOK, GiveUp, recvVars
<1>4. FirstsInOrder' /\ WireBegun' /\ AheadIsNewer'
  BY DEF IInv, FirstsInOrder, WireBegun, AheadIsNewer, FirstAt, GiveUp, recvVars
<1> QED BY <1>2, <1>3, <1>4 DEF IInv

\* A message that is returned begins where recv_msg stood: it is newer than the
\* last, and older than all that begin behind it.
LEMMA TakeInv == ASSUME IInv, Take PROVE IInv' /\ (heard' # heard => heard' \in (heard + 1)..started)
<1>1. /\ at \in Nat /\ pos \in Nat /\ at <= pos /\ pos < Len(wire) /\ Len(wire) \in Nat
      /\ pos' = pos + 1 /\ heard \in Nat /\ started \in 0..MaxMsgs
      /\ UNCHANGED <<side, closed, wire, started, writing, calm>>
  BY DEF IInv, TypeOK, Take, sendVars
<1>2. /\ at' = at \/ at' = pos + 1
      /\ need' \in Nat \cup {None}
  BY <1>1 DEF IInv, TypeOK, Take, Returns
<1>3. \A p \in 1..Len(wire) : wire[p].m \in 1..MaxMsgs /\ wire[p].m <= started
  BY WireType DEF IInv, WireBegun
<1>4. CASE heard' = heard
  <2>1. AheadIsNewer' BY <1>1, <1>2, <1>4 DEF IInv, AheadIsNewer, FirstAt
  <2>2. TypeOK' BY <1>1, <1>2, <1>4 DEF IInv, TypeOK
  <2> QED BY <1>1, <1>4, <2>1, <2>2 DEF IInv, FirstsInOrder, WireBegun, WritingBegun, FirstAt
<1>5. CASE heard' # heard
  <2>1. at' = pos + 1 /\ IsMessage(at, pos + 1) /\ heard' = wire[at + 1].m
    BY <1>5 DEF Take, Returns
  <2>2. at + 1 \in 1..Len(wire) /\ FirstAt(at + 1) /\ pos + 1 > at
    BY <1>1, <2>1 DEF IsMessage, FirstAt
  <2>3. heard' \in (heard + 1)..started
    BY <1>1, <1>3, <2>1, <2>2 DEF IInv, AheadIsNewer
  <2>4. \A q \in 1..Len(wire) : q > pos + 1 /\ FirstAt(q) => heard' < wire[q].m
    BY <1>1, <2>1, <2>2 DEF IInv, FirstsInOrder
  <2>5. AheadIsNewer' BY <1>1, <1>3, <2>1, <2>3, <2>4 DEF AheadIsNewer, FirstAt
  <2>6. TypeOK' BY <1>1, <1>2, <1>3, <2>1, <2>2 DEF IInv, TypeOK
  <2> QED BY <1>1, <2>3, <2>5, <2>6 DEF IInv, FirstsInOrder, WireBegun, WritingBegun, FirstAt
<1> QED BY <1>4, <1>5

LEMMA TimeOutInv == ASSUME IInv, TimeOut PROVE IInv' /\ heard' = heard
<1>1. /\ at \in Nat /\ pos \in Nat /\ at <= pos /\ at' = pos /\ pos' = pos /\ need' = None
      /\ UNCHANGED <<side, closed, wire, started, writing, heard>>
  BY DEF IInv, TypeOK, TimeOut, sendVars
<1>2. calm' \in 0..MaxMsgs \cup {None} BY DEF IInv, TypeOK, TimeOut
<1>3. TypeOK' BY <1>1, <1>2 DEF IInv, TypeOK
<1>4. AheadIsNewer' BY <1>1 DEF IInv, AheadIsNewer, FirstAt
<1> QED BY <1>1, <1>3, <1>4 DEF IInv, FirstsInOrder, WireBegun, WritingBegun, FirstAt

LEMMA NextInv == ASSUME IInv, [Next]_vars PROVE IInv'
<1>1. CASE UNCHANGED vars
  BY <1>1 DEF vars, sendVars, recvVars, IInv, TypeOK, FirstsInOrder, WireBegun, WritingBegun,
              AheadIsNewer, FirstAt
<1> QED BY <1>1, BeginInv, ContinueInv, GiveUpInv, TakeInv, TimeOutInv DEF Next

\* The receiver stands at a byte of the wire, and what it returned was begun.
THEOREM TypeCorrect == Spec => []TypeOK
<1>1. IInv => TypeOK BY DEF IInv
<1> QED BY <1>1, InitInv, NextInv, PTL DEF Spec

\* Whatever mix and loss of pieces the senders make of the bytes, recv_msg returns
\* messages that were begun, each whole, in order and once: with payloads of one
\* length, from 1 to 255 bytes, for all messages.
THEOREM FramingImplementsChannel == Spec => ImplementsChannel
<1>1. Init => Channel!Init BY DEF Init, Channel!Init
<1>2. ASSUME IInv, [Next]_vars PROVE [Channel!Next]_Channel!vars
  <2> USE DEF Channel!Next, Channel!vars
  <2>1. CASE UNCHANGED vars BY <2>1 DEF vars, sendVars, recvVars
  <2>2. ASSUME NEW s \in Senders, Begin(s) PROVE Channel!Begin
    BY <2>2 DEF Begin, recvVars, Channel!Begin
  <2>3. ASSUME NEW s \in Senders, Continue(s) \/ GiveUp(s) PROVE UNCHANGED Channel!vars
    BY <2>3 DEF Continue, GiveUp, recvVars
  <2>4. CASE Take
    <3>1. UNCHANGED started BY <2>4 DEF Take, sendVars
    <3> QED BY <1>2, <2>4, <3>1, TakeInv DEF Channel!Hear
  <2>5. CASE TimeOut BY <2>5 DEF TimeOut, sendVars
  <2> QED BY <1>2, <2>1, <2>2, <2>3, <2>4, <2>5 DEF Next
<1>3. Spec => []IInv BY InitInv, NextInv, PTL DEF Spec
<1> QED BY <1>1, <1>2, <1>3, PTL DEF Spec, ImplementsChannel, Channel!Spec

-----------------------------------------------------------------------------
(* What the supervisors may rely on                                         *)

LEMMA ChannelNumbers ==
  Channel!Spec => [](started \in Nat /\ heard \in Nat /\ heard <= started)
<1> DEFINE Numbers == started \in Nat /\ heard \in Nat /\ heard <= started
<1>1. Channel!Init => Numbers BY DEF Channel!Init
<1>2. Numbers /\ [Channel!Next]_Channel!vars => Numbers'
  BY DEF Channel!Next, Channel!Begin, Channel!Hear, Channel!vars
<1> QED BY <1>1, <1>2, PTL DEF Channel!Spec

\* A command is never heard a second time, nor after a later one: of two messages
\* that recv_msg returns, the second was begun after the first. The supervisors
\* take every message for a new one and look at no number in it.
THEOREM NothingHeardTwice == Spec => [][heard' > heard]_heard
<1>1. started \in Nat /\ heard \in Nat /\ [Channel!Next]_Channel!vars => [heard' > heard]_heard
  BY DEF Channel!Next, Channel!Begin, Channel!Hear, Channel!vars
<1>2. Channel!Spec => [][heard' > heard]_heard
  BY <1>1, ChannelNumbers, PTL DEF Channel!Spec
<1> QED BY <1>2, FramingImplementsChannel, PTL DEF ImplementsChannel
=============================================================================
