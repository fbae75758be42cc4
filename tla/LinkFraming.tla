---------------------------- MODULE LinkFraming ----------------------------
(***************************************************************************)
(* One direction of the control link, down to its bytes (link_proto.py).   *)
(* A message is a length of four bytes and a payload of JSON. Several      *)
(* threads of a supervisor send on the same socket without a lock, and     *)
(* sendall gives up when the peer does not take its bytes in time: the     *)
(* pieces of messages can be mixed, and a message can remain unfinished.   *)
(* The receiver waits for each piece with a time-out, and what it has read *)
(* of a message when the time-out comes is gone: the next call takes the   *)
(* rest of the message for a length.                                       *)
(*                                                                         *)
(* TCP loses and reorders nothing; bytes are sent and received one at a    *)
(* time, which stands for every way to cut them. wire keeps the bytes that *)
(* were read, so that a message is a stretch of it.                        *)
(***************************************************************************)
EXTENDS Integers, Sequences

CONSTANTS
  Senders,      \* the threads that send on the socket
  PayloadLen,   \* bytes of a payload, the same for every message
  MaxLength,    \* a length above this is refused (10 MiB)
  MaxMsgs       \* bound: messages begun

HeaderLen == 4
Char == 34      \* bytes of JSON text are at least a space; this one is a quote

ASSUME PayloadAssumption == PayloadLen \in 1..255
ASSUME LengthAssumption == MaxLength \in PayloadLen..(Char * 2^24 - 1)
ASSUME MsgsAssumption == MaxMsgs \in Nat

MsgLen == HeaderLen + PayloadLen
Bytes == [m : 1..MaxMsgs, i : 1..MsgLen]

Idle == [m |-> 0, i |-> 0]
None == -1
Sides == {"toTX", "toRX"}

VARIABLES
  side,      \* which supervisor receives
  closed,    \* the sender has closed the socket
  wire,      \* every byte that was put into the socket
  started,   \* messages begun
  writing,   \* per thread: the byte it sends next, or Idle
  at,        \* bytes consumed when recv_msg was called
  pos,       \* bytes consumed
  need,      \* length of the payload, None while the header is read
  heard,     \* the last message recv_msg returned
  calm       \* history: messages begun before the link was last idle, None
             \* once a message was mixed, left unfinished or cut by a time-out

sendVars == <<side, closed, wire, started, writing>>
recvVars == <<at, pos, need, heard>>
vars == <<sendVars, recvVars, calm>>

TypeOK ==
  /\ side \in Sides
  /\ closed \in BOOLEAN
  /\ wire \in Seq(Bytes)
  /\ started \in 0..MaxMsgs
  /\ writing \in [Senders -> Bytes \cup {Idle}]
  /\ at \in Nat /\ pos \in Nat /\ at <= pos /\ pos <= Len(wire)
  /\ need \in Nat \cup {None}
  /\ heard \in Nat
  /\ calm \in 0..MaxMsgs \cup {None}

Init ==
  /\ side \in Sides /\ closed = FALSE
  /\ wire = <<>> /\ started = 0
  /\ writing = [s \in Senders |-> Idle]
  /\ at = 0 /\ pos = 0 /\ need = None /\ heard = 0
  /\ calm = 0

-----------------------------------------------------------------------------
(* Sending                                                                  *)

NobodyWrites == \A s \in Senders : writing[s] = Idle

Put(s, b) ==
  /\ wire' = Append(wire, b)
  /\ writing' = [writing EXCEPT ![s] = IF b.i = MsgLen THEN Idle
                                       ELSE [m |-> b.m, i |-> b.i + 1]]

\* send_msg: the first byte of a message. Nothing keeps another thread from
\* being in the middle of one.
Begin(s) ==
  /\ ~closed /\ writing[s] = Idle /\ started < MaxMsgs
  /\ started' = started + 1
  /\ Put(s, [m |-> started + 1, i |-> 1])
  /\ calm' = IF NobodyWrites THEN calm ELSE None
  /\ UNCHANGED <<side, closed, recvVars>>

\* sendall goes on.
Continue(s) ==
  /\ ~closed /\ writing[s] # Idle
  /\ Put(s, writing[s])
  /\ UNCHANGED <<side, closed, started, recvVars, calm>>

\* sendall raises in the middle. The ground station closes the link (_send,
\* _on_link_lost); the board logs it and goes on (_safe_send).
GiveUp(s) ==
  /\ writing[s] # Idle
  /\ writing' = [writing EXCEPT ![s] = Idle]
  /\ closed' = (closed \/ side = "toTX")
  /\ calm' = None
  /\ UNCHANGED <<side, wire, started, recvVars>>

-----------------------------------------------------------------------------
(* Receiving                                                                *)

\* A byte's value: the length is sent with its highest byte first.
Value(b) == IF b.i < HeaderLen THEN 0 ELSE IF b.i = HeaderLen THEN PayloadLen ELSE Char

\* Mutant: the bytes of a header are taken in the wrong order.
LengthLittleEndian(p) == Value(wire[p + 3]) * 2^24 + Value(wire[p + 2]) * 2^16
                           + Value(wire[p + 1]) * 2^8 + Value(wire[p])

\* The length that the four bytes from p on are taken for.
Length(p) == Value(wire[p]) * 2^24 + Value(wire[p + 1]) * 2^16
               + Value(wire[p + 2]) * 2^8 + Value(wire[p + 3])

\* Only the JSON of one message, as it was sent, can be decoded: a piece of
\* another message in it brings bytes of a header or cuts a text.
IsMessage(p, q) ==
  /\ q - p = MsgLen
  /\ wire[p + 1].i = 1
  /\ \A i \in 1..MsgLen : wire[p + i] = [m |-> wire[p + 1].m, i |-> i]

\* recv_msg returns, with or without a message; the next call starts here.
Returns == at' = pos + 1 /\ need' = None

\* Mutant: any payload of the right length counts as a message, also one that
\* nobody sent.
TakeAnyText ==
  /\ pos < Len(wire) /\ pos' = pos + 1
  /\ IF need = None
       THEN IF pos + 1 - at < HeaderLen THEN UNCHANGED <<at, need, heard>>
            ELSE IF Length(at + 1) \in 1..MaxLength
              THEN need' = Length(at + 1) /\ UNCHANGED <<at, heard>>
              ELSE Returns /\ UNCHANGED heard
       ELSE IF pos + 1 - at < HeaderLen + need THEN UNCHANGED <<at, need, heard>>
            ELSE /\ Returns
                 /\ heard' = IF IsMessage(at, pos + 1) THEN wire[at + 1].m ELSE MaxMsgs + 1
  /\ UNCHANGED <<sendVars, calm>>

\* One more byte. A complete header gives the length, or is refused; an empty
\* payload is no JSON. A complete payload gives the message, or nothing.
Take ==
  /\ pos < Len(wire) /\ pos' = pos + 1
  /\ IF need = None
       THEN IF pos + 1 - at < HeaderLen THEN UNCHANGED <<at, need, heard>>
            ELSE IF Length(at + 1) \in 1..MaxLength
              THEN need' = Length(at + 1) /\ UNCHANGED <<at, heard>>
              ELSE Returns /\ UNCHANGED heard
       ELSE IF pos + 1 - at < HeaderLen + need THEN UNCHANGED <<at, need, heard>>
            ELSE /\ Returns
                 /\ heard' = IF IsMessage(at, pos + 1) THEN wire[at + 1].m ELSE heard
  /\ UNCHANGED <<sendVars, calm>>

\* recv times out: what was read of this message is gone. When nothing was, and
\* nobody is in the middle of a message, both sides are in step again.
TimeOut ==
  /\ pos = Len(wire)
  /\ at' = pos /\ need' = None
  /\ calm' = IF NobodyWrites THEN started ELSE IF pos > at THEN None ELSE calm
  /\ UNCHANGED <<sendVars, pos, heard>>

-----------------------------------------------------------------------------
Next == \/ \E s \in Senders : Begin(s) \/ Continue(s) \/ GiveUp(s)
        \/ Take \/ TimeOut

Spec == Init /\ [][Next]_vars

(* The receiver reads what is there, and sendall goes on or raises. Nobody  *)
(* has to send, and the receiver has to time out only when it is idle in    *)
(* the middle of something that will not go on.                             *)
Fairness == /\ WF_vars(Take)
            /\ \A s \in Senders : WF_vars(Continue(s) \/ GiveUp(s))

FairSpec == Spec /\ Fairness

-----------------------------------------------------------------------------
(* Properties                                                               *)

\* However the pieces of messages are mixed and lost, recv_msg returns messages
\* that were sent, whole, in order and once (link_proto.py:90-110).
Channel == INSTANCE LossyChannel
ImplementsChannel == Channel!Spec

\* A receiver that has fallen out of step is in step again after one quiet
\* time-out: every message begun since is heard, until the next is mixed, left
\* unfinished or cut. In between it is deaf, but not for ever.
Begun(m) == calm # None /\ calm < m /\ m <= started
HeardAfterQuiet == \A m \in 1..MaxMsgs : Begun(m) ~> (heard >= m \/ ~Begun(m))
=============================================================================
