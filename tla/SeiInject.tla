------------------------------ MODULE SeiInject ------------------------------
(***************************************************************************)
(* How a detection's boxes get into the video and onto the viewer's        *)
(* screen: the inference thread sends box sets to the child without        *)
(* waiting (enc_send_boxset), the child's main loop stores the latest one  *)
(* (stream_enc_set_sei_payload), the pad probe of the streaming thread     *)
(* decides for every access unit whether to put it in (sei_inject_probe,   *)
(* TX/engine_enc_src/stream_enc.cpp), the network loses units, and the     *)
(* viewer keeps the last boxes it saw (on_sei_au, RX/uav_view.py).         *)
(*                                                                         *)
(* A box set is its frame_seq: it is part of the payload, so a new set     *)
(* always differs from the one before. Access units that carry nothing and *)
(* are no key frames change nothing and are left out with their loss.      *)
(***************************************************************************)
EXTENDS Integers, Sequences

CONSTANTS
  MaxDet,       \* bound: box sets sent in a behaviour
  SockBound     \* bound: box sets waiting in the socket

ASSUME DetAssumption == MaxDet \in Nat
ASSUME SockAssumption == SockBound \in Nat

NoBoxes == 0
Boxes == 1..MaxDet

VARIABLES
  det,          \* frame_seq of the last box set
  sock,         \* box sets in the socketpair, oldest first
  payload,      \* sei_payload, NoBoxes while sei_payload_len = 0
  epoch,        \* sei_epoch
  pc,           \* where the probe is: idle, read (epoch loaded), snap
  isKey,        \* the unit it works on is a key frame
  auEpoch,      \* epoch as loaded by the probe
  snapshot,     \* payload as copied by the probe
  probeEpoch,   \* sei_probe_epoch
  injected,     \* the boxes of the last unit that carried any
  mapFailed,    \* history: the last unit to get boxes could not be mapped
  shown         \* the boxes the viewer holds

sendVars == <<det, sock>>
payloadVars == <<payload, epoch>>
probeVars == <<pc, isKey, auEpoch, snapshot, probeEpoch>>
streamVars == <<injected, mapFailed, shown>>
vars == <<sendVars, payloadVars, probeVars, streamVars>>

TypeOK ==
  /\ det \in 0..MaxDet
  /\ sock \in Seq(Boxes) /\ Len(sock) <= SockBound
  /\ payload \in Boxes \cup {NoBoxes}
  /\ epoch \in Nat
  /\ pc \in {"idle", "read", "snap"}
  /\ isKey \in BOOLEAN
  /\ auEpoch \in Nat
  /\ snapshot \in Boxes \cup {NoBoxes}
  /\ probeEpoch \in Nat
  /\ injected \in Boxes \cup {NoBoxes}
  /\ mapFailed \in BOOLEAN
  /\ shown \in Boxes \cup {NoBoxes}

Init ==
  /\ det = 0 /\ sock = <<>>
  /\ payload = NoBoxes /\ epoch = 0
  /\ pc = "idle" /\ isKey = FALSE /\ auEpoch = 0 /\ snapshot = NoBoxes
  /\ probeEpoch = 0
  /\ injected = NoBoxes /\ mapFailed = FALSE /\ shown = NoBoxes

-----------------------------------------------------------------------------
\* A detection is complete. MSG_DONTWAIT: a full socket drops the box set.
SendBoxes ==
  /\ det < MaxDet /\ det' = det + 1
  /\ sock' = IF Len(sock) < SockBound THEN Append(sock, det + 1) ELSE sock
  /\ UNCHANGED <<payloadVars, probeVars, streamVars>>

\* The child's main loop reads a box set and, under sei_mtx, stores the payload
\* and bumps the epoch when it has changed.
SetPayload ==
  /\ sock # <<>>
  /\ sock' = Tail(sock)
  /\ payload' = Head(sock)
  /\ epoch' = IF Head(sock) # payload THEN epoch + 1 ELSE epoch
  /\ UNCHANGED <<det, probeVars, streamVars>>

-----------------------------------------------------------------------------
(* The probe, once per access unit                                          *)

\* Mutant: key frames are not treated specially.
ProbeReadChangesOnly(key) ==
  /\ pc = "idle" /\ epoch # probeEpoch
  /\ pc' = "read" /\ isKey' = key /\ auEpoch' = epoch
  /\ UNCHANGED <<sendVars, payloadVars, snapshot, probeEpoch, streamVars>>

\* The epoch is loaded without the lock. The unit needs boxes when it is a key
\* frame or they have changed; otherwise it passes as it is.
ProbeRead(key) ==
  /\ pc = "idle" /\ (key \/ epoch # probeEpoch)
  /\ pc' = "read" /\ isKey' = key /\ auEpoch' = epoch
  /\ UNCHANGED <<sendVars, payloadVars, snapshot, probeEpoch, streamVars>>

\* Under sei_mtx the payload is copied; without one the unit passes. Then
\* the epoch loaded before is committed.
ProbeCopy ==
  /\ pc = "read"
  /\ IF payload = NoBoxes
       THEN pc' = "idle" /\ UNCHANGED <<snapshot, probeEpoch>>
       ELSE pc' = "snap" /\ snapshot' = payload /\ probeEpoch' = auEpoch
  /\ UNCHANGED <<sendVars, payloadVars, isKey, auEpoch, streamVars>>

\* A unit that arrives is parsed by the viewer, which then holds its boxes.
Shows(boxes, arrives) == IF arrives THEN boxes ELSE shown

\* Mutant: the epoch is loaded again when the unit is built.
ProbeInjectLateEpoch(arrives) ==
  /\ pc = "snap" /\ pc' = "idle"
  /\ injected' = snapshot /\ mapFailed' = FALSE /\ shown' = Shows(snapshot, arrives)
  /\ probeEpoch' = epoch
  /\ UNCHANGED <<sendVars, payloadVars, isKey, auEpoch, snapshot>>

\* [SEI || unit] replaces the unit; it arrives at the viewer or is lost.
ProbeInject(arrives) ==
  /\ pc = "snap" /\ pc' = "idle"
  /\ injected' = snapshot /\ mapFailed' = FALSE /\ shown' = Shows(snapshot, arrives)
  /\ UNCHANGED <<sendVars, payloadVars, isKey, auEpoch, snapshot, probeEpoch>>

\* gst_buffer_map fails: the unit passes as it is, after the commit.
ProbeMapFails ==
  /\ pc = "snap" /\ pc' = "idle" /\ mapFailed' = TRUE
  /\ UNCHANGED <<sendVars, payloadVars, isKey, auEpoch, snapshot, probeEpoch, injected,
                 shown>>

\* The viewer is started anew.
ViewerRestart ==
  /\ shown' = NoBoxes
  /\ UNCHANGED <<sendVars, payloadVars, probeVars, injected, mapFailed>>

-----------------------------------------------------------------------------
Next == \/ SendBoxes \/ SetPayload
        \/ (\E key \in BOOLEAN : ProbeRead(key)) \/ ProbeCopy
        \/ (\E arrives \in BOOLEAN : ProbeInject(arrives)) \/ ProbeMapFails
        \/ ViewerRestart

Spec == Init /\ [][Next]_vars

(* The child reads its socket, the encoder goes on making units and the     *)
(* streaming thread works on every one of them. Nothing is assumed about    *)
(* key frames, losses, detections and restarts.                             *)
Fairness == /\ WF_vars(SetPayload) /\ WF_vars(ProbeCopy)
            /\ WF_vars(ProbeRead(FALSE))
            /\ WF_vars(\E arrives \in BOOLEAN : ProbeInject(arrives))

FairSpec == Spec /\ Fairness

-----------------------------------------------------------------------------
(* Properties                                                               *)

\* sei_probe_epoch is the "last epoch the probe injected" (stream_enc.cpp:59):
\* when the probe believes the payload is already in the stream, it is. Neither
\* a change between its lock-free load and its copy nor one after the copy is
\* taken for injected. The one exception is a unit that could not be mapped: its
\* epoch was committed before, so the boxes wait for the next key frame.
EpochIsInjected ==
  pc = "idle" /\ probeEpoch = epoch /\ payload # NoBoxes
    => injected = payload \/ mapFailed

\* The encoder makes key frames without being asked and not every one of them is
\* lost: a hypothesis, because the repository says both. "interval-intraframes alone
\* already yields periodic IDRs" (stream_enc.cpp:228-229, set to 10 frames at line
\* 206), but "the board stream has no periodic IDR ... a late joiner stays black
\* until the next (never) IDR" (uav_view.py:39-40, and so uav_rx.py:697-698, 846-847).
\* It is about what omxh265enc does, which the source does not settle.
KeyFramesRecur == WF_vars(ProbeRead(TRUE)) /\ SF_vars(isKey /\ ProbeInject(TRUE))

\* Boxes that stay get into the stream, unless their unit could not be mapped. And
\* where key frames recur, "a late RX joiner picks up the current boxes at the next
\* IDR" (stream_enc.cpp:129-130), as "the RX keeps drawing the last boxes (it holds
\* state across SEI-less AUs)" (stream_enc.cpp:133-134): whatever is lost on the way,
\* and whenever the viewer is restarted, they come to its screen. Where they do not,
\* lost boxes come back with a key frame that is asked for (KeyFrameLoop) or not
\* before they change.
BoxesConverge ==
  /\ \A b \in Boxes : payload = b ~> injected = b \/ mapFailed \/ payload # b
  /\ KeyFramesRecur => \A b \in Boxes : payload = b ~> shown = b \/ payload # b
=============================================================================
