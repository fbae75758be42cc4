---------------------------- MODULE KeyFrameLoop ----------------------------
(***************************************************************************)
(* The way back from a frozen picture, when it is switched on at both ends *)
(* (--freeze on, UAV_RX_REQIDR, YOLO_ONDEMAND_IDR). The viewer's ReconGate *)
(* looks five times a second at the age of the picture and the losses of   *)
(* the jitter buffer; while it says LOST the viewer sends a hint a second  *)
(* to the ground station's feedback sender, which sets REQ_IDR in its next *)
(* report; the encoder's feedback thread forces a key frame, not more often*)
(* than every IdrMin. Hints, reports and key frames can all be lost.       *)
(*                                                                         *)
(* Feedback shows which reports the thread takes; here a report is taken,  *)
(* or not. The feedback sender is not in the repository. Times are in      *)
(* units of Tick; ages stop counting when they make no difference.         *)
(***************************************************************************)
EXTENDS Integers

CONSTANTS
  GatePeriod,   \* gate_tick, 200 ms
  Hold,         \* GATE_HOLD_S, 0.5 s
  HintGap,      \* between two hints, 1 s
  IdrMin        \* YOLO_IDR_MIN_INTERVAL_MS, 1112 ms: longer than HintGap

ASSUME TimesAssumption ==
  /\ GatePeriod \in Nat \ {0} /\ Hold \in Nat /\ HintGap \in Nat /\ IdrMin \in Nat

MaxAge == Hold + GatePeriod + 1
Older(age, max) == IF age < max THEN age + 1 ELSE age

VARIABLES
  intact,     \* the decoder has what the next frame refers to
  everDecoded,
  age,        \* of the last decoded frame; before the first, of the viewer
  gate,       \* ReconGate.state
  gateIn,     \* until gate_tick
  pushed, lost, \* the jitter buffer let packets through, missed some, since gate_tick
  hintAge,    \* since the last hint, HintGap when it can be sent
  hint,       \* a hint is under way to the feedback sender
  asked,      \* it will set REQ_IDR in its next report
  report,     \* such a report is under way
  idrAge,     \* since last_idr_req_t, IdrMin when a request is honoured
  key         \* the encoder makes its next frame a key frame

pictureVars == <<intact, everDecoded, key>>
gateVars == <<gate, gateIn, pushed, lost>>
askVars == <<hintAge, hint, asked, report, idrAge>>
loopVars == <<pictureVars, age, gateVars, askVars>>

LoopTypeOK ==
  /\ intact \in BOOLEAN /\ everDecoded \in BOOLEAN /\ key \in BOOLEAN
  /\ age \in 0..MaxAge
  /\ gate \in {"HEALTHY", "DEGRADED", "LOST"} /\ gateIn \in 0..GatePeriod
  /\ pushed \in BOOLEAN /\ lost \in BOOLEAN
  /\ hintAge \in 0..HintGap /\ idrAge \in 0..IdrMin
  /\ hint \in BOOLEAN /\ asked \in BOOLEAN /\ report \in BOOLEAN

\* The viewer has just been started, in the middle of a stream or before it.
LoopInit ==
  /\ intact = FALSE /\ everDecoded = FALSE /\ key \in BOOLEAN
  /\ age = 0
  /\ gate = "HEALTHY" /\ gateIn = GatePeriod /\ pushed = FALSE /\ lost = FALSE
  /\ hintAge = HintGap /\ hint = FALSE /\ asked = FALSE /\ report = FALSE
  /\ idrAge \in {0, IdrMin}

Tick ==
  /\ gateIn > 0 /\ gateIn' = gateIn - 1
  /\ age' = Older(age, MaxAge)
  /\ hintAge' = Older(hintAge, HintGap) /\ idrAge' = Older(idrAge, IdrMin)
  /\ UNCHANGED <<pictureVars, gate, pushed, lost, hint, asked, report>>

-----------------------------------------------------------------------------
(* The stream                                                               *)

\* on_decoded_frame
Decoded == /\ everDecoded' = TRUE /\ age' = 0
           /\ UNCHANGED <<gate, gateIn, lost, askVars>>

\* A frame comes through. Without what it refers to it is not decoded, or,
\* after a first one, decoded into a damaged picture.
Frame ==
  /\ ~key /\ pushed' = TRUE /\ UNCHANGED <<intact, key>>
  /\ \/ /\ intact \/ everDecoded
        /\ Decoded
     \/ /\ ~intact
        /\ UNCHANGED <<everDecoded, age, gate, gateIn, lost, askVars>>

KeyFrame == key /\ key' = FALSE /\ intact' = TRUE /\ pushed' = TRUE /\ Decoded

\* Packets of a frame are missing when the jitter buffer has to let it go.
FrameLost ==
  /\ lost' = TRUE /\ intact' = FALSE /\ key' = FALSE
  /\ UNCHANGED <<everDecoded, age, gate, gateIn, pushed, askVars>>

-----------------------------------------------------------------------------
(* The viewer                                                               *)

\* The jitter buffer's losses in per cent, by the thresholds they are held
\* against. A time without any packet says nothing.
Losses == IF ~lost THEN {"few"} ELSE IF pushed THEN {"few", "many"} ELSE {"all"}

\* Mutant: losses have the last word.
VerdictDowngrades(loss, seiOld) ==
  IF loss = "all" THEN "LOST"
  ELSE IF loss = "many" THEN "DEGRADED"
  ELSE IF ~everDecoded \/ age > Hold THEN "LOST"
  ELSE IF seiOld THEN "DEGRADED"
  ELSE "HEALTHY"

\* ReconGate.update: the worst of the signals, seiOld among them.
Verdict(loss, seiOld) ==
  IF ~everDecoded \/ age > Hold \/ loss = "all" THEN "LOST"
  ELSE IF seiOld \/ loss = "many" THEN "DEGRADED"
  ELSE "HEALTHY"

\* send_reqidr_hint
SendHint == hint' = TRUE /\ hintAge' = 0

\* gate_tick: the hint is repeated for as long as the gate says LOST.
GateTick ==
  /\ gateIn = 0 /\ gateIn' = GatePeriod
  /\ \E loss \in Losses, seiOld \in BOOLEAN : gate' = Verdict(loss, seiOld)
  /\ pushed' = FALSE /\ lost' = FALSE
  /\ IF gate' = "LOST" /\ hintAge >= HintGap THEN SendHint
     ELSE UNCHANGED <<hint, hintAge>>
  /\ UNCHANGED <<pictureVars, age, asked, report, idrAge>>

-----------------------------------------------------------------------------
(* The request                                                              *)

HintLost == hint /\ hint' = FALSE /\ UNCHANGED <<pictureVars, age, gateVars, hintAge, asked, report, idrAge>>

\* The feedback sender hears the hint, and puts it into its next report.
HintHeard == /\ hint /\ hint' = FALSE /\ asked' = TRUE
             /\ UNCHANGED <<pictureVars, age, gateVars, hintAge, report, idrAge>>
Report == /\ asked /\ asked' = FALSE /\ report' = TRUE
          /\ UNCHANGED <<pictureVars, age, gateVars, hintAge, hint, idrAge>>

\* The network loses the report, or fb_thread takes it for an old one.
ReportLost == /\ report /\ report' = FALSE
              /\ UNCHANGED <<pictureVars, age, gateVars, hintAge, hint, asked, idrAge>>

\* Mutant: a request that comes too early starts the interval anew.
ReportTakenRestarts ==
  /\ report /\ report' = FALSE
  /\ key' = (key \/ idrAge >= IdrMin) /\ idrAge' = 0
  /\ UNCHANGED <<intact, everDecoded, age, gateVars, hintAge, hint, asked>>

\* fb_thread takes it: the throttle of on-demand key frames.
ReportTaken ==
  /\ report /\ report' = FALSE
  /\ IF idrAge >= IdrMin THEN key' = TRUE /\ idrAge' = 0
     ELSE UNCHANGED <<key, idrAge>>
  /\ UNCHANGED <<intact, everDecoded, age, gateVars, hintAge, hint, asked>>

-----------------------------------------------------------------------------
LoopNext == \/ Tick \/ Frame \/ KeyFrame \/ FrameLost \/ GateTick
        \/ HintLost \/ HintHeard \/ Report \/ ReportLost \/ ReportTaken

LoopSpec == LoopInit /\ [][LoopNext]_loopVars

(* Timers go off and the feedback sender reports; of the hints, reports and *)
(* key frames that are sent again and again, not all are lost.              *)
LoopFairness == /\ WF_loopVars(Tick) /\ WF_loopVars(GateTick) /\ WF_loopVars(Report)
            /\ SF_loopVars(HintHeard) /\ SF_loopVars(ReportTaken) /\ SF_loopVars(KeyFrame)

LoopFairSpec == LoopSpec /\ LoopFairness

-----------------------------------------------------------------------------
\* A picture that stands still is called LOST one period of the gate after it
\* is too old, whatever the other signals say, and so is one that never came
\* (uav_view.py:436-456).
FreezeNoticed == age > Hold + GatePeriod => gate = "LOST"

\* A viewer that has lost the picture, or never had one, gets it back by its
\* requests alone: no key frame comes by itself here (uav_view.py:446-447,
\* 496-497 and uav_enc.cpp:481-488).
PictureReturns == gate = "LOST" ~> gate # "LOST"
=============================================================================
