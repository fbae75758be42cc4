----------------------------- MODULE AqcLadder -----------------------------
(***************************************************************************)
(* The bitrate ladder of the encoder child (fb_thread of                   *)
(* TX/engine_enc_src/uav_enc.cpp). Level 0 has the highest bitrate. Every  *)
(* iteration takes a feedback message of the RX or times out, samples the  *)
(* board's WiFi, judges the readings and steps at most one level down      *)
(* (fast) or up (slow).                                                    *)
(*                                                                         *)
(* A reading is abstracted to the side of the thresholds it is on: "good"  *)
(* is within the heal margin, "bad" beyond the threshold, "fair" in the    *)
(* dead band between. The received bitrate is abstracted to the highest    *)
(* level whose air occupancy it allows, LastLevel + 1 when it allows none. *)
(* Times are kept as elapsed times, up to the largest value anything is    *)
(* compared with. Which feedback messages are accepted is in Feedback.     *)
(***************************************************************************)
EXTENDS Integers

CONSTANTS
  LastLevel,   \* g_n_levels - 1
  DownHold,    \* g_down_hold_s
  UpHold,      \* g_up_hold_s
  MinDwell,    \* g_min_dwell_s
  DropOut,     \* FB_DROUT_SEC
  CapFresh,    \* g_cap_fresh_s
  CapOn        \* g_cap_on (YOLO_AQC_CAP)

ASSUME LevelAssumption == LastLevel \in Nat
ASSUME HoldAssumption ==
  /\ DownHold \in Nat /\ UpHold \in Nat /\ MinDwell \in Nat
  /\ DropOut \in Nat /\ CapFresh \in Nat
ASSUME CapAssumption == CapOn \in BOOLEAN

Never == -1                 \* a time of 0.0: not yet, or not running
Unknown == -1               \* recv_kbps is 0
Grades == {"good", "fair", "bad"}
CongHold == UpHold + MinDwell
Elapsed(limit) == {Never} \cup 0..limit
Readings == [wifi : Grades, loss : Grades, cap : {Unknown} \cup 0..(LastLevel + 1),
             age : Elapsed(DropOut + 1)]

VARIABLES
  lvl,           \* the level
  reading,       \* WiFi, loss, capacity, and the age of the last feedback
  unhealthyFor,  \* time since unhealthy_since
  healthyFor,    \* time since healthy_since
  sinceChange,   \* time since last_change
  sinceCong,     \* time since last_cong_down_t
  quiet          \* history: time since the WiFi or the loss was bad or stale

vars == <<lvl, reading, unhealthyFor, healthyFor, sinceChange, sinceCong, quiet>>

TypeOK ==
  /\ lvl \in 0..LastLevel
  /\ reading \in Readings
  /\ unhealthyFor \in Elapsed(DownHold)
  /\ healthyFor \in 0..UpHold
  /\ sinceChange \in Elapsed(CongHold)
  /\ sinceCong \in Elapsed(CongHold)
  /\ quiet \in 0..UpHold

\* Nothing was measured: no retries, no signal reading, no loss. The first level
\* is the one nearest to the requested bitrate.
Init ==
  /\ lvl \in 0..LastLevel
  /\ reading = [wifi |-> "good", loss |-> "good", cap |-> Unknown, age |-> Never]
  /\ unhealthyFor = Never /\ healthyFor = 0
  /\ sinceChange = Never /\ sinceCong = Never
  /\ quiet = 0

-----------------------------------------------------------------------------
(* The readings                                                             *)

Aged(t, dt, limit) ==
  IF t = Never THEN Never ELSE IF t + dt > limit THEN limit ELSE t + dt

\* No feedback for too long; without any feedback ever, not stale.
Stale(r) == r.age > DropOut

\* The capacity may be used.
CapKnown(r) == CapOn /\ r.age \in 0..CapFresh /\ r.cap # Unknown

BadLoss(r) == r.loss = "bad" \/ Stale(r)

\* The air occupancy of level l is more than the capacity allows.
BadCap(r, l) == CapKnown(r) /\ l < r.cap

BadLink(r) == r.wifi = "bad" \/ BadLoss(r)

Unhealthy(r, l) == BadLink(r) \/ BadCap(r, l)

\* Clearly better than the thresholds.
Healthy(r) == r.wifi = "good" /\ r.loss = "good" /\ ~Stale(r)

CapAllowsUp(r, l) == CapKnown(r) => l - 1 >= r.cap

-----------------------------------------------------------------------------
(* One iteration, dt after the one before. reading' is what it sees.        *)

\* A feedback message or a time-out, then perhaps a WiFi sample (at most one a
\* second; when iw fails the old one stays).
Observe(dt) ==
  \E w \in Grades :
    \/ reading' = [reading EXCEPT !.wifi = w, !.age = Aged(@, dt, DropOut + 1)]
    \/ \E l \in Grades, c \in {Unknown} \cup 0..(LastLevel + 1) :
         reading' = [wifi |-> w, loss |-> l, cap |-> c, age |-> 0]

\* Mutant: every unhealthy iteration starts the run anew.
BadForRestart(dt) == IF Unhealthy(reading', lvl) THEN 0 ELSE Never

BadFor(dt) ==
  IF ~Unhealthy(reading', lvl) THEN Never
  ELSE IF unhealthyFor = Never THEN 0 ELSE Aged(unhealthyFor, dt, DownHold)

GoodFor(dt) == IF Healthy(reading') THEN Aged(healthyFor, dt, UpHold) ELSE 0

DwellOk(dt) == sinceChange = Never \/ sinceChange + dt >= MinDwell

\* Mutant: the hold-down after a congestion never ends.
PostCongNever(dt) == sinceCong = Never

PostCongOk(dt) == sinceCong = Never \/ sinceCong + dt >= CongHold

GoesDown(dt) == DwellOk(dt) /\ lvl < LastLevel /\ BadFor(dt) >= DownHold

GoesUp(dt) ==
  /\ ~GoesDown(dt) /\ DwellOk(dt) /\ lvl > 0
  /\ Healthy(reading') /\ CapAllowsUp(reading', lvl) /\ PostCongOk(dt)
  /\ GoodFor(dt) >= UpHold

Down(dt) ==
  /\ Observe(dt) /\ GoesDown(dt)
  /\ lvl' = lvl + 1
  /\ sinceChange' = 0 /\ unhealthyFor' = Never /\ healthyFor' = 0
  /\ sinceCong' = IF BadLoss(reading') \/ BadCap(reading', lvl)
                    THEN 0 ELSE Aged(sinceCong, dt, CongHold)

\* Mutant: the up-timer goes on over a change.
UpKeepsTimer(dt) ==
  /\ Observe(dt) /\ GoesUp(dt)
  /\ lvl' = lvl - 1
  /\ sinceChange' = 0 /\ unhealthyFor' = Never /\ healthyFor' = GoodFor(dt)
  /\ sinceCong' = Aged(sinceCong, dt, CongHold)

Up(dt) ==
  /\ Observe(dt) /\ GoesUp(dt)
  /\ lvl' = lvl - 1
  /\ sinceChange' = 0 /\ unhealthyFor' = Never /\ healthyFor' = 0
  /\ sinceCong' = Aged(sinceCong, dt, CongHold)

Stay(dt) ==
  /\ Observe(dt) /\ ~GoesDown(dt) /\ ~GoesUp(dt)
  /\ UNCHANGED lvl
  /\ unhealthyFor' = BadFor(dt) /\ healthyFor' = GoodFor(dt)
  /\ sinceChange' = Aged(sinceChange, dt, CongHold)
  /\ sinceCong' = Aged(sinceCong, dt, CongHold)

History(dt) == quiet' = IF BadLink(reading') THEN 0 ELSE Aged(quiet, dt, UpHold)

Iterate(dt) == (Down(dt) \/ Up(dt) \/ Stay(dt)) /\ History(dt)

Next == \E dt \in {0, 1} : Iterate(dt)

Spec == Init /\ [][Next]_vars

(* The loop waits at most 250 ms for a message, so time goes on between its *)
(* iterations. Nothing is assumed about the readings.                       *)
FairSpec == Spec /\ WF_vars(Iterate(1))

-----------------------------------------------------------------------------
(* Properties                                                               *)

\* "ALL healthy this long to step UP one level" (uav_enc.cpp:105): no bad or
\* stale WiFi or loss reading in the last g_up_hold_s before a step up, and no change
\* of the level either (a reading is a tick apart from the one before). It does not
\* hold of the capacity, which resets no timer of the way up.
UpAfterQuiet ==
  [][lvl' < lvl => /\ quiet' >= UpHold
                   /\ sinceChange = Never \/ sinceChange + 1 >= UpHold]_vars

\* A link that stays bad, or silent after it was heard, ends at the floor.
Degrades ==
  /\ <>[](reading.wifi = "bad") => <>[](lvl = LastLevel)
  /\ <>[]Stale(reading) => <>[](lvl = LastLevel)

\* A link that stays healthy, with room for every level, comes back to the top:
\* no timer or hold-down keeps it away for ever.
Recovers == <>[](Healthy(reading) /\ (CapOn => reading.cap = 0)) => <>[](lvl = 0)
=============================================================================
