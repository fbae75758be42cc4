---------------------------- MODULE CameraGuard ----------------------------
(***************************************************************************)
(* What the "Phase 1.5 anti-wedge order" of uav_tx.py (lines 262-280 and   *)
(* 694-703) promises of the board's camera, without saying which thread    *)
(* sees to it: one user at a time, a new one only after the interval and   *)
(* never once the camera is wedged, and the count of timeouts in a row     *)
(* that declares it so. A user is who takes the camera in order to stream; *)
(* the telemetry thread, which asks it for its settings once a second      *)
(* (sample_camera, lines 241-256), is none and keeps no such order.        *)
(***************************************************************************)
EXTENDS Integers

CONSTANTS MinRestart,      \* MIN_ENGINE_RESTART_S
          WedgeThreshold   \* CAM_WEDGE_FAIL_THRESHOLD

VARIABLES user,    \* who may touch the camera: nobody, a preparation that runs,
                   \* one that is complete, or an engine
          rest,    \* time since the last engine start, up to MinRestart
          fails,   \* timeouts since the last complete preparation
          wedged   \* declared wedged; only a new process forgets it

vars == <<user, rest, fails, wedged>>

Init == user = "none" /\ rest = MinRestart /\ fails = 0 /\ wedged = FALSE

\* Nobody else has the camera, it had its rest and is not wedged.
Prepare == /\ user = "none" /\ rest >= MinRestart /\ ~wedged
           /\ user' = "preparation"
           /\ UNCHANGED <<rest, fails, wedged>>

\* The interval to the next start begins here.
Prepared == /\ user = "preparation" /\ user' = "prepared"
            /\ rest' = 0 /\ fails' = 0 /\ UNCHANGED wedged

\* The camera may be declared wedged on any timeout, and is at the threshold.
TimedOut == /\ user = "preparation" /\ user' = "none"
            /\ fails' = fails + 1
            /\ wedged' \in BOOLEAN /\ (fails' >= WedgeThreshold => wedged')
            /\ UNCHANGED rest

GivenUp == /\ user \in {"preparation", "prepared"} /\ user' = "none"
           /\ UNCHANGED <<rest, fails, wedged>>

\* Only a complete preparation is followed by an engine.
Use == user = "prepared" /\ user' = "engine" /\ UNCHANGED <<rest, fails, wedged>>

\* The engine ended or was sent SIGKILL.
Leave == user = "engine" /\ user' = "none" /\ UNCHANGED <<rest, fails, wedged>>

Rest == /\ rest < MinRestart /\ rest' = rest + 1
        /\ UNCHANGED <<user, fails, wedged>>

Next == Prepare \/ Prepared \/ TimedOut \/ GivenUp \/ Use \/ Leave \/ Rest

Spec == Init /\ [][Next]_vars
=============================================================================
