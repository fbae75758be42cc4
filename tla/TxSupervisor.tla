---------------------------- MODULE TxSupervisor ----------------------------
(***************************************************************************)
(* The supervisor of the board (TX/uav_tx.py, class TxSupervisor): the     *)
(* main thread, which accepts one ground station (RX) at a time, serves    *)
(* its START and STOP, prepares the camera and starts and stops the        *)
(* engine app_m5; and one watcher thread per engine start, which reads the *)
(* engine's output to its end and then waits for it to die. The threads    *)
(* share the fields engine, want_stream and state; engine_lock protects    *)
(* the first one only.                                                     *)
(*                                                                         *)
(* A step is what a thread does between two points where the other one can *)
(* be seen to act. Messages that change nothing but statistics (PING,      *)
(* TELEM, STAT), the clock synchronisation and the discovery replies are   *)
(* left out. A START while an engine is tracked is answered with "already  *)
(* running" and changes nothing: it is a stuttering step. So is the camera *)
(* query of the telemetry thread (sample_camera, uav_tx.py:241-256), one   *)
(* v4l2-ctl --get-ctrl a second whatever the camera's state: what is said  *)
(* below of who touches the camera is said of preparations and engines.    *)
(***************************************************************************)
EXTENDS Integers, FiniteSets

CONSTANTS
  MaxSpawns,       \* bound: engines started in a behaviour
  MinRestart,      \* MIN_ENGINE_RESTART_S
  WedgeThreshold,  \* CAM_WEDGE_FAIL_THRESHOLD
  MaxStuck         \* bound: v4l2-ctl processes that outlived their timeout

ASSUME SpawnsAssumption == MaxSpawns \in Nat
ASSUME RestartAssumption == MinRestart \in Nat
ASSUME ThresholdAssumption == WedgeThreshold \in Nat \ {0}
ASSUME StuckAssumption == MaxStuck \in Nat

NoEngine == 0
Engines == 1..MaxSpawns

VARIABLES
  running,       \* cleared by SIGTERM or SIGINT
  pc,            \* where the main thread is
  state,         \* self.state, what OFFER, HELLO, STAT and PONG report
  connected,     \* a session is being served
  engine,        \* self.engine
  wantStream,    \* self.want_stream
  wedged,        \* self.camera_wedged
  failCount,     \* self.cam_prep_fail_count
  sinceStart,    \* time since last_engine_start_t, up to MinRestart
  stopping,      \* eng of stop_engine
  after,         \* who called stop_engine
  spawned,       \* engines started so far
  alive,         \* app_m5 processes that exist
  killed,        \* those that were sent SIGKILL
  encoders,      \* dead engines whose child uav_enc still runs
  stuck,         \* v4l2-ctl processes of timed-out preparations
  watchPc,       \* where the watcher started with an engine is
  watchEng       \* eng of that watcher

flags == <<wantStream, state>>
camVars == <<wedged, failCount, sinceStart, stuck>>
stopVars == <<stopping, after>>
procVars == <<spawned, alive, killed, encoders>>
watchVars == <<watchPc, watchEng>>
vars == <<running, pc, flags, connected, engine, camVars, stopVars, procVars,
          watchVars>>

States == {"WAIT_NIC", "DISCOVERABLE", "READY", "RUNNING", "ERROR"}
Starting == {"start", "debounce", "prep", "spawn", "failed"}
InStop == {"stopClear", "stopWait", "stopped"}
Idle == {"boot", "waitNic", "accept", "done"}

TypeOK ==
  /\ running \in BOOLEAN
  /\ pc \in Idle \cup {"serve"} \cup Starting \cup InStop
  /\ state \in States
  /\ connected \in BOOLEAN
  /\ engine \in Engines \cup {NoEngine}
  /\ wantStream \in BOOLEAN
  /\ wedged \in BOOLEAN
  /\ failCount \in 0..WedgeThreshold
  /\ sinceStart \in 0..MinRestart
  /\ stuck \in 0..MaxStuck
  /\ stopping \in Engines \cup {NoEngine}
  /\ after \in {"ready", "close", "exit"}
  /\ spawned \in 0..MaxSpawns
  /\ alive \in SUBSET Engines
  /\ killed \in SUBSET Engines
  /\ encoders \in SUBSET Engines
  /\ watchPc \in [Engines ->
       {"none", "begin", "watch", "check", "report", "recover", "end"}]
  /\ watchEng \in [Engines -> Engines \cup {NoEngine}]

\* last_engine_start_t = 0.0 means that nothing has to be waited for.
Init ==
  /\ running = TRUE
  /\ pc = "boot" /\ state = "WAIT_NIC" /\ connected = FALSE
  /\ engine = NoEngine /\ wantStream = FALSE
  /\ wedged = FALSE /\ failCount = 0 /\ sinceStart = MinRestart /\ stuck = 0
  /\ stopping = NoEngine /\ after = "ready"
  /\ spawned = 0 /\ alive = {} /\ killed = {} /\ encoders = {}
  /\ watchPc = [e \in Engines |-> "none"]
  /\ watchEng = [e \in Engines |-> NoEngine]

-----------------------------------------------------------------------------
(* The main loop                                                            *)

\* wait_for_nic returns when the interface has an address, here or below, or when
\* running was cleared. When it has one is up to the network.
Boot ==
  /\ pc = "boot"
  /\ \/ running /\ pc' = "accept" /\ state' = "DISCOVERABLE"
     \/ ~running /\ pc' = "done" /\ UNCHANGED state
  /\ UNCHANGED <<running, wantStream, connected, engine, camVars, stopVars,
                 procVars, watchVars>>

\* accept() timed out and the interface has no address any more.
NicLost ==
  /\ pc = "accept" /\ running
  /\ pc' = "waitNic" /\ state' = "WAIT_NIC"
  /\ UNCHANGED <<running, wantStream, connected, engine, camVars, stopVars,
                 procVars, watchVars>>

WaitNic ==
  /\ pc = "waitNic"
  /\ pc' = "accept" /\ state' = "DISCOVERABLE"
  /\ UNCHANGED <<running, wantStream, connected, engine, camVars, stopVars,
                 procVars, watchVars>>

\* A ground station connects: HELLO, then READY.
Accept ==
  /\ pc = "accept" /\ running
  /\ pc' = "serve" /\ connected' = TRUE /\ state' = "READY"
  /\ UNCHANGED <<running, wantStream, engine, camVars, stopVars, procVars,
                 watchVars>>

-----------------------------------------------------------------------------
(* START                                                                    *)

\* The camera is wedged: refused before anything touches it.
StartRefused ==
  /\ pc = "serve" /\ running /\ wedged
  /\ state' = "ERROR"
  /\ UNCHANGED <<running, pc, wantStream, connected, engine, camVars, stopVars,
                 procVars, watchVars>>

\* Mutant: does not look whether the camera is wedged.
StartAcceptWedged ==
  /\ pc = "serve" /\ running /\ engine = NoEngine
  /\ pc' = "start" /\ state' = "RUNNING"
  /\ UNCHANGED <<running, wantStream, connected, engine, camVars, stopVars,
                 procVars, watchVars>>

\* No engine is tracked: RUNNING is announced before anything is started.
StartAccept ==
  /\ pc = "serve" /\ running /\ ~wedged /\ engine = NoEngine
  /\ pc' = "start" /\ state' = "RUNNING"
  /\ UNCHANGED <<running, wantStream, connected, engine, camVars, stopVars,
                 procVars, watchVars>>

\* want_stream is set and start_engine looks at the time of the last start.
StartWant ==
  /\ pc = "start" /\ wantStream' = TRUE
  /\ pc' = IF sinceStart < MinRestart THEN "debounce" ELSE "prep"
  /\ UNCHANGED <<running, state, connected, engine, camVars, stopVars, procVars,
                 watchVars>>

\* Mutant: the rest of the interval is not waited out.
DebounceOverEarly ==
  /\ pc = "debounce" /\ running /\ wantStream
  /\ pc' = "prep"
  /\ UNCHANGED <<running, flags, connected, engine, camVars, stopVars, procVars,
                 watchVars>>

DebounceOver ==
  /\ pc = "debounce" /\ sinceStart >= MinRestart /\ running /\ wantStream
  /\ pc' = "prep"
  /\ UNCHANGED <<running, flags, connected, engine, camVars, stopVars, procVars,
                 watchVars>>

\* want_stream or running was cleared: given up without an error message.
DebounceAbort ==
  /\ pc = "debounce" /\ (~running \/ ~wantStream)
  /\ pc' = "failed"
  /\ UNCHANGED <<running, flags, connected, engine, camVars, stopVars, procVars,
                 watchVars>>

\* Mutant: the timeouts before a complete preparation stay counted.
PrepOkKeepsCount ==
  /\ pc = "prep" /\ pc' = "spawn"
  /\ sinceStart' = 0
  /\ UNCHANGED <<running, flags, connected, engine, wedged, failCount, stuck,
                 stopVars, procVars, watchVars>>

\* cam-60fps.sh ended, whatever its exit code. It takes cam_prep_lock, which no
\* other thread ever wants.
PrepOk ==
  /\ pc = "prep" /\ pc' = "spawn"
  /\ failCount' = 0 /\ sinceStart' = 0
  /\ UNCHANGED <<running, flags, connected, engine, wedged, stuck, stopVars,
                 procVars, watchVars>>

\* cam-60fps.sh hangs and subprocess.run kills the shell; the v4l2-ctl it was
\* waiting for may stay behind. At the threshold, or when the kernel log says
\* so, the camera is declared wedged.
PrepTimeout ==
  /\ pc = "prep" /\ pc' = "failed" /\ state' = "ERROR"
  /\ failCount' = failCount + 1
  /\ \E dmesg \in BOOLEAN : wedged' = (failCount' >= WedgeThreshold \/ dmesg)
  /\ stuck' \in {stuck} \cup ({stuck + 1} \cap 0..MaxStuck)
  /\ UNCHANGED <<running, wantStream, connected, engine, sinceStart, stopVars,
                 procVars, watchVars>>

\* cam-60fps.sh could not be run, or app_m5 could not be started.
StartError ==
  /\ pc \in {"prep", "spawn"}
  /\ pc' = "failed" /\ state' = "ERROR"
  /\ UNCHANGED <<running, wantStream, connected, engine, camVars, stopVars,
                 procVars, watchVars>>

\* app_m5 is started under engine_lock, then its watcher.
Spawn ==
  /\ pc = "spawn" /\ spawned < MaxSpawns
  /\ pc' = "serve"
  /\ spawned' = spawned + 1 /\ engine' = spawned + 1
  /\ alive' = alive \cup {spawned + 1}
  /\ watchPc' = [watchPc EXCEPT ![spawned + 1] = "begin"]
  /\ UNCHANGED <<running, flags, connected, camVars, stopVars, killed, encoders,
                 watchEng>>

\* start_engine returned False: back to READY, even from ERROR.
StartFailed ==
  /\ pc = "failed" /\ pc' = "serve"
  /\ wantStream' = FALSE /\ state' = "READY"
  /\ UNCHANGED <<running, connected, engine, camVars, stopVars, procVars,
                 watchVars>>

-----------------------------------------------------------------------------
(* stop_engine                                                              *)

\* Under engine_lock: the engine is taken over from its watcher.
StopTake(caller) ==
  /\ pc' = "stopClear" /\ after' = caller
  /\ stopping' = engine /\ engine' = NoEngine
  /\ UNCHANGED <<running, flags, connected, camVars, procVars, watchVars>>

StopCommand == pc = "serve" /\ running /\ StopTake("ready")

\* BYE, a silent link, an exception or the end of the process.
SessionEnd == pc = "serve" /\ StopTake("close")

MainLoopEnd == pc = "accept" /\ ~running /\ StopTake("exit")

\* want_stream is cleared and, if there is an engine, its group gets SIGTERM.
StopClear ==
  /\ pc = "stopClear" /\ wantStream' = FALSE
  /\ pc' = IF stopping = NoEngine THEN "stopped" ELSE "stopWait"
  /\ UNCHANGED <<running, state, connected, engine, camVars, stopVars, procVars,
                 watchVars>>

StopExited ==
  /\ pc = "stopWait" /\ stopping \notin alive
  /\ pc' = "stopped"
  /\ UNCHANGED <<running, flags, connected, engine, camVars, stopVars, procVars,
                 watchVars>>

\* Mutant: gives up after five seconds without SIGKILL.
StopGiveUp ==
  /\ pc = "stopWait" /\ stopping \in alive
  /\ pc' = "stopped"
  /\ UNCHANGED <<running, flags, connected, engine, camVars, stopVars, procVars,
                 watchVars>>

\* Mutant: after SIGKILL it waits again, without a limit.
StopKillAndWait ==
  /\ pc = "stopWait" /\ stopping \in alive
  /\ killed' = killed \cup {stopping}
  /\ UNCHANGED <<running, pc, flags, connected, engine, camVars, stopVars,
                 spawned, alive, encoders, watchVars>>

\* Five seconds are over: SIGKILL, and no second wait.
StopKill ==
  /\ pc = "stopWait" /\ stopping \in alive
  /\ killed' = killed \cup {stopping} /\ pc' = "stopped"
  /\ UNCHANGED <<running, flags, connected, engine, camVars, stopVars, spawned,
                 alive, encoders, watchVars>>

\* Back in the caller.
StopReturn ==
  /\ pc = "stopped" /\ stopping' = NoEngine
  /\ \/ after = "ready" /\ pc' = "serve" /\ state' = "READY" /\ UNCHANGED connected
     \/ /\ after = "close" /\ pc' = "accept" /\ connected' = FALSE
        /\ state' = IF running THEN "DISCOVERABLE" ELSE state
     \/ after = "exit" /\ pc' = "done" /\ UNCHANGED <<state, connected>>
  /\ UNCHANGED <<running, wantStream, engine, camVars, after, procVars, watchVars>>

-----------------------------------------------------------------------------
(* _engine_watch                                                            *)

\* The new thread reads self.engine; there may be none any more.
WatchBegin(w) ==
  /\ watchPc[w] = "begin"
  /\ watchEng' = [watchEng EXCEPT ![w] = engine]
  /\ watchPc' = [watchPc EXCEPT ![w] = IF engine = NoEngine THEN "end" ELSE "watch"]
  /\ UNCHANGED <<running, pc, flags, connected, engine, camVars, stopVars, procVars>>

\* Mutant: untracks whatever engine is there.
WatchExitAny(w) ==
  /\ watchPc[w] = "watch" /\ watchEng[w] \notin alive
  /\ engine' = NoEngine
  /\ watchPc' = [watchPc EXCEPT ![w] = "check"]
  /\ UNCHANGED <<running, pc, flags, connected, camVars, stopVars, procVars, watchEng>>

\* Mutant: reports the death and leaves the dead engine tracked.
WatchExitTracked(w) ==
  /\ watchPc[w] = "watch" /\ watchEng[w] \notin alive
  /\ watchPc' = [watchPc EXCEPT ![w] = IF engine = watchEng[w] THEN "check" ELSE "end"]
  /\ UNCHANGED <<running, pc, flags, connected, engine, camVars, stopVars, procVars,
                 watchEng>>

\* eng.stdout is at its end: everybody who could write to it is gone. The uav_enc
\* that app_m5 forks inherits the pipe (main_yolox.cpp:259-274).
OutputEnded(e) == e \notin alive \cup encoders

\* The engine is dead. Under engine_lock: is it still the tracked one? The loop
\* before eng.wait() is certain to be left only at the end of the output; what an
\* encoder that is left behind writes, an empty line or bytes that are no text,
\* can end it earlier.
WatchExit(w) ==
  /\ watchPc[w] = "watch" /\ watchEng[w] \notin alive
  /\ IF engine = watchEng[w]
       THEN engine' = NoEngine /\ watchPc' = [watchPc EXCEPT ![w] = "check"]
       ELSE UNCHANGED engine /\ watchPc' = [watchPc EXCEPT ![w] = "end"]
  /\ UNCHANGED <<running, pc, flags, connected, camVars, stopVars, procVars, watchEng>>

\* Outside the lock: want_stream tells a death from a stop, and is cleared.
WatchCheck(w) ==
  /\ watchPc[w] = "check" /\ wantStream' = FALSE
  /\ watchPc' = [watchPc EXCEPT ![w] = IF wantStream THEN "report" ELSE "end"]
  /\ UNCHANGED <<running, pc, state, connected, engine, camVars, stopVars, procVars,
                 watchEng>>

WatchReport(w) ==
  /\ watchPc[w] = "report" /\ state' = "ERROR"
  /\ watchPc' = [watchPc EXCEPT ![w] = "recover"]
  /\ UNCHANGED <<running, pc, wantStream, connected, engine, camVars, stopVars,
                 procVars, watchEng>>

WatchRecover(w) ==
  /\ watchPc[w] = "recover" /\ state' = "READY"
  /\ watchPc' = [watchPc EXCEPT ![w] = "end"]
  /\ UNCHANGED <<running, pc, wantStream, connected, engine, camVars, stopVars,
                 procVars, watchEng>>

Watch(w) == \/ WatchBegin(w) \/ WatchExit(w) \/ WatchCheck(w)
            \/ WatchReport(w) \/ WatchRecover(w)

\* The steps of a watcher that nothing outside it can put off.
WatchSteps(w) == \/ WatchBegin(w) \/ WatchCheck(w)
                 \/ WatchReport(w) \/ WatchRecover(w)
                 \/ OutputEnded(watchEng[w]) /\ WatchExit(w)

-----------------------------------------------------------------------------
(* The environment                                                          *)

\* An engine ends: by itself, on SIGTERM or, at last, on SIGKILL. Its uav_enc, if
\* there is one, ended before it or outlives it.
EngineExit(e) ==
  /\ e \in alive /\ alive' = alive \ {e}
  /\ encoders' \in {encoders, encoders \cup {e}}
  /\ UNCHANGED <<running, pc, flags, connected, engine, camVars, stopVars, spawned,
                 killed, watchVars>>

\* An encoder that was left behind ends.
EncoderExit(e) ==
  /\ e \in encoders /\ encoders' = encoders \ {e}
  /\ UNCHANGED <<running, pc, flags, connected, engine, camVars, stopVars, spawned,
                 alive, killed, watchVars>>

Tick ==
  /\ sinceStart < MinRestart /\ sinceStart' = sinceStart + 1
  /\ UNCHANGED <<running, pc, flags, connected, engine, wedged, failCount, stuck,
                 stopVars, procVars, watchVars>>

\* A v4l2-ctl that outlived its timeout gets through.
Unstick ==
  /\ stuck > 0 /\ stuck' = stuck - 1
  /\ UNCHANGED <<running, pc, flags, connected, engine, wedged, failCount, sinceStart,
                 stopVars, procVars, watchVars>>

Signal ==
  /\ running /\ running' = FALSE
  /\ UNCHANGED <<pc, flags, connected, engine, camVars, stopVars, procVars,
                 watchVars>>

-----------------------------------------------------------------------------
\* What the main thread does by itself, once a message or a signal has arrived.
StartSteps == \/ StartWant \/ DebounceOver \/ DebounceAbort
              \/ PrepOk \/ PrepTimeout \/ StartError \/ Spawn \/ StartFailed
StopSteps == StopClear \/ StopExited \/ StopKill \/ StopReturn

Main == \/ Boot \/ NicLost \/ WaitNic \/ Accept \/ StartRefused \/ StartAccept
        \/ StartSteps \/ StopCommand \/ SessionEnd \/ MainLoopEnd \/ StopSteps

Environment == \/ (\E e \in Engines : EngineExit(e) \/ EncoderExit(e))
               \/ Tick \/ Unstick \/ Signal

Next == Main \/ (\E w \in Engines : Watch(w)) \/ Environment

Spec == Init /\ [][Next]_vars

(* Both threads run, time passes, and every call the main thread waits in    *)
(* has a timeout: subprocess.run, eng.wait(timeout=5), the debounce. What a  *)
(* watcher waits in has none: nothing is assumed of the engine (not even     *)
(* that SIGKILL ends it) or its encoder, nor of the camera, the NIC or the RX.*)
Fairness == /\ WF_vars(StartSteps) /\ WF_vars(StopSteps) /\ WF_vars(Tick)
            /\ \A w \in Engines : WF_vars(WatchSteps(w))

FairSpec == Spec /\ Fairness

-----------------------------------------------------------------------------
(* Properties                                                               *)

\* An engine process that exists is tracked, being stopped or was sent SIGKILL, and
\* "back to DISCOVERABLE (engine torn down)" (uav_tx.py:18): without a session none
\* is tracked or wanted. The watcher, stop_engine and the end of a session, which
\* all take self.engine away, never let one run on unnoticed.
NoOrphan == /\ alive \subseteq {engine, stopping} \cup killed
            /\ ~connected => engine = NoEngine /\ ~wantStream

\* No preparation touches the camera while an engine that was not killed may use
\* it. (The telemetry thread's camera query does so by intent, uav_tx.py:242.)
PrepAlone == pc \in {"prep", "spawn"} => alive \subseteq killed

\* "every START is REFUSED (no cam-prep, no v4l2-ctl)" (uav_tx.py:277-280): once
\* the camera is wedged, and after "this many consecutive cam-prep timeouts"
\* (tx_config.py:45-46) it always is, no start is on its way past the camera
\* preparation and no engine is tracked. "nothing more piles on" goes beyond that
\* and is not claimed: the telemetry thread asks the camera once a second, wedged
\* or not (uav_tx.py:414).
WedgedQuiet == wedged \/ failCount >= WedgeThreshold
                 => engine = NoEngine /\ pc \notin Starting \ {"failed"}

\* "at least this long between engine starts regardless of trigger"
\* (tx_config.py:42-44): an engine is about to be started only when the interval
\* since last_engine_start_t is over.
StartsSpaced == [][pc # "spawn" /\ pc' = "spawn" => sinceStart >= MinRestart]_vars

\* "only ONE cam-60fps.sh may be pending/running at a time"; piling v4l2-ctl
\* calls is what wedges the camera (uav_tx.py:272-275, 636-637).
SingleFlight == stuck + (IF pc = "prep" THEN 1 ELSE 0) <= 1

\* Who has the camera, as far as the supervisor can tell: an engine that was sent
\* SIGKILL counts as gone.
cameraUser == IF pc = "prep" THEN "preparation"
              ELSE IF pc = "spawn" THEN "prepared"
              ELSE IF alive \ killed # {} THEN "engine" ELSE "none"

Camera == INSTANCE CameraGuard WITH user <- cameraUser, rest <- sinceStart,
                                    fails <- failCount

\* Main thread and watchers together keep the "anti-wedge order" of
\* uav_tx.py:694-703, abstractly CameraGuard: every engine follows a complete
\* preparation, none begins while another may have the camera, and only
\* timeouts in a row count.
ImplementsCamera == Camera!Spec

\* Whatever the camera, the engine and the watchers do, the main thread comes
\* back to its messages (or to accept, or ends).
MainReturns == pc \in Starting \cup InStop ~> pc \in {"serve", "accept", "done"}

\* "on exit-while-RUNNING report + go READY" (uav_tx.py:769): a dead engine does
\* not stay tracked, so a later START is not answered with "already running" for
\* ever. That holds once its encoder is gone as well. While an encoder hangs (in
\* stream_enc_stop, say) after app_m5 died, readline keeps the watcher, the dead
\* engine is tracked, and only a STOP or the end of the session gets past it.
DeathNoticed == \A e \in Engines : engine = e /\ OutputEnded(e) ~> engine # e
=============================================================================
