# Camera-AI stream for RZ/V2H: a TLA+ verification project

This directory models the program in `src/`: a camera board (TX) that detects
objects, encodes video and streams it, and a ground station (RX) that starts and
stops the board, shows the stream and restarts it when it fails. Every
definition is translated from the source; `PROJECT.json` names, per definition,
the lines it stands for.

## The system

```
 ground station (RX)                         camera board (TX)
 +---------------------------+   TCP 50001   +------------------------------+
 | uav_rx.py  RxSupervisor   |<------------->| uav_tx.py  TxSupervisor      |
 |  console, auto-restart    | START/STOP/.. |  cam-prep, engine, watcher   |
 |  reader/pinger threads    | STATE/STAT/.. |      | spawns                |
 |      | spawns             |               |      v                       |
 | uav_view.py  viewer       |   RTP 50010   | app_m5  capture/inference/   |
 |  jitter buffer, decoder,  |<--------------|   release threads            |
 |  SEI boxes, overlay, rec. | H.265 + SEI   |      | socketpair, dma-bufs  |
 |  feedback sender          |-------------->| uav_enc child: GStreamer,    |
 +---------------------------+   UDP 50013   |   SEI injection, AQC ladder  |
                                             +------------------------------+
```

| component | state it keeps | operations | interacts with |
|---|---|---|---|
| TX supervisor (`TX/uav_tx.py`) | protocol state, the engine process, `want_stream`, wedge and cam-prep counters | serve loop, start/stop of the engine, engine watcher, cam-prep, NIC wait, telemetry, discovery | RX over TCP, the engine process, the kernel log |
| RX supervisor (`RX/uav_rx.py`) | connection, `want_stream`, retry and watchdog state, the viewer process | connect/reconnect, reader, pinger, console commands, 1 Hz supervision | TX over TCP, the viewer process |
| Link protocol (`link_proto.py`) | none | length-prefixed JSON messages with a receive timeout | both supervisors |
| Capture and inference (`TX/engine_app_src/main_yolox.cpp`, `camera.cpp`) | the ring of 8 capture slots, two marks per slot, a mailbox | capture, inference and release threads | camera driver, encoder child |
| Encoder child (`TX/engine_enc_src/uav_enc.cpp`, `stream_enc.cpp`) | frames in flight, box payload and epochs, AQC level and its configuration | frame loop, push and release, SEI probe, feedback thread | application over a socketpair, GStreamer, RX feedback |
| IPC (`enc_ipc.h`) | none | buffer hand-over, frame, box set and release messages | application and child |
| SEI codec (`sei_box.h`, `uav_view.py`) | none | NAL building with emulation prevention, parsing | child, viewer |
| Viewer (`RX/uav_view.py`) | boxes with their age, ReconGate state, counters | decode, overlay, feedback, freeze gate, recording | child over RTP/UDP |
| Feedback (`uav_view.py` `fb_tick`, `uav_enc.cpp` `fb_thread`) | sequence numbers, stale run, throttle of forced key frames | one report a second, acceptance with resync | viewer to child over UDP |
| Auto exposure (`camera.cpp` `ae_*`) | exposure, gain | one correction every few frames | capture thread, sensor |
| IMU roll, box UDP sidecar | filter state, none | sampling loop, one datagram per detection | hardware, viewer |

### Components in detail

**Capture and inference** (`main_yolox.cpp`, `camera.cpp`). State: which of the 8
ring slots the V4L2 driver has queued, `g_enc_pending` and `g_inf_pending` per
slot, the one-slot mailbox `g_inf_idx`, `g_inf_quit`, the termination semaphore.
The capture thread dequeues a frame, posts every third one to inference, marks
it as the encoder's and sends a `FrameMsg`; the inference thread reads the slot
in place for about 47 ms; the release thread clears the encoder's mark on every
`RelMsg`. Whoever clears the last mark requeues the slot. Hard: three threads
and a process decide about one buffer, sends fail, the child dies. Correct when
the camera never writes into a frame somebody reads, and every slot comes back.

**Encoder child** (`uav_enc.cpp`, `stream_enc.cpp`). State: frames in the
pipeline, `fps_div` and frame parity, the SEI payload with its epochs, the AQC
level with its timers. It answers each frame exactly once (pushed and released
later, or dropped), puts the latest boxes into the stream when they changed and
at each key frame, and steps its bitrate with the link. Hard: the SEI probe runs
in a streaming thread and reads the epoch without the lock; the ladder's six
timers reset in different branches.

**Engine lifecycle and IPC handshake** (`main`, `spawn_uav_enc`, the `main` of
`uav_enc.cpp`, `enc_ipc.h`). State: which resources are held, how many buffers
were handed over, which threads exist. Hard: about fifteen steps that can fail
jump to four labels; a child that dies half way; joins that time out; `waitpid`
without a limit. Correct when each exit gives back what it took (or says that it
did not), a termination request always ends the process, and no encoder outlives
its engine.

**TX supervisor** (`uav_tx.py`). State: `state`, `engine`, `want_stream`,
`camera_wedged`, `cam_prep_fail_count`, `last_engine_start_t`; a watcher thread
per engine. Hard: watcher and main thread both take the engine away; a hung
camera script leaves a `v4l2-ctl` in the kernel; every start in quick succession
can wedge the camera until a power cycle. Correct when no engine runs untracked
or without a session, starts are spaced, a wedged camera is left alone, and the
main thread always comes back to its messages.

**RX supervisor** (`uav_rx.py`). State: `conn`, `want_stream`, `pending`,
`error_retry`, `exhausted`, `fail_count`, `next_retry_at`, the viewer process and
the time of its last frame. Threads: main, console, stream supervisor, one reader
per connection, pinger, telemetry. Hard: both main and the stream supervisor
start streams; STOP may come in the middle of either; readers of old connections
live on. Correct when STOP wins, wanted video comes back or is given up, and `q`
ends the program.

**Link protocol** (`link_proto.py`). One direction of a TCP connection carries a
length of four bytes and a JSON payload per message. Hard: several threads send on
one socket without a lock, `sendall` can raise in the middle of a message, and a
receive timeout throws away what was read of one. Correct when only whole messages
that were sent are taken, in order and once, and a receiver that has lost the
framing finds it again.

**Feedback** (`uav_view.py`, `uav_enc.cpp`). State: the viewer's counter, the
thread's `last_seq` and `stale_run`. Hard: UDP loses, repeats and reorders, and a
restarted viewer counts from one again. Correct when a new viewer is heard and an
old report of the same viewer is not.

**Viewer** (`uav_view.py`). State: boxes with their age, the ReconGate, the hint
timer. Hard: a frozen picture shows in three signals that disagree, and the way
back goes over three lossy hops and two throttles. Correct when a frozen picture is
called LOST and a lost one comes back.

**SEI codec** (`sei_box.h` in C, `uav_view.py` in Python): a unit with emulation
prevention and its parser, correct when nothing that is put in comes out changed.
**Ladder configuration** (`aqc_parse_levels`): a scanner that must survive bad
entries. **Auto exposure** (`Camera::ae_*`): a damped controller over a product of
a clamped exposure and a whole-numbered gain.

## The modules

| module | models | level |
|---|---|---|
| `SlotOwnership` | the ownership protocol of the comment at `main_yolox.cpp:80-98`: a slot is the camera's or has a set of readers; the last reader returns it | abstract |
| `CaptureRing` | capture, inference and release thread, child main loop, pipeline, AQC thread, termination | refines `SlotOwnership` |
| `Exposure` | one correction of the auto exposure over every setting and scene | pure functions |
| `MCCaptureRing` | `CaptureRing` and `Exposure` for TLC, with the scenes | |
| `SeiInject` | box sets from the inference thread to the viewer's screen | |
| `SeiCodec` | the unit the boxes travel in: `sei_build_nal_h265` against `_iter_nals`, `_rbsp_unescape`, `_parse_sei_boxes` | pure functions |
| `MCSeiInject` | `SeiInject` and `SeiCodec` for TLC | |
| `AqcLadder` | one iteration of `fb_thread`: readings, timers, one level up or down | |
| `LadderConfig` | `aqc_parse_levels` over token texts, against what each entry says on its own, place by place | pure functions |
| `MCAqcLadder` | `AqcLadder` and `LadderConfig` for TLC | |
| `EngineLifecycle` | `main` of the engine, `main` of the child, the threads as far as starting and stopping needs them, the display path's flags | |
| `CameraGuard` | the camera as `uav_tx.py` means to treat it: one user at a time, a rest before each start, timeouts counted, none once it is wedged | abstract |
| `TxSupervisor` | the board's supervisor: main thread and watchers | refines `CameraGuard` |
| `RxSupervisor` | the ground station's supervisor: main, stream supervisor, console, readers, senders; the board as an external partner | |
| `LossyChannel` | messages arrive whole, in order, at most once | abstract |
| `LinkFraming` | one direction of the link byte by byte: senders without a lock, `sendall` giving up, receive timeouts | refines `LossyChannel` |
| `Feedback` | reports over a network that loses, repeats and reorders; acceptance with resync; restarts of viewer and thread | |
| `KeyFrameLoop` | freeze gate, hint, report, throttle, key frame | |
| `*_proofs` | theorems of `CaptureRing` (with `Exposure`), `SeiInject` (with `SeiCodec`), `AqcLadder` (with `LadderConfig`), `TxSupervisor`, `RxSupervisor`, `EngineLifecycle`, `LinkFraming`, `Feedback` (with `KeyFrameLoop`) | |

How the modules fit together: `LinkFraming` justifies that both supervisors are
modelled over whole messages in order (not that none is lost on a link that lives:
in `RxSupervisor` a command sent over a live link always takes effect, so that one
swallowed by a time-out or by mixed sends is in `LinkFraming` alone);
`EngineLifecycle` says what exists while `CaptureRing` moves frames; `SeiInject` takes
up the frames the child pushes;
`Feedback` delivers the readings `AqcLadder` works with and the requests
`KeyFrameLoop` throttles. The board in `RxSupervisor` is an external partner that
does what `TxSupervisor` lets it do.

How state and actions correspond to the code is said at each VARIABLE and above
each action; the source lines are in `PROJECT.json` under `map`. A definition
whose comment begins with `Mutant:` is not part of a specification: it is a
plausible error in the definition next to it, kept to show that the properties
notice it.

A step of a thread is what it does between two points where another thread or
process can be seen to act: a lock region, a system call, a message. Some
consequences are worth knowing when comparing with the code:

- `CaptureRing` splits the loop of `R_Capture_Thread` into dequeue, post, mark,
  send and recycle, and treats the child's socket as a bag per slot: the order of
  two messages about different slots decides nothing about ownership.
- `TxSupervisor` has a step between the watcher's lock region and what it does
  after it. `encoders` is who may still hold the output of a dead engine open, which
  the watcher reads to its end before it asks whether the engine is dead. A START while an engine is tracked is answered only, so it stutters.
  `cam_prep_lock` is taken by the main thread alone and is not a variable; for
  the same reason the check "bail early if operator STOPed" (`uav_tx.py:718`)
  can never find a STOP and is not an action.
- `RxSupervisor` splits `_auto_start` and the console commands into taking the
  viewer, checking the connection, starting the viewer, sending, and what follows.
  `_on_link_lost` acts on the connection of the moment, as in the code.
- `LinkFraming` keeps the bytes already read in `wire`, so that a message is a
  stretch of it; a payload counts as one only when it is the text of one message
  from its first byte to its last, because a stray header or a cut text is no JSON.
- `Exposure`, `SeiCodec` and `LadderConfig` have no variables. Their claims are
  evaluated in states of the module they belong to: at the frame the correction
  follows, for the boxes in the stream, at the level the ladder is on.

## The runs

| run | what it asks | result |
|---|---|---|
| `capture_ring` | `CameraExclusive`, `NoSlotLost`, `OneDisposition`, `AtMostTwoPinned`, `LeakOnlyAtCrash`, `AutoExposureSettles`; refinement `ImplementsOwnership`; liveness `SlotReturns`, `TerminationEnds` | holds |
| `capture_ring_handoff` | `CameraExclusive` without the timing assumption below | violated |
| `sei_inject` | `EpochIsInjected`, `NalRoundTrip`; liveness `BoxesConverge` | holds |
| `aqc_ladder` | `UpAfterQuiet`, `BadEntryStaysAlone`; liveness `Degrades`, `Recovers` | holds |
| `engine_lifecycle` | `OneRingOwner`, `CleanExit`; liveness `ShutdownEnds`, `NoOrphan` | holds |
| `tx_supervisor` | `NoOrphan`, `PrepAlone`, `WedgedQuiet`, `StartsSpaced`; refinement `ImplementsCamera`; liveness `MainReturns`, `DeathNoticed` | holds |
| `tx_single_flight` | `SingleFlight` | violated |
| `rx_supervisor` | `StopWins`, `OnlyDeadLinksDropped` with prompt readers; liveness `Reconciles`, `QuitEnds` | holds |
| `rx_stale_reader` | `OnlyDeadLinksDropped` with late readers | violated |
| `link_framing` | refinement `ImplementsChannel`; liveness `HeardAfterQuiet` | holds |
| `feedback` | `HeardInThree`, `NeverBack` | holds |
| `key_frame_loop` | `FreezeNoticed`; liveness `PictureReturns` | holds |

The runs of `CaptureRing`, `EngineLifecycle` and `RxSupervisor` also check
`TypeOK`; that every module keeps its types is a theorem. The
sentence above each property in its module says what it means and which lines
promise it.

### What the violated runs show

- **`capture_ring_handoff`**: the capture thread posts a slot to inference before
  it marks it as the encoder's. If a whole detection fits in between, inference
  finds no mark and requeues the slot, and capture then sends it to the encoder.
  `OneDisposition` and `LeakOnlyAtCrash` fail with it in the same way. What the race
  cannot do is lose a slot: `NoSlotLostThm` and `AtMostTwoPinnedThm` hold with it.
- **`tx_single_flight`**: `subprocess.run` kills the shell that timed out, not the
  `v4l2-ctl` below it; the lock is released and the next START runs a second one.
  It is the threshold of 2 that allows it: with `UAV_CAM_WEDGE_FAIL_THRESHOLD=1` the
  property is a theorem (`SingleFlightAtOne`).
- **`rx_stale_reader`**: the reader of an old connection that is busy stopping the
  viewer while the program reconnects closes the new connection. Late readers are
  the only way to it: without them the property is a theorem
  (`OnlyDeadLinksDroppedThm`).

### Other places where code and comments disagree

Met while modelling, without a run of their own:

- `uav_tx.py:778`: the watcher reads the engine's output to its end before it waits
  for the engine (line 798), and `uav_enc` inherits that pipe
  (`main_yolox.cpp:259-274`). When `app_m5` dies and its encoder hangs, the dead
  engine stays tracked, no error is reported and every START is answered "already
  running" (line 899) until a STOP or the end of the session, against "on
  exit-while-RUNNING report + go READY" (line 769). `DeathNoticed` is therefore
  promised from the end of the output on: with `e \notin alive` alone before its `~>`
  TLC refutes it.
- `stream_enc.cpp:228-229` says that `interval-intraframes` "alone already yields
  periodic IDRs", and `stream_enc.cpp:129-130` that a late viewer gets the boxes at the
  next one; `uav_view.py:39-40`, `uav_rx.py:697-698` and `uav_rx.py:846-847` say that
  the stream has no periodic IDR and that a late viewer waits for ever. Which is right
  depends on the encoder and is not decided here: the second half of `BoxesConverge`
  has `KeyFramesRecur` for a hypothesis, and `KeyFrameLoop` works without it. Without
  the hypothesis, boxes that were lost, or that a viewer started anew has not seen,
  need not come back before they change, and TLC shows it.
- `uav_tx.py:414`: the telemetry thread runs `v4l2-ctl --get-ctrl` once a second (lines
  241-256), also during a preparation and on a wedged camera, against "no v4l2-ctl ->
  nothing more piles on" (lines 277-280). `CameraGuard`, `PrepAlone` and `WedgedQuiet`
  are about preparations and engines; this query is outside them.
- `uav_tx.py:804`: the watcher of a dead engine clears `want_stream` outside the
  lock; a START in between loses its wish, against line 270.
- `main_yolox.cpp:1138`: frames reach inference only while `g_stream_b` is set, so
  that after a failed spawn, announced as detection only, nothing is detected.
- `main_yolox.cpp:287`: a handshake that fails half way leaves a ring that
  `start_camera` cannot use.
- `main_yolox.cpp:1143`: a second slot is pinned during a detection although the
  comments say one; `AtMostTwoPinned` is what holds.
- `uav_rx.py:925`: a start that shows frames for two seconds and then nothing for
  six is scored as a recovery, against 914-921.
- `uav_rx.py:990`: `resume_on_reconnect` can start beside the stream supervisor,
  against "can never double-fire" (340-343, 880-882).
- `uav_enc.cpp:558`: with `YOLO_AQC_CAP=1` a reading over the capacity does not
  restart the up-timer.
- `uav_enc.cpp:199-270`: the levels are never sorted or checked to descend, and a
  blank after `@` does not separate: `3000@ 2000` reads the second as a frame rate.
- `uav_enc.cpp:483`: hints come every 1.0 s and the throttle is 1.112 s, so every
  second request for a key frame is refused.
- `uav_enc.cpp:463`: three late reports are enough to go back; that takes a network
  that is late by four seconds, and with `Capacity = 4` `NeverBack` fails.
- `camera.cpp:854-880`: a scene that is clipped at its target brightness makes the
  exposure swing between two values, against "no hunting".
- `imu_roll.h:262`: `valid` stays set when the reads begin to fail, and the last
  roll goes on being sent as a live one.

### Bounds

| module | bound | why it is enough |
|---|---|---|
| `CaptureRing` | 3 slots of 8; detection on every 2nd frame of 3; 1 unstable frame; 1 message per slot and place (2 in the violation run) | at most two slots are pinned and one is in capture's hands, so three show every combination, and a ring of three can be emptied; the proofs are for any ring |
| `Exposure` | about 280 starting settings, among them the one the program starts with (8000 and 6), in thousandths of a level; 37 scenes over and beyond the range of 100 to 1 066 624, each with 36 places where it begins to clip; the constants are the code's | every gain from 1 to 64 and both ends are met; the proof is for every setting and scene |
| `SeiInject` | 5 box sets, 2 in the socket | the probe holds one epoch, one copy and one committed epoch: a third change is the one that can be confused |
| `SeiCodec` | payloads of up to 6 bytes of 0, 1, 3, 4; a UUID of 3 bytes; size codes continued at 8 in place of 255 | two escapes in a row fit, and sizes lie on both sides of the continuation; the proof is for any payload |
| `AqcLadder` | 3 levels, times of 1 to 3 ticks in place of 0.5 to 12 s | the holds keep their order (dwell < down < up); the safety proof is for any ladder and times |
| `LadderConfig` | 5 tokens after the first entry, 2 numbers (0 and 30), 3 levels at most | a bad entry between two good ones, and a list that is too long; the proof is for texts of any length |
| `EngineLifecycle` | 3 buffers of 8 | none, part and all of the ring handed over; the proofs are for any ring |
| `TxSupervisor` | 2 engines, each with an encoder that may outlive it, restart interval 1 (2 in the violation run), threshold 2, 1 left-over `v4l2-ctl` (2) | two engines are what a late watcher can confuse; the threshold is the code's |
| `RxSupervisor` | 2 keys, 1 fault (2 faults and 1 key in the violation run), 1 late reader, 2 retries, times of 1 to 4 ticks | START then STOP or q, in every place of an outage; one fault leads to any number of retries |
| `LinkFraming` | 2 senders, 2 messages, payloads of 2 bytes; the length limit is the code's | a second message is what the remains of the first can swallow; the proof is for any number of senders and messages, with payloads of one length from 1 to 255 bytes for all of them |
| `Feedback` | 3 datagrams under way, 5 reports, 2 viewers | one report a second and none late by more than 3 s; the proofs are for any number of reports and viewers |
| `KeyFrameLoop` | a tick is 100 ms: gate 2, hold 5, hint 10, throttle 12 | the times of the code, the throttle rounded up; the safety proof is for any times |

Every bound is a CONSTANT named as such; the guards that use it are the only
place where the model stops earlier than the code.

### Fairness

Weak fairness of code that runs by itself, and strong fairness only of what a lossy
network lets through now and then:

- `CaptureRing`: the threads, the child's loop, the release of a pushed frame.
  Not: frames failing, the child dying, the AQC thread, the key.
- `SeiInject`: the child stores what it receives, units keep coming, the probe
  finishes. Nothing of key frames: that they recur, and that of infinitely many
  infinitely many reach the viewer (`KeyFramesRecur`), is a hypothesis of the half of
  `BoxesConverge` that is about the screen, and not of the half about the stream.
- `AqcLadder`: the loop iterates with time passing (it waits 250 ms at most).
- `EngineLifecycle`: `main` and the child do their next step when it is enabled,
  either outcome. No thread is promised to meet its join, no error or frame to
  come.
- `TxSupervisor`: the main thread inside a start or a stop (every call it waits in
  has a timeout), time, and a watcher except for its wait: that it leaves its loop over
  the engine's output is promised only at the end of the output (`OutputEnded`), when
  the engine and its encoder are gone. Not: RX, NIC, camera, the engine, which may
  survive even SIGKILL, nor its encoder, which may hang for ever.
- `RxSupervisor`: all threads, time, the end of a viewer that was told to, and a
  board that is looked for answers. Faults are bounded by `MaxFaults`, not fair.
- `LinkFraming`: the receiver reads what is there, and `sendall` goes on or raises.
  No timeout is promised: where nobody sends, nothing has to be heard.
- `KeyFrameLoop`: timers and the feedback sender; strongly, of the hints, reports
  and key frames that are sent again and again not all are lost. No key frame
  comes by itself: the periodic ones of the encoder are left out, so that
  `PictureReturns` is about the requests alone.
- `Feedback` has safety properties only.

`CHECK_DEADLOCK FALSE` stands where the system stops (a termination, `q`) or where
a bound on messages lets it run dry (`LinkFraming`, `Feedback`).

### Assumptions

- `KeyFramesRecur` (`SeiInject`): the encoder makes key frames without being asked and
  not all of them are lost. Assumed by the second half of `BoxesConverge` alone;
  the repository contradicts itself about it, as said above.
- `InferenceOutlastsHandoff` (`CaptureRing`): a detection does not end between
  the post of a slot and its mark a few lines below. TRUE in `capture_ring`, assumed
  by the theorems that say who works on a slot (`CameraExclusiveThm`, `OneDispositionThm`,
  `LeakOnlyAtCrashThm`, `ImplementsOwnershipThm`, `CameraHasTheRest`) and by no other;
  `capture_ring_handoff` shows what happens without.
- `PromptReaders` (`RxSupervisor`): a reader sees that its socket was closed
  before the program has reconnected. TRUE in `rx_supervisor`, because liveness
  fails otherwise, and assumed by `OnlyDeadLinksDroppedThm`; `StopWinsThm` does not
  need it.
- `AeConstants` (`CaptureRing_proofs`): the limits of exposure and gain and the dead
  band are those of `camera.cpp:746-752`, the target any that `AE_TARGET` can set.
- `Capacity <= Resync` (`NeverBackThm`; 3 in the run): no report is late by more than
  three of its kind. `HeardInThreeThm` holds for any number of datagrams under way.
- `KeyFrameLoop` is about a configuration with the requests switched on at both
  ends (`--freeze`, `UAV_RX_REQIDR`, `YOLO_ONDEMAND_IDR`); they are off by default.
  The feedback sender between viewer and board (`bpir3_fb.py`) is not in the
  repository and modelled from how `uav_view.py:460-463` describes it. A picture
  that is damaged but goes on being decoded is not LOST, in the code either.

## What is proved

For all values of the constants, by TLAPS:

| module | theorem | inductive invariant |
|---|---|---|
| `CaptureRing_proofs` | `TypeCorrect`, `NoSlotLostThm`, `NothingLeaksAlive`, `AtMostTwoPinnedThm` | `RingInv`: a slot pinned for inference is in the mailbox or with inference; while the child lives, a slot marked for the encoder is in capture's hands or on its way to the child or back; none out of the driver's hands is with nobody |
| | `CameraExclusiveThm`, `OneDispositionThm`, `LeakOnlyAtCrashThm`, `ImplementsOwnershipThm`, `CameraHasTheRest` | `Marks`, beside it: marks cover uses, and a slot in the camera has neither mark nor user |
| | `AutoExposureSettlesThm` (of `Exposure`) | none, it is about a function |
| `SeiInject_proofs` | `TypeCorrect`, `EpochIsInjectedThm`, `BoxesGoForward` | the loaded epoch is at most the current one, and when equal at the end of the copy the copy is the payload; from the screen back to the detection the boxes become newer (`Pipeline`) |
| | `EscapeRoundTrip`, `RoundTrip`, `NalRoundTripThm` (of `SeiCodec`) | what has been written after each byte, see below |
| `AqcLadder_proofs` | `TypeCorrect`, `UpAfterQuietThm`, `NotOverdueThm` | the up-timer is at most the quiet time and the time since the last change |
| | `EntriesAreMeant`, `BadEntryStaysAloneThm` (of `LadderConfig`) | where the parser starts an entry, see below |
| `TxSupervisor_proofs` | `TypeCorrect`, `NoOrphanThm`, `PrepAloneThm`, `WedgedQuietThm`, `StartsSpacedThm`, `ImplementsCameraThm`, `WedgedUnused`, `TrackedIsWatched`, `SingleFlightAtOne` | what is tracked, wanted and stopping at each place of the main thread and the watchers; for the refinement also that only engines that were started live (`Started`); the tracked engine has a watcher (`Watched`); at a threshold of 1 nothing hangs in the driver before the camera is wedged (`LeftBehind`) |
| `RxSupervisor_proofs` | `TypeCorrect`, `StopWinsThm`, `RetriesAreWanted`, `OnlyDeadLinksDroppedThm` | a board that streams unwanted has a STOP on its way to it: in the console, or in the thread that saw the wish change; what is pending is wanted (`Due`), and the failures counted and the starts under way exceed the cap by one at most (`FailBound`); with prompt readers, a connection has no reader of an older one beside it (`NoReaderLeft`) |
| `EngineLifecycle_proofs` | `TypeCorrect`, `OneRingOwnerThm`, `CleanExitThm`, `WaitsEnd` | what `main` holds at each of its places (`Taking` on the way up, `Giving` on the way down), and that a child without a socket has been reaped (`Unlinked`); a socket has a child at its other end until it is closed (`Linked`) |
| `LinkFraming_proofs` | `TypeCorrect`, `FramingImplementsChannel`, `NothingHeardTwice` | the first bytes of messages are on the wire in the order they were begun, and whatever starts ahead of the receiver is newer than what it heard |
| `Feedback_proofs` | `TypeCorrect`, `HeardInThreeThm`, `NeverBackThm` | the reading is the last one taken, and the old reports still under way and those counted in `stale_run` are together fewer than three, when no more are under way than that can be refused (`FewLate`) |
| | `LoopTypeCorrect`, `FreezeNoticedThm` (of `KeyFrameLoop`) | while the gate does not say LOST, the picture has aged since its last look by no more than its timer has run (`AgeSinceGate`) |

Each proof has the same shape: `Init => IInv`, `IInv /\ [Next]_vars => IInv'` with
one step per action and one below it per conjunct the action can disturb, and
`IInv => property`. The properties are not inductive themselves: `CameraExclusive`
says nothing about the marks the threads decide by, `EpochIsInjected` nothing
about a probe in the middle of its work, `StopWins` nothing about the threads
that are between their checks and their sends, `CleanExit` nothing about what is
still held before the end, `NeverBack` nothing about datagrams under way.
`LeakOnlyAtCrashThm` needs no further invariant: while the child lives nothing is
leaked, and afterwards each step keeps the set.

A refinement is also used the other way round: what is easy to prove of the abstract
specification holds of the code's model. `CameraHasTheRest` (a slot is with the driver
exactly when it has no reader) comes from `SlotOwnership`, `WedgedUnused` from
`CameraGuard`, `NothingHeardTwice` from `LossyChannel`. And liveness, which the provers
cannot reach, has a safety half that they can: a tracked engine always has a watcher that
will notice its death (`TrackedIsWatched`, for `DeathNoticed`), a slot out of the
driver's hands is always with somebody who will give it back (`NoSlotLostThm`, for
`SlotReturns`), `main` waits only for a child that is there and was hung up on
(`WaitsEnd`, for `ShutdownEnds` and `NoOrphan`), boxes never give way to older ones
(`BoxesGoForward`, for `BoxesConverge`), a link that stays bad is not left at its level
beyond the two holds (`NotOverdueThm`, for `Degrades`), and a retry that is due is still
wanted and given up at the cap (`RetriesAreWanted`, for `Reconciles`).

The pure functions are proved over all their inputs, not over the bounded ones of
the runs:

- `AutoExposureSettlesThm`: `Progress` for every setting in range and every scene.
  The products and quotients of a correction are bounded step by step (`TheGain`,
  `DecomposeNear`), each against the exact level in thousandths.
- `EscapeRoundTrip`: what the viewer unescapes is what the child escaped, whatever
  the bytes. Its invariant is what has been written after `k` bytes: it holds no
  start code, and `zeros` counts the zeros at its end. `RoundTrip` goes from there
  to the whole unit: whatever payload the child puts before an access unit that
  begins with a start code is the one payload the viewer finds there.
- `EntriesAreMeant`: the parser reads from every text whose entries have no blank
  inside, however long, what its entries say one by one. `Turn` says where the
  parser starts an entry; from one such place to the next at most one place gives a
  level (`OneTurn`).

Parser, escaping and messages are functions defined by recursion over the places
of a sequence, so that three things are proved of each: that there is such a
function (a value at one place only needs those behind it or before it), what one
step of it does, and by induction what the whole does. The induction is over sets of
numbers (`LeastNumber`: a set of numbers that is not empty has a least element),
because theorems about operators cannot be instantiated here.

The assumptions are the `ASSUME`s on the constants and, besides:
`InferenceOutlastsHandoff` for the theorems that say who works on a slot (the marks
cover the uses only with it: a slot can otherwise be posted, used and given back before
its mark is set, as `capture_ring_handoff` shows), `AeConstants` for
`AutoExposureSettlesThm`, `PromptReaders` for `OnlyDeadLinksDroppedThm`,
`Capacity <= Resync` for `NeverBackThm`, `WedgeThreshold = 1` for `SingleFlightAtOne`.

Only model-checked: the liveness properties (fairness and ENABLED are out of the
prover's reach). They are `SlotReturns`, `TerminationEnds`, `BoxesConverge`,
`Degrades`, `Recovers`, `ShutdownEnds`, the `NoOrphan` of `EngineLifecycle`,
`MainReturns`, `DeathNoticed`, `Reconciles`, `QuitEnds`, `HeardAfterQuiet` and
`PictureReturns`. Every safety property and every refinement of a passing run is a
theorem.

## Not modelled

- Pixels, drawing, the neural network and NMS: no control. `image.cpp`,
  `box.cpp` and `wayland.cpp` are not in the repository.
- IMU roll: floating-point filtering with one writer and two atomic outputs.
- The box sidecar (`bbox_udp`) and its socket in the viewer: output only on the
  board, and off whenever boxes travel in the stream. The recording of a file and
  the held-frame badge of the viewer.
- Telemetry, CSV log, clock offset, AP poller: they report and decide nothing.
- Configuration and service files: values, which are constants of the modules.
- Test programs (`aqc_selftest`, `host_sei_test`, `sei_e2e_test`,
  `sei_roll_harness`): read as documentation of what ladder and codec promise.
- GStreamer, mmngr, V4L2, TCP: external, modelled as far as the code relies on
  them (a released buffer is reported once, a socket of a dead process ends).

## Plan

Done, the most important behaviour first: who may touch a frame (`SlotOwnership`,
`CaptureRing`), the camera that breaks for good (`TxSupervisor`), boxes in the
stream (`SeiInject`), the bitrate ladder (`AqcLadder`), restarts against the
operator (`RxSupervisor`), start and teardown (`EngineLifecycle`), the link's bytes
(`LinkFraming`), reports (`Feedback`), the way back from a frozen picture
(`KeyFrameLoop`), and the pure functions (`SeiCodec`, `LadderConfig`, `Exposure`).

Left, in this order:

1. `Session`: `TxSupervisor` and `RxSupervisor` over one link, in place of the
   external board of `RxSupervisor`, with the abstract promise "the board streams
   only while the ground station wants it" and its refinement.
2. The overlay of the viewer with both sources of boxes (SEI and sidecar) and their
   ages, and the recording with its end-of-stream fallback (`uav_view.py`).
