--------------------------- MODULE MCCaptureRing ---------------------------
(* CaptureRing for TLC, with the exposure control that runs on the frames  *)
(* the capture thread takes.                                               *)
EXTENDS CaptureRing, Exposure

\* Levels of exposure * gain over the whole range of the actuator, and some beyond.
Geometric == {100, 130, 170, 230, 310, 420, 560, 750, 1000, 1300, 1800, 2400, 3200, 4300,
              5700, 7700, 10000, 14000, 16666, 16700, 19000, 25000, 33333, 34000, 48000,
              64000, 90000, 120000, 160000, 220000, 300000, 400000, 550000, 800000, 1066624}
Starts == {[exposure |-> 8000, gain |-> 6], [exposure |-> 101, gain |-> 64],
           [exposure |-> 16666, gain |-> 2], [exposure |-> 12345, gain |-> 3]}
          \cup {Decompose(1000 * Clamp((b * (100 + 4 * k)) \div 100, LevelMin, LevelMax)) : b \in Geometric, k \in 0..7}
SceneLevels == Geometric \cup {60, 2000000}
ClipAt == Geometric \cup {30000000}

\* "A correction factor f = TARGET/mean, damped, drives mean -> TARGET in a few
\* steps" (camera.cpp:726-727), "no hunting" (862), "preventing highlight clipping"
\* (719): whatever the exposure is when the thread takes a frame, with a scene that
\* keeps its light every correction comes nearer to the target without passing it,
\* up to the target or the end of the range, and clipping always ends.
AutoExposureSettles == capPc = "post" => AllProgress
=============================================================================
