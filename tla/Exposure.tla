------------------------------ MODULE Exposure ------------------------------
(***************************************************************************)
(* The software auto exposure of the capture thread (Camera::ae_update,    *)
(* TX/engine_app_src/camera.cpp): every AE_PERIOD-th frame its mean luma   *)
(* and the share of its highlights give a factor, and the level            *)
(* exposure * gain times that factor is taken apart into an exposure that  *)
(* never exceeds the frame period and the smallest gain for it.            *)
(*                                                                         *)
(* Luma is proportional to the level (camera.cpp:723-728), so a scene is   *)
(* the level at which its mean is the target, and the level from which     *)
(* more than AE_CLIP_LIMIT of it is clipped. Corrected levels are in       *)
(* thousandths of a level, which is exact for whole targets.               *)
(***************************************************************************)
EXTENDS Integers

CONSTANTS
  ExpMin, ExpMax,     \* AE_EXP_MIN, AE_EXP_MAX, in microseconds
  GainMin, GainMax,   \* AE_GAIN_MIN, AE_GAIN_MAX
  Target,             \* m_ae_target
  DeadBand,           \* AE_DEADBAND
  StartSettings,      \* bound: the settings a correction starts from
  TargetLevels,       \* bound: the levels at which a scene has the target luma
  ClipLevels          \* bound: the levels from which a scene is clipped

Settings == [exposure : ExpMin..ExpMax, gain : GainMin..GainMax]

ASSUME ExposureAssumption ==
  /\ ExpMin \in Nat \ {0} /\ ExpMax \in Nat /\ ExpMin <= ExpMax
  /\ GainMin \in Nat \ {0} /\ GainMax \in Nat /\ GainMin <= GainMax
  /\ Target \in Nat /\ DeadBand \in Nat
  /\ StartSettings \subseteq Settings /\ TargetLevels \subseteq Nat /\ ClipLevels \subseteq Nat

LevelMin == ExpMin * GainMin
LevelMax == ExpMax * GainMax
Clamp(v, low, high) == IF v < low THEN low ELSE IF v > high THEN high ELSE v

Scenes == [target : TargetLevels, clip : ClipLevels]

-----------------------------------------------------------------------------
Clipped(scene, l) == l >= scene.clip

\* mean - m_ae_target is within the dead band, multiplied out.
InBand(scene, l) ==
  LET off == Target * (l - scene.target)
  IN -DeadBand * scene.target < off /\ off < DeadBand * scene.target

\* L * f: AE_DARKEN_STEP for highlights; else 1 + AE_KP * (target / mean - 1)
\* between AE_FMIN and AE_FMAX.
Corrected(scene, l) ==
  IF Clipped(scene, l) THEN 850 * l
  ELSE Clamp(400 * l + 600 * scene.target, 550 * l, 1600 * l)

\* Mutant: the gain is rounded down.
DecomposeDown(lf) ==
  LET gain == Clamp(lf \div (1000 * ExpMax), GainMin, GainMax)
  IN [exposure |-> Clamp((lf + 500 * gain) \div (1000 * gain), ExpMin, ExpMax), gain |-> gain]

\* Exposure first: the gain is rounded up (by 0.999), the exposure to the nearest.
Decompose(lf) ==
  LET gain == Clamp((lf + 999 * ExpMax) \div (1000 * ExpMax), GainMin, GainMax)
  IN [exposure |-> Clamp((lf + 500 * gain) \div (1000 * gain), ExpMin, ExpMax), gain |-> gain]

Level(setting) == setting.exposure * setting.gain

\* One correction. The level is clamped before it is taken apart.
AeUpdate(scene, setting) ==
  LET l == Level(setting)
  IN IF ~Clipped(scene, l) /\ InBand(scene, l) THEN setting
     ELSE Decompose(Clamp(Corrected(scene, l), 1000 * LevelMin, 1000 * LevelMax))

-----------------------------------------------------------------------------
(* A scene that keeps its light                                             *)

\* Where the exposure comes to rest: the target is met without clipping, or it is
\* out of the actuator's range on that side.
AtRest(scene, l) ==
  \/ InBand(scene, l) /\ ~Clipped(scene, l)
  \/ l = LevelMin /\ (scene.target <= l \/ Clipped(scene, l))
  \/ l = LevelMax /\ scene.target >= l /\ ~Clipped(scene, l)

\* Nearer to the target, from the same side or into the band.
Nearer(scene, l, m) ==
  LET goal == Clamp(scene.target, LevelMin, LevelMax)
  IN (l < m /\ m <= goal) \/ (goal <= m /\ m < l) \/ InBand(scene, m)

\* The target can be met without clipping.
Harmless(scene) == Target * scene.clip > (Target + DeadBand) * scene.target

\* One correction of any setting: it stays at rest; it leaves the clipping behind
\* step by step; else it goes for the target without overshooting, and does not clip
\* a harmless scene again. (A scene that is clipped at its target swings between the
\* last two for ever.)
Progress(scene, setting) ==
  LET k == Level(setting)
      m == Level(AeUpdate(scene, setting))
  IN IF AtRest(scene, k) THEN m = k
     ELSE IF Clipped(scene, k) THEN m < k
     ELSE Nearer(scene, k, m) /\ (Harmless(scene) => ~Clipped(scene, m))

AllProgress == \A scene \in Scenes, setting \in StartSettings : Progress(scene, setting)
=============================================================================
