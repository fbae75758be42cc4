---------------------------- MODULE MCAqcLadder ----------------------------
(* AqcLadder for TLC, with the parser that gives it its levels.            *)
EXTENDS AqcLadder, LadderConfig

\* The table holds the ladder (uav_enc.cpp:78).
ASSUME TableAssumption == LastLevel < MaxLevels

\* "one bad entry must never eat the rest of the ladder" (uav_enc.cpp:208-209):
\* whatever stands between the commas of YOLO_AQC_LEVELS, the level the ladder is
\* on is the one its entry says, as if the others were not there.
BadEntryStaysAlone == MisreadAt[lvl + 1] = {}
=============================================================================
