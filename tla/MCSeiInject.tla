---------------------------- MODULE MCSeiInject ----------------------------
(* SeiInject for TLC, with the codec its payloads go through.              *)
EXTENDS SeiInject, SeiCodec

SmallUuid == <<7, 9, 6>>

\* "RBSP emulation-prevention ... is applied to everything AFTER the 2-byte NAL
\* header" (sei_box.h:152-153): of whatever bytes the boxes in the stream are made
\* (counts, coordinates and a roll near zero are full of zeros), the viewer reads
\* back exactly what the child put in, and the unit behind is cut where it was.
NalRoundTrip == injected # NoBoxes => AllSurvive
=============================================================================
