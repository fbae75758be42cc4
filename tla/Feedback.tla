------------------------------ MODULE Feedback ------------------------------
(***************************************************************************)
(* The reports of the viewer to the encoder's feedback thread: one UDP     *)
(* datagram a second with a sequence number (fb_tick of uav_view.py), which*)
(* the thread takes when it is newer than the last one it took, or when it *)
(* is the third in a row that is not (fb_thread of uav_enc.cpp). The third *)
(* lets a viewer in that was started anew and counts from one again; it    *)
(* must not let late reports of the same viewer in.                        *)
(*                                                                         *)
(* The network loses, repeats and reorders datagrams. It has at most       *)
(* Capacity of them under way: at one a second, none is late by more than  *)
(* Capacity seconds.                                                       *)
(***************************************************************************)
EXTENDS Integers, FiniteSets

CONSTANTS
  Capacity,    \* datagrams under way
  MaxSeq,      \* bound: reports of one viewer
  MaxViewers   \* bound: viewers started

ASSUME CapacityAssumption == Capacity \in Nat
ASSUME BoundsAssumption == MaxSeq \in Nat /\ MaxViewers \in Nat \ {0}

Resync == 3    \* old datagrams in a row until one is taken all the same

Datagrams == [viewer : 1..MaxViewers, seq : 1..MaxSeq, copy : BOOLEAN]
Nothing == [viewer |-> 0, seq |-> 0]

VARIABLES
  viewer,      \* the viewer that runs, numbered
  seq,         \* fb["seq"] of it
  net,         \* datagrams under way
  last_seq,    \* of the feedback thread
  have_seq,
  stale_run,
  reading,     \* the report that the ladder works with
  row          \* history: datagrams of the running viewer that arrived in a row

viewerVars == <<viewer, seq>>
threadVars == <<last_seq, have_seq, stale_run, reading>>
vars == <<viewerVars, net, threadVars, row>>

TypeOK ==
  /\ viewer \in 1..MaxViewers /\ seq \in 0..MaxSeq
  /\ net \subseteq Datagrams
  /\ Cardinality(net) <= Capacity
  /\ last_seq \in 0..MaxSeq /\ have_seq \in BOOLEAN
  /\ stale_run \in 0..(Resync - 1)
  /\ reading \in {Nothing} \cup [viewer : 1..MaxViewers, seq : 1..MaxSeq]
  /\ row \in 0..Resync

NewThread == /\ last_seq = 0 /\ have_seq = FALSE /\ stale_run = 0
             /\ reading = Nothing

Init == viewer = 1 /\ seq = 0 /\ net = {} /\ NewThread /\ row = 0

-----------------------------------------------------------------------------
\* fb_tick: the number goes up whether or not sendto succeeds; the network
\* takes the datagram, twice perhaps, or not.
Send ==
  /\ seq < MaxSeq /\ seq' = seq + 1
  /\ \E copies \in SUBSET BOOLEAN :
       net' = net \cup [viewer : {viewer}, seq : {seq + 1}, copy : copies]
  /\ Cardinality(net') <= Capacity
  /\ UNCHANGED <<viewer, threadVars, row>>

Lose == /\ \E d \in net : net' = net \ {d}
        /\ UNCHANGED <<viewerVars, threadVars, row>>

\* The supervisor starts another viewer.
ViewerRestart ==
  /\ viewer < MaxViewers /\ viewer' = viewer + 1 /\ seq' = 0 /\ row' = 0
  /\ UNCHANGED <<net, threadVars>>

\* The engine is started again, and its feedback thread knows nothing.
ThreadRestart ==
  /\ last_seq' = 0 /\ have_seq' = FALSE /\ stale_run' = 0 /\ reading' = Nothing
  /\ row' = 0
  /\ UNCHANGED <<viewerVars, net>>

IsOld(d) == have_seq /\ d.seq <= last_seq

\* Mutant: the count of old datagrams is kept when one is taken.
AcceptKeepsRun(d) ==
  /\ last_seq' = d.seq /\ have_seq' = TRUE
  /\ stale_run' = IF stale_run = Resync - 1 THEN 0 ELSE stale_run
  /\ reading' = [viewer |-> d.viewer, seq |-> d.seq]

Accept(d) ==
  /\ last_seq' = d.seq /\ have_seq' = TRUE /\ stale_run' = 0
  /\ reading' = [viewer |-> d.viewer, seq |-> d.seq]

\* Mutant: an old datagram is refused for good.
RefuseAlways(d) == UNCHANGED threadVars

Refuse(d) ==
  /\ stale_run + 1 < Resync /\ stale_run' = stale_run + 1
  /\ UNCHANGED <<last_seq, have_seq, reading>>

\* One datagram of the board's peer is received by fb_thread.
Receive(d) ==
  /\ net' = net \ {d}
  /\ IF ~IsOld(d) THEN Accept(d)
     ELSE Refuse(d) \/ (stale_run + 1 >= Resync /\ Accept(d))
  /\ row' = IF d.viewer # viewer THEN 0 ELSE IF row < Resync THEN row + 1 ELSE row
  /\ UNCHANGED viewerVars

Next == Send \/ Lose \/ ViewerRestart \/ ThreadRestart \/ \E d \in net : Receive(d)

Spec == Init /\ [][Next]_vars

-----------------------------------------------------------------------------
\* A viewer that was started anew is not shut out by the numbers of the one
\* before it: when three of its reports have arrived and nothing else did in
\* between, the ladder works with a report of it (uav_enc.cpp:460-466).
HeardInThree == row = Resync => reading.viewer = viewer

\* The way in for a new viewer is none for late or repeated reports of the
\* present one: the ladder never goes back to an older report of it. That takes
\* a network that is late by no more datagrams than Resync.
NeverBack ==
  [][reading.viewer = viewer /\ reading'.viewer = viewer'
       => reading'.seq >= reading.seq]_vars
=============================================================================
