---------------------------- MODULE CaptureRing ----------------------------
(***************************************************************************)
(* The zero-copy capture ring of app_m5 (TX/engine_app_src/main_yolox.cpp) *)
(* in its streaming mode (g_stream_b), together with the uav_enc child     *)
(* that encodes the frames (TX/engine_enc_src/uav_enc.cpp).                *)
(*                                                                         *)
(* Processes: the camera driver, the capture, inference and release        *)
(* threads of the application, the child's main loop, its GStreamer        *)
(* pipeline and its AQC thread. A step of a thread is what it does between *)
(* two points where another one can be seen to act: a lock region, a       *)
(* system call.                                                            *)
(*                                                                         *)
(* The two directions of the socketpair are bags of slot numbers: which of *)
(* two queued messages is read first makes no difference to who owns a     *)
(* slot. Pixels, box sets and statistics are left out.                     *)
(***************************************************************************)
EXTENDS Integers, FiniteSets

CONSTANTS
  Slots,                     \* the capture ring (CAP_BUF_NUM = 8 slots)
  NoSlot,                    \* -1: no slot
  DetectEveryN,              \* DETECT_EVERY_N: a detection every N-th frame
  StabilizeFrames,           \* capture_stabe_cnt: frames without detection
  SockBound,                 \* bound: messages about one slot in one place
  InferenceOutlastsHandoff   \* TRUE: a detection (about 47 ms) never ends
                             \* between the capture thread's post of a slot
                             \* and its g_enc_pending mark a few lines below

ASSUME NoSlotAssumption == NoSlot \notin Slots
ASSUME DetectAssumption == DetectEveryN \in Nat \ {0}
ASSUME StabilizeAssumption == StabilizeFrames \in Nat
ASSUME SockBoundAssumption == SockBound \in Nat \ {0}
ASSUME OutlastsAssumption == InferenceOutlastsHandoff \in BOOLEAN

VARIABLES
  camera,      \* slots queued in the V4L2 driver, which may write into them
  encPending,  \* g_enc_pending
  infPending,  \* g_inf_pending
  mailbox,     \* g_inf_idx
  infQuit,     \* g_inf_quit
  term,        \* terminate_req_sem has been taken
  capPc,       \* where the capture thread is
  capIdx,      \* the slot it works on (get_capture_index())
  stable,      \* capture_stabe_cnt
  capCount,    \* s_cap_n modulo DetectEveryN
  infPc,       \* where the inference thread is
  infIdx,      \* cur_idx of the inference thread
  relPc,       \* where the release thread is
  frames,      \* FrameMsgs in the socket, per slot
  encoding,    \* buffers of a slot inside the GStreamer pipeline
  rels,        \* RelMsgs in the socket, per slot
  fpsDiv,      \* g_cur_fps_div of the child
  parity,      \* frame_parity modulo 2
  childAlive   \* the uav_enc process runs

captureVars == <<capPc, capIdx, stable, capCount>>
inferenceVars == <<infPc, infIdx>>
childVars == <<encoding, fpsDiv, parity, childAlive>>
vars == <<camera, encPending, infPending, mailbox, infQuit, term, captureVars,
          inferenceVars, relPc, frames, rels, childVars>>

None == [s \in Slots |-> 0]

TypeOK ==
  /\ camera \in SUBSET Slots
  /\ encPending \in [Slots -> BOOLEAN]
  /\ infPending \in [Slots -> BOOLEAN]
  /\ mailbox \in Slots \cup {NoSlot}
  /\ infQuit \in BOOLEAN
  /\ term \in BOOLEAN
  /\ capPc \in {"loop", "dqbuf", "post", "mark", "send", "recycle", "done"}
  /\ capIdx \in Slots \cup {NoSlot}
  /\ capPc \in {"post", "mark", "send", "recycle"} => capIdx \in Slots
  /\ stable \in 0..StabilizeFrames
  /\ capCount \in 0..(DetectEveryN - 1)
  /\ infPc \in {"wait", "run", "done"}
  /\ infIdx \in Slots \cup {NoSlot}
  /\ infPc = "run" => infIdx \in Slots
  /\ relPc \in {"recv", "done"}
  /\ frames \in [Slots -> Nat]
  /\ encoding \in [Slots -> Nat]
  /\ rels \in [Slots -> Nat]
  /\ fpsDiv \in {1, 2}
  /\ parity \in {0, 1}
  /\ childAlive \in BOOLEAN

Init ==
  /\ camera = Slots
  /\ encPending = [s \in Slots |-> FALSE]
  /\ infPending = [s \in Slots |-> FALSE]
  /\ mailbox = NoSlot
  /\ infQuit = FALSE
  /\ term = FALSE
  /\ capPc = "loop" /\ capIdx = NoSlot
  /\ stable = StabilizeFrames /\ capCount = 0
  /\ infPc = "wait" /\ infIdx = NoSlot
  /\ relPc = "recv"
  /\ frames = None /\ encoding = None /\ rels = None
  /\ fpsDiv = 1 /\ parity = 0
  /\ childAlive = TRUE

-----------------------------------------------------------------------------
(* try_requeue_locked: under g_buf_mtx, a slot no consumer holds goes back  *)
(* to the driver. QBUF of a slot the driver already has fails (and the      *)
(* failure is not looked at), which the union stands for.                   *)

\* Mutant: only the encoder counts.
InUseByEncoder(s, enc, inf) == enc[s]

InUse(s, enc, inf) == enc[s] \/ inf[s]

TryRequeue(s, enc, inf) ==
  camera' = IF InUse(s, enc, inf) THEN camera ELSE camera \cup {s}

-----------------------------------------------------------------------------
(* The capture thread                                                       *)

\* Loop top: look at terminate_req_sem; on a termination leave the loop and
\* tell the inference thread.
CaptureCheck ==
  /\ capPc = "loop"
  /\ IF term THEN capPc' = "done" /\ infQuit' = TRUE
             ELSE capPc' = "dqbuf" /\ UNCHANGED infQuit
  /\ UNCHANGED <<camera, encPending, infPending, mailbox, term, capIdx, stable,
                 capCount, inferenceVars, relPc, frames, rels, childVars>>

\* Mutant: the count is never taken modulo DETECT_EVERY_N.
NextCountUnbounded(n) == n + 1

\* s_cap_n++ % DETECT_EVERY_N
NextCount(n) == (n + 1) % DetectEveryN

\* capture_image(): DQBUF of a filled slot, then the choice of what to do with
\* the frame. The first frames are only streamed, afterwards every N-th one is
\* offered to the inference thread as well.
CaptureDequeue ==
  /\ capPc = "dqbuf"
  /\ \E s \in camera : camera' = camera \ {s} /\ capIdx' = s
  /\ IF stable > 0
       THEN stable' = stable - 1 /\ capPc' = "mark" /\ UNCHANGED capCount
       ELSE /\ capPc' = IF capCount = 0 THEN "post" ELSE "mark"
            /\ capCount' = NextCount(capCount)
            /\ UNCHANGED stable
  /\ UNCHANGED <<encPending, infPending, mailbox, infQuit, term, inferenceVars,
                 relPc, frames, rels, childVars>>

\* capture_image() fails: the thread requests the termination and ends.
CaptureFail ==
  /\ capPc = "dqbuf"
  /\ term' = TRUE /\ capPc' = "done" /\ infQuit' = TRUE
  /\ UNCHANGED <<camera, encPending, infPending, mailbox, capIdx, stable,
                 capCount, inferenceVars, relPc, frames, rels, childVars>>

\* Mutant: posts without looking whether the mailbox is empty.
CapturePostAlways ==
  /\ capPc = "post" /\ capPc' = "mark"
  /\ infPending' = [infPending EXCEPT ![capIdx] = TRUE]
  /\ mailbox' = capIdx
  /\ UNCHANGED <<camera, encPending, infQuit, term, capIdx, stable, capCount,
                 inferenceVars, relPc, frames, rels, childVars>>

\* Under g_inf_mtx: when the mailbox is empty the slot is pinned and posted,
\* otherwise this detection is skipped.
CapturePost ==
  /\ capPc = "post" /\ capPc' = "mark"
  /\ IF mailbox = NoSlot
       THEN /\ infPending' = [infPending EXCEPT ![capIdx] = TRUE]
            /\ mailbox' = capIdx
       ELSE UNCHANGED <<infPending, mailbox>>
  /\ UNCHANGED <<camera, encPending, infQuit, term, capIdx, stable, capCount,
                 inferenceVars, relPc, frames, rels, childVars>>

\* Under g_buf_mtx: the slot is marked as the encoder's.
CaptureMark ==
  /\ capPc = "mark" /\ capPc' = "send"
  /\ encPending' = [encPending EXCEPT ![capIdx] = TRUE]
  /\ UNCHANGED <<camera, infPending, mailbox, infQuit, term, capIdx, stable,
                 capCount, inferenceVars, relPc, frames, rels, childVars>>

\* enc_send_frame: the FrameMsg enters the socket.
CaptureSend ==
  /\ capPc = "send" /\ capPc' = "loop"
  /\ childAlive /\ frames[capIdx] < SockBound
  /\ frames' = [frames EXCEPT ![capIdx] = @ + 1]
  /\ UNCHANGED <<camera, encPending, infPending, mailbox, infQuit, term, capIdx,
                 stable, capCount, inferenceVars, relPc, rels, childVars>>

\* enc_send_frame fails: the socket is full (MSG_DONTWAIT; its room is not
\* modelled, so this may happen at any time) or the child is gone.
CaptureSendFail ==
  /\ capPc = "send" /\ capPc' = "recycle"
  /\ UNCHANGED <<camera, encPending, infPending, mailbox, infQuit, term, capIdx,
                 stable, capCount, inferenceVars, relPc, frames, rels, childVars>>

\* Mutant: a failed send leaves the slot marked as the encoder's.
CaptureRecycleMarked ==
  /\ capPc = "recycle" /\ capPc' = "loop"
  /\ TryRequeue(capIdx, encPending, infPending)
  /\ UNCHANGED <<encPending, infPending, mailbox, infQuit, term, capIdx, stable,
                 capCount, inferenceVars, relPc, frames, rels, childVars>>

\* Under g_buf_mtx: the frame nobody will encode is taken back.
CaptureRecycle ==
  /\ capPc = "recycle" /\ capPc' = "loop"
  /\ encPending' = [encPending EXCEPT ![capIdx] = FALSE]
  /\ TryRequeue(capIdx, encPending', infPending)
  /\ UNCHANGED <<infPending, mailbox, infQuit, term, capIdx, stable, capCount,
                 inferenceVars, relPc, frames, rels, childVars>>

CaptureRun == \/ CaptureCheck \/ CaptureDequeue \/ CapturePost \/ CaptureMark
              \/ CaptureSend \/ CaptureSendFail \/ CaptureRecycle

Capture == CaptureRun \/ CaptureFail

-----------------------------------------------------------------------------
(* The inference thread                                                     *)

\* Woken with a slot in the mailbox: take it, which empties the mailbox.
InfTake ==
  /\ infPc = "wait" /\ ~infQuit /\ mailbox # NoSlot
  /\ infPc' = "run" /\ infIdx' = mailbox /\ mailbox' = NoSlot
  /\ UNCHANGED <<camera, encPending, infPending, infQuit, term, captureVars,
                 relPc, frames, rels, childVars>>

\* Mutant: waits for g_inf_quit without looking at the semaphore.
InfQuitOnFlag ==
  /\ infPc = "wait" /\ infQuit
  /\ infPc' = "done"
  /\ UNCHANGED <<camera, encPending, infPending, mailbox, infQuit, term,
                 captureVars, infIdx, relPc, frames, rels, childVars>>

\* Leaves its wait on g_inf_quit, or on the semaphore when the mailbox is empty.
InfQuit ==
  /\ infPc = "wait" /\ (infQuit \/ (mailbox = NoSlot /\ term))
  /\ infPc' = "done" /\ infQuit' = TRUE
  /\ UNCHANGED <<camera, encPending, infPending, mailbox, term, captureVars,
                 infIdx, relPc, frames, rels, childVars>>

\* The time a detection needs, see InferenceOutlastsHandoff.
HandoffOver == InferenceOutlastsHandoff => ~(capPc = "mark" /\ capIdx = infIdx)

\* Mutant: unpins the slot and leaves the requeue to the release thread.
InfFinishUnpinOnly ==
  /\ infPc = "run" /\ HandoffOver
  /\ infPending' = [infPending EXCEPT ![infIdx] = FALSE]
  /\ infIdx' = NoSlot /\ infPc' = "wait"
  /\ UNCHANGED <<camera, encPending, mailbox, infQuit, term, captureVars, relPc,
                 frames, rels, childVars>>

\* The detection is complete: unpin the slot and requeue it when the encoder
\* is done too. A failing clock read right after it ends the thread.
InfFinish ==
  /\ infPc = "run" /\ HandoffOver
  /\ infPending' = [infPending EXCEPT ![infIdx] = FALSE]
  /\ TryRequeue(infIdx, encPending, infPending')
  /\ infIdx' = NoSlot
  /\ \/ infPc' = "wait" /\ UNCHANGED term
     \/ infPc' = "done" /\ term' = TRUE
  /\ UNCHANGED <<encPending, mailbox, infQuit, captureVars, relPc, frames, rels,
                 childVars>>

\* An error of the DRP-AI runtime: the thread ends and keeps its slot pinned.
InfFail ==
  /\ infPc = "run"
  /\ infPc' = "done" /\ term' = TRUE
  /\ UNCHANGED <<camera, encPending, infPending, mailbox, infQuit, captureVars,
                 infIdx, relPc, frames, rels, childVars>>

Inference == InfTake \/ InfQuit \/ InfFinish \/ InfFail

-----------------------------------------------------------------------------
(* The release thread                                                       *)

\* Mutant: clears the mark and never requeues.
ReleaseRecvClearOnly(s) ==
  /\ relPc = "recv" /\ rels[s] > 0
  /\ rels' = [rels EXCEPT ![s] = @ - 1]
  /\ encPending' = [encPending EXCEPT ![s] = FALSE]
  /\ UNCHANGED <<camera, infPending, mailbox, infQuit, term, captureVars,
                 inferenceVars, relPc, frames, childVars>>

\* A RelMsg: the encoder is done with the slot.
ReleaseRecv(s) ==
  /\ relPc = "recv" /\ rels[s] > 0
  /\ rels' = [rels EXCEPT ![s] = @ - 1]
  /\ encPending' = [encPending EXCEPT ![s] = FALSE]
  /\ TryRequeue(s, encPending', infPending)
  /\ UNCHANGED <<infPending, mailbox, infQuit, term, captureVars, inferenceVars,
                 relPc, frames, childVars>>

\* The child's end of the socket is closed and everything it sent is read.
ReleaseEnd ==
  /\ relPc = "recv" /\ ~childAlive /\ rels = None
  /\ relPc' = "done"
  /\ UNCHANGED <<camera, encPending, infPending, mailbox, infQuit, term,
                 captureVars, inferenceVars, frames, rels, childVars>>

-----------------------------------------------------------------------------
(* The child                                                                *)

\* With fps_div 2 every second frame is dropped.
Drops(p) == fpsDiv >= 2 /\ p = 0

\* Mutant: a dropped frame is forgotten, no RelMsg is sent.
ChildDropSilent(s) ==
  /\ childAlive /\ frames[s] > 0 /\ Drops(1 - parity)
  /\ frames' = [frames EXCEPT ![s] = @ - 1]
  /\ parity' = 1 - parity
  /\ UNCHANGED <<camera, encPending, infPending, mailbox, infQuit, term,
                 captureVars, inferenceVars, relPc, rels, encoding, fpsDiv,
                 childAlive>>

\* Mutant: after the RelMsg the frame falls through to the push.
ChildDropAndPush(s) ==
  /\ childAlive /\ frames[s] > 0 /\ Drops(1 - parity)
  /\ frames' = [frames EXCEPT ![s] = @ - 1]
  /\ rels' = [rels EXCEPT ![s] = @ + 1]
  /\ encoding' = [encoding EXCEPT ![s] = @ + 1]
  /\ parity' = 1 - parity
  /\ UNCHANGED <<camera, encPending, infPending, mailbox, infQuit, term,
                 captureVars, inferenceVars, relPc, fpsDiv, childAlive>>

\* The frame is dropped and answered with a RelMsg at once.
ChildDrop(s) ==
  /\ childAlive /\ frames[s] > 0 /\ Drops(1 - parity)
  /\ frames' = [frames EXCEPT ![s] = @ - 1]
  /\ rels' = [rels EXCEPT ![s] = @ + 1]
  /\ parity' = 1 - parity
  /\ UNCHANGED <<camera, encPending, infPending, mailbox, infQuit, term,
                 captureVars, inferenceVars, relPc, encoding, fpsDiv, childAlive>>

\* stream_enc_push: the buffer enters the pipeline; when it cannot (dup or the
\* allocator fails) on_release is called before the call returns.
ChildPush(s) ==
  /\ childAlive /\ frames[s] > 0 /\ ~Drops(1 - parity)
  /\ frames' = [frames EXCEPT ![s] = @ - 1]
  /\ \/ encoding' = [encoding EXCEPT ![s] = @ + 1] /\ UNCHANGED rels
     \/ rels' = [rels EXCEPT ![s] = @ + 1] /\ UNCHANGED encoding
  /\ parity' = 1 - parity
  /\ UNCHANGED <<camera, encPending, infPending, mailbox, infQuit, term,
                 captureVars, inferenceVars, relPc, fpsDiv, childAlive>>

\* The last reference to the dma-buf memory drops: release_notify.
ChildRelease(s) ==
  /\ childAlive /\ encoding[s] > 0
  /\ encoding' = [encoding EXCEPT ![s] = @ - 1]
  /\ rels' = [rels EXCEPT ![s] = @ + 1]
  /\ UNCHANGED <<camera, encPending, infPending, mailbox, infQuit, term,
                 captureVars, inferenceVars, relPc, frames, fpsDiv, parity,
                 childAlive>>

\* The AQC thread applies a level with the other frame rate.
ChildSwitchFps ==
  /\ childAlive
  /\ fpsDiv' = 3 - fpsDiv
  /\ UNCHANGED <<camera, encPending, infPending, mailbox, infQuit, term,
                 captureVars, inferenceVars, relPc, frames, rels, encoding,
                 parity, childAlive>>

\* The child dies: what it had not read or not released is gone.
ChildCrash ==
  /\ childAlive /\ childAlive' = FALSE
  /\ frames' = None /\ encoding' = None
  /\ UNCHANGED <<camera, encPending, infPending, mailbox, infQuit, term,
                 captureVars, inferenceVars, relPc, rels, fpsDiv, parity>>

\* ENTER in the key hit thread requests the termination.
KeyHit ==
  /\ ~term /\ term' = TRUE
  /\ UNCHANGED <<camera, encPending, infPending, mailbox, infQuit, captureVars,
                 inferenceVars, relPc, frames, rels, childVars>>

-----------------------------------------------------------------------------
ForSlot(s) == ReleaseRecv(s) \/ ChildDrop(s) \/ ChildPush(s) \/ ChildRelease(s)

Next == \/ Capture \/ Inference \/ ReleaseEnd \/ (\E s \in Slots : ForSlot(s))
        \/ ChildSwitchFps \/ ChildCrash \/ KeyHit

Spec == Init /\ [][Next]_vars

(* Threads that can run do run, a detection ends, the pipeline releases what *)
(* it was given and the messages of a stream socket are read in order, so   *)
(* each of them is read. Nothing is assumed about faults, the AQC thread or *)
(* the key.                                                                 *)
Fairness == /\ WF_vars(CaptureRun) /\ WF_vars(Inference) /\ WF_vars(ReleaseEnd)
            /\ \A s \in Slots : /\ WF_vars(ReleaseRecv(s))
                                /\ WF_vars(ChildDrop(s) \/ ChildPush(s))
                                /\ WF_vars(ChildRelease(s))

FairSpec == Spec /\ Fairness

-----------------------------------------------------------------------------
(* Properties                                                               *)

\* The frame of slot s is on its way to the encoder or inside it.
EncUses(s) == frames[s] + encoding[s] > 0

\* The DRP-AI reads slot s.
InfUses(s) == infPc = "run" /\ infIdx = s

\* The capture thread has slot s in its hands.
CaptureHolds(s) == capPc \in {"post", "mark", "send", "recycle"} /\ capIdx = s

\* "A slot must be re-QBUF'd to the camera ONLY when BOTH consumers are done"
\* (main_yolox.cpp:88-91): the driver never has a slot the encoder still has to
\* read or the DRP-AI reads, nor one the capture thread is still working on, so the
\* frame it posts or sends is the frame it dequeued.
CameraExclusive == \A s \in camera : ~EncUses(s) /\ ~InfUses(s) /\ ~CaptureHolds(s)

\* A slot out of the driver's hands is in somebody's who will give it back: no
\* order of releases, detections and failed sends loses one, except that what
\* the child had is lost with it.
NoSlotLost == \A s \in Slots \ camera :
  \/ CaptureHolds(s)
  \/ s \in {mailbox, infIdx}
  \/ frames[s] + encoding[s] + rels[s] > 0
  \/ ~childAlive

\* "every frame gets exactly one disposition" (uav_enc.cpp:679-684), on_release
\* "EXACTLY ONCE per call" (stream_enc.h): a slot is never in two places of the
\* child's pipeline, so no RelMsg is answered to a later use of the slot.
OneDisposition == \A s \in Slots : frames[s] + encoding[s] + rels[s] <= 1

\* Inference keeps at most two slots from the camera: the one it works on and
\* the one in the mailbox (main_yolox.cpp:102-104 and 1132 say one).
AtMostTwoPinned == Cardinality({s \in Slots : infPending[s]}) <= 2

\* Slots the child took with it: marked as the encoder's, with no message left
\* that would clear the mark.
Leaked == {s \in Slots : /\ encPending[s] /\ ~CaptureHolds(s)
                         /\ frames[s] + encoding[s] + rels[s] = 0}

\* After the child's death the application keeps running on the slots that are
\* left: no later frame, although its send fails, costs another one.
LeakOnlyAtCrash == [][Leaked' # Leaked => childAlive /\ ~childAlive']_vars

\* The ring as the buffer comment describes it.
readers == [s \in Slots |->
     (IF capPc \in {"post", "mark"} /\ capIdx = s THEN {"capture"} ELSE {})
     \cup (IF encPending[s] THEN {"encoder"} ELSE {})
     \cup (IF infPending[s] THEN {"inference"} ELSE {})]

Ownership == INSTANCE SlotOwnership
               WITH atCamera <- camera,
                    Readers <- {"capture", "encoder", "inference"}

\* Every step of the threads takes, shares, hands over or drops a slot as
\* SlotOwnership says: the last reader, and only it, returns it to the camera.
ImplementsOwnership == Ownership!Spec

\* While the child lives and nobody asked for the end, every slot that leaves
\* the camera comes back to it: the camera never starves.
SlotReturns == \A s \in Slots :
  s \notin camera ~> s \in camera \/ ~childAlive \/ term

\* A requested termination ends both loops; the capture thread can be left in
\* DQBUF only by a ring the dead child has emptied.
TerminationEnds == term ~> /\ infPc = "done"
                           /\ capPc = "done" \/ (camera = {} /\ ~childAlive)
=============================================================================
