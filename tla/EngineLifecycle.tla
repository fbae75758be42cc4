--------------------------- MODULE EngineLifecycle ---------------------------
(***************************************************************************)
(* Start and stop of the detection engine: main() of                       *)
(* TX/engine_app_src/main_yolox.cpp takes hold of the DRP-AI driver, forks *)
(* the encoder child and takes over its capture buffers (spawn_uav_enc),   *)
(* starts the camera, creates the threads, waits for a termination request *)
(* and gives everything back; any step may fail and jump to one of the     *)
(* labels end_threads, end_close_camera, end_close_drpai, end_main.        *)
(* Next to it runs main() of TX/engine_enc_src/uav_enc.cpp with its        *)
(* feedback and bus threads, and the six threads of the application, here  *)
(* with their loops reduced to what starting and stopping depend on: the   *)
(* termination semaphore, the flags that pass a frame on, and their errors.*)
(* What a frame does on the way is CaptureRing's and SeiInject's.          *)
(***************************************************************************)
EXTENDS Integers, Sequences

CONSTANT Bufs      \* CAP_BUF_NUM, 8 in the code

ASSUME BufsAssumption == Bufs \in Nat \ {0}

\* pthread_create in main; wait_join at end_threads.
CreateOrder == <<"key", "inf", "cap", "img", "hdmi">>
JoinOrder == <<"hdmi", "img", "cap", "inf", "key">>
Workers == {"key", "inf", "cap", "img", "hdmi"}
Helpers == {"fb", "bus"}

VARIABLES
  pc,           \* where main is
  n,            \* how many threads it has created, or tried to join
  failed,       \* ret_main # 0
  drpai,        \* drpai_fd is open
  cam,          \* none, made, on (STREAMON), left (deleted, STREAMON), gone
  adopted,      \* slots the Camera has a buffer for; m_ext_bufs if not zero
  wanted,       \* YOLO_STREAM_HOST is set
  stream,       \* g_stream_b
  sock,         \* g_enc_sock is open
  child,        \* state of the uav_enc process
  sent,         \* buffers the child has handed over
  helpers,      \* threads of the child
  sem,          \* terminate_req_sem: none before sem_init, one, zero
  thread,       \* state of each worker
  rel,          \* state of the release thread
  mailbox,      \* g_inf_idx >= 0
  quit,         \* g_inf_quit
  imgReady,     \* img_obj_ready
  hdmiReady     \* hdmi_obj_ready

mainVars == <<pc, n, failed, drpai, cam>>
encVars == <<adopted, wanted, stream, sock>>
childVars == <<child, sent, helpers>>
threadVars == <<sem, thread, rel>>
frameVars == <<mailbox, quit, imgReady, hdmiReady>>
vars == <<mainVars, encVars, childVars, threadVars, frameVars>>

Places == {"drpai", "load", "spawn", "adopt", "kill", "camera", "release",
           "image", "sem", "create", "run", "join", "hangup", "joinrel",
           "reap", "close", "undrpai", "end", "exited", "crashed"}

TypeOK ==
  /\ pc \in Places
  /\ n \in 0..Len(JoinOrder)
  /\ cam \in {"none", "made", "on", "left", "gone"}
  /\ adopted \in 0..Bufs /\ sent \in 0..Bufs
  /\ {failed, drpai, wanted, stream, sock} \subseteq BOOLEAN
  /\ child \in {"none", "alloc", "hand", "init", "loop", "stop", "zombie", "reaped"}
  /\ helpers \subseteq Helpers
  /\ sem \in {"none", "one", "zero"}
  /\ thread \in [Workers -> {"none", "runs", "done"}]
  /\ rel \in {"none", "runs", "done"}
  /\ {mailbox, quit, imgReady, hdmiReady} \subseteq BOOLEAN

Init ==
  /\ pc = "drpai" /\ n = 0 /\ failed = FALSE /\ drpai = FALSE /\ cam = "none"
  /\ adopted = 0 /\ wanted \in BOOLEAN /\ stream = FALSE /\ sock = FALSE
  /\ child = "none" /\ sent = 0 /\ helpers = {}
  /\ sem = "none" /\ thread = [w \in Workers |-> "none"] /\ rel = "none"
  /\ mailbox = FALSE /\ quit = FALSE /\ imgReady = FALSE /\ hdmiReady = FALSE

ChildLives == child \notin {"none", "zombie", "reaped"}
EngineLives == pc \notin {"exited", "crashed"}

-----------------------------------------------------------------------------
(* main: taking hold                                                       *)

\* Failing to open the driver leaves ret_main at zero.
OpenDrpai ==
  /\ pc = "drpai"
  /\ \/ drpai' = TRUE /\ pc' = "load"
     \/ drpai' = FALSE /\ pc' = "end"
  /\ UNCHANGED <<n, failed, cam, encVars, childVars, threadVars, frameVars>>

\* init_drpai, preruntime.Load, LoadModel, the input type; then new Camera.
\* None of these failures sets ret_main either.
LoadModel ==
  /\ pc = "load"
  /\ \/ cam' = "made" /\ pc' = "spawn"
     \/ cam' = cam /\ pc' = "undrpai"
  /\ UNCHANGED <<n, failed, drpai, encVars, childVars, threadVars, frameVars>>

\* spawn_uav_enc up to the fork.
Spawn ==
  /\ pc = "spawn"
  /\ \/ /\ wanted
        /\ sock' = TRUE /\ child' = "alloc" /\ pc' = "adopt"
     \/ sock' = sock /\ child' = child /\ pc' = "camera"
  /\ UNCHANGED <<n, failed, drpai, cam, adopted, wanted, stream, sent, helpers,
                 threadVars, frameVars>>

\* Mutant: one buffer short of the ring counts as a complete handshake.
AdoptShort ==
  /\ pc = "adopt" /\ sent > adopted
  /\ adopted' = adopted + 1
  /\ IF adopted' >= Bufs - 1 THEN stream' = TRUE /\ pc' = "camera"
                             ELSE stream' = stream /\ pc' = pc
  /\ UNCHANGED <<n, failed, drpai, cam, wanted, sock, childVars, threadVars, frameVars>>

\* enc_recv_buf and set_external_capture_buf for the next slot.
Adopt ==
  /\ pc = "adopt" /\ sent > adopted
  /\ adopted' = adopted + 1
  /\ IF adopted' = Bufs THEN stream' = TRUE /\ pc' = "camera"
                        ELSE stream' = stream /\ pc' = pc
  /\ UNCHANGED <<n, failed, drpai, cam, wanted, sock, childVars, threadVars, frameVars>>

\* The socket ended before the ring was complete, the descriptor did not come
\* along, or no memory: the child is to go (SIGTERM), the adopted slots stay.
AdoptFails ==
  /\ pc = "adopt"
  /\ sent > adopted \/ ~ChildLives
  /\ sock' = FALSE /\ pc' = "kill"
  /\ UNCHANGED <<n, failed, drpai, cam, adopted, wanted, stream, childVars,
                 threadVars, frameVars>>

\* waitpid in spawn_uav_enc.
KillReaps ==
  /\ pc = "kill" /\ child = "zombie"
  /\ child' = "reaped" /\ pc' = "camera"
  /\ UNCHANGED <<n, failed, drpai, cam, encVars, sent, helpers, threadVars, frameVars>>

-----------------------------------------------------------------------------
(* main: camera and threads                                                *)

\* start_camera. With external buffers in part of the slots it reads pointers
\* nobody has set in the others: it fails on what they hold, or crashes.
StartCamera ==
  /\ pc = "camera"
  /\ \/ /\ adopted \in {0, Bufs}
        /\ cam' = "on" /\ pc' = "release" /\ failed' = failed
     \/ cam' = "gone" /\ pc' = "end" /\ failed' = TRUE
     \/ /\ adopted \notin {0, Bufs}
        /\ cam' = cam /\ pc' = "crashed" /\ failed' = failed
  /\ UNCHANGED <<n, drpai, encVars, childVars, threadVars, frameVars>>

CreateRelease ==
  /\ pc = "release" /\ pc' = "image"
  /\ \/ ~stream /\ UNCHANGED <<stream, rel>>
     \/ stream /\ rel' = "runs" /\ stream' = stream
     \/ stream /\ rel' = rel /\ stream' = FALSE
  /\ UNCHANGED <<n, failed, drpai, cam, adopted, wanted, sock, childVars, sem,
                 thread, frameVars>>

InitImage ==
  /\ pc = "image"
  /\ \/ pc' = "sem" /\ failed' = failed
     \/ pc' = "close" /\ failed' = TRUE
  /\ UNCHANGED <<n, drpai, cam, encVars, childVars, threadVars, frameVars>>

InitSem ==
  /\ pc = "sem"
  /\ \/ sem' = "one" /\ pc' = "create" /\ failed' = failed
     \/ sem' = sem /\ pc' = "join" /\ failed' = TRUE
  /\ UNCHANGED <<n, drpai, cam, encVars, childVars, thread, rel, frameVars>>

\* The next pthread_create. After a failure (but of the first) the others are
\* told to stop.
CreateThread ==
  /\ pc = "create"
  /\ LET w == CreateOrder[n + 1]
     IN \/ /\ thread' = [thread EXCEPT ![w] = "runs"]
           /\ IF n + 1 = Len(CreateOrder) THEN n' = 0 /\ pc' = "run"
                                          ELSE n' = n + 1 /\ pc' = pc
           /\ UNCHANGED <<failed, sem>>
        \/ /\ sem' = IF w = "key" THEN sem ELSE "zero"
           /\ failed' = TRUE /\ n' = 0 /\ pc' = "join" /\ thread' = thread
  /\ UNCHANGED <<drpai, cam, encVars, childVars, rel, frameVars>>

\* R_Main_Process sees the request, ...
MainLoopEnds ==
  /\ pc = "run" /\ sem = "zero" /\ pc' = "join"
  /\ UNCHANGED <<n, failed, drpai, cam, encVars, childVars, threadVars, frameVars>>

\* ... or cannot read the semaphore.
MainLoopFails ==
  /\ pc = "run" /\ sem' = "zero" /\ failed' = TRUE /\ pc' = "join"
  /\ UNCHANGED <<n, drpai, cam, encVars, childVars, thread, rel, frameVars>>

-----------------------------------------------------------------------------
(* main: giving back                                                       *)

\* Mutant: a join that times out is not reported.
JoinWorkerQuietly ==
  /\ pc = "join" /\ n < Len(JoinOrder)
  /\ n' = n + 1
  /\ UNCHANGED <<pc, failed, drpai, cam, encVars, childVars, threadVars, frameVars>>

\* wait_join of the next worker, if it was created: it has ended, or the time
\* is up, which is reported and then ignored.
JoinWorker ==
  /\ pc = "join" /\ n < Len(JoinOrder)
  /\ n' = n + 1
  /\ failed' = (failed \/ thread[JoinOrder[n + 1]] = "runs")
  /\ UNCHANGED <<pc, drpai, cam, encVars, childVars, threadVars, frameVars>>

JoinsDone ==
  /\ pc = "join" /\ n = Len(JoinOrder) /\ pc' = "hangup"
  /\ UNCHANGED <<n, failed, drpai, cam, encVars, childVars, threadVars, frameVars>>

\* Mutant: the socket stays open until the child has been waited for.
HangUpLate ==
  /\ pc = "hangup" /\ sock' = sock
  /\ pc' = IF stream \/ sock THEN "joinrel" ELSE "close"
  /\ UNCHANGED <<n, failed, drpai, cam, adopted, wanted, stream, childVars,
                 threadVars, frameVars>>

\* shutdown and close of the socket: the end of the child's frame loop.
HangUp ==
  /\ pc = "hangup" /\ sock' = FALSE
  /\ pc' = IF stream \/ sock THEN "joinrel" ELSE "close"
  /\ UNCHANGED <<n, failed, drpai, cam, adopted, wanted, stream, childVars,
                 threadVars, frameVars>>

\* wait_join of the release thread; nobody looks at its result.
JoinRelease ==
  /\ pc = "joinrel" /\ pc' = "reap"
  /\ UNCHANGED <<n, failed, drpai, cam, encVars, childVars, threadVars, frameVars>>

\* waitpid without a limit.
Reap ==
  /\ pc = "reap" /\ pc' = "close"
  /\ child = "zombie" /\ child' = "reaped"
  /\ UNCHANGED <<n, failed, drpai, cam, encVars, sent, helpers, threadVars, frameVars>>

\* close_camera gives up when STREAMOFF fails; the Camera is deleted anyway.
CloseCamera ==
  /\ pc = "close" /\ pc' = "undrpai"
  /\ \/ cam' = "gone" /\ failed' = failed
     \/ cam' = "left" /\ failed' = TRUE
  /\ UNCHANGED <<n, drpai, encVars, childVars, threadVars, frameVars>>

CloseDrpai ==
  /\ pc = "undrpai" /\ pc' = "end"
  /\ \/ drpai' = FALSE /\ failed' = failed
     \/ drpai' = drpai /\ failed' = TRUE
  /\ UNCHANGED <<n, cam, encVars, childVars, threadVars, frameVars>>

\* The process ends: the system takes its threads and its socket.
Exit ==
  /\ pc = "end" /\ pc' = "exited" /\ sock' = FALSE
  /\ thread' = [w \in Workers |-> IF thread[w] = "runs" THEN "done" ELSE thread[w]]
  /\ rel' = IF rel = "runs" THEN "done" ELSE rel
  /\ UNCHANGED <<n, failed, drpai, cam, adopted, wanted, stream, childVars, sem, frameVars>>

Main ==
  \/ OpenDrpai \/ LoadModel \/ Spawn \/ Adopt \/ AdoptFails \/ KillReaps
  \/ StartCamera \/ CreateRelease \/ InitImage \/ InitSem \/ CreateThread
  \/ MainLoopEnds \/ JoinWorker \/ JoinsDone \/ HangUp \/ JoinRelease \/ Reap
  \/ CloseCamera \/ CloseDrpai \/ Exit

-----------------------------------------------------------------------------
(* The child, main of uav_enc.cpp                                          *)

childRest == <<mainVars, encVars, threadVars, frameVars>>

\* alloc_buffers: all of them before the first is sent.
ChildAlloc ==
  /\ child = "alloc" /\ child' \in {"hand", "zombie"}
  /\ UNCHANGED <<sent, helpers, childRest>>

\* Mutant: the loop runs once too often.
ChildSendOver ==
  /\ child = "hand"
  /\ IF sock THEN /\ sent' = sent + 1
                  /\ child' = IF sent + 1 > Bufs THEN "init" ELSE child
             ELSE child' = "zombie" /\ sent' = sent
  /\ UNCHANGED <<helpers, childRest>>

\* enc_send_buf of the next buffer; an error ends the process.
ChildSend ==
  /\ child = "hand"
  /\ IF sock THEN /\ sent' = sent + 1
                  /\ child' = IF sent + 1 = Bufs THEN "init" ELSE child
             ELSE child' = "zombie" /\ sent' = sent
  /\ UNCHANGED <<helpers, childRest>>

\* stream_enc_init and the creation of the feedback thread, which may be
\* missing; a failure of the pipeline ends the process, after the handshake.
ChildInit ==
  /\ child = "init"
  /\ \/ child' = "loop" /\ helpers' \in {{"bus"}, {"bus", "fb"}}
     \/ child' = "zombie" /\ helpers' = helpers
  /\ UNCHANGED <<sent, childRest>>

\* Mutant: the child inherits the engine's end as well, so that only the shutdown
\* of an orderly teardown reaches it, not the end of the engine's process.
ChildHangUpShutdownOnly ==
  /\ child = "loop" /\ ~sock /\ EngineLives /\ child' = "stop"
  /\ UNCHANGED <<sent, helpers, childRest>>

\* enc_recv_msg returns 0: the engine closed the socket.
ChildHangUp ==
  /\ child = "loop" /\ ~sock /\ child' = "stop"
  /\ UNCHANGED <<sent, helpers, childRest>>

\* The feedback thread sees fb.running; then stream_enc_stop ends the bus
\* thread, whose loop wakes up every 200 ms.
HelperEnds ==
  /\ child = "stop" /\ helpers # {}
  /\ helpers' = IF "fb" \in helpers THEN helpers \ {"fb"} ELSE {}
  /\ UNCHANGED <<child, sent, childRest>>

ChildExit ==
  /\ child = "stop" /\ helpers = {} /\ child' = "zombie"
  /\ UNCHANGED <<sent, helpers, childRest>>

\* The SIGTERM of spawn_uav_enc ends the process: it has no handler.
ChildTerm ==
  /\ pc = "kill" /\ ChildLives /\ child' = "zombie" /\ helpers' = {}
  /\ UNCHANGED <<sent, childRest>>

\* Any other death: a signal, an abort in the encoder library.
ChildDies ==
  /\ ChildLives /\ child' = "zombie" /\ helpers' = {}
  /\ UNCHANGED <<sent, childRest>>

Child ==
  \/ ChildAlloc \/ ChildSend \/ ChildInit \/ ChildHangUp \/ HelperEnds
  \/ ChildExit \/ ChildTerm

-----------------------------------------------------------------------------
(* The threads of the engine                                               *)

threadRest == <<mainVars, encVars, childVars, rel>>
Runs(w) == thread[w] = "runs"
Ends(w) == thread' = [thread EXCEPT ![w] = "done"]

\* A worker ends at the top of its loop because termination was requested, or
\* on an error (sem_getvalue, a time stamp, a frame, a key), when it requests
\* it. On the way out capture tells inference, image and display take back the
\* flag they answer; inference looks at the request when its mailbox is empty.
Leaves(w) ==
  /\ Runs(w) /\ Ends(w) /\ sem' = "zero"
  /\ quit' = (quit \/ w = "cap" \/ (w = "inf" /\ sem = "zero"))
  /\ imgReady' = (imgReady /\ w # "img")
  /\ hdmiReady' = (hdmiReady /\ w # "hdmi")
  /\ mailbox' = mailbox
  /\ UNCHANGED threadRest

Stops(w) == sem = "zero" /\ ~(w = "inf" /\ mailbox) /\ Leaves(w)
Breaks(w) == sem = "one" /\ Leaves(w)

\* The inference thread also ends when capture says so.
InfQuits == Runs("inf") /\ quit /\ Ends("inf")
            /\ UNCHANGED <<threadRest, sem, frameVars>>

\* A frame: handed to inference every now and then if it is being streamed,
\* else composed for the display unless the image thread is busy.
CaptureFrame ==
  /\ Runs("cap") /\ sem = "one"
  /\ IF stream THEN mailbox' \in {mailbox, TRUE} /\ imgReady' = imgReady
               ELSE mailbox' = mailbox /\ imgReady' = TRUE
  /\ UNCHANGED <<threadRest, sem, thread, quit, hdmiReady>>

Infer ==
  /\ Runs("inf") /\ mailbox /\ ~quit /\ mailbox' = FALSE
  /\ UNCHANGED <<threadRest, sem, thread, quit, imgReady, hdmiReady>>

DrawImage ==
  /\ Runs("img") /\ sem = "one" /\ imgReady
  /\ imgReady' = FALSE /\ hdmiReady' = TRUE
  /\ UNCHANGED <<threadRest, sem, thread, mailbox, quit>>

Display ==
  /\ Runs("hdmi") /\ sem = "one" /\ hdmiReady /\ hdmiReady' = FALSE
  /\ UNCHANGED <<threadRest, sem, thread, mailbox, quit, imgReady>>

\* R_Release_Thread: the end of its loop.
ReleaseEnds ==
  /\ rel = "runs" /\ (~sock \/ ~ChildLives) /\ rel' = "done"
  /\ UNCHANGED <<mainVars, encVars, childVars, sem, thread, frameVars>>

Threads ==
  /\ EngineLives
  /\ \/ \E w \in Workers : Stops(w)
     \/ InfQuits \/ Infer \/ DrawImage \/ Display \/ ReleaseEnds

Errors == EngineLives /\ \E w \in Workers : Breaks(w)
Frames == EngineLives /\ CaptureFrame

Next == Main \/ MainLoopFails \/ Child \/ ChildDies \/ Threads \/ Errors \/ Frames

\* main and child run when they can; no error, death or frame is promised,
\* nor that a thread ends within the time its join allows.
Spec == Init /\ [][Next]_vars /\ WF_vars(Main) /\ WF_vars(Child)

-----------------------------------------------------------------------------
(* Properties                                                              *)

\* The camera streams into a ring with one owner, all of it the child's or all
\* of it its own, and frames are only sent to a child that owns it.
OneRingOwner ==
  /\ stream => adopted = Bufs
  /\ cam = "on" => adopted \in {0, Bufs}

\* Exit code 0 of main promises that nothing is left behind: driver closed,
\* camera off, child reaped, no thread cut off by the end of the process. A thread
\* that missed its join goes on with the camera and the socket main takes away:
\* from then on the exit code says so.
CleanExit ==
  ~failed =>
    /\ cam \in {"left", "gone"} => \A w \in Workers : ~Runs(w)
    /\ pc = "end" => /\ ~drpai /\ ~sock
                     /\ cam \in {"none", "gone"}
                     /\ child \in {"none", "reaped"} /\ helpers = {}
                     /\ \A w \in Workers : ~Runs(w)

\* A termination request ends the engine: no wait of the teardown is for ever,
\* waitpid included, as the child has been hung up on before.
ShutdownEnds == (sem = "zero") ~> (pc = "exited")

\* No encoder outlives its engine, whichever way that ended: a child nobody
\* waits for sees the socket end.
NoOrphan == ~EngineLives ~> ~ChildLives
=============================================================================
