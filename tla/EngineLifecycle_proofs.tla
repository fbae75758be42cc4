----------------------- MODULE EngineLifecycle_proofs -----------------------
(***************************************************************************)
(* What main promises with exit code 0, for a ring of any size. The        *)
(* inductive invariant says what main holds at each of its places: Taking  *)
(* while it takes hold, Giving while it gives back, and what the ring and  *)
(* the child are like in between.                                          *)
(***************************************************************************)
EXTENDS EngineLifecycle, TLAPS

\* The child hands over Bufs buffers and no more, and has threads only while it
\* runs its loop or leaves it.
ChildInv ==
  /\ child \in {"none", "alloc"} => sent = 0
  /\ child = "hand" => sent < Bufs
  /\ child \notin {"loop", "stop"} => helpers = {}

Early == {"drpai", "load", "spawn", "adopt", "kill", "camera", "release", "image", "sem"}

\* Before the camera streams nothing has been started but the child, which exists
\* from the fork on.
Taking ==
  /\ pc \in {"drpai", "load"} => cam = "none"
  /\ pc \in {"drpai", "load", "spawn"} => child = "none" /\ ~sock
  /\ pc \in {"spawn", "adopt", "kill", "camera"} => cam = "made"
  /\ pc \in Early => \A w \in Workers : ~Runs(w)
  /\ pc = "adopt" => sock
  /\ pc \in Early \cup {"run"} => n = 0
  /\ pc = "create" => n < 5

\* main without a socket has no child to wait for.
Unlinked ==
  ~sock /\ pc \in {"camera", "release", "image", "sem", "create", "run", "join", "hangup"}
    => child \in {"none", "reaped"}

\* While nothing has failed: the joined workers have ended, then the socket is
\* closed, then the child is gone, then the camera, then the driver.
Giving ==
  ~failed =>
    /\ pc = "join" => \A i \in 1..n : ~Runs(JoinOrder[i])
    /\ pc \in {"hangup", "joinrel", "reap", "close", "undrpai", "end", "exited"}
         => \A w \in Workers : ~Runs(w)
    /\ pc \in {"joinrel", "reap", "close", "undrpai", "end"} => ~sock
    /\ pc \in {"close", "undrpai", "end"} => child \in {"none", "reaped"}
    /\ pc \in {"undrpai", "end"} => cam \in {"none", "gone"}
    /\ pc = "end" => ~drpai
    /\ cam \in {"left", "gone"} => pc \in {"undrpai", "end", "exited"}

\* The parts of the type, for provers that do not mix them well.
States ==
  /\ pc \in Places
  /\ cam \in {"none", "made", "on", "left", "gone"}
  /\ child \in {"none", "alloc", "hand", "init", "loop", "stop", "zombie", "reaped"}
  /\ sem \in {"none", "one", "zero"}
  /\ rel \in {"none", "runs", "done"}
Numbers == n \in 0..5 /\ adopted \in 0..Bufs /\ sent \in 0..Bufs
Flags ==
  /\ failed \in BOOLEAN /\ drpai \in BOOLEAN
  /\ wanted \in BOOLEAN /\ stream \in BOOLEAN /\ sock \in BOOLEAN
  /\ mailbox \in BOOLEAN /\ quit \in BOOLEAN
  /\ imgReady \in BOOLEAN /\ hdmiReady \in BOOLEAN
Teams == helpers \subseteq Helpers /\ thread \in [Workers -> {"none", "runs", "done"}]

LEMMA Orders ==
  /\ Len(JoinOrder) = 5 /\ Len(CreateOrder) = 5
  /\ \A i \in 1..5 : JoinOrder[i] \in Workers
  /\ \A w \in Workers : \E i \in 1..5 : w = JoinOrder[i]
<1>1. \A w \in Workers : w = JoinOrder[1] \/ w = JoinOrder[2] \/ w = JoinOrder[3]
                          \/ w = JoinOrder[4] \/ w = JoinOrder[5]
  BY DEF JoinOrder, Workers
<1>2. \A i \in 1..5 : JoinOrder[i] \in Workers
  BY DEF JoinOrder, Workers
<1> QED BY <1>1, <1>2 DEF JoinOrder, CreateOrder

LEMMA TypeParts == TypeOK <=> States /\ Numbers /\ Flags /\ Teams
<1>1. Numbers <=> n \in 0..Len(JoinOrder) /\ adopted \in 0..Bufs /\ sent \in 0..Bufs
  BY Orders DEF Numbers
<1> QED BY <1>1, Zenon DEF TypeOK, States, Flags, Teams

IInv == /\ States /\ Numbers /\ Flags /\ Teams
        /\ ChildInv /\ OneRingOwner /\ Taking /\ Unlinked /\ Giving

\* The initial state satisfies the invariant.
LEMMA InitInv == Init => IInv
<1> SUFFICES ASSUME Init PROVE IInv
  OBVIOUS
<1> USE BufsAssumption DEF Init
<1>1. States /\ Numbers
  BY DEF States, Numbers, Places
<1>2. Flags
  BY DEF Flags
<1>3. Teams
  BY DEF Teams, Helpers, Workers
<1>4. ChildInv /\ OneRingOwner /\ Taking /\ Unlinked /\ Giving
  BY DEF Early, ChildInv, OneRingOwner, Taking, Unlinked, Giving, Runs, Workers
<1> QED BY <1>1, <1>2, <1>3, <1>4 DEF IInv

\* Main, child and threads stay at known places.
LEMMA StatesStep ==
  ASSUME IInv, Next PROVE States'
<1> USE BufsAssumption DEF IInv, States, Places,
        mainVars, encVars, childVars, threadVars, frameVars, childRest, threadRest
<1>1. CASE OpenDrpai \/ LoadModel \/ Spawn
  BY <1>1 DEF OpenDrpai, LoadModel, Spawn
<1>2. CASE Adopt \/ AdoptFails \/ KillReaps
  BY <1>2 DEF Adopt, AdoptFails, KillReaps
<1>3. CASE StartCamera \/ CreateRelease
  BY <1>3 DEF StartCamera, CreateRelease
<1>4. CASE InitImage \/ InitSem
  BY <1>4 DEF InitImage, InitSem
<1>5. CASE CreateThread
  BY <1>5 DEF CreateThread, CreateOrder
<1>6. CASE MainLoopEnds \/ JoinsDone \/ HangUp \/ JoinRelease \/ Reap
  BY <1>6 DEF MainLoopEnds, JoinsDone, HangUp, JoinRelease, Reap
<1>7. CASE JoinWorker
  BY <1>7 DEF JoinWorker
<1>8. CASE CloseCamera \/ CloseDrpai
  BY <1>8 DEF CloseCamera, CloseDrpai
<1>9. CASE Exit
  BY <1>9 DEF Exit
<1>10. CASE MainLoopFails
  BY <1>10 DEF MainLoopFails
<1>11. CASE ChildAlloc \/ ChildSend
  BY <1>11 DEF ChildAlloc, ChildSend
<1>12. CASE ChildInit \/ ChildHangUp \/ HelperEnds \/ ChildExit \/ ChildTerm \/ ChildDies
  BY <1>12 DEF ChildInit, ChildHangUp, HelperEnds, ChildExit, ChildTerm, ChildDies
<1>13. ASSUME NEW w \in Workers, Leaves(w) PROVE States'
  BY <1>13 DEF Leaves
<1>14. CASE InfQuits \/ Infer
  BY <1>14 DEF InfQuits, Infer
<1>15. CASE DrawImage \/ Display
  BY <1>15 DEF DrawImage, Display
<1>16. CASE ReleaseEnds
  BY <1>16 DEF ReleaseEnds
<1>17. CASE Frames
  BY <1>17 DEF Frames, CaptureFrame
<1> QED BY <1>1, <1>2, <1>3, <1>4, <1>5, <1>6, <1>7, <1>8, <1>9, <1>10, <1>11, <1>12,
        <1>13, <1>14, <1>15, <1>16, <1>17
     DEF Next, Main, Child, Threads, Errors, Stops, Breaks

\* The ring is never exceeded, nor the list of threads.
LEMMA NumbersStep ==
  ASSUME IInv, Next PROVE Numbers'
<1> USE BufsAssumption DEF IInv, Numbers, Taking, Early,
        mainVars, encVars, childVars, threadVars, frameVars, childRest, threadRest
<1>1. CASE OpenDrpai \/ LoadModel \/ Spawn
  BY <1>1 DEF OpenDrpai, LoadModel, Spawn
<1>2. CASE Adopt \/ AdoptFails \/ KillReaps
  BY <1>2 DEF Adopt, AdoptFails, KillReaps
<1>3. CASE StartCamera \/ CreateRelease
  BY <1>3 DEF StartCamera, CreateRelease
<1>4. CASE InitImage \/ InitSem
  BY <1>4 DEF InitImage, InitSem
<1>5. CASE CreateThread
  BY <1>5 DEF CreateThread, CreateOrder
<1>6. CASE MainLoopEnds \/ JoinsDone \/ HangUp \/ JoinRelease \/ Reap
  BY <1>6 DEF MainLoopEnds, JoinsDone, HangUp, JoinRelease, Reap
<1>7. CASE JoinWorker
  BY <1>7 DEF JoinWorker, JoinOrder
<1>8. CASE CloseCamera \/ CloseDrpai
  BY <1>8 DEF CloseCamera, CloseDrpai
<1>9. CASE Exit
  BY <1>9 DEF Exit
<1>10. CASE MainLoopFails
  BY <1>10 DEF MainLoopFails
<1>11. CASE ChildAlloc \/ ChildSend
  BY <1>11 DEF ChildAlloc, ChildSend, ChildInv
<1>12. CASE ChildInit \/ ChildHangUp \/ HelperEnds \/ ChildExit \/ ChildTerm \/ ChildDies
  BY <1>12 DEF ChildInit, ChildHangUp, HelperEnds, ChildExit, ChildTerm, ChildDies
<1>13. ASSUME NEW w \in Workers, Leaves(w) PROVE Numbers'
  BY <1>13 DEF Leaves
<1>14. CASE InfQuits \/ Infer
  BY <1>14 DEF InfQuits, Infer
<1>15. CASE DrawImage \/ Display
  BY <1>15 DEF DrawImage, Display
<1>16. CASE ReleaseEnds
  BY <1>16 DEF ReleaseEnds
<1>17. CASE Frames
  BY <1>17 DEF Frames, CaptureFrame
<1> QED BY <1>1, <1>2, <1>3, <1>4, <1>5, <1>6, <1>7, <1>8, <1>9, <1>10, <1>11, <1>12,
        <1>13, <1>14, <1>15, <1>16, <1>17
     DEF Next, Main, Child, Threads, Errors, Stops, Breaks

\* Flags stay flags.
LEMMA FlagsStep ==
  ASSUME IInv, Next PROVE Flags'
<1> USE BufsAssumption DEF IInv, Flags,
        mainVars, encVars, childVars, threadVars, frameVars, childRest, threadRest
<1>1. CASE OpenDrpai \/ LoadModel \/ Spawn
  BY <1>1 DEF OpenDrpai, LoadModel, Spawn
<1>2. CASE Adopt \/ AdoptFails \/ KillReaps
  BY <1>2 DEF Adopt, AdoptFails, KillReaps
<1>3. CASE StartCamera \/ CreateRelease
  BY <1>3 DEF StartCamera, CreateRelease
<1>4. CASE InitImage \/ InitSem
  BY <1>4 DEF InitImage, InitSem
<1>5. CASE CreateThread
  BY <1>5 DEF CreateThread, CreateOrder
<1>6. CASE MainLoopEnds \/ JoinsDone \/ HangUp \/ JoinRelease \/ Reap
  BY ZenonT(60), <1>6 DEF MainLoopEnds, JoinsDone, HangUp, JoinRelease, Reap
<1>7. CASE JoinWorker
  BY <1>7 DEF JoinWorker
<1>8. CASE CloseCamera \/ CloseDrpai
  BY <1>8 DEF CloseCamera, CloseDrpai
<1>9. CASE Exit
  BY <1>9 DEF Exit
<1>10. CASE MainLoopFails
  BY <1>10 DEF MainLoopFails
<1>11. CASE ChildAlloc \/ ChildSend
  BY <1>11 DEF ChildAlloc, ChildSend
<1>12. CASE ChildInit \/ ChildHangUp \/ HelperEnds \/ ChildExit \/ ChildTerm \/ ChildDies
  BY <1>12 DEF ChildInit, ChildHangUp, HelperEnds, ChildExit, ChildTerm, ChildDies
<1>13. ASSUME NEW w \in Workers, Leaves(w) PROVE Flags'
  BY <1>13 DEF Leaves
<1>14. CASE InfQuits \/ Infer
  BY <1>14 DEF InfQuits, Infer
<1>15. CASE DrawImage \/ Display
  BY <1>15 DEF DrawImage, Display
<1>16. CASE ReleaseEnds
  BY <1>16 DEF ReleaseEnds
<1>17. CASE Frames
  BY <1>17 DEF Frames, CaptureFrame
<1> QED BY <1>1, <1>2, <1>3, <1>4, <1>5, <1>6, <1>7, <1>8, <1>9, <1>10, <1>11, <1>12,
        <1>13, <1>14, <1>15, <1>16, <1>17
     DEF Next, Main, Child, Threads, Errors, Stops, Breaks

\* The threads stay those of the program.
LEMMA TeamsStep ==
  ASSUME IInv, Next PROVE Teams'
<1> USE BufsAssumption DEF IInv, Teams, Workers, Helpers,
        mainVars, encVars, childVars, threadVars, frameVars, childRest, threadRest
<1>1. CASE OpenDrpai \/ LoadModel \/ Spawn
  BY <1>1 DEF OpenDrpai, LoadModel, Spawn
<1>2. CASE Adopt \/ AdoptFails \/ KillReaps
  BY <1>2 DEF Adopt, AdoptFails, KillReaps
<1>3. CASE StartCamera \/ CreateRelease
  BY <1>3 DEF StartCamera, CreateRelease
<1>4. CASE InitImage \/ InitSem
  BY <1>4 DEF InitImage, InitSem
<1>5. CASE CreateThread
  BY <1>5 DEF CreateThread, CreateOrder
<1>6. CASE MainLoopEnds \/ JoinsDone \/ HangUp \/ JoinRelease \/ Reap
  BY <1>6 DEF MainLoopEnds, JoinsDone, HangUp, JoinRelease, Reap
<1>7. CASE JoinWorker
  BY <1>7 DEF JoinWorker
<1>8. CASE CloseCamera \/ CloseDrpai
  BY <1>8 DEF CloseCamera, CloseDrpai
<1>9. CASE Exit
  BY <1>9 DEF Exit
<1>10. CASE MainLoopFails
  BY <1>10 DEF MainLoopFails
<1>11. CASE ChildAlloc \/ ChildSend
  BY <1>11 DEF ChildAlloc, ChildSend
<1>12. CASE ChildInit \/ ChildHangUp \/ HelperEnds \/ ChildExit \/ ChildTerm \/ ChildDies
  BY <1>12 DEF ChildInit, ChildHangUp, HelperEnds, ChildExit, ChildTerm, ChildDies
<1>13. ASSUME NEW w \in Workers, Leaves(w) PROVE Teams'
  BY <1>13 DEF Leaves, Ends
<1>14. CASE InfQuits \/ Infer
  BY <1>14 DEF InfQuits, Infer, Ends
<1>15. CASE DrawImage \/ Display
  BY <1>15 DEF DrawImage, Display
<1>16. CASE ReleaseEnds
  BY <1>16 DEF ReleaseEnds
<1>17. CASE Frames
  BY <1>17 DEF Frames, CaptureFrame
<1> QED BY <1>1, <1>2, <1>3, <1>4, <1>5, <1>6, <1>7, <1>8, <1>9, <1>10, <1>11, <1>12,
        <1>13, <1>14, <1>15, <1>16, <1>17
     DEF Next, Main, Child, Threads, Errors, Stops, Breaks

\* The child hands over a ring and no more.
LEMMA ChildStep ==
  ASSUME IInv, Next PROVE ChildInv'
<1> USE BufsAssumption DEF IInv, Numbers, ChildInv, Taking,
        mainVars, encVars, childVars, threadVars, frameVars, childRest, threadRest
<1>1. CASE OpenDrpai \/ LoadModel \/ Spawn
  BY <1>1 DEF OpenDrpai, LoadModel, Spawn
<1>2. CASE Adopt \/ AdoptFails \/ KillReaps
  BY <1>2 DEF Adopt, AdoptFails, KillReaps
<1>3. CASE StartCamera \/ CreateRelease
  BY <1>3 DEF StartCamera, CreateRelease
<1>4. CASE InitImage \/ InitSem
  BY <1>4 DEF InitImage, InitSem
<1>5. CASE CreateThread
  BY <1>5 DEF CreateThread, CreateOrder
<1>6. CASE MainLoopEnds \/ JoinsDone \/ HangUp \/ JoinRelease \/ Reap
  BY <1>6 DEF MainLoopEnds, JoinsDone, HangUp, JoinRelease, Reap
<1>7. CASE JoinWorker
  BY <1>7 DEF JoinWorker
<1>8. CASE CloseCamera \/ CloseDrpai
  BY <1>8 DEF CloseCamera, CloseDrpai
<1>9. CASE Exit
  BY <1>9 DEF Exit
<1>10. CASE MainLoopFails
  BY <1>10 DEF MainLoopFails
<1>11. CASE ChildAlloc \/ ChildSend
  BY <1>11 DEF ChildAlloc, ChildSend
<1>12. CASE ChildInit \/ ChildHangUp \/ HelperEnds \/ ChildExit \/ ChildTerm \/ ChildDies
  BY <1>12 DEF ChildInit, ChildHangUp, HelperEnds, ChildExit, ChildTerm, ChildDies
<1>13. ASSUME NEW w \in Workers, Leaves(w) PROVE ChildInv'
  BY <1>13 DEF Leaves
<1>14. CASE InfQuits \/ Infer
  BY <1>14 DEF InfQuits, Infer
<1>15. CASE DrawImage \/ Display
  BY <1>15 DEF DrawImage, Display
<1>16. CASE ReleaseEnds
  BY <1>16 DEF ReleaseEnds
<1>17. CASE Frames
  BY <1>17 DEF Frames, CaptureFrame
<1> QED BY <1>1, <1>2, <1>3, <1>4, <1>5, <1>6, <1>7, <1>8, <1>9, <1>10, <1>11, <1>12,
        <1>13, <1>14, <1>15, <1>16, <1>17
     DEF Next, Main, Child, Threads, Errors, Stops, Breaks

\* The ring keeps one owner.
LEMMA RingStep ==
  ASSUME IInv, Next PROVE OneRingOwner'
<1> USE BufsAssumption DEF IInv, OneRingOwner, Numbers,
        mainVars, encVars, childVars, threadVars, frameVars, childRest, threadRest
<1>1. CASE OpenDrpai \/ LoadModel \/ Spawn
  BY <1>1 DEF OpenDrpai, LoadModel, Spawn
<1>2. CASE Adopt \/ AdoptFails \/ KillReaps
  BY <1>2 DEF Adopt, AdoptFails, KillReaps, Taking
<1>3. CASE StartCamera \/ CreateRelease
  BY <1>3 DEF StartCamera, CreateRelease
<1>4. CASE InitImage \/ InitSem
  BY <1>4 DEF InitImage, InitSem
<1>5. CASE CreateThread
  BY <1>5 DEF CreateThread, CreateOrder
<1>6. CASE MainLoopEnds \/ JoinsDone \/ HangUp \/ JoinRelease \/ Reap
  BY <1>6 DEF MainLoopEnds, JoinsDone, HangUp, JoinRelease, Reap
<1>7. CASE JoinWorker
  BY <1>7 DEF JoinWorker
<1>8. CASE CloseCamera \/ CloseDrpai
  BY <1>8 DEF CloseCamera, CloseDrpai
<1>9. CASE Exit
  BY <1>9 DEF Exit
<1>10. CASE MainLoopFails
  BY <1>10 DEF MainLoopFails
<1>11. CASE ChildAlloc \/ ChildSend
  BY <1>11 DEF ChildAlloc, ChildSend
<1>12. CASE ChildInit \/ ChildHangUp \/ HelperEnds \/ ChildExit \/ ChildTerm \/ ChildDies
  BY <1>12 DEF ChildInit, ChildHangUp, HelperEnds, ChildExit, ChildTerm, ChildDies
<1>13. ASSUME NEW w \in Workers, Leaves(w) PROVE OneRingOwner'
  BY <1>13 DEF Leaves
<1>14. CASE InfQuits \/ Infer
  BY <1>14 DEF InfQuits, Infer
<1>15. CASE DrawImage \/ Display
  BY <1>15 DEF DrawImage, Display
<1>16. CASE ReleaseEnds
  BY <1>16 DEF ReleaseEnds
<1>17. CASE Frames
  BY <1>17 DEF Frames, CaptureFrame
<1> QED BY <1>1, <1>2, <1>3, <1>4, <1>5, <1>6, <1>7, <1>8, <1>9, <1>10, <1>11, <1>12,
        <1>13, <1>14, <1>15, <1>16, <1>17
     DEF Next, Main, Child, Threads, Errors, Stops, Breaks

\* A main without a socket has no child.
LEMMA UnlinkedStep ==
  ASSUME IInv, Next PROVE Unlinked'
<1> USE BufsAssumption DEF IInv, Unlinked, Taking,
        mainVars, encVars, childVars, threadVars, frameVars, childRest, threadRest
<1>1. CASE OpenDrpai \/ LoadModel \/ Spawn
  BY <1>1 DEF OpenDrpai, LoadModel, Spawn
<1>2. CASE Adopt \/ AdoptFails \/ KillReaps
  BY <1>2 DEF Adopt, AdoptFails, KillReaps
<1>3. CASE StartCamera \/ CreateRelease
  BY <1>3 DEF StartCamera, CreateRelease
<1>4. CASE InitImage \/ InitSem
  BY <1>4 DEF InitImage, InitSem
<1>5. CASE CreateThread
  BY <1>5 DEF CreateThread, CreateOrder
<1>6. CASE MainLoopEnds \/ JoinsDone \/ HangUp \/ JoinRelease \/ Reap
  BY <1>6 DEF MainLoopEnds, JoinsDone, HangUp, JoinRelease, Reap
<1>7. CASE JoinWorker
  BY <1>7 DEF JoinWorker
<1>8. CASE CloseCamera \/ CloseDrpai
  BY <1>8 DEF CloseCamera, CloseDrpai
<1>9. CASE Exit
  BY <1>9 DEF Exit
<1>10. CASE MainLoopFails
  BY <1>10 DEF MainLoopFails
<1>11. CASE ChildAlloc \/ ChildSend
  BY <1>11 DEF ChildAlloc, ChildSend
<1>12. CASE ChildInit \/ ChildHangUp \/ HelperEnds \/ ChildExit \/ ChildTerm \/ ChildDies
    BY <1>12 DEF ChildInit, ChildHangUp, HelperEnds, ChildExit, ChildTerm, ChildDies,
     ChildLives
<1>13. ASSUME NEW w \in Workers, Leaves(w) PROVE Unlinked'
  BY <1>13 DEF Leaves
<1>14. CASE InfQuits \/ Infer
  BY <1>14 DEF InfQuits, Infer
<1>15. CASE DrawImage \/ Display
  BY <1>15 DEF DrawImage, Display
<1>16. CASE ReleaseEnds
  BY <1>16 DEF ReleaseEnds
<1>17. CASE Frames
  BY <1>17 DEF Frames, CaptureFrame
<1> QED BY <1>1, <1>2, <1>3, <1>4, <1>5, <1>6, <1>7, <1>8, <1>9, <1>10, <1>11, <1>12,
        <1>13, <1>14, <1>15, <1>16, <1>17
     DEF Next, Main, Child, Threads, Errors, Stops, Breaks

\* What main has taken hold of at each place.
LEMMA TakingStep ==
  ASSUME IInv, Next PROVE Taking'
<1> USE BufsAssumption DEF IInv, Taking, Early, Numbers, Teams, Workers, Runs, Ends,
        mainVars, encVars, childVars, threadVars, frameVars, childRest, threadRest
<1>1. CASE OpenDrpai \/ LoadModel \/ Spawn
  BY <1>1 DEF OpenDrpai, LoadModel, Spawn
<1>2. CASE Adopt \/ AdoptFails \/ KillReaps
  BY <1>2 DEF Adopt, AdoptFails, KillReaps
<1>3. CASE StartCamera \/ CreateRelease
  BY <1>3 DEF StartCamera, CreateRelease
<1>4. CASE InitImage \/ InitSem
  BY <1>4 DEF InitImage, InitSem
<1>5. CASE CreateThread
  BY <1>5 DEF CreateThread, CreateOrder
<1>6. CASE MainLoopEnds \/ JoinsDone \/ HangUp \/ JoinRelease \/ Reap
  BY <1>6 DEF MainLoopEnds, JoinsDone, HangUp, JoinRelease, Reap
<1>7. CASE JoinWorker
  BY <1>7 DEF JoinWorker
<1>8. CASE CloseCamera \/ CloseDrpai
  BY <1>8 DEF CloseCamera, CloseDrpai
<1>9. CASE Exit
  BY <1>9 DEF Exit
<1>10. CASE MainLoopFails
  BY <1>10 DEF MainLoopFails
<1>11. CASE ChildAlloc \/ ChildSend
  BY <1>11 DEF ChildAlloc, ChildSend
<1>12. CASE ChildInit \/ ChildHangUp \/ HelperEnds \/ ChildExit \/ ChildTerm \/ ChildDies
    BY <1>12 DEF ChildInit, ChildHangUp, HelperEnds, ChildExit, ChildTerm, ChildDies,
     ChildLives
<1>13. ASSUME NEW w \in Workers, Leaves(w) PROVE Taking'
  BY <1>13 DEF Leaves
<1>14. CASE InfQuits \/ Infer
  BY <1>14 DEF InfQuits, Infer
<1>15. CASE DrawImage \/ Display
  BY <1>15 DEF DrawImage, Display
<1>16. CASE ReleaseEnds
  BY <1>16 DEF ReleaseEnds
<1>17. CASE Frames
  BY <1>17 DEF Frames, CaptureFrame
<1> QED BY <1>1, <1>2, <1>3, <1>4, <1>5, <1>6, <1>7, <1>8, <1>9, <1>10, <1>11, <1>12,
        <1>13, <1>14, <1>15, <1>16, <1>17
     DEF Next, Main, Child, Threads, Errors, Stops, Breaks

\* What main has given back at each place.
LEMMA GivingStep ==
  ASSUME IInv, Next PROVE Giving'
<1> USE BufsAssumption DEF IInv, Giving, Numbers, Teams, Workers, Runs, Ends, Early,
        ChildLives,
        mainVars, encVars, childVars, threadVars, frameVars, childRest, threadRest
<1>1. CASE OpenDrpai \/ LoadModel \/ Spawn
  BY <1>1 DEF OpenDrpai, LoadModel, Spawn, Taking
<1>2. CASE Adopt \/ AdoptFails \/ KillReaps
  BY <1>2 DEF Adopt, AdoptFails, KillReaps
<1>3. CASE StartCamera \/ CreateRelease
  BY <1>3 DEF StartCamera, CreateRelease
<1>4. CASE InitImage \/ InitSem
  BY <1>4 DEF InitImage, InitSem
<1>5. CASE CreateThread
  BY <1>5 DEF CreateThread, CreateOrder
<1>6. CASE MainLoopEnds \/ HangUp
  BY <1>6 DEF MainLoopEnds, HangUp, Taking, Unlinked
<1>7. CASE JoinsDone
  <2>1. ~failed => \A w \in Workers : ~Runs(w)
    BY <1>7, Orders DEF JoinsDone
  <2> QED BY <1>7, <2>1 DEF JoinsDone
<1>8. CASE JoinRelease \/ Reap
  BY <1>8 DEF JoinRelease, Reap
<1>9. CASE JoinWorker
  <2>1. pc = "join" /\ pc' = pc /\ n' = n + 1 /\ n < 5 /\ thread' = thread /\ cam' = cam
    BY <1>9, Orders DEF JoinWorker
  <2>2. ~failed' => ~failed /\ thread[JoinOrder[n + 1]] # "runs"
    BY <1>9 DEF JoinWorker
  <2>3. \A i \in 1..(n + 1) : i \in 1..n \/ i = n + 1
    OBVIOUS
  <2> QED BY <2>1, <2>2, <2>3
<1>10. CASE CloseCamera \/ CloseDrpai
  BY <1>10 DEF CloseCamera, CloseDrpai
<1>11. CASE Exit
  BY <1>11 DEF Exit
<1>12. CASE MainLoopFails
  BY <1>12 DEF MainLoopFails
<1>13. CASE ChildAlloc \/ ChildSend
  BY <1>13 DEF ChildAlloc, ChildSend
<1>14. CASE ChildInit \/ ChildHangUp \/ HelperEnds \/ ChildExit \/ ChildTerm \/ ChildDies
  BY <1>14 DEF ChildInit, ChildHangUp, HelperEnds, ChildExit, ChildTerm, ChildDies
<1>15. ASSUME NEW w \in Workers, Leaves(w) PROVE Giving'
  <2>1. \A v \in Workers : ~Runs(v) => ~Runs(v)'
    BY <1>15 DEF Leaves
  <2>2. \A i \in 1..n : JoinOrder[i] \in Workers
    BY Orders
  <2> QED BY <1>15, <2>1, <2>2 DEF Leaves
<1>16. CASE InfQuits \/ Infer
  <2>1. \A v \in Workers : ~Runs(v) => ~Runs(v)'
    BY <1>16 DEF InfQuits, Infer
  <2>2. \A i \in 1..n : JoinOrder[i] \in Workers
    BY Orders
  <2> QED BY <1>16, <2>1, <2>2 DEF InfQuits, Infer
<1>17. CASE DrawImage \/ Display
  BY <1>17 DEF DrawImage, Display
<1>18. CASE ReleaseEnds
  BY <1>18 DEF ReleaseEnds
<1>19. CASE Frames
  BY <1>19 DEF Frames, CaptureFrame
<1> QED BY <1>1, <1>2, <1>3, <1>4, <1>5, <1>6, <1>7, <1>8, <1>9, <1>10, <1>11, <1>12,
           <1>13, <1>14, <1>15, <1>16, <1>17, <1>18, <1>19
     DEF Next, Main, Child, Threads, Errors, Stops, Breaks

\* The invariant is inductive.
LEMMA StepInv == IInv /\ [Next]_vars => IInv'
<1>1. CASE IInv /\ Next
  BY <1>1, StatesStep, NumbersStep, FlagsStep, TeamsStep, ChildStep, RingStep,
     UnlinkedStep, TakingStep, GivingStep DEF IInv
<1>2. CASE IInv /\ UNCHANGED vars
  BY <1>2 DEF IInv, States, Numbers, Flags, Teams, ChildInv, OneRingOwner, Taking, Unlinked,
     Giving, Runs, vars, mainVars, encVars, childVars, threadVars, frameVars
<1> QED BY <1>1, <1>2

THEOREM Invariance == Spec => []IInv
BY InitInv, StepInv, PTL DEF Spec

\* The state keeps its type; a ring is never taken over beyond its size.
THEOREM TypeCorrect == Spec => []TypeOK
<1>1. IInv => TypeOK
  BY TypeParts DEF IInv
<1> QED BY Invariance, <1>1, PTL

\* The camera never streams into a ring that is half the child's, and no frame is
\* sent to a child whose ring was not taken over whole, wherever a handshake
\* breaks off (main_yolox.cpp, spawn_uav_enc).
THEOREM OneRingOwnerThm == Spec => []OneRingOwner
<1>1. IInv => OneRingOwner
  BY DEF IInv
<1> QED BY Invariance, <1>1, PTL

\* Exit code 0 of main means that nothing was left behind, whichever steps failed,
\* joins timed out or when the child died.
THEOREM CleanExitThm == Spec => []CleanExit
<1>1. IInv => CleanExit
  BY DEF IInv, ChildInv, Giving, CleanExit, Runs
<1> QED BY Invariance, <1>1, PTL

-----------------------------------------------------------------------------
(* Waiting for the child                                                    *)

\* An open socket has a child at its other end, not waited for yet; the ring was
\* taken over whole by the time the camera starts; and the stream has its socket
\* until main hangs up.
Linked ==
  /\ sock => child \notin {"none", "reaped"}
  /\ pc = "camera" /\ sock => adopted = Bufs
  /\ pc \in {"drpai", "load", "spawn", "adopt", "kill"} => ~stream
  /\ pc \in {"camera", "release", "image", "sem", "create", "run", "join", "hangup"}
       /\ stream => sock

\* main waits without a limit (waitpid in spawn_uav_enc, and at the end) only for
\* a child that is there, and whose frame loop sees the socket end; nor is the
\* socket open once the process of main is gone.
WaitHungUp ==
  /\ pc \in {"kill", "joinrel", "reap"} => ~sock /\ child \notin {"none", "reaped"}
  /\ ~EngineLives => ~sock

LEMMA WaitStep ==
  ASSUME IInv, Linked, WaitHungUp, [Next]_vars
  PROVE  Linked' /\ WaitHungUp'
<1> USE BufsAssumption DEF IInv, Linked, WaitHungUp, Taking, EngineLives,
        mainVars, encVars, childVars, threadVars, frameVars, childRest, threadRest
<1>1. CASE OpenDrpai \/ LoadModel \/ Spawn
  BY <1>1 DEF OpenDrpai, LoadModel, Spawn
<1>2. CASE Adopt
  BY <1>2 DEF Adopt
<1>3. CASE AdoptFails \/ KillReaps
  BY <1>3 DEF AdoptFails, KillReaps
<1>4. CASE StartCamera
  BY <1>4 DEF StartCamera
<1>5. CASE CreateRelease \/ InitImage \/ InitSem
  BY <1>5 DEF CreateRelease, InitImage, InitSem
<1>6. CASE CreateThread
  BY <1>6 DEF CreateThread, CreateOrder
<1>7. CASE MainLoopEnds \/ MainLoopFails \/ JoinWorker \/ JoinsDone
  BY <1>7 DEF MainLoopEnds, MainLoopFails, JoinWorker, JoinsDone
<1>8. CASE HangUp
  BY <1>8 DEF HangUp
<1>9. CASE JoinRelease \/ Reap
  BY <1>9 DEF JoinRelease, Reap
<1>10. CASE CloseCamera \/ CloseDrpai \/ Exit
  BY <1>10 DEF CloseCamera, CloseDrpai, Exit
<1>11. CASE ChildAlloc \/ ChildSend
  BY <1>11 DEF ChildAlloc, ChildSend
<1>12. CASE ChildInit \/ ChildHangUp \/ HelperEnds
  BY <1>12 DEF ChildInit, ChildHangUp, HelperEnds
<1>13. CASE ChildExit \/ ChildTerm \/ ChildDies
  BY <1>13 DEF ChildExit, ChildTerm, ChildDies, ChildLives
<1>14. ASSUME NEW w \in Workers, Leaves(w) PROVE Linked' /\ WaitHungUp'
  BY <1>14 DEF Leaves
<1>15. CASE InfQuits \/ Infer \/ DrawImage \/ Display
  BY <1>15 DEF InfQuits, Infer, DrawImage, Display
<1>16. CASE ReleaseEnds
  BY <1>16 DEF ReleaseEnds
<1>17. CASE Frames
  BY <1>17 DEF Frames, CaptureFrame
<1>18. CASE UNCHANGED vars
  BY <1>18 DEF vars
<1> QED BY <1>1, <1>2, <1>3, <1>4, <1>5, <1>6, <1>7, <1>8, <1>9, <1>10, <1>11, <1>12,
           <1>13, <1>14, <1>15, <1>16, <1>17, <1>18
     DEF Next, Main, Child, Threads, Errors, Stops, Breaks

\* The safety half of ShutdownEnds and NoOrphan: neither waitpid of main can be
\* reached with the socket still open or without a child, and no way out of main, the
\* crash in start_camera included, leaves a socket open that would keep an encoder
\* at work.
THEOREM WaitsEnd == Spec => []WaitHungUp
<1>1. Init => Linked /\ WaitHungUp
  BY DEF Init, Linked, WaitHungUp, EngineLives
<1> QED BY <1>1, Invariance, WaitStep, PTL DEF Spec
=============================================================================
