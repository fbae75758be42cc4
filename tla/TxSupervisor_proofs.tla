------------------------ MODULE TxSupervisor_proofs ------------------------
(***************************************************************************)
(* Proofs about TxSupervisor for any number of engine starts, any interval *)
(* between them, any wedge threshold and any interleaving of the main      *)
(* thread with the watchers.                                               *)
(***************************************************************************)
EXTENDS TxSupervisor, TLAPS

\* An engine is tracked only while the session waits for messages.
Tracked == engine # NoEngine => pc = "serve"

\* A session exists exactly where the main thread works for it.
Session == connected <=> \/ pc \in {"serve"} \cup Starting
                         \/ pc \in InStop /\ after # "exit"

\* Without a session nothing is wanted, and stop_engine has cleared what was.
Unwanted == ~connected \/ pc \in {"stopWait", "stopped"} => ~wantStream

\* stop_engine returns from an engine that is dead or was sent SIGKILL.
Stopped == /\ pc \notin InStop => stopping = NoEngine
           /\ pc = "stopped" => stopping \notin alive \/ stopping \in killed

\* Past the debounce the interval is over.
Waited == pc = "prep" => sinceStart >= MinRestart

\* An engine that exists is tracked, being stopped or was sent SIGKILL.
Owned == alive \subseteq {engine, stopping} \cup killed

\* A wedged camera is left alone, and enough timeouts in a row declare it wedged.
Calm == wedged => engine = NoEngine /\ pc \notin Starting \ {"failed"}
AtThreshold == failCount >= WedgeThreshold => wedged

\* The strengthening: who holds an engine depends on where the main thread is,
\* which the properties do not say.
IInv == /\ TypeOK /\ Tracked /\ Session /\ Unwanted /\ Stopped /\ Waited
        /\ Owned /\ Calm /\ AtThreshold

USE SpawnsAssumption, RestartAssumption, ThresholdAssumption, StuckAssumption
USE DEF NoEngine, Engines, States, Starting, InStop, Idle

LEMMA InitIInv == Init => IInv
<1> SUFFICES ASSUME Init PROVE IInv
  OBVIOUS
<1> USE DEF Init
<1>1. TypeOK
  <2>1. /\ watchPc \in [Engines ->
             {"none", "begin", "watch", "check", "report", "recover", "end"}]
        /\ watchEng \in [Engines -> Engines \cup {NoEngine}]
    OBVIOUS
  <2>2. /\ alive \in SUBSET Engines /\ killed \in SUBSET Engines
        /\ encoders \in SUBSET Engines
    OBVIOUS
  <2>3. /\ failCount \in 0..WedgeThreshold /\ sinceStart \in 0..MinRestart
        /\ stuck \in 0..MaxStuck /\ spawned \in 0..MaxSpawns
    OBVIOUS
  <2>4. QED
    BY <2>1, <2>2, <2>3 DEF TypeOK
<1>2. Tracked /\ Session /\ Unwanted /\ Stopped /\ Waited
  BY DEF Tracked, Session, Unwanted, Stopped, Waited
<1>3. Owned /\ Calm /\ AtThreshold
  BY DEF Owned, Calm, AtThreshold
<1>4. QED
  BY <1>1, <1>2, <1>3 DEF IInv

\* The steps of a START.
LEMMA StartPreserves ==
  ASSUME IInv, StartSteps
  PROVE  IInv'
<1> USE DEF IInv, TypeOK, Tracked, Session, Unwanted, Stopped, Waited, Owned,
            Calm, AtThreshold, flags, camVars, stopVars,
            procVars, watchVars
<1>1. CASE StartWant
  BY <1>1 DEF StartWant
<1>2. CASE DebounceOver
  BY <1>2 DEF DebounceOver
<1>3. CASE DebounceAbort
  BY <1>3 DEF DebounceAbort
<1>4. CASE PrepOk
  BY <1>4 DEF PrepOk
<1>5. CASE PrepTimeout
  <2>1. TypeOK'
    BY <1>5 DEF PrepTimeout
  <2>2. Tracked' /\ Session' /\ Unwanted'
    BY <1>5 DEF PrepTimeout
  <2>3. Stopped' /\ Waited' /\ Owned'
    BY <1>5 DEF PrepTimeout
  <2>4. Calm' /\ AtThreshold'
    BY <1>5 DEF PrepTimeout
  <2>5. QED
    BY <2>1, <2>2, <2>3, <2>4
<1>6. CASE StartError
  BY <1>6 DEF StartError
<1>7. CASE Spawn
  BY <1>7 DEF Spawn
<1>8. CASE StartFailed
  BY <1>8 DEF StartFailed
<1>9. QED
  BY <1>1, <1>2, <1>3, <1>4, <1>5, <1>6, <1>7, <1>8 DEF StartSteps

\* The steps of stop_engine.
LEMMA StopPreserves ==
  ASSUME IInv, StopSteps
  PROVE  IInv'
<1> USE DEF IInv, TypeOK, Tracked, Session, Unwanted, Stopped, Waited, Owned,
            Calm, AtThreshold, flags, camVars, stopVars,
            procVars, watchVars
<1>1. CASE StopClear
  <2>1. TypeOK'
    BY <1>1 DEF StopClear
  <2>2. Tracked' /\ Session' /\ Unwanted'
    BY <1>1 DEF StopClear
  <2>3. Stopped' /\ Waited' /\ Owned'
    BY <1>1 DEF StopClear
  <2>4. Calm' /\ AtThreshold'
    BY <1>1 DEF StopClear
  <2>5. QED
    BY <2>1, <2>2, <2>3, <2>4
<1>2. CASE StopExited
  BY <1>2 DEF StopExited
<1>3. CASE StopKill
  BY <1>3 DEF StopKill
<1>4. CASE StopReturn
  <2>1. TypeOK'
    BY <1>4 DEF StopReturn
  <2>2. Tracked' /\ Session' /\ Unwanted'
    BY <1>4 DEF StopReturn
  <2>3. Stopped' /\ Waited' /\ Owned'
    BY <1>4 DEF StopReturn
  <2>4. Calm' /\ AtThreshold'
    BY <1>4 DEF StopReturn
  <2>5. QED
    BY <2>1, <2>2, <2>3, <2>4
<1>5. QED
  BY <1>1, <1>2, <1>3, <1>4 DEF StopSteps

\* The main thread.
LEMMA MainPreserves ==
  ASSUME IInv, Main
  PROVE  IInv'
<1> USE DEF IInv, TypeOK, Tracked, Session, Unwanted, Stopped, Waited, Owned,
            Calm, AtThreshold, flags, camVars, stopVars,
            procVars, watchVars
<1>1. CASE Boot
  BY <1>1 DEF Boot
<1>2. CASE NicLost
  BY <1>2 DEF NicLost
<1>3. CASE WaitNic
  BY <1>3 DEF WaitNic
<1>4. CASE Accept
  BY <1>4 DEF Accept
<1>5. CASE StartRefused
  BY <1>5 DEF StartRefused
<1>6. CASE StartAccept
  BY <1>6 DEF StartAccept
<1>7. CASE StopCommand
  BY <1>7 DEF StopCommand, StopTake
<1>8. CASE SessionEnd
  BY <1>8 DEF SessionEnd, StopTake
<1>9. CASE MainLoopEnd
  BY <1>9 DEF MainLoopEnd, StopTake
<1>10. QED
  BY <1>1, <1>2, <1>3, <1>4, <1>5, <1>6, <1>7, <1>8, <1>9, StartPreserves,
     StopPreserves DEF Main

\* The watchers.
LEMMA WatchPreserves ==
  ASSUME IInv, NEW w \in Engines, Watch(w)
  PROVE  IInv'
<1> USE DEF IInv, TypeOK, Tracked, Session, Unwanted, Stopped, Waited, Owned,
            Calm, AtThreshold, flags, camVars, stopVars,
            procVars, watchVars
<1>1. CASE WatchBegin(w)
  BY <1>1 DEF WatchBegin
<1>2. CASE WatchExit(w)
  BY <1>2 DEF WatchExit
<1>3. CASE WatchCheck(w)
  <2>1. TypeOK'
    <3>1. watchPc' \in [Engines ->
            {"none", "begin", "watch", "check", "report", "recover", "end"}]
      <4>1. CASE wantStream
        BY <1>3, <4>1 DEF WatchCheck
      <4>2. CASE ~wantStream
        BY <1>3, <4>2 DEF WatchCheck
      <4>3. QED
        BY <4>1, <4>2
    <3>2. wantStream' \in BOOLEAN
      BY <1>3 DEF WatchCheck
    <3>3. QED
      BY <1>3, <3>1, <3>2 DEF WatchCheck
  <2>2. Tracked' /\ Session' /\ Unwanted'
    BY <1>3 DEF WatchCheck
  <2>3. Stopped' /\ Waited' /\ Owned'
    BY <1>3 DEF WatchCheck
  <2>4. Calm' /\ AtThreshold'
    BY <1>3 DEF WatchCheck
  <2>5. QED
    BY <2>1, <2>2, <2>3, <2>4
<1>4. CASE WatchReport(w)
  BY <1>4 DEF WatchReport
<1>5. CASE WatchRecover(w)
  BY <1>5 DEF WatchRecover
<1>6. QED
  BY <1>1, <1>2, <1>3, <1>4, <1>5 DEF Watch

\* The environment.
LEMMA EnvironmentPreserves ==
  ASSUME IInv, Environment
  PROVE  IInv'
<1> USE DEF IInv, TypeOK, Tracked, Session, Unwanted, Stopped, Waited, Owned,
            Calm, AtThreshold, flags, camVars, stopVars,
            procVars, watchVars
<1>1. CASE \E e \in Engines : EngineExit(e)
  BY <1>1 DEF EngineExit
<1>2. CASE Tick
  BY <1>2 DEF Tick
<1>3. CASE Unstick
  BY <1>3 DEF Unstick
<1>4. CASE \E e \in Engines : EncoderExit(e)
  BY <1>4 DEF EncoderExit
<1>5. CASE Signal
  <2>1. TypeOK'
    BY ZenonT(60), <1>5 DEF Signal
  <2>2. Tracked' /\ Session' /\ Unwanted'
    BY <1>5 DEF Signal
  <2>3. Stopped' /\ Waited' /\ Owned'
    BY <1>5 DEF Signal
  <2>4. Calm' /\ AtThreshold'
    BY <1>5 DEF Signal
  <2>5. QED
    BY <2>1, <2>2, <2>3, <2>4
<1>6. QED
  BY <1>1, <1>2, <1>3, <1>4, <1>5 DEF Environment

LEMMA NextPreserves == IInv /\ [Next]_vars => IInv'
<1> SUFFICES ASSUME IInv, [Next]_vars PROVE IInv'
  OBVIOUS
<1>1. CASE UNCHANGED vars
  BY <1>1 DEF vars, IInv, TypeOK, Tracked, Session, Unwanted, Stopped, Waited, Owned,
              Calm, AtThreshold, flags, camVars, stopVars,
              procVars, watchVars
<1>2. CASE Next
  BY <1>2, MainPreserves, WatchPreserves, EnvironmentPreserves DEF Next
<1>3. QED
  BY <1>1, <1>2

LEMMA InvariantLemma == Spec => []IInv
BY InitIInv, NextPreserves, PTL DEF Spec

-----------------------------------------------------------------------------
\* The state keeps its type.
THEOREM TypeCorrect == Spec => []TypeOK
<1>1. IInv => TypeOK
  BY DEF IInv
<1>2. QED
  BY <1>1, InvariantLemma, PTL

\* No engine process runs on without being tracked, stopped or killed, and none is
\* tracked or wanted without a session, although watcher, stop_engine and the end
\* of the session race for self.engine.
THEOREM NoOrphanThm == Spec => []NoOrphan
<1>1. IInv => NoOrphan
  BY DEF IInv, Owned, Tracked, Session, Unwanted, NoOrphan
<1>2. QED
  BY <1>1, InvariantLemma, PTL

\* The camera is prepared only when every engine is gone or was sent SIGKILL.
THEOREM PrepAloneThm == Spec => []PrepAlone
<1>1. IInv => PrepAlone
  BY DEF IInv, TypeOK, Owned, Tracked, Stopped, PrepAlone
<1>2. QED
  BY <1>1, InvariantLemma, PTL

\* Once the camera is wedged, and enough timeouts in a row always declare it so
\* (tx_config.py:45-46), nothing is started any more (uav_tx.py:277-280).
THEOREM WedgedQuietThm == Spec => []WedgedQuiet
<1>1. IInv => WedgedQuiet
  BY DEF IInv, Calm, AtThreshold, WedgedQuiet
<1>2. QED
  BY <1>1, InvariantLemma, PTL

\* Engine starts keep their distance whatever triggers them (tx_config.py:42-44).
THEOREM StartsSpacedThm == Spec => StartsSpaced
<1>1. IInv /\ [Next]_vars
        => [pc # "spawn" /\ pc' = "spawn" => sinceStart >= MinRestart]_vars
  <2> SUFFICES ASSUME IInv, Next, pc # "spawn", pc' = "spawn"
               PROVE  sinceStart >= MinRestart
    OBVIOUS
  <2>1. pc # "spawn" /\ pc' = "spawn"
    OBVIOUS
  <2>2. PrepOk
    <3> USE <2>1 DEF camVars
    <3>1. ~StopSteps
      BY DEF StopSteps, StopClear, StopExited, StopKill, StopReturn
    <3>2. ASSUME StartSteps PROVE PrepOk
      BY <3>2 DEF StartSteps, StartWant, DebounceOver, DebounceAbort, PrepTimeout,
                  StartError, Spawn, StartFailed
    <3>3. ~StartAccept /\ ~StartRefused /\ ~Boot /\ ~NicLost /\ ~WaitNic /\ ~Accept
      BY DEF StartAccept, StartRefused, Boot, NicLost, WaitNic, Accept
    <3>4. ~StopCommand /\ ~SessionEnd /\ ~MainLoopEnd
      BY DEF StopCommand, SessionEnd, MainLoopEnd, StopTake
    <3>5. ASSUME NEW w \in Engines PROVE ~Watch(w)
      BY DEF Watch, WatchBegin, WatchExit, WatchCheck, WatchReport, WatchRecover
    <3>6. ~Environment
      BY DEF Environment, EngineExit, EncoderExit, Tick, Unstick, Signal
    <3>7. QED
      BY <3>1, <3>2, <3>3, <3>4, <3>5, <3>6 DEF Next, Main
  <2>3. QED
    BY <2>2 DEF PrepOk, IInv, Waited
<1>2. QED
  BY <1>1, InvariantLemma, PTL DEF Spec, StartsSpaced

-----------------------------------------------------------------------------
(* The refinement of CameraGuard. What IInv does not say and the mapping       *)
(* needs: an engine about to be started was never sent SIGKILL before.         *)

\* Only engines that were started exist or were sent SIGKILL.
Started == alive \cup killed \subseteq 1..spawned

LEMMA StartedStep == IInv /\ Started /\ [Next]_vars => Started'
<1> SUFFICES ASSUME IInv, Started, [Next]_vars PROVE Started'
  OBVIOUS
<1> USE DEF Started, procVars
<1>1. CASE UNCHANGED <<spawned, killed, alive>>
  BY <1>1
<1>2. CASE Spawn
  BY <1>2 DEF Spawn, IInv, TypeOK
<1>3. CASE StopKill
  BY <1>3 DEF StopKill
<1>4. CASE \E e \in Engines : EngineExit(e) \/ EncoderExit(e)
  BY <1>4 DEF EngineExit, EncoderExit
<1>5. CASE Main /\ ~Spawn /\ ~StopKill
  <2>1. UNCHANGED procVars
    BY <1>5 DEF Main, StartSteps, StopSteps, Boot, NicLost, WaitNic, Accept,
       StartRefused, StartAccept, StartWant, DebounceOver, DebounceAbort, PrepOk,
       PrepTimeout, StartError, StartFailed, StopCommand, SessionEnd, MainLoopEnd,
       StopTake, StopClear, StopExited, StopReturn
  <2>2. QED
    BY <2>1
<1>6. CASE \E w \in Engines : Watch(w)
  BY <1>6 DEF Watch, WatchBegin, WatchExit, WatchCheck, WatchReport, WatchRecover
<1>7. CASE Tick \/ Unstick \/ Signal
  BY <1>7 DEF Tick, Unstick, Signal
<1>8. CASE UNCHANGED vars
  BY <1>8 DEF vars
<1>9. QED
  BY <1>2, <1>3, <1>4, <1>5, <1>6, <1>7, <1>8 DEF Next, Environment

\* While a START is on its way, and while stop_engine is not waiting, who can still
\* be at the camera is the tracked engine alone.
LEMMA StartAlone ==
  ASSUME IInv, pc \in Starting
  PROVE  alive \ killed = {}
BY DEF IInv, TypeOK, Tracked, Stopped, Owned

\* At most one engine that was not killed exists.
LEMMA OneEngine ==
  ASSUME IInv, NEW e \in alive, e \notin killed
  PROVE  alive \ killed = {e} /\ pc \notin Starting
<1>1. pc \notin Starting
  BY StartAlone
<1>2. alive \ killed \subseteq {engine, stopping} /\ NoEngine \notin alive
  BY DEF IInv, TypeOK, Owned
<1>3. engine = NoEngine \/ stopping = NoEngine
  BY DEF IInv, Tracked, Stopped
<1>4. QED
  BY <1>1, <1>2, <1>3

LEMMA CameraStart ==
  ASSUME IInv, Started, StartSteps
  PROVE  Camera!Next \/ UNCHANGED Camera!vars
<1> USE DEF cameraUser, Camera!vars, flags, camVars, procVars
<1>0. alive \ killed = {}
  BY StartAlone DEF StartSteps, StartWant, DebounceOver, DebounceAbort, PrepOk,
     PrepTimeout, StartError, Spawn, StartFailed
<1>1. ASSUME pc \in {"start", "debounce"}, pc' = "prep", sinceStart >= MinRestart,
             UNCHANGED <<camVars, procVars>>
      PROVE  Camera!Prepare
  <2>1. ~wedged
    BY <1>1 DEF IInv, Calm
  <2>2. QED
    BY <1>0, <1>1, <2>1 DEF Camera!Prepare
<1>2. CASE StartWant
  <2>1. CASE sinceStart < MinRestart
    BY <1>0, <1>2, <2>1 DEF StartWant
  <2>2. CASE ~(sinceStart < MinRestart)
    <3>1. Camera!Prepare
      BY <1>1, <1>2, <2>2 DEF StartWant, IInv, TypeOK
    <3>2. QED
      BY <3>1 DEF Camera!Next
  <2>3. QED
    BY <2>1, <2>2
<1>3. CASE DebounceOver
  <2>1. Camera!Prepare
    BY <1>1, <1>3 DEF DebounceOver
  <2>2. QED
    BY <2>1 DEF Camera!Next
<1>4. CASE DebounceAbort
  BY <1>0, <1>4 DEF DebounceAbort
<1>5. CASE PrepOk
  <2>1. Camera!Prepared
    BY <1>5 DEF PrepOk, Camera!Prepared
  <2>2. QED
    BY <2>1 DEF Camera!Next
<1>6. CASE PrepTimeout
  <2>1. cameraUser = "preparation" /\ cameraUser' = "none"
    BY <1>0, <1>6 DEF PrepTimeout
  <2>2. wedged' \in BOOLEAN /\ (failCount' >= WedgeThreshold => wedged')
    BY <1>6, StartPreserves DEF StartSteps, IInv, TypeOK, AtThreshold
  <2>3. failCount' = failCount + 1 /\ UNCHANGED sinceStart
    BY <1>6 DEF PrepTimeout
  <2>4. Camera!TimedOut
    BY <2>1, <2>2, <2>3 DEF Camera!TimedOut
  <2>5. QED
    BY <2>4 DEF Camera!Next
<1>7. CASE StartError
  <2>1. Camera!GivenUp
    BY <1>0, <1>7 DEF StartError, Camera!GivenUp
  <2>2. QED
    BY <2>1 DEF Camera!Next
<1>8. CASE Spawn
  <2>1. spawned + 1 \in alive' \ killed'
    BY <1>8 DEF Spawn, Started, IInv, TypeOK
  <2>2. Camera!Use
    BY <1>8, <2>1 DEF Spawn, Camera!Use
  <2>3. QED
    BY <2>2 DEF Camera!Next
<1>9. CASE StartFailed
  BY <1>9 DEF StartFailed
<1>10. QED
  BY <1>2, <1>3, <1>4, <1>5, <1>6, <1>7, <1>8, <1>9 DEF StartSteps

\* An engine that ends leaves the camera, unless it was sent SIGKILL before.
LEMMA CameraExit ==
  ASSUME IInv, NEW e \in Engines, EngineExit(e)
  PROVE  Camera!Next \/ UNCHANGED Camera!vars
<1> USE DEF cameraUser, Camera!vars, camVars
<1>1. (alive \ killed)' = (alive \ killed) \ {e}
  BY DEF EngineExit
<1>2. CASE e \in killed
  BY <1>1, <1>2 DEF EngineExit
<1>3. CASE e \notin killed
  <2>1. alive \ killed = {e} /\ pc \notin Starting
    BY <1>3, OneEngine DEF EngineExit
  <2>2. Camera!Leave
    BY <1>1, <2>1 DEF EngineExit, Camera!Leave
  <2>3. QED
    BY <2>2 DEF Camera!Next
<1>4. QED
  BY <1>2, <1>3

\* The same for an engine that is sent SIGKILL.
LEMMA CameraKill ==
  ASSUME IInv, StopKill
  PROVE  Camera!Next \/ UNCHANGED Camera!vars
<1> USE DEF cameraUser, Camera!vars, camVars
<1>1. (alive \ killed)' = (alive \ killed) \ {stopping}
  BY DEF StopKill
<1>2. CASE stopping \in killed
  BY <1>1, <1>2 DEF StopKill
<1>3. CASE stopping \notin killed
  <2>1. alive \ killed = {stopping} /\ pc \notin Starting
    BY <1>3, OneEngine DEF StopKill
  <2>2. Camera!Leave
    BY <1>1, <2>1 DEF StopKill, Camera!Leave
  <2>3. QED
    BY <2>2 DEF Camera!Next
<1>4. QED
  BY <1>2, <1>3

\* No other step of the main thread and no step of a watcher touches the camera.
LEMMA CameraMain ==
  ASSUME IInv, Started, Main
  PROVE  Camera!Next \/ UNCHANGED Camera!vars
<1> USE DEF cameraUser, Camera!vars, camVars, procVars
<1>1. CASE StartSteps
  BY <1>1, CameraStart
<1>2. CASE StopKill
  BY <1>2, CameraKill
<1>3. CASE Boot \/ NicLost \/ WaitNic \/ Accept
  BY <1>3 DEF Boot, NicLost, WaitNic, Accept
<1>4. CASE StartRefused \/ StartAccept
  BY <1>4 DEF StartRefused, StartAccept
<1>5. CASE StopCommand \/ SessionEnd \/ MainLoopEnd
  BY <1>5 DEF StopCommand, SessionEnd, MainLoopEnd, StopTake
<1>6. CASE StopClear \/ StopExited \/ StopReturn
  BY <1>6 DEF StopClear, StopExited, StopReturn
<1>7. QED
  BY <1>1, <1>2, <1>3, <1>4, <1>5, <1>6 DEF Main, StopSteps

LEMMA CameraStep ==
  IInv /\ Started /\ [Next]_vars => [Camera!Next]_(Camera!vars)
<1> SUFFICES ASSUME IInv, Started, [Next]_vars
             PROVE  Camera!Next \/ UNCHANGED Camera!vars
  OBVIOUS
<1> USE DEF cameraUser, Camera!vars, camVars, procVars
<1>1. CASE Main
  BY <1>1, CameraMain
<1>2. CASE \E w \in Engines : Watch(w)
  BY <1>2 DEF Watch, WatchBegin, WatchExit, WatchCheck, WatchReport, WatchRecover
<1>3. CASE \E e \in Engines : EngineExit(e)
  BY <1>3, CameraExit
<1>4. CASE Tick
  <2>1. Camera!Rest
    BY <1>4 DEF Tick, Camera!Rest
  <2>2. QED
    BY <2>1 DEF Camera!Next
<1>5. CASE Unstick \/ Signal \/ (\E e \in Engines : EncoderExit(e))
  BY <1>5 DEF Unstick, Signal, EncoderExit
<1>6. CASE UNCHANGED vars
  BY <1>6 DEF vars
<1>7. QED
  BY <1>1, <1>2, <1>3, <1>4, <1>5, <1>6 DEF Next, Environment

\* The supervisor's threads together keep the anti-wedge order of uav_tx.py:694-703,
\* CameraGuard, for any interval, threshold and number of engines.
THEOREM ImplementsCameraThm == Spec => ImplementsCamera
<1>1. Init => Camera!Init /\ Started
  BY DEF Init, Camera!Init, cameraUser, Started
<1>2. QED
  BY <1>1, InvariantLemma, StartedStep, CameraStep, PTL
     DEF Spec, ImplementsCamera, Camera!Spec

-----------------------------------------------------------------------------
(* What CameraGuard promises, and the supervisor with it                    *)

\* In CameraGuard a camera is declared wedged when nobody has it, and nobody
\* gets it afterwards.
LEMMA GuardLeavesWedged == Camera!Spec => [](wedged => cameraUser = "none")
<1> DEFINE Unused == wedged => cameraUser = "none"
<1>1. Camera!Init => Unused
  BY DEF Camera!Init
<1>2. Unused /\ [Camera!Next]_(Camera!vars) => Unused'
  <2> SUFFICES ASSUME Unused, [Camera!Next]_(Camera!vars) PROVE Unused'
    OBVIOUS
  <2> HIDE DEF cameraUser
  <2>1. CASE UNCHANGED Camera!vars
    BY <2>1 DEF Camera!vars
  <2>2. CASE Camera!Next
    BY <2>2 DEF Camera!Next, Camera!Prepare, Camera!Prepared, Camera!TimedOut,
                Camera!GivenUp, Camera!Use, Camera!Leave, Camera!Rest
  <2>3. QED
    BY <2>1, <2>2
<1>3. QED
  BY <1>1, <1>2, PTL DEF Camera!Spec

\* Once the camera is declared wedged it is not only left alone by every START
\* (uav_tx.py:277-280): no engine that was not sent SIGKILL is left that uses it.
THEOREM WedgedUnused == Spec => [](wedged => cameraUser = "none")
BY ImplementsCameraThm, GuardLeavesWedged, PTL DEF ImplementsCamera

-----------------------------------------------------------------------------
(* The watchers                                                             *)

\* The watcher that was started with the tracked engine has still to read
\* self.engine, or has read it and waits for it.
Watched == engine # NoEngine =>
  \/ watchPc[engine] = "begin"
  \/ watchPc[engine] = "watch" /\ watchEng[engine] = engine

LEMMA WatchedStep ==
  ASSUME IInv, Watched, [Next]_vars
  PROVE  Watched'
<1> USE DEF Watched, IInv, TypeOK, watchVars
<1>1. CASE Spawn
  BY <1>1 DEF Spawn
<1>2. CASE Main /\ ~Spawn
  <2>1. UNCHANGED watchVars /\ engine' \in {engine, NoEngine}
    BY <1>2 DEF Main, StartSteps, StopSteps, Boot, NicLost, WaitNic, Accept,
       StartRefused, StartAccept, StartWant, DebounceOver, DebounceAbort, PrepOk,
       PrepTimeout, StartError, StartFailed, StopCommand, SessionEnd, MainLoopEnd,
       StopTake, StopClear, StopExited, StopKill, StopReturn
  <2>2. QED
    BY <2>1
<1>3. ASSUME NEW w \in Engines, WatchBegin(w) PROVE Watched'
  BY <1>3 DEF WatchBegin
<1>4. ASSUME NEW w \in Engines, WatchExit(w) PROVE Watched'
  BY <1>4 DEF WatchExit
<1>5. ASSUME NEW w \in Engines, WatchCheck(w) \/ WatchReport(w) \/ WatchRecover(w)
      PROVE  Watched'
  BY <1>5 DEF WatchCheck, WatchReport, WatchRecover
<1>6. CASE Environment \/ UNCHANGED vars
  <2>1. UNCHANGED <<engine, watchVars>>
    BY <1>6 DEF vars, Environment, EngineExit, EncoderExit, Tick, Unstick, Signal
  <2>2. QED
    BY <2>1
<1>7. QED
  BY <1>1, <1>2, <1>3, <1>4, <1>5, <1>6 DEF Next, Watch

\* No tracked engine is without a thread that will notice its death and untrack
\* it, however fast starts and stops follow each other: a watcher that comes late
\* reads an engine that is not its own, but the one of the tracked engine does not.
\* It is what DeathNoticed rests on.
THEOREM TrackedIsWatched == Spec => []Watched
<1>1. Init => Watched
  BY DEF Init, Watched
<1>2. QED
  BY <1>1, InvariantLemma, WatchedStep, PTL DEF Spec

-----------------------------------------------------------------------------
(* Preparations on top of each other                                        *)

\* A v4l2-ctl that is left behind has cost the camera its use.
LeftBehind == stuck <= 1 /\ (stuck > 0 => wedged)

LEMMA LeftBehindStep ==
  ASSUME WedgeThreshold = 1, IInv, LeftBehind, [Next]_vars
  PROVE  LeftBehind'
<1> USE DEF LeftBehind, IInv, TypeOK, camVars
<1>1. CASE PrepTimeout
  <2>1. ~wedged /\ stuck = 0
    BY <1>1 DEF PrepTimeout, Calm
  <2>2. stuck' \in {0, 1}
    <3>1. stuck' = stuck \/ stuck' = stuck + 1
      BY <1>1 DEF PrepTimeout
    <3>2. QED
      BY ONLY <2>1, <3>1
  <2>3. wedged'
    <3>1. failCount' = failCount + 1 /\ failCount \in Nat
      BY <1>1 DEF PrepTimeout
    <3>2. failCount' >= WedgeThreshold
      BY ONLY <3>1, WedgeThreshold = 1
    <3>3. QED
      BY <1>1, <3>2 DEF PrepTimeout
  <2>4. QED
    BY <2>2, <2>3
<1>2. CASE Main /\ ~PrepTimeout
  <2>1. UNCHANGED <<wedged, stuck>>
    BY <1>2 DEF Main, StartSteps, StopSteps, Boot, NicLost, WaitNic, Accept,
       StartRefused, StartAccept, StartWant, DebounceOver, DebounceAbort, PrepOk,
       Spawn, StartError, StartFailed, StopCommand, SessionEnd, MainLoopEnd,
       StopTake, StopClear, StopExited, StopKill, StopReturn
  <2>2. QED
    BY <2>1
<1>3. CASE Unstick
  BY <1>3 DEF Unstick
<1>4. CASE \/ \E w \in Engines : Watch(w)
           \/ \E e \in Engines : EngineExit(e) \/ EncoderExit(e)
           \/ Tick \/ Signal \/ UNCHANGED vars
  <2>1. UNCHANGED <<wedged, stuck>>
    BY <1>4 DEF vars, Watch, WatchBegin, WatchExit, WatchCheck, WatchReport,
       WatchRecover, EngineExit, EncoderExit, Tick, Signal
  <2>2. QED
    BY <2>1
<1>5. QED
  BY <1>1, <1>2, <1>3, <1>4 DEF Next, Environment

\* "Only ONE cam-60fps.sh may be pending/running at a time" (uav_tx.py:272-275),
\* which the code does not keep with its default of two timeouts, holds when
\* UAV_CAM_WEDGE_FAIL_THRESHOLD is set to one: the first one that may have left a
\* v4l2-ctl behind is then the last.
THEOREM SingleFlightAtOne ==
  ASSUME WedgeThreshold = 1
  PROVE  Spec => []SingleFlight
<1>1. Init => LeftBehind
  BY DEF Init, LeftBehind
<1>2. IInv /\ LeftBehind => SingleFlight
  BY DEF IInv, TypeOK, Calm, LeftBehind, SingleFlight
<1>3. QED
  BY <1>1, <1>2, InvariantLemma, LeftBehindStep, PTL DEF Spec
=============================================================================
