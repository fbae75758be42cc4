------------------------ MODULE RxSupervisor_proofs ------------------------
(***************************************************************************)
(* Proofs about RxSupervisor for any caps and timeouts.                    *)
(***************************************************************************)
EXTENDS RxSupervisor, TLAPS

InAuto(th) == IF pc[th] \in AutoStart THEN 1 ELSE 0

\* Automatic retry is given up at the cap; a start that is still being issued by
\* then may fail once more.
FailBound ==
  /\ ~flags.exhausted => flags.fail < MaxAutoRetry
  /\ flags.fail + InAuto("main") + InAuto("sup") <= MaxAutoRetry + 1

\* The board streams over a live link only, and only self.conn is alive.
BoardLinked == (~conn => ~link) /\ (~link => ~Streams(board))

\* Whoever issues the operator's START still wants it: the console does one
\* command after the other.
GoingWanted == pc.con \in {"go_check", "go_view", "go_send"} => flags.want

\* An unwanted stream is about to be stopped by the console, or by an automatic
\* start that has not looked at want_stream again.
StopComing ==
  ~flags.want /\ Streams(board) =>
    \/ pc.con \in {"halt_send", "quit_send"}
    \/ pc.main = "sent" \/ pc.sup = "sent"

\* StopWins is about moments when nobody is busy; StopComing says what holds in
\* between.
IInv == TypeOK /\ FailBound /\ BoardLinked /\ GoingWanted /\ StopComing

USE RetryAssumption, TimeAssumption, ReaderAssumption, BoundAssumption
USE DEF Never, NoMail, AutoStart, Pcs, Flags, Clocks, Streams

LEMMA InitIInv == Init => IInv
<1> SUFFICES ASSUME Init PROVE IInv
  OBVIOUS
<1>1. TypeOK
  <2>1. flags \in Flags
    BY DEF Init
  <2>2. clk \in Clocks
    BY DEF Init
  <2>3. pc \in Pcs
    BY DEF Init
  <2>4. stale \in 0..MaxStale /\ keys \in 0..MaxKeys /\ faults \in 0..MaxFaults
    BY DEF Init
  <2>5. QED
    BY <2>1, <2>2, <2>3, <2>4 DEF Init, TypeOK
<1>2. FailBound
  BY DEF Init, FailBound, InAuto
<1>3. BoardLinked /\ GoingWanted /\ StopComing
  BY DEF Init, BoardLinked, GoingWanted, StopComing
<1>4. QED
  BY <1>1, <1>2, <1>3 DEF IInv

LEMMA BackoffType == ASSUME NEW n PROVE Backoff(n) \in 0..RetryBackoffMax
BY DEF Backoff

LEMMA AgedType ==
  ASSUME NEW limit \in Nat, NEW t \in 0..limit
  PROVE  Aged(t, limit) \in 0..limit
BY DEF Aged

LEMMA AgedSinceType ==
  ASSUME NEW limit \in Nat, NEW t \in {Never} \cup 0..limit
  PROVE  AgedSince(t, limit) \in {Never} \cup 0..limit
BY DEF AgedSince, Aged


-----------------------------------------------------------------------------
(* What the helpers of the actions make of the types.                       *)

OutsideOK ==
  /\ conn \in BOOLEAN /\ link \in BOOLEAN /\ stale \in 0..MaxStale
  /\ board \in {"off", "on", "hung", "wedged"} /\ mail \in {NoMail, "ERROR", "WEDGED"}
  /\ faults \in 0..MaxFaults

ViewerOK == viewer \in {"none", "up", "dead"} /\ dying \in BOOLEAN

LEMMA StopViewerType == TypeOK /\ StopViewer => ViewerOK'
BY DEF TypeOK, ViewerOK, StopViewer

LEMMA NotSentType == TypeOK /\ NotSent => OutsideOK'
BY DEF TypeOK, OutsideOK, NotSent, link_vars, board_vars

LEMMA SessionEndsType ==
  TypeOK /\ SessionEnds => board' \in {"off", "on", "hung", "wedged"}
BY DEF TypeOK, SessionEnds

LEMMA CloseLinkType ==
  ASSUME TypeOK, NEW n \in 0..MaxStale, CloseLink(n), UNCHANGED faults
  PROVE  OutsideOK'
<1>1. board' \in {"off", "on", "hung", "wedged"}
  BY SessionEndsType DEF CloseLink
<1>2. conn' \in BOOLEAN /\ link' \in BOOLEAN /\ stale' \in 0..MaxStale
  BY DEF CloseLink
<1>3. QED
  BY <1>1, <1>2 DEF TypeOK, OutsideOK, CloseLink

LEMMA SendFailsType == TypeOK /\ SendFails => OutsideOK'
<1> SUFFICES ASSUME TypeOK, SendFails PROVE OutsideOK'
  OBVIOUS
<1>1. CloseLink(stale + 1) /\ stale < MaxStale /\ UNCHANGED faults
  BY DEF SendFails
<1>2. stale + 1 \in 0..MaxStale
  BY <1>1 DEF TypeOK
<1>3. QED
  BY <1>1, <1>2, CloseLinkType

LEMMA SentStartType == TypeOK /\ Sent(StartCommand) => OutsideOK'
<1> SUFFICES ASSUME TypeOK, Sent(StartCommand) PROVE OutsideOK'
  OBVIOUS
<1>1. CASE link
  BY <1>1 DEF TypeOK, OutsideOK, Sent, StartCommand, Fault, link_vars, board_vars
<1>2. CASE ~link
  BY <1>2 DEF TypeOK, OutsideOK, Sent, link_vars, board_vars
<1>3. QED
  BY <1>1, <1>2

LEMMA SentStopType == TypeOK /\ Sent(StopCommand) => OutsideOK'
BY DEF TypeOK, OutsideOK, Sent, StopCommand, SessionEnds, link_vars, board_vars

LEMMA ArmPendingType == TypeOK /\ ArmPending => flags' \in Flags /\ clk' \in Clocks
<1> SUFFICES ASSUME TypeOK, ArmPending PROVE flags' \in Flags /\ clk' \in Clocks
  OBVIOUS
<1>1. flags' \in Flags
  BY DEF TypeOK, ArmPending
<1>2. clk' = [retryIn |-> 0, sinceStart |-> 0, sinceFrame |-> Never,
              upFor |-> clk.upFor]
  BY DEF TypeOK, ArmPending
<1>3. clk' \in Clocks
  BY <1>2 DEF TypeOK
<1>4. QED
  BY <1>1, <1>3

LEMMA NoteFailureType ==
  TypeOK /\ NoteFailure /\ flags.fail <= MaxAutoRetry
    => flags' \in Flags /\ clk' \in Clocks
<1> SUFFICES ASSUME TypeOK, NoteFailure, flags.fail <= MaxAutoRetry
             PROVE  flags' \in Flags /\ clk' \in Clocks
  OBVIOUS
<1>1. flags' \in Flags
  <2> DEFINE e == flags.exhausted \/ flags.fail + 1 >= MaxAutoRetry
  <2>1. flags \in Flags
    BY DEF TypeOK
  <2>2. e \in BOOLEAN /\ flags.fail + 1 \in 0..(MaxAutoRetry + 1)
    BY <2>1
  <2>3. flags' = [flags EXCEPT !.pending = FALSE, !.fail = flags.fail + 1,
                              !.exhausted = e]
    BY DEF NoteFailure
  <2> HIDE DEF e
  <2>4. QED
    BY ONLY <2>1, <2>2, <2>3 DEF Flags
<1>2. clk' \in Clocks
  <2>1. Backoff(flags.fail + 1) \in 0..RetryBackoffMax
    BY BackoffType
  <2>2. clk \in Clocks
    BY DEF TypeOK
  <2>3. clk' = [clk EXCEPT !.upFor = Never,
                  !.retryIn = IF flags.fail + 1 >= MaxAutoRetry THEN @
                              ELSE Backoff(flags.fail + 1)]
    BY DEF NoteFailure
  <2>4. QED
    BY ONLY <2>1, <2>2, <2>3 DEF Clocks, Never
<1>3. QED
  BY <1>1, <1>2

-----------------------------------------------------------------------------
(* TypeOK is preserved, part by part.                                       *)

\* A failure is noted below the cap, or by a start that is in flight.
LEMMA RoomToFail ==
  ASSUME IInv
  PROVE  /\ Failed => flags.fail <= MaxAutoRetry
         /\ \A th \in {"main", "sup"} : AutoFailed(th) => flags.fail <= MaxAutoRetry
BY DEF IInv, TypeOK, FailBound, InAuto, Failed, Supervises, AutoFailed

LEMMA TickType == IInv /\ Tick => clk' \in Clocks
<1> SUFFICES ASSUME IInv, Tick PROVE clk' \in Clocks
  OBVIOUS
<1>1. clk \in Clocks
  BY DEF IInv, TypeOK
<1>2. AgedSince(clk.sinceFrame, StallTimeout + 1) \in {Never} \cup 0..(StallTimeout + 1)
  BY <1>1, AgedSinceType
<1>3. LastFrame \subseteq {Never} \cup 0..(StallTimeout + 1)
  BY <1>2 DEF LastFrame
<1>4. Aged(clk.sinceStart, Grace) \in 0..Grace
  BY <1>1, AgedType
<1>5. AgedSince(clk.upFor, RetryResetAfter) \in {Never} \cup 0..RetryResetAfter
  BY <1>1, AgedSinceType
<1>6. QED
  BY <1>1, <1>3, <1>4, <1>5 DEF Tick

LEMMA FlagsType == IInv /\ Next => flags' \in Flags /\ clk' \in Clocks
<1> SUFFICES ASSUME IInv, Next PROVE flags' \in Flags /\ clk' \in Clocks
  OBVIOUS
<1>1. TypeOK /\ flags \in Flags /\ clk \in Clocks
  BY DEF IInv, TypeOK
<1>2. CASE UNCHANGED <<flags, clk>>
  BY <1>1, <1>2
<1>3. CASE ArmPending
  BY <1>1, <1>3, ArmPendingType
<1>4. CASE NoteFailure /\ flags.fail <= MaxAutoRetry
  BY <1>1, <1>4, NoteFailureType
<1>5. ASSUME NEW th \in {"main", "sup"}, AutoSteps(th)
      PROVE  flags' \in Flags /\ clk' \in Clocks
  <2>1. CASE AutoSend(th)
    BY <1>1, <2>1 DEF AutoSend
  <2>2. CASE AutoAbort(th)
    <3>1. flags' = [flags EXCEPT !.pending = FALSE] /\ clk' = [clk EXCEPT !.retryIn = 0]
      BY <2>2 DEF AutoAbort
    <3>2. flags' \in Flags
      BY <1>1, <3>1
    <3>3. clk' \in Clocks
      BY <1>1, <3>1
    <3>4. QED
      BY <3>2, <3>3
  <2>3. CASE AutoFailed(th)
    BY <1>4, <2>3, RoomToFail DEF AutoFailed
  <2>4. QED
    BY <1>2, <1>5, <2>1, <2>2, <2>3 DEF AutoSteps, AutoTake, AutoCheck, AutoView, AutoDone
<1>6. CASE Main
  BY <1>2, <1>3, <1>5, <1>6 DEF Main, Connect, ResumeSkip, Resume, LinkGone, Shutdown
<1>7. CASE Sup
  <2>1. CASE Recovered
    <3>1. flags' \in Flags
      BY <1>1, <2>1 DEF Recovered
    <3>2. clk' \in Clocks
      BY <1>1, <2>1 DEF Recovered
    <3>3. QED
      BY <3>1, <3>2
  <2>2. CASE Failed
    BY <1>4, <2>2, RoomToFail DEF Failed
  <2>3. CASE Healthy
    BY <1>1, <2>3 DEF Healthy
  <2>4. QED
    BY <1>3, <1>5, <1>7, <2>1, <2>2, <2>3 DEF Sup, Restart
<1>8. CASE Console
  <2>1. CASE GoSend
    BY <1>1, <2>1 DEF GoSend
  <2>2. QED
    BY <1>2, <1>8, <2>1 DEF Console, GoCheck, GoView, StopSend, StopView, Bye
<1>9. CASE Keys
  <2>1. flags' \in Flags
    <3>1. CASE KeyStart
      <4>1. flags' = [want |-> TRUE, exhausted |-> FALSE, pending |-> TRUE,
                      errorRetry |-> FALSE, fail |-> 0]
        BY <3>1 DEF KeyStart
      <4>2. QED
        BY <4>1
    <3>2. CASE KeyStop
      <4>1. flags' = [want |-> FALSE, exhausted |-> FALSE, pending |-> FALSE,
                      errorRetry |-> FALSE, fail |-> 0]
        BY <3>2 DEF KeyStop
      <4>2. QED
        BY <4>1
    <3>3. QED
      BY <1>9, <3>1, <3>2 DEF Keys
  <2>2. clk' \in Clocks
    BY <1>1, <1>9 DEF Keys, KeyStart, KeyStop
  <2>3. QED
    BY <2>1, <2>2
<1>10. CASE Readers
  <2>1. CASE ReadError
    <3>1. CASE flags' = [flags EXCEPT !.errorRetry = TRUE]
               /\ clk' = [clk EXCEPT !.retryIn = Backoff(flags.fail + 1)]
      BY ONLY <1>1, <3>1, BackoffType DEF Flags, Clocks
    <3>2. QED
      BY <1>2, <2>1, <3>1 DEF ReadError
  <2>2. CASE ReadWedged
    <3>1. flags' \in Flags
      BY <1>1, <2>2 DEF ReadWedged
    <3>2. clk' \in Clocks
      BY <1>1, <2>2 DEF ReadWedged
    <3>3. QED
      BY <3>1, <3>2
  <2>3. QED
    BY <1>2, <1>10, <2>1, <2>2 DEF Readers, ReaderLost, StaleLost
<1>11. CASE SenderLost \/ ViewerEnds \/ Environment
  BY <1>2, <1>11 DEF SenderLost, ViewerEnds, Environment, LinkDies, BoardCrashes,
                     BoardHangs, BoardResumes, ViewerDies
<1>12. CASE Tick
  BY <1>1, <1>12, TickType DEF Tick
<1>13. QED
  BY <1>6, <1>7, <1>8, <1>9, <1>10, <1>11, <1>12 DEF Next

LEMMA PcType == IInv /\ Next => pc' \in Pcs
<1> SUFFICES ASSUME IInv, Next PROVE pc' \in Pcs
  OBVIOUS
<1>1. pc \in Pcs
  BY DEF IInv, TypeOK
<1>2. ASSUME NEW th \in {"main", "sup"}, AutoSteps(th) PROVE pc' \in Pcs
  BY <1>1, <1>2 DEF AutoSteps, AutoTake, AutoCheck, AutoView, AutoSend, AutoAbort,
                    AutoDone, AutoFailed, Goto, Home
<1>3. CASE Main
  BY <1>1, <1>2, <1>3 DEF Main, Connect, ResumeSkip, Resume, LinkGone, Shutdown, Goto
<1>4. CASE Sup
  BY <1>1, <1>2, <1>4 DEF Sup, Recovered, Failed, Healthy, Restart, Goto
<1>5. CASE Console
  BY <1>1, <1>5 DEF Console, GoCheck, GoView, GoSend, StopSend, StopView, Bye, Goto
<1>6. CASE Keys
  BY <1>1, <1>6 DEF Keys, KeyStart, KeyStop, Goto
<1>7. CASE UNCHANGED pc
  BY <1>1, <1>7
<1>8. QED
  BY <1>3, <1>4, <1>5, <1>6, <1>7
     DEF Next, Readers, ReadError, ReadWedged, ReaderLost, StaleLost, SenderLost,
         ViewerEnds, Environment, LinkDies, BoardCrashes, BoardHangs, BoardResumes,
         ViewerDies, Tick

LEMMA OutsideType == IInv /\ Next => OutsideOK'
<1> SUFFICES ASSUME IInv, Next PROVE OutsideOK'
  OBVIOUS
<1>1. TypeOK /\ OutsideOK
  BY DEF IInv, TypeOK, OutsideOK
<1>2. CASE UNCHANGED <<link_vars, board_vars, faults>>
  BY <1>1, <1>2 DEF OutsideOK, link_vars, board_vars
<1>3. CASE NotSent \/ SendFails \/ Sent(StartCommand) \/ Sent(StopCommand)
  BY <1>1, <1>3, NotSentType, SendFailsType, SentStartType, SentStopType
<1>4. ASSUME NEW th \in {"main", "sup"}, AutoSteps(th) PROVE OutsideOK'
  BY <1>2, <1>3, <1>4 DEF AutoSteps, AutoTake, AutoCheck, AutoView, AutoSend,
                          AutoAbort, AutoDone, AutoFailed, bounds
<1>5. CASE Main
  <2>1. CASE Connect
    BY <1>1, <2>1 DEF Connect, OutsideOK, bounds
  <2>2. CASE Shutdown
    <3>1. CloseLink(0) /\ UNCHANGED faults
      BY <2>2 DEF Shutdown, CloseLink, bounds
    <3>2. QED
      BY <1>1, <3>1, CloseLinkType
  <2>3. QED
    BY <1>2, <1>4, <1>5, <2>1, <2>2 DEF Main, ResumeSkip, Resume, LinkGone, bounds
<1>6. CASE Sup
  BY <1>2, <1>4, <1>6 DEF Sup, Supervises, Recovered, Failed, Healthy, Restart, bounds
<1>7. CASE Console \/ Keys
  BY <1>2, <1>3, <1>7 DEF Console, GoCheck, GoView, GoSend, StopSend, StopView, Bye,
                          Keys, KeyStart, KeyStop, bounds
<1>8. CASE Readers
  <2>1. CASE ReadError \/ ReadWedged
    BY <1>1, <2>1 DEF ReadError, ReadWedged, OutsideOK, link_vars, bounds
  <2>2. CASE ReaderLost \/ StaleLost
    <3>1. PICK n \in 0..MaxStale : CloseLink(n) /\ UNCHANGED faults
      <4>1. stale \in 0..MaxStale /\ (stale > 0 => stale - 1 \in 0..MaxStale)
        BY <1>1 DEF OutsideOK
      <4>2. QED
        BY <2>2, <4>1 DEF ReaderLost, StaleLost, OnLinkLost, bounds
    <3>2. QED
      BY <1>1, <3>1, CloseLinkType
  <2>3. QED
    BY <1>8, <2>1, <2>2 DEF Readers
<1>9. CASE SenderLost
  BY <1>3, <1>9 DEF SenderLost
<1>10. CASE Environment
  <2>1. CASE LinkDies
    <3>1. board' \in {"off", "on", "hung", "wedged"}
      BY <1>1, <2>1, SessionEndsType DEF LinkDies
    <3>2. faults' \in 0..MaxFaults
      BY <1>1, <2>1 DEF LinkDies, Fault, OutsideOK
    <3>3. QED
      BY <1>1, <2>1, <3>1, <3>2 DEF LinkDies, OutsideOK
  <2>2. QED
    BY <1>1, <1>10, <2>1 DEF Environment, BoardCrashes, BoardHangs, BoardResumes,
       ViewerDies, OutsideOK, Fault, link_vars, board_vars, bounds
<1>11. CASE ViewerEnds \/ Tick
  BY <1>2, <1>11 DEF ViewerEnds, Tick, bounds
<1>12. QED
  BY <1>5, <1>6, <1>7, <1>8, <1>9, <1>10, <1>11 DEF Next

LEMMA ViewerType == IInv /\ Next => ViewerOK'
<1> SUFFICES ASSUME IInv, Next PROVE ViewerOK'
  OBVIOUS
<1>1. TypeOK /\ ViewerOK
  BY DEF IInv, TypeOK, ViewerOK
<1>2. CASE UNCHANGED viewer_vars
  BY <1>1, <1>2 DEF ViewerOK, viewer_vars
<1>3. CASE StopViewer
  BY <1>1, <1>3, StopViewerType
<1>4. CASE StartViewer
  BY <1>1, <1>4 DEF StartViewer, ViewerOK
<1>5. ASSUME NEW th \in {"main", "sup"}, AutoSteps(th) PROVE ViewerOK'
  BY <1>2, <1>3, <1>4, <1>5 DEF AutoSteps, AutoTake, AutoCheck, AutoView, AutoSend,
                                AutoAbort, AutoDone, AutoFailed
<1>6. CASE Main
  BY <1>2, <1>3, <1>5, <1>6 DEF Main, Connect, ResumeSkip, Resume, LinkGone, Shutdown
<1>7. CASE Sup
  BY <1>2, <1>5, <1>7 DEF Sup, Supervises, Recovered, Failed, Healthy, Restart
<1>8. CASE Console \/ Keys
  BY <1>2, <1>3, <1>4, <1>8 DEF Console, GoCheck, GoView, GoSend, StopSend, StopView,
                                Bye, Keys, KeyStart, KeyStop
<1>9. CASE Readers \/ SenderLost
  BY <1>2, <1>3, <1>9 DEF Readers, ReadError, ReadWedged, ReaderLost, StaleLost,
                          OnLinkLost, SenderLost
<1>10. CASE Environment \/ ViewerEnds \/ Tick
  BY <1>1, <1>2, <1>10 DEF Environment, LinkDies, BoardCrashes, BoardHangs,
       BoardResumes, ViewerDies, ViewerEnds, Tick, ViewerOK
<1>11. QED
  BY <1>6, <1>7, <1>8, <1>9, <1>10 DEF Next

LEMMA RunningType == IInv /\ Next => running' \in BOOLEAN
<1> SUFFICES ASSUME Next, running \in BOOLEAN PROVE UNCHANGED running \/ running' = FALSE
  BY DEF IInv, TypeOK
<1>2. ASSUME NEW th \in {"main", "sup"}, AutoSteps(th) PROVE UNCHANGED running
  BY <1>2 DEF AutoSteps, AutoTake, AutoCheck, AutoView, AutoSend, AutoAbort, AutoDone,
              AutoFailed, bounds
<1>3. CASE Main \/ Sup
  BY <1>2, <1>3 DEF Main, Connect, ResumeSkip, Resume, LinkGone, Shutdown, Sup,
                    Supervises, Recovered, Failed, Healthy, Restart, bounds
<1>4. CASE Console \/ Keys
  <2>1. CASE Bye
    BY <2>1 DEF Bye
  <2>2. CASE Keys \/ GoCheck \/ GoView \/ GoSend \/ StopSend \/ StopView
    BY <2>2 DEF Keys, KeyStart, KeyStop, GoCheck, GoView, GoSend, StopSend, StopView
  <2>3. QED
    BY <1>4, <2>1, <2>2 DEF Console
<1>5. CASE Readers \/ SenderLost \/ ViewerEnds
  BY <1>5 DEF Readers, ReadError, ReadWedged, ReaderLost, StaleLost, SenderLost,
              ViewerEnds, bounds
<1>6. CASE Environment \/ Tick
  BY <1>6 DEF Environment, LinkDies, BoardCrashes, BoardHangs, BoardResumes, ViewerDies,
              Tick, bounds
<1>7. QED
  BY <1>3, <1>4, <1>5, <1>6 DEF Next

LEMMA KeysType == IInv /\ Next => keys' \in 0..MaxKeys
<1> SUFFICES ASSUME Next, keys \in 0..MaxKeys
             PROVE  UNCHANGED keys \/ (keys < MaxKeys /\ keys' = keys + 1)
  BY DEF IInv, TypeOK
<1>2. ASSUME NEW th \in {"main", "sup"}, AutoSteps(th) PROVE UNCHANGED keys
  BY <1>2 DEF AutoSteps, AutoTake, AutoCheck, AutoView, AutoSend, AutoAbort, AutoDone,
              AutoFailed, bounds
<1>3. CASE Main \/ Sup
  BY <1>2, <1>3 DEF Main, Connect, ResumeSkip, Resume, LinkGone, Shutdown, Sup,
                    Supervises, Recovered, Failed, Healthy, Restart, bounds
<1>4. CASE Console \/ Keys
  BY <1>4 DEF Console, GoCheck, GoView, GoSend, StopSend, StopView, Bye, Keys, KeyStart,
              KeyStop, Key, bounds
<1>5. CASE Readers \/ SenderLost \/ ViewerEnds
  BY <1>5 DEF Readers, ReadError, ReadWedged, ReaderLost, StaleLost, SenderLost,
              ViewerEnds, bounds
<1>6. CASE Environment \/ Tick
  BY <1>6 DEF Environment, LinkDies, BoardCrashes, BoardHangs, BoardResumes, ViewerDies,
              Tick, bounds
<1>7. QED
  BY <1>3, <1>4, <1>5, <1>6 DEF Next

-----------------------------------------------------------------------------
(* The rest of IInv.                                                        *)

LEMMA FailBoundStep == IInv /\ Next => FailBound'
<1> SUFFICES ASSUME IInv, Next PROVE FailBound'
  OBVIOUS
<1> USE DEF IInv, TypeOK, FailBound, InAuto, Goto, Home, ArmPending, NoteFailure, Supervises, Key
<1>1. ASSUME NEW th \in {"main", "sup"}, AutoSteps(th) PROVE FailBound'
  <2>1. CASE th = "main"
    <3>1. CASE AutoTake("main")
      BY <3>1 DEF AutoTake
    <3>2. CASE AutoCheck("main")
      BY <3>2 DEF AutoCheck
    <3>3. CASE AutoView("main")
      BY <3>3 DEF AutoView
    <3>4. CASE AutoSend("main")
      BY <3>4 DEF AutoSend
    <3>5. CASE AutoAbort("main")
      BY <3>5 DEF AutoAbort
    <3>6. CASE AutoDone("main")
      BY <3>6 DEF AutoDone
    <3>7. CASE AutoFailed("main")
      BY <3>7 DEF AutoFailed
    <3>8. QED
      BY <1>1, <2>1, <3>1, <3>2, <3>3, <3>4, <3>5, <3>6, <3>7 DEF AutoSteps
  <2>2. CASE th = "sup"
    <3>1. CASE AutoTake("sup")
      BY <3>1 DEF AutoTake
    <3>2. CASE AutoCheck("sup")
      BY <3>2 DEF AutoCheck
    <3>3. CASE AutoView("sup")
      BY <3>3 DEF AutoView
    <3>4. CASE AutoSend("sup")
      BY <3>4 DEF AutoSend
    <3>5. CASE AutoAbort("sup")
      BY <3>5 DEF AutoAbort
    <3>6. CASE AutoDone("sup")
      BY <3>6 DEF AutoDone
    <3>7. CASE AutoFailed("sup")
      BY <3>7 DEF AutoFailed
    <3>8. QED
      BY <1>1, <2>2, <3>1, <3>2, <3>3, <3>4, <3>5, <3>6, <3>7 DEF AutoSteps
  <2>3. QED
    BY <2>1, <2>2
<1>2. CASE Main
  <2>1. CASE Resume
    BY <2>1 DEF Resume
  <2>2. CASE Shutdown
    BY <2>2 DEF Shutdown
  <2>3. CASE Connect \/ ResumeSkip \/ LinkGone
    BY <2>3 DEF Connect, ResumeSkip, LinkGone
  <2>4. QED
    BY <1>1, <1>2, <2>1, <2>2, <2>3 DEF Main
<1>3. CASE Sup
  <2>1. CASE Recovered \/ Healthy
    BY <2>1 DEF Recovered, Healthy
  <2>2. CASE Failed
    BY <2>2 DEF Failed
  <2>3. CASE Restart
    BY <2>3 DEF Restart
  <2>4. QED
    BY <1>1, <1>3, <2>1, <2>2, <2>3 DEF Sup
<1>4. CASE Console
  BY <1>4 DEF Console, GoCheck, GoView, GoSend, StopSend, StopView, Bye
<1>5. CASE Keys
  BY <1>5 DEF Keys, KeyStart, KeyStop
<1>6. CASE Readers \/ SenderLost
  BY <1>6 DEF Readers, ReadError, ReadWedged, ReaderLost, StaleLost, OnLinkLost,
              SenderLost
<1>7. CASE Environment \/ ViewerEnds \/ Tick
  BY <1>7 DEF Environment, LinkDies, BoardCrashes, BoardHangs, BoardResumes,
              ViewerDies, ViewerEnds, Tick
<1>8. QED
  BY <1>2, <1>3, <1>4, <1>5, <1>6, <1>7 DEF Next

LEMMA BoardLinkedStep == IInv /\ Next => BoardLinked'
<1> SUFFICES ASSUME IInv, Next PROVE BoardLinked'
  OBVIOUS
<1> USE DEF IInv, TypeOK, BoardLinked, SendFails, NotSent, Sent, CloseLink, SessionEnds, StartCommand,
           StopCommand, link_vars, board_vars
<1>1. ASSUME NEW th \in {"main", "sup"}, AutoSteps(th) PROVE BoardLinked'
  <2>1. CASE th = "main"
    BY <1>1, <2>1 DEF AutoSteps, AutoTake, AutoCheck, AutoView, AutoSend, AutoAbort,
                      AutoDone, AutoFailed
  <2>2. CASE th = "sup"
    BY <1>1, <2>2 DEF AutoSteps, AutoTake, AutoCheck, AutoView, AutoSend, AutoAbort,
                      AutoDone, AutoFailed
  <2>3. QED
    BY <2>1, <2>2
<1>2. CASE Main
  BY <1>1, <1>2 DEF Main, Connect, ResumeSkip, Resume, LinkGone, Shutdown
<1>3. CASE Sup
  BY <1>1, <1>3 DEF Sup, Supervises, Recovered, Failed, Healthy, Restart
<1>4. CASE Console
  BY <1>4 DEF Console, GoCheck, GoView, GoSend, StopSend, StopView, Bye
<1>5. CASE Keys
  BY <1>5 DEF Keys, KeyStart, KeyStop
<1>6. CASE Readers \/ SenderLost
  BY <1>6 DEF Readers, ReadError, ReadWedged, ReaderLost, StaleLost, OnLinkLost,
              SenderLost
<1>7. CASE Environment \/ ViewerEnds \/ Tick
  BY <1>7 DEF Environment, LinkDies, BoardCrashes, BoardHangs, BoardResumes,
              ViewerDies, ViewerEnds, Tick
<1>8. QED
  BY <1>2, <1>3, <1>4, <1>5, <1>6, <1>7 DEF Next

LEMMA GoingWantedStep == IInv /\ Next => GoingWanted'
<1> SUFFICES ASSUME IInv, Next PROVE GoingWanted'
  OBVIOUS
<1> USE DEF IInv, TypeOK, GoingWanted, Goto, ArmPending, NoteFailure, Key
<1>1. ASSUME NEW th \in {"main", "sup"}, AutoSteps(th) PROVE GoingWanted'
  <2>1. CASE th = "main"
    BY <1>1, <2>1 DEF AutoSteps, AutoTake, AutoCheck, AutoView, AutoSend, AutoAbort,
                      AutoDone, AutoFailed
  <2>2. CASE th = "sup"
    BY <1>1, <2>2 DEF AutoSteps, AutoTake, AutoCheck, AutoView, AutoSend, AutoAbort,
                      AutoDone, AutoFailed
  <2>3. QED
    BY <2>1, <2>2
<1>2. CASE Main
  BY <1>1, <1>2 DEF Main, Connect, ResumeSkip, Resume, LinkGone, Shutdown
<1>3. CASE Sup
  BY <1>1, <1>3 DEF Sup, Supervises, Recovered, Failed, Healthy, Restart
<1>4. CASE Console
  BY <1>4 DEF Console, GoCheck, GoView, GoSend, StopSend, StopView, Bye
<1>5. CASE Keys
  BY <1>5 DEF Keys, KeyStart, KeyStop
<1>6. CASE Readers \/ SenderLost
  BY <1>6 DEF Readers, ReadError, ReadWedged, ReaderLost, StaleLost, OnLinkLost,
              SenderLost
<1>7. CASE Environment \/ ViewerEnds \/ Tick
  BY <1>7 DEF Environment, LinkDies, BoardCrashes, BoardHangs, BoardResumes,
              ViewerDies, ViewerEnds, Tick
<1>8. QED
  BY <1>2, <1>3, <1>4, <1>5, <1>6, <1>7 DEF Next

LEMMA StopComingStep == IInv /\ Next => StopComing'
<1> SUFFICES ASSUME IInv, Next PROVE StopComing'
  OBVIOUS
<1> USE DEF IInv, TypeOK, StopComing, BoardLinked, GoingWanted, Goto, Home, ArmPending, NoteFailure,
           Key, Supervises, SendFails, NotSent, Sent, CloseLink, SessionEnds,
           StartCommand, StopCommand, link_vars, board_vars
<1>1. ASSUME NEW th \in {"main", "sup"}, AutoSteps(th) PROVE StopComing'
  <2>1. CASE th = "main"
    BY <1>1, <2>1 DEF AutoSteps, AutoTake, AutoCheck, AutoView, AutoSend, AutoAbort,
                      AutoDone, AutoFailed
  <2>2. CASE th = "sup"
    BY <1>1, <2>2 DEF AutoSteps, AutoTake, AutoCheck, AutoView, AutoSend, AutoAbort,
                      AutoDone, AutoFailed
  <2>3. QED
    BY <2>1, <2>2
<1>2. CASE Main
  BY <1>1, <1>2 DEF Main, Connect, ResumeSkip, Resume, LinkGone, Shutdown
<1>3. CASE Sup
  BY <1>1, <1>3 DEF Sup, Supervises, Recovered, Failed, Healthy, Restart
<1>4. CASE Console
  BY <1>4 DEF Console, GoCheck, GoView, GoSend, StopSend, StopView, Bye
<1>5. CASE Keys
  BY <1>5 DEF Keys, KeyStart, KeyStop
<1>6. CASE Readers \/ SenderLost
  BY <1>6 DEF Readers, ReadError, ReadWedged, ReaderLost, StaleLost, OnLinkLost,
              SenderLost
<1>7. CASE Environment \/ ViewerEnds \/ Tick
  BY <1>7 DEF Environment, LinkDies, BoardCrashes, BoardHangs, BoardResumes,
              ViewerDies, ViewerEnds, Tick
<1>8. QED
  BY <1>2, <1>3, <1>4, <1>5, <1>6, <1>7 DEF Next

LEMMA InvariantStep == IInv /\ [Next]_vars => IInv'
<1> SUFFICES ASSUME IInv, [Next]_vars PROVE IInv'
  OBVIOUS
<1>1. CASE Next
  <2>2. TypeOK'
    BY <1>1, FlagsType, PcType, OutsideType, ViewerType, RunningType, KeysType
       DEF TypeOK, OutsideOK, ViewerOK
  <2>3. QED
    BY <1>1, <2>2, FailBoundStep, BoardLinkedStep, GoingWantedStep, StopComingStep
       DEF IInv
<1>2. CASE UNCHANGED vars
  BY <1>2 DEF IInv, TypeOK, FailBound, InAuto, BoardLinked, GoingWanted, StopComing,
              vars, link_vars, viewer_vars, board_vars, bounds
<1>3. QED
  BY <1>1, <1>2

LEMMA InvariantLemma == Spec => []IInv
BY InitIInv, InvariantStep, PTL DEF Spec

-----------------------------------------------------------------------------
(* Theorems                                                                 *)

\* The state keeps its type; in particular fail_count exceeds MAX_AUTO_RETRY by
\* one at most, although two threads note failures.
THEOREM TypeCorrect == Spec => []TypeOK
<1>1. IInv => TypeOK
  BY DEF IInv
<1>2. QED
  BY <1>1, InvariantLemma, PTL

\* "operator STOP WINS" (uav_rx.py:859), for any caps, timeouts and numbers of
\* keys, faults and stale readers.
THEOREM StopWinsThm == Spec => []StopWins
<1>1. IInv => StopWins
  BY DEF IInv, StopComing, StopWins, Quiet
<1>2. QED
  BY <1>1, InvariantLemma, PTL

-----------------------------------------------------------------------------
(* Who closes a live link                                                   *)

\* A connection is only made when no reader of an earlier one is left.
NoReaderLeft == conn => stale = 0

LEMMA NoReaderLeftStep ==
  ASSUME PromptReaders, TypeOK, NoReaderLeft, Next
  PROVE  NoReaderLeft'
<1> USE DEF NoReaderLeft
<1>1. ASSUME NEW th \in {"main", "sup"}, AutoSteps(th) PROVE NoReaderLeft'
  <2>1. CASE AutoSend(th)
    BY <2>1 DEF AutoSend, NotSent, SendFails, Sent, CloseLink, link_vars
  <2>2. CASE AutoAbort(th)
    BY <2>2 DEF AutoAbort, NotSent, SendFails, Sent, CloseLink, link_vars
  <2>3. CASE AutoTake(th) \/ AutoCheck(th) \/ AutoView(th) \/ AutoDone(th) \/ AutoFailed(th)
    BY <2>3 DEF AutoTake, AutoCheck, AutoView, AutoDone, AutoFailed, link_vars
  <2> QED BY <1>1, <2>1, <2>2, <2>3 DEF AutoSteps
<1>2. CASE Main
  BY <1>1, <1>2 DEF Main, Connect, ResumeSkip, Resume, LinkGone, Shutdown, link_vars
<1>3. CASE Sup
  BY <1>1, <1>3 DEF Sup, Supervises, Recovered, Failed, Healthy, Restart, link_vars
<1>4. CASE GoCheck \/ GoView \/ StopView \/ Keys
  BY <1>4 DEF GoCheck, GoView, StopView, Keys, KeyStart, KeyStop, link_vars
<1>5. CASE GoSend \/ StopSend \/ Bye
  BY <1>5 DEF GoSend, StopSend, Bye, NotSent, SendFails, Sent, CloseLink, link_vars
<1>6. CASE Readers \/ SenderLost
  BY <1>6 DEF Readers, ReadError, ReadWedged, ReaderLost, StaleLost, OnLinkLost,
              SenderLost, SendFails, CloseLink, link_vars
<1>7. CASE Environment \/ ViewerEnds \/ Tick
  BY <1>7 DEF Environment, LinkDies, BoardCrashes, BoardHangs, BoardResumes,
              ViewerDies, ViewerEnds, Tick, link_vars
<1> QED BY <1>2, <1>3, <1>4, <1>5, <1>6, <1>7 DEF Next, Console

LEMMA NoReaderLeftLemma == ASSUME PromptReaders PROVE Spec => []NoReaderLeft
<1>1. Init => NoReaderLeft BY DEF Init, NoReaderLeft
<1>2. TypeOK /\ NoReaderLeft /\ [Next]_vars => NoReaderLeft'
  <2>1. UNCHANGED vars /\ NoReaderLeft => NoReaderLeft' BY DEF NoReaderLeft, vars, link_vars
  <2> QED BY <2>1, NoReaderLeftStep
<1> QED BY <1>1, <1>2, TypeCorrect, PTL DEF Spec

\* Who closes a connection has found that very one dead.
LEMMA DroppedDead ==
  ASSUME TypeOK, NoReaderLeft, Next, conn, ~conn'
  PROVE  ~link \/ ~running
<1>1. ASSUME NEW th \in {"main", "sup"}, AutoSteps(th) PROVE ~link
  <2>1. CASE AutoSend(th)
    BY <2>1 DEF AutoSend, NotSent, SendFails, Sent, link_vars
  <2>2. CASE AutoAbort(th)
    BY <2>2 DEF AutoAbort, NotSent, SendFails, Sent, link_vars
  <2>3. CASE AutoTake(th) \/ AutoCheck(th) \/ AutoView(th) \/ AutoDone(th) \/ AutoFailed(th)
    BY <2>3 DEF AutoTake, AutoCheck, AutoView, AutoDone, AutoFailed, link_vars
  <2> QED BY <1>1, <2>1, <2>2, <2>3 DEF AutoSteps
<1>2. CASE Main
  BY <1>1, <1>2 DEF Main, Connect, ResumeSkip, Resume, LinkGone, Shutdown, link_vars
<1>3. CASE Sup
  BY <1>1, <1>3 DEF Sup, Supervises, Recovered, Failed, Healthy, Restart, link_vars
<1>4. CASE GoCheck \/ GoView \/ StopView \/ Keys
  BY <1>4 DEF GoCheck, GoView, StopView, Keys, KeyStart, KeyStop, link_vars
<1>5. CASE GoSend \/ StopSend \/ Bye
  BY <1>5 DEF GoSend, StopSend, Bye, NotSent, SendFails, Sent, link_vars
<1>6. CASE Readers \/ SenderLost
  <2>1. ~StaleLost
    <3>1. stale = 0 BY DEF NoReaderLeft
    <3> QED BY <3>1 DEF StaleLost
  <2> QED BY <1>6, <2>1 DEF Readers, ReadError, ReadWedged, ReaderLost, SenderLost,
                            SendFails, link_vars
<1>7. CASE Environment \/ ViewerEnds \/ Tick
  BY <1>7 DEF Environment, LinkDies, BoardCrashes, BoardHangs, BoardResumes,
              ViewerDies, ViewerEnds, Tick, link_vars
<1> QED BY <1>2, <1>3, <1>4, <1>5, <1>6, <1>7 DEF Next, Console

\* "check the socket is still alive" (uav_rx.py:444) would do if readers noticed a
\* closed socket before the reconnect: late readers are all that drops live links.
THEOREM OnlyDeadLinksDroppedThm ==
  ASSUME PromptReaders
  PROVE  Spec => OnlyDeadLinksDropped
<1>1. TypeOK /\ NoReaderLeft /\ [Next]_vars
        => [conn /\ ~conn' => ~link \/ ~running]_vars
  BY DroppedDead
<1> QED BY <1>1, TypeCorrect, NoReaderLeftLemma, PTL DEF Spec, OnlyDeadLinksDropped

-----------------------------------------------------------------------------
(* What is still to be retried                                              *)

\* A start is on probation only while video is wanted and not given up, and a
\* retry after an engine error is due only while it is wanted, and after no start
\* that is on probation itself.
Due ==
  /\ flags.pending => flags.want /\ ~flags.exhausted
  /\ flags.errorRetry => flags.want /\ ~flags.pending

LEMMA DueStep ==
  ASSUME TypeOK, Due, [Next]_vars
  PROVE  Due'
<1> USE DEF Due
<1>1. flags \in Flags
  BY DEF TypeOK
<1> HIDE DEF Flags
<1>2. ASSUME flags' = flags PROVE Due'
  BY <1>2
<1>3. ASSUME ArmPending, flags.want, ~flags.exhausted PROVE Due'
  BY <1>1, <1>3 DEF ArmPending, Flags
<1>4. ASSUME NoteFailure PROVE Due'
  <2>1. ~flags'.pending /\ flags'.want = flags.want /\ flags'.errorRetry = flags.errorRetry
    BY <1>1, <1>4 DEF NoteFailure, Flags
  <2> QED BY <2>1
<1>5. ASSUME NEW th \in {"main", "sup"}, AutoSteps(th) PROVE Due'
  <2>1. CASE AutoAbort(th)
    <3>1. flags' = [flags EXCEPT !.pending = FALSE]
      BY <2>1 DEF AutoAbort
    <3> QED BY <1>1, <3>1 DEF Flags
  <2>2. CASE AutoFailed(th)
    BY <2>2, <1>4 DEF AutoFailed
  <2> QED BY <1>2, <1>5, <2>1, <2>2
       DEF AutoSteps, AutoTake, AutoCheck, AutoView, AutoSend, AutoDone
<1>6. CASE Resume \/ Restart
  BY <1>3, <1>6 DEF Resume, Restart, Supervises
<1>7. CASE Main
  BY <1>2, <1>5, <1>6, <1>7 DEF Main, Connect, ResumeSkip, LinkGone, Shutdown
<1>8. CASE Recovered \/ Failed \/ Healthy
  <2>1. CASE Recovered
    BY <1>1, <2>1 DEF Recovered, Flags
  <2>2. CASE Failed
    BY <1>4, <2>2 DEF Failed
  <2>3. CASE Healthy
    BY <1>1, <2>3 DEF Healthy, Flags
  <2> QED BY <1>8, <2>1, <2>2, <2>3
<1>9. CASE Sup
  BY <1>5, <1>6, <1>8, <1>9 DEF Sup
<1>10. CASE Console
  BY <1>2, <1>10 DEF Console, GoCheck, GoView, GoSend, StopSend, StopView, Bye
<1>11. CASE Keys
  BY <1>11 DEF Keys, KeyStart, KeyStop
<1>12. CASE ReadError \/ ReadWedged
  BY <1>1, <1>12 DEF ReadError, ReadWedged, Flags
<1>13. CASE Readers \/ SenderLost
  BY <1>2, <1>12, <1>13 DEF Readers, ReaderLost, StaleLost, SenderLost
<1>14. CASE Environment \/ ViewerEnds \/ Tick
  BY <1>2, <1>14 DEF Environment, LinkDies, BoardCrashes, BoardHangs, BoardResumes,
                     ViewerDies, ViewerEnds, Tick
<1>15. CASE UNCHANGED vars
  BY <1>15, <1>2 DEF vars
<1> QED BY <1>7, <1>9, <1>10, <1>11, <1>13, <1>14, <1>15 DEF Next

\* Nothing is retried that the operator has stopped or that was given up, and at the
\* cap it is: the fields of "single source of truth" (uav_rx.py:336) are set by the
\* supervisor, the reconnect, the reader and the keys, each in a critical section of
\* its own with its start outside, and still agree at every step.
THEOREM RetriesAreWanted ==
  Spec => [](Due /\ (~flags.exhausted => flags.fail < MaxAutoRetry))
<1>1. Init => Due
  BY DEF Init, Due
<1>2. IInv => TypeOK /\ (~flags.exhausted => flags.fail < MaxAutoRetry)
  BY DEF IInv, FailBound
<1> QED BY <1>1, <1>2, DueStep, InvariantLemma, PTL DEF Spec
=============================================================================
