---------------------------- MODULE RxSupervisor ----------------------------
(***************************************************************************)
(* The supervisor of the ground station (RX/uav_rx.py): its main thread    *)
(* (run), the operator's console, the stream supervisor, the reader of     *)
(* each control connection and the threads that only send (_pinger,        *)
(* telemetry_loop). main and sup both run _auto_start; they share the      *)
(* retry state under sup_lock and everything else without it.              *)
(*                                                                         *)
(* The waits (the settle of 0.8 s, up to 4 s for a viewer to finish) are   *)
(* the time between two steps of a thread. The board is external: a        *)
(* command takes effect when it is sent over a live link, and the board    *)
(* ends its engine when the link ends (TxSupervisor models how). That the  *)
(* framing can swallow a command that was sent (LinkFraming) is left out.  *)
(***************************************************************************)
EXTENDS Integers

CONSTANTS
  MaxAutoRetry,     \* MAX_AUTO_RETRY
  StallTimeout,     \* STALL_TIMEOUT, in ticks
  Grace,            \* grace: STALL_TIMEOUT + 2 s, in ticks
  RetryResetAfter,  \* RETRY_RESET_AFTER, in ticks
  RetryBackoffMax,  \* RETRY_BACKOFF_MAX, in ticks
  PromptReaders,    \* a reader sees its socket closed before a reconnect is done
  MaxKeys,          \* bound: keys of the operator
  MaxFaults,        \* bound: faults of board, link and viewer
  MaxStale          \* bound: readers of earlier connections

ASSUME RetryAssumption == MaxAutoRetry \in Nat \ {0} /\ RetryResetAfter \in Nat
ASSUME TimeAssumption ==
  /\ StallTimeout \in Nat /\ Grace \in Nat /\ StallTimeout < Grace
  /\ RetryBackoffMax \in Nat \ {0}
ASSUME ReaderAssumption == PromptReaders \in BOOLEAN
ASSUME BoundAssumption == MaxKeys \in Nat /\ MaxFaults \in Nat /\ MaxStale \in Nat

VARIABLES
  running,  \* self.running
  conn,     \* self.conn is not None
  link,     \* that connection is alive
  stale,    \* readers of earlier connections that have not noticed yet
  flags,    \* want_stream, exhausted, pending, error_retry, fail_count
  clk,      \* next_retry_at, last_start_t, last_frame_t, stream_up_since
  viewer,   \* self.viewer: none, up, or dead and not yet replaced
  dying,    \* a viewer that was told to end still runs
  pc,       \* where main, sup and con are
  board,    \* external: the engine of the board
  mail,     \* an ERROR of the board, not yet read
  keys, faults

link_vars == <<conn, link, stale>>
board_vars == <<board, mail>>
viewer_vars == <<viewer, dying>>
bounds == <<keys, faults>>
vars == <<running, link_vars, flags, clk, viewer_vars, pc, board_vars, bounds>>

Never == -1
NoMail == "none"
Streams(b) == b \in {"on", "hung"}
AutoStart == {"take", "check", "view", "send", "sent", "unsent"}
Pcs == [main : AutoStart \cup {"find", "resume", "watch", "gone"},
        sup  : AutoStart \cup {"idle", "gone"},
        con  : {"idle", "go_check", "go_view", "go_send", "halt_send", "halt_view",
                "quit_send", "quit_view", "bye", "gone"}]
Flags == [want : BOOLEAN, exhausted : BOOLEAN, pending : BOOLEAN,
          errorRetry : BOOLEAN, fail : 0..(MaxAutoRetry + 1)]
Clocks == [retryIn : 0..RetryBackoffMax, sinceStart : 0..Grace,
           sinceFrame : {Never} \cup 0..(StallTimeout + 1),
           upFor : {Never} \cup 0..RetryResetAfter]

TypeOK ==
  /\ running \in BOOLEAN /\ conn \in BOOLEAN /\ link \in BOOLEAN
  /\ stale \in 0..MaxStale
  /\ flags \in Flags /\ clk \in Clocks /\ pc \in Pcs
  /\ viewer \in {"none", "up", "dead"} /\ dying \in BOOLEAN
  /\ board \in {"off", "on", "hung", "wedged"}
  /\ mail \in {NoMail, "ERROR", "WEDGED"}
  /\ keys \in 0..MaxKeys /\ faults \in 0..MaxFaults

Init ==
  /\ running = TRUE /\ conn = FALSE /\ link = FALSE /\ stale = 0
  /\ flags = [want |-> FALSE, exhausted |-> FALSE, pending |-> FALSE,
              errorRetry |-> FALSE, fail |-> 0]
  /\ clk = [retryIn |-> 0, sinceStart |-> Grace, sinceFrame |-> Never,
            upFor |-> Never]
  /\ viewer = "none" /\ dying = FALSE
  /\ pc = [main |-> "find", sup |-> "idle", con |-> "idle"]
  /\ board = "off" /\ mail = NoMail /\ keys = 0 /\ faults = 0

-----------------------------------------------------------------------------
(* Helpers                                                                  *)

Goto(th, l) == pc' = [pc EXCEPT ![th] = l]
Fault == faults < MaxFaults /\ faults' = faults + 1

\* stop_viewer: self.viewer is taken, the process told to end.
StopViewer == viewer' = "none" /\ dying' = (dying \/ viewer = "up")

StartViewer == viewer' = "up" /\ UNCHANGED dying

\* The board ends the session, and with it the engine.
SessionEnds == board' = IF board = "wedged" THEN board ELSE "off"

\* The connection self.conn is closed; n readers of closed connections are left.
CloseLink(n) ==
  conn' = FALSE /\ link' = FALSE /\ stale' = n /\ mail' = NoMail /\ SessionEnds

\* _on_link_lost, whatever self.conn is by now.
OnLinkLost(n) == CloseLink(n) /\ StopViewer

\* What START does on the board: it starts, hangs, fails, wedges the camera; an
\* engine that runs is left alone, a wedged camera is reported again.
StartCommand ==
  \/ board = "off" /\ board' \in {"on", "hung"} /\ UNCHANGED <<mail, faults>>
  \/ board = "off" /\ Fault /\ mail' = "ERROR" /\ UNCHANGED board
  \/ board = "off" /\ Fault /\ mail' = "WEDGED" /\ board' = "wedged"
  \/ Streams(board) /\ UNCHANGED <<board_vars, faults>>
  \/ board = "wedged" /\ mail' = "WEDGED" /\ UNCHANGED <<board, faults>>

StopCommand == SessionEnds /\ UNCHANGED <<mail, faults>>

\* _send: there is no connection; it fails, which ends in _on_link_lost; or it
\* succeeds, whether or not anybody gets the bytes.
NotSent == ~conn /\ UNCHANGED <<link_vars, board_vars, faults>>

SendFails ==
  conn /\ ~link /\ stale < MaxStale /\ CloseLink(stale + 1) /\ UNCHANGED faults

Sent(command) ==
  /\ conn /\ UNCHANGED link_vars
  /\ IF link THEN command ELSE UNCHANGED <<board_vars, faults>>

\* _backoff_for, for n >= 1
Backoff(n) == IF 2 ^ (n - 1) \in 0..RetryBackoffMax THEN 2 ^ (n - 1)
              ELSE RetryBackoffMax

FramesOk == clk.sinceFrame \in 0..StallTimeout

\* _arm_pending
ArmPending ==
  /\ flags' = [flags EXCEPT !.pending = TRUE, !.errorRetry = FALSE]
  /\ clk' = [clk EXCEPT !.sinceFrame = Never, !.sinceStart = 0, !.retryIn = 0]

\* Mutant: auto-retry is never given up.
NoteFailureEndless ==
  /\ flags' = [flags EXCEPT !.pending = FALSE, !.fail = @ + 1]
  /\ clk' = [clk EXCEPT !.upFor = Never, !.retryIn = Backoff(flags.fail + 1)]

\* _note_failure
NoteFailure ==
  LET n == flags.fail + 1 IN
  /\ flags' = [flags EXCEPT !.pending = FALSE, !.fail = n,
                            !.exhausted = @ \/ n >= MaxAutoRetry]
  /\ clk' = [clk EXCEPT !.upFor = Never,
                        !.retryIn = IF n >= MaxAutoRetry THEN @ ELSE Backoff(n)]

-----------------------------------------------------------------------------
(* main: run                                                                *)

\* discover_tx and connect_tx: a board was found, its clock set, a reader started.
Connect ==
  /\ pc.main = "find" /\ running
  /\ PromptReaders => stale = 0
  /\ conn' = TRUE /\ link' = TRUE /\ mail' = NoMail /\ Goto("main", "resume")
  /\ UNCHANGED <<running, stale, flags, clk, viewer_vars, board, bounds>>

\* resume_on_reconnect
ResumeSkip ==
  /\ pc.main = "resume" /\ (~flags.want \/ flags.exhausted \/ ~conn)
  /\ Goto("main", "watch")
  /\ UNCHANGED <<running, link_vars, flags, clk, viewer_vars, board_vars, bounds>>

Resume ==
  /\ pc.main = "resume" /\ flags.want /\ ~flags.exhausted /\ conn
  /\ ArmPending /\ Goto("main", "take")
  /\ UNCHANGED <<running, link_vars, viewer_vars, board_vars, bounds>>

LinkGone ==
  /\ pc.main = "watch" /\ running /\ ~conn /\ Goto("main", "find")
  /\ UNCHANGED <<running, link_vars, flags, clk, viewer_vars, board_vars, bounds>>

\* Mutant: the loop that watches the link does not look at self.running.
ShutdownUnlinked ==
  /\ pc.main = "find" /\ ~running
  /\ StopViewer /\ conn' = FALSE /\ link' = FALSE /\ SessionEnds /\ mail' = NoMail
  /\ pc' = [th \in {"main", "sup", "con"} |-> "gone"] /\ stale' = 0
  /\ UNCHANGED <<running, flags, clk, bounds>>

\* The end of run: the process and its threads are gone.
Shutdown ==
  /\ pc.main \in {"find", "watch"} /\ ~running
  /\ StopViewer /\ conn' = FALSE /\ link' = FALSE /\ SessionEnds /\ mail' = NoMail
  /\ pc' = [th \in {"main", "sup", "con"} |-> "gone"] /\ stale' = 0
  /\ UNCHANGED <<running, flags, clk, bounds>>

-----------------------------------------------------------------------------
(* _auto_start, by main (resume_on_reconnect) or sup. The caller has armed  *)
(* the pending window.                                                      *)

AutoTake(th) ==
  /\ pc[th] = "take" /\ StopViewer /\ Goto(th, "check")
  /\ UNCHANGED <<running, link_vars, flags, clk, board_vars, bounds>>

\* _issue_start
AutoCheck(th) ==
  /\ pc[th] = "check" /\ Goto(th, IF conn THEN "view" ELSE "unsent")
  /\ UNCHANGED <<running, link_vars, flags, clk, viewer_vars, board_vars, bounds>>

AutoView(th) ==
  /\ pc[th] = "view" /\ StartViewer /\ Goto(th, "send")
  /\ UNCHANGED <<running, link_vars, flags, clk, board_vars, bounds>>

AutoSend(th) ==
  /\ pc[th] = "send" /\ UNCHANGED <<running, flags, keys>>
  /\ \/ NotSent /\ Goto(th, "unsent") /\ UNCHANGED <<clk, viewer_vars>>
     \/ SendFails /\ StopViewer /\ Goto(th, "unsent") /\ UNCHANGED clk
     \/ /\ Sent(StartCommand) /\ Goto(th, "sent") /\ UNCHANGED viewer_vars
        /\ clk' = [clk EXCEPT !.sinceStart = 0]

Home(th) == IF th = "main" THEN "watch" ELSE "idle"

\* Mutant: the viewer is stopped, STOP is not sent again.
AutoAbortQuiet(th) ==
  /\ pc[th] \in {"sent", "unsent"} /\ (~flags.want \/ ~conn)
  /\ Goto(th, Home(th))
  /\ flags' = [flags EXCEPT !.pending = FALSE]
  /\ clk' = [clk EXCEPT !.retryIn = 0]
  /\ IF pc[th] = "sent" THEN StopViewer ELSE UNCHANGED viewer_vars
  /\ UNCHANGED <<running, link_vars, board_vars, bounds>>

\* sup_lock is taken again. The operator's STOP, or the loss of the link, wins:
\* after a STOP the viewer is stopped and STOP sent once more.
AutoAbort(th) ==
  /\ pc[th] \in {"sent", "unsent"} /\ (~flags.want \/ ~conn)
  /\ Goto(th, Home(th))
  /\ flags' = [flags EXCEPT !.pending = FALSE]
  /\ clk' = [clk EXCEPT !.retryIn = 0]
  /\ UNCHANGED <<running, keys>>
  /\ IF ~flags.want /\ pc[th] = "sent"
       THEN StopViewer /\ (NotSent \/ SendFails \/ Sent(StopCommand))
       ELSE UNCHANGED <<link_vars, viewer_vars, board_vars, faults>>

AutoDone(th) ==
  /\ pc[th] = "sent" /\ flags.want /\ conn /\ Goto(th, Home(th))
  /\ UNCHANGED <<running, link_vars, flags, clk, viewer_vars, board_vars, bounds>>

AutoFailed(th) ==
  /\ pc[th] = "unsent" /\ flags.want /\ conn
  /\ NoteFailure /\ Goto(th, Home(th))
  /\ UNCHANGED <<running, link_vars, viewer_vars, board_vars, bounds>>

AutoSteps(th) ==
  \/ AutoTake(th) \/ AutoCheck(th) \/ AutoView(th) \/ AutoSend(th)
  \/ AutoAbort(th) \/ AutoDone(th) \/ AutoFailed(th)

Main == Connect \/ ResumeSkip \/ Resume \/ LinkGone \/ Shutdown \/ AutoSteps("main")

-----------------------------------------------------------------------------
(* sup: _supervise_once. It does nothing unless video is wanted, not given   *)
(* up, and the link is there.                                                *)

Supervises ==
  /\ pc.sup = "idle" /\ running
  /\ flags.want /\ ~flags.exhausted /\ conn
  /\ UNCHANGED <<running, link_vars, viewer_vars, board_vars, bounds>>

StreamOk == viewer = "up" /\ FramesOk
GraceOver == clk.sinceStart >= Grace

\* The verdict on a start, when its grace is over.
Recovered ==
  /\ Supervises /\ flags.pending /\ GraceOver /\ StreamOk
  /\ flags' = [flags EXCEPT !.pending = FALSE] /\ clk' = [clk EXCEPT !.upFor = 0]
  /\ UNCHANGED pc

Failed ==
  Supervises /\ flags.pending /\ GraceOver /\ ~StreamOk /\ NoteFailure /\ UNCHANGED pc

\* _note_success
Healthy ==
  /\ Supervises /\ ~flags.pending /\ StreamOk /\ UNCHANGED pc
  /\ \/ /\ clk.upFor = Never /\ clk' = [clk EXCEPT !.upFor = 0] /\ UNCHANGED flags
     \/ /\ clk.upFor = RetryResetAfter /\ flags.fail > 0
        /\ flags' = [flags EXCEPT !.fail = 0] /\ UNCHANGED clk

\* Mutant: a viewer that is gone is replaced only after an engine error.
RestartOnError ==
  /\ Supervises /\ ~flags.pending /\ ~StreamOk /\ clk.retryIn = 0
  /\ IF viewer = "up" THEN GraceOver ELSE flags.errorRetry
  /\ ArmPending /\ Goto("sup", "take")

\* A dead viewer at once, a silent one when its start is old enough.
Restart ==
  /\ Supervises /\ ~flags.pending /\ ~StreamOk /\ clk.retryIn = 0
  /\ viewer = "up" => GraceOver
  /\ ArmPending /\ Goto("sup", "take")

Sup == Recovered \/ Failed \/ Healthy \/ Restart \/ AutoSteps("sup")

-----------------------------------------------------------------------------
(* con: the keys of the operator                                            *)

Key == keys < MaxKeys /\ keys' = keys + 1 /\ pc.con = "idle" /\ running

\* cmd_start
KeyStart ==
  /\ Key /\ conn /\ Goto("con", "go_check")
  /\ flags' = [want |-> TRUE, exhausted |-> FALSE, pending |-> TRUE,
               errorRetry |-> FALSE, fail |-> 0]
  /\ clk' = [retryIn |-> 0, sinceStart |-> 0, sinceFrame |-> Never, upFor |-> Never]
  /\ UNCHANGED <<running, link_vars, viewer_vars, board_vars, faults>>

GoCheck ==
  /\ pc.con = "go_check" /\ Goto("con", IF conn THEN "go_view" ELSE "idle")
  /\ UNCHANGED <<running, link_vars, flags, clk, viewer_vars, board_vars, bounds>>

GoView ==
  /\ pc.con = "go_view" /\ StartViewer /\ Goto("con", "go_send")
  /\ UNCHANGED <<running, link_vars, flags, clk, board_vars, bounds>>

GoSend ==
  /\ pc.con = "go_send" /\ Goto("con", "idle") /\ UNCHANGED <<running, flags, keys>>
  /\ \/ NotSent /\ UNCHANGED <<clk, viewer_vars>>
     \/ SendFails /\ StopViewer /\ UNCHANGED clk
     \/ Sent(StartCommand) /\ UNCHANGED viewer_vars /\ clk' = [clk EXCEPT !.sinceStart = 0]

\* cmd_stop, by the keys x and q: the flags, then STOP, then the viewer.
KeyStop ==
  /\ Key /\ \E l \in {"halt_send", "quit_send"} : Goto("con", l)
  /\ flags' = [want |-> FALSE, exhausted |-> FALSE, pending |-> FALSE,
               errorRetry |-> FALSE, fail |-> 0]
  /\ clk' = [clk EXCEPT !.retryIn = 0]
  /\ UNCHANGED <<running, link_vars, viewer_vars, board_vars, faults>>

StopSend ==
  /\ \/ pc.con = "halt_send" /\ Goto("con", "halt_view")
     \/ pc.con = "quit_send" /\ Goto("con", "quit_view")
  /\ \/ (NotSent \/ Sent(StopCommand)) /\ UNCHANGED viewer_vars
     \/ SendFails /\ StopViewer
  /\ UNCHANGED <<running, flags, clk, keys>>

StopView ==
  /\ StopViewer
  /\ \/ pc.con = "halt_view" /\ Goto("con", "idle")
     \/ pc.con = "quit_view" /\ Goto("con", "bye")
  /\ UNCHANGED <<running, link_vars, flags, clk, board_vars, bounds>>

\* BYE, which the board takes for the end of the session.
Bye ==
  /\ pc.con = "bye" /\ Goto("con", "gone") /\ running' = FALSE
  /\ \/ (NotSent \/ Sent(StopCommand)) /\ UNCHANGED viewer_vars
     \/ SendFails /\ StopViewer
  /\ UNCHANGED <<flags, clk, keys>>

Console == GoCheck \/ GoView \/ GoSend \/ StopSend \/ StopView \/ Bye
Keys == KeyStart \/ KeyStop

-----------------------------------------------------------------------------
(* The readers and the other senders                                        *)

\* _reader: an engine died. A start on probation is left to its verdict.
ReadError ==
  /\ conn /\ mail = "ERROR" /\ mail' = NoMail
  /\ IF flags.want /\ ~flags.exhausted
       THEN /\ StopViewer
            /\ IF flags.pending
                 THEN UNCHANGED <<flags, clk>>
                 ELSE /\ flags' = [flags EXCEPT !.errorRetry = TRUE]
                      /\ clk' = [clk EXCEPT !.retryIn = Backoff(flags.fail + 1)]
       ELSE UNCHANGED <<flags, clk, viewer_vars>>
  /\ UNCHANGED <<running, link_vars, pc, board, bounds>>

\* _reader: "camera wedged" is not retried.
ReadWedged ==
  /\ conn /\ mail = "WEDGED" /\ mail' = NoMail /\ StopViewer
  /\ flags' = [flags EXCEPT !.exhausted = TRUE, !.pending = FALSE,
                            !.errorRetry = FALSE]
  /\ clk' = [clk EXCEPT !.retryIn = 0]
  /\ UNCHANGED <<running, link_vars, pc, board, bounds>>

\* Mutant: a receive timeout is taken for the end of the link.
ReaderLostIdle ==
  /\ conn /\ mail = NoMail /\ OnLinkLost(stale)
  /\ UNCHANGED <<running, flags, clk, pc, bounds>>

\* _reader finds its socket dead, once everything in it was read.
ReaderLost ==
  /\ conn /\ ~link /\ mail = NoMail /\ OnLinkLost(stale)
  /\ UNCHANGED <<running, flags, clk, pc, bounds>>

\* A reader of an earlier connection finds its socket closed. If there is a new
\* connection it closes that one, whose reader is now left in its place.
StaleLost ==
  /\ stale > 0 /\ OnLinkLost(IF conn THEN stale ELSE stale - 1)
  /\ UNCHANGED <<running, flags, clk, pc, bounds>>

Readers == ReadError \/ ReadWedged \/ ReaderLost \/ StaleLost

\* _pinger, cmd_ping or telemetry_loop.
SenderLost ==
  SendFails /\ StopViewer /\ UNCHANGED <<running, flags, clk, pc, keys>>

-----------------------------------------------------------------------------
(* The environment                                                          *)

LinkDies ==
  /\ link /\ Fault /\ link' = FALSE /\ SessionEnds
  /\ UNCHANGED <<running, conn, stale, flags, clk, viewer_vars, pc, mail, keys>>

BoardCrashes ==
  /\ Streams(board) /\ Fault /\ board' = "off" /\ mail' = "ERROR"
  /\ UNCHANGED <<running, link_vars, flags, clk, viewer_vars, pc, keys>>

BoardHangs ==
  /\ board = "on" /\ Fault /\ board' = "hung"
  /\ UNCHANGED <<running, link_vars, flags, clk, viewer_vars, pc, mail, keys>>

BoardResumes ==
  /\ board = "hung" /\ board' = "on"
  /\ UNCHANGED <<running, link_vars, flags, clk, viewer_vars, pc, mail, bounds>>

ViewerDies ==
  /\ viewer = "up" /\ Fault /\ viewer' = "dead"
  /\ UNCHANGED <<running, link_vars, flags, clk, dying, pc, board_vars, keys>>

ViewerEnds ==
  /\ dying /\ dying' = FALSE
  /\ UNCHANGED <<running, link_vars, flags, clk, viewer, pc, board_vars, bounds>>

Environment == LinkDies \/ BoardCrashes \/ BoardHangs \/ BoardResumes \/ ViewerDies

Aged(t, limit) == IF t < limit THEN t + 1 ELSE limit
AgedSince(t, limit) == IF t = Never THEN Never ELSE Aged(t, limit)

\* _viewer_reader: a viewer that gets frames says so at least once a tick; one that
\* is about to end may still say so.
LastFrame ==
  LET older == AgedSince(clk.sinceFrame, StallTimeout + 1) IN
  IF board # "on" THEN {older}
  ELSE IF viewer = "up" THEN {0} ELSE IF dying THEN {0, older} ELSE {older}

Tick ==
  /\ \E f \in LastFrame :
       clk' = [retryIn |-> IF clk.retryIn > 0 THEN clk.retryIn - 1 ELSE 0,
               sinceStart |-> Aged(clk.sinceStart, Grace), sinceFrame |-> f,
               upFor |-> AgedSince(clk.upFor, RetryResetAfter)]
  /\ UNCHANGED <<running, link_vars, flags, viewer_vars, pc, board_vars, bounds>>

Next == Tick \/ Main \/ Sup \/ Console \/ Keys \/ Readers \/ SenderLost
        \/ ViewerEnds \/ Environment

Spec == Init /\ [][Next]_vars

(* Every thread runs, readers notice, viewers that are told to end do (4 s,   *)
(* then SIGKILL), time passes, and a board that is looked for answers.         *)
(* Nothing else is assumed of the operator, the board or the link, except     *)
(* that their faults end (MaxFaults).                                         *)
Fairness ==
  /\ WF_vars(Main) /\ WF_vars(Sup) /\ WF_vars(Console)
  /\ WF_vars(ReadError \/ ReadWedged \/ ReaderLost) /\ WF_vars(StaleLost)
  /\ WF_vars(ViewerEnds) /\ WF_vars(Tick)

FairSpec == Spec /\ Fairness

-----------------------------------------------------------------------------
(* Properties                                                               *)

Quiet == pc.con = "idle" /\ pc.main \notin AutoStart /\ pc.sup \notin AutoStart

\* "operator STOP WINS" (uav_rx.py:859): however STOP and the automatic starts of
\* both threads interleave, the board does not stream once they are done.
StopWins == Quiet /\ ~flags.want => ~Streams(board)

\* Wanted video comes back, or is given up after MAX_AUTO_RETRY failures: no flag
\* or timer keeps the supervisor waiting for ever (uav_rx.py:336-338).
Reconciles ==
  <>[]flags.want => <>[](flags.exhausted \/ (viewer = "up" /\ board = "on"))

\* q ends the program, whatever main is doing.
QuitEnds == ~running ~> pc.main = "gone"

\* "check the socket is still alive" (uav_rx.py:444): the link is declared lost
\* only when it is.
OnlyDeadLinksDropped == [][conn /\ ~conn' => ~link \/ ~running]_vars

=============================================================================
