---------------------------- MODULE LossyChannel ----------------------------
(***************************************************************************)
(* What a receiver may rely on of the control link, whatever happens to    *)
(* its bytes: it hears messages that were sent, whole, in the order they   *)
(* were begun and none of them twice; some it may never hear. The models   *)
(* of the supervisors take the first part from here, whole messages in     *)
(* order; that one may be lost while the connection lives is not in them.  *)
(***************************************************************************)
EXTENDS Naturals

VARIABLES started,   \* messages begun, numbered from 1
          heard      \* the last one heard, 0 before

vars == <<started, heard>>

Init == started = 0 /\ heard = 0

Begin == started' = started + 1 /\ UNCHANGED heard

Hear == heard' \in (heard + 1)..started /\ UNCHANGED started

Next == Begin \/ Hear

Spec == Init /\ [][Next]_vars
=============================================================================
