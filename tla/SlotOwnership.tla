--------------------------- MODULE SlotOwnership ---------------------------
(***************************************************************************)
(* What the buffer comment of main_yolox.cpp (lines 80-96) promises of the *)
(* capture ring, without saying how: a slot is either the camera's, or it  *)
(* is out and has at least one reader; the last reader to let go returns   *)
(* it to the camera, and nobody else does.                                 *)
(***************************************************************************)
CONSTANTS Slots,     \* the buffers of the capture ring
          Readers    \* who may hold a slot that is out of the camera's hands

VARIABLES atCamera,  \* the slots the camera may write into
          readers    \* readers[s]: who holds slot s

vars == <<atCamera, readers>>

TypeOK == /\ atCamera \in SUBSET Slots
          /\ readers \in [Slots -> SUBSET Readers]

Init == /\ atCamera = Slots
        /\ readers = [s \in Slots |-> {}]

\* The application takes a filled slot: r is its first reader.
Take(s, r) == /\ s \in atCamera
              /\ atCamera' = atCamera \ {s}
              /\ readers' = [readers EXCEPT ![s] = {r}]

\* A slot that is out gains the reader r.
Share(s, r) == /\ readers[s] # {}
               /\ readers' = [readers EXCEPT ![s] = @ \cup {r}]
               /\ UNCHANGED atCamera

\* Reader r passes the slot on to reader q: the slot is never without one.
HandOver(s, r, q) == /\ r \in readers[s]
                     /\ readers' = [readers EXCEPT ![s] = (@ \ {r}) \cup {q}]
                     /\ UNCHANGED atCamera

\* Reader r lets go; when it was the last one, the slot is the camera's again.
Drop(s, r) == /\ r \in readers[s]
              /\ readers' = [readers EXCEPT ![s] = @ \ {r}]
              /\ atCamera' = IF readers[s] = {r} THEN atCamera \cup {s}
                                                 ELSE atCamera

Next == \E s \in Slots, r \in Readers :
           \/ Take(s, r)
           \/ Share(s, r)
           \/ \E q \in Readers : HandOver(s, r, q)
           \/ Drop(s, r)

Spec == Init /\ [][Next]_vars
=============================================================================
