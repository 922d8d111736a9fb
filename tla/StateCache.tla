----------------------------- MODULE StateCache -----------------------------
(***************************************************************************)
(* What the retained state of a room promises to the phones that read it:  *)
(* each slot shows nothing or one whole frame, a frame is followed only by *)
(* a newer one of the same slot, and a cache may lose any frame.           *)
(***************************************************************************)
EXTENDS Naturals

CONSTANTS
    Slot,      \* the addresses of frames: recipient and key
    None       \* no frame

VARIABLE shown  \* shown[s]: the frame a phone is sent for slot s

\* The frame in shown[s] may be followed by one of a higher revision.
Newer(s, frame) == shown[s] = None \/ shown[s].revision < frame.revision

Init == shown = [s \in Slot |-> None]

\* Some slots lose their frames.
Lose == \E lost \in SUBSET Slot :
    shown' = [s \in Slot |-> IF s \in lost THEN None ELSE shown[s]]

\* One slot shows a newer frame, and others may lose theirs to make room.
Replace == \E s \in Slot :
    /\ shown'[s] # None
    /\ shown'[s].slot = s
    /\ Newer(s, shown'[s])
    /\ \E lost \in SUBSET (Slot \ {s}) :
          shown' = [r \in Slot |-> IF r = s THEN shown'[s]
                                   ELSE IF r \in lost THEN None ELSE shown[r]]

Next == Lose \/ Replace

Spec == Init /\ [][Next]_shown
=============================================================================
