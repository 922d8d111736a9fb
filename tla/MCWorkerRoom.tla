--------------------------- MODULE MCWorkerRoom ---------------------------
(***************************************************************************)
(* A phone and two computers.  m1 announces its key; m2 is an older client *)
(* that does not.  A mailbox holds two rows of one byte, so a submission   *)
(* evicts an ordinary frame and two submissions fill it; a retry carries a *)
(* later expiry.                                                           *)
(***************************************************************************)
EXTENDS WorkerRoom

CONSTANTS p, m1, m2, k1, k2, kp, d1, d2, d3, o1, o2

Env(id, from, to, key, bytes, expiry) ==
    [id |-> id, from |-> from, to |-> to, recipient |-> key, bytes |-> bytes,
     expiresAt |-> expiry]

Here == Env(NoId, "machine", "phone", k1, 1, NoExpiry)
Submit == Env(d1, "phone", "machine", k1, 1, 1)
SubmitAgain == Env(d1, "phone", "machine", k1, 1, 2)
SubmitOther == Env(d2, "phone", "machine", k2, 2, NoExpiry)
SubmitLarge == Env(d3, "phone", "machine", k1, 3, NoExpiry)
Ordinary == Env(o1, "phone", "machine", k1, 1, NoExpiry)
OrdinaryLarge == Env(o2, "phone", "machine", k1, 3, NoExpiry)

MCDevice == {p, m1, m2}
MCDeliveryId == {d1, d2, d3, o1, o2}
MCDurableId == {d1, d2, d3}
MCEnvelope == {Here, Submit, SubmitAgain, SubmitOther, SubmitLarge, Ordinary, OrdinaryLarge}
MCSends == [d \in MCDevice |-> IF d = p THEN MCEnvelope \ {Here} ELSE {Here}]
MCKeyOf == [d \in MCDevice |-> IF d = m1 THEN k1 ELSE IF d = m2 THEN k2 ELSE kp]
MCAnnounces == [d \in MCDevice |-> d # m2]
MCControl == [d \in MCDevice |-> TRUE]
=============================================================================
