-------------------------- MODULE MCNodeRoomFleet --------------------------
(***************************************************************************)
(* A phone and two computers.  m1 announces its key; m2 is an older client *)
(* that does not, so the relay also sends it ciphertext only m1 can read.  *)
(* Nothing expires within the clock bound, so delivery is the only way a   *)
(* receipt can be honoured.                                                *)
(***************************************************************************)
EXTENDS NodeRoom

CONSTANTS p, m1, m2, k1, k2, d1, d2, o1

Env(id, from, to, key) ==
    [id |-> id, from |-> from, to |-> to, recipient |-> key, bytes |-> 1,
     expiresAt |-> NoExpiry]

Hello == Env(NoId, "machine", "phone", NoKey)
SubmitOne == Env(d1, "phone", "machine", k1)
SubmitTwo == Env(d2, "phone", "machine", k2)
Ordinary == Env(o1, "phone", "machine", NoKey)

MCDevice == {p, m1, m2}
MCDeliveryId == {d1, d2, o1}
MCDurableId == {d1, d2}
MCEnvelope == {Hello, SubmitOne, SubmitTwo, Ordinary}
MCSends == [d \in MCDevice |-> IF d = p THEN MCEnvelope \ {Hello} ELSE {Hello}]
MCKeyOf == [d \in MCDevice |-> IF d = m1 THEN k1 ELSE IF d = m2 THEN k2 ELSE NoKey]
MCAnnounces == [d \in MCDevice |-> d = m1]
MCControl == [d \in MCDevice |-> TRUE]
=============================================================================
