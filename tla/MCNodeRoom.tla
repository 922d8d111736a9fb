---------------------------- MODULE MCNodeRoom ----------------------------
(***************************************************************************)
(* A phone and a computer, with every outcome of the mailbox: the small    *)
(* budget holds two ordinary frames, a mailbox holds two rows, a large     *)
(* submission fits only the machine's budget, a retry carries a later      *)
(* expiry, and some frames are addressed to members that never come.       *)
(***************************************************************************)
EXTENDS NodeRoom

CONSTANTS p, m, k, k2, kp, d1, d2, d3, d4, o1, o2, r1

Env(id, from, to, key, bytes, expiry) ==
    [id |-> id, from |-> from, to |-> to, recipient |-> key, bytes |-> bytes,
     expiresAt |-> expiry]

Hello == Env(NoId, "machine", "all", k2, 1, NoExpiry)
Submit == Env(d1, "phone", "machine", k, 1, 1)
SubmitAgain == Env(d1, "phone", "machine", k, 1, 2)
SubmitLarge == Env(d2, "phone", "machine", k, 3, NoExpiry)
SubmitElsewhere == Env(d3, "phone", "machine", k2, 1, NoExpiry)
SubmitTooLarge == Env(d4, "phone", "machine", k, 5, NoExpiry)
Ordinary == Env(o1, "phone", "machine", k2, 1, NoExpiry)
OrdinaryTooLarge == Env(o2, "phone", "machine", k, 3, NoExpiry)
Report == Env(r1, "machine", "phone", k2, 1, NoExpiry)

FromPhone == {Submit, SubmitAgain, SubmitLarge, SubmitElsewhere, SubmitTooLarge,
              Ordinary, OrdinaryTooLarge}
FromMachine == {Hello, Report}

MCDevice == {p, m}
MCDeliveryId == {d1, d2, d3, d4, o1, o2, r1}
MCDurableId == {d1, d2, d3, d4}
MCEnvelope == FromPhone \cup FromMachine
MCSends == [d \in MCDevice |-> IF d = p THEN FromPhone ELSE FromMachine]
MCKeyOf == [d \in MCDevice |-> IF d = m THEN k ELSE kp]
MCAnnounces == [d \in MCDevice |-> TRUE]
MCControl == [d \in MCDevice |-> TRUE]
=============================================================================
