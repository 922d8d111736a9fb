--------------------------- MODULE MCTaskWriters ---------------------------
(***************************************************************************)
(* Two identities, a job of the owner that is due at once, one scheduled   *)
(* for later and one a writer uploads; two receiver attempts.  The bounds  *)
(* are one short of what the bodies need, so capacity refusals happen, and *)
(* the clock runs past the retention, so that identities of jobs and of    *)
(* grants are purged and used again.                                       *)
(***************************************************************************)
EXTENDS TaskWriters, TLC

CONSTANTS j1, j2, c1, c2, w1, w2, r1

MCJobId == {j1, j2}
MCClaimId == {c1, c2}
MCWriter == {w1, w2}
MCBody ==
    {[tag |-> "now", notBefore |-> 0, expiresAt |-> 1, bytes |-> 2, writerId |-> NoWriter, recipient |-> r1],
     [tag |-> "later", notBefore |-> 2, expiresAt |-> 4, bytes |-> 1, writerId |-> w1, recipient |-> r1]}
MCOwnerBody == {b \in MCBody : b.writerId = NoWriter}
MCGrant ==
    {[id |-> w1, recipient |-> r1, tokenHash |-> 1, expiresAt |-> 4],
     [id |-> w1, recipient |-> r1, tokenHash |-> 2, expiresAt |-> 3],
     [id |-> w2, recipient |-> r1, tokenHash |-> 3, expiresAt |-> 3]}
Symmetric == Permutations(MCJobId) \cup Permutations(MCClaimId)
=============================================================================
