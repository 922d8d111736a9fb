--------------------------- MODULE MCWakeDelivery ---------------------------
(***************************************************************************)
(* Two identities; lifetimes shorter than the interval and longer than it; *)
(* both deployments.                                                       *)
(***************************************************************************)
EXTENDS WakeDelivery

CONSTANTS k1, k2

MCKey == {k1, k2}
=============================================================================
