-------------------------- MODULE MCTaskActivities --------------------------
(***************************************************************************)
(* Two activities compete for the room's one place; updates and ends with  *)
(* two deliveryIds, two tokens to rotate between.                          *)
(***************************************************************************)
EXTENDS TaskActivities, TLC

CONSTANTS a1, a2, t1, t2, d1, d2

MCActivities == {a1, a2}
MCTokens == {t1, t2}
MCDeliveries == {d1, d2}
=============================================================================
