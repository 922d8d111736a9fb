---------------------------- MODULE MCRoomAlarm -----------------------------
(***************************************************************************)
(* Two recipients compete for a directory of one record beside one job and *)
(* one wake; the object is evicted at most once.                           *)
(***************************************************************************)
EXTENDS RoomAlarm

CONSTANTS desk, laptop

MCRecipient == {desk, laptop}
=============================================================================
