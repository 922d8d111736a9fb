--------------------------- MODULE MCTaskOffers ---------------------------
(***************************************************************************)
(* Both deployments, with as many jobs as Node's pump can visit before it  *)
(* forgets the first.                                                      *)
(***************************************************************************)
EXTENDS TaskOffers
=============================================================================
