---------------------------- MODULE Deployments -----------------------------
(***************************************************************************)
(* The two deployments of the relay: a Node process with SQLite, and a     *)
(* Cloudflare Worker with one Durable Object per room.  A component that   *)
(* both have is modelled once; where they differ its actions look at       *)
(* runtime, which no action changes.                                       *)
(***************************************************************************)

CONSTANT Runtime   \* the deployments considered

ASSUME RuntimeAssumption == Runtime \subseteq {"node", "worker"}

VARIABLE runtime   \* the deployment, fixed from the start
=============================================================================
