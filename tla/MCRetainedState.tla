-------------------------- MODULE MCRetainedState ---------------------------
(***************************************************************************)
(* A catalog of phone p, a key grant and a chat head of one group of phone *)
(* p, and a chat head of phone q, in a room with two slots and three       *)
(* chunks.  The Worker, with many writes for one put, is given a catalog   *)
(* that grows to two chunks and a head that shrinks to one: frames of two  *)
(* chunks can be torn, a full room evicts, and a torn frame can come on    *)
(* top of the limits.  The one transaction of Node leaves room for more    *)
(* frames, unlinked and oversize ones among them.                          *)
(***************************************************************************)
EXTENDS RetainedState, TLC

CONSTANTS p, q, catalog, grant, head, other, g, h

MCRecipient == catalog :> p @@ grant :> p @@ head :> p @@ other :> q

F(s, revision, priority, group, size) ==
    [slot |-> s, revision |-> revision, priority |-> priority, group |-> group, size |-> size]

Catalog == F(catalog, 1, 1, None, 1)
Heads == {F(head, 1, 3, g, 2), F(head, 2, 3, g, 2)}

MCFrames ==
    [node |-> {Catalog, F(catalog, 2, 1, None, 2), F(grant, 1, 0, g, 1),
               F(grant, 2, 0, None, 1), F(other, 1, 3, h, 1),
               F(other, 2, 3, h, 2), F(head, 2, 3, g, 1), F(head, 3, 3, g, 3)} \cup Heads,
     worker |-> {Catalog, F(catalog, 2, 1, None, 2),
                 F(head, 1, 3, g, 2), F(head, 2, 3, g, 1)}]
=============================================================================
