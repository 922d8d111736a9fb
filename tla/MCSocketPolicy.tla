--------------------------- MODULE MCSocketPolicy ---------------------------
(***************************************************************************)
(* A computer with a ticket and its recipient key and a phone that is only *)
(* known by its sender compete for a room of one socket; two of the three  *)
(* identities fit in the registry.                                         *)
(***************************************************************************)
EXTENDS SocketPolicy

CONSTANTS computer, phone, device, key, sender

MCClient == {computer, phone}
MCIdentity == {device, key, sender}
MCRoleOf == [c \in MCClient |-> IF c = computer THEN "machine" ELSE "phone"]
MCTicketRole == [c \in MCClient |-> IF c = computer THEN "machine" ELSE NoTicket]
MCKeyed == [c \in MCClient |-> c = computer]
MCManagedId == [c \in MCClient |-> device]
MCPlainId == [c \in MCClient |-> IF c = computer THEN key ELSE sender]
=============================================================================
