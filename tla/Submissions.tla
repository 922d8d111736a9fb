---------------------------- MODULE Submissions ----------------------------
(***************************************************************************)
(* What a room promises about the explicit submissions of its phones:      *)
(* once stored, a submission is held until it expires or an addressee has  *)
(* read it, and a storage receipt is given only for what is held.  Rooms   *)
(* of both deployments implement this.                                     *)
(***************************************************************************)
EXTENDS Naturals

VARIABLES
    now,        \* the time
    held,       \* the submissions on record: [id, expiresAt]
    promised,   \* the storage receipts given, each for a held submission
    read        \* ids an addressee has read

vars == <<now, held, promised, read>>

Init == now = 0 /\ held = {} /\ promised = {} /\ read = {}

\* What has left the record had expired or was read.
OnlyDoneLeave == \A h \in held \ held' : h.expiresAt <= now \/ h.id \in read

\* Receipts are never withdrawn and are given for what is then on record.
Receipts == promised \subseteq promised' /\ promised' \ promised \subseteq held'

\* One more submission is held; it has not expired.
Store ==
    /\ \E h \in held' :
          held' \ held = {h} /\ h.expiresAt \in Nat /\ h.expiresAt > now
    /\ OnlyDoneLeave
    /\ Receipts
    /\ UNCHANGED <<now, read>>

\* Submissions leave, or a retry of one that stays earns its receipt again.
Release ==
    /\ held' \subseteq held
    /\ OnlyDoneLeave
    /\ Receipts
    /\ UNCHANGED <<now, read>>

Read ==
    /\ read \subseteq read'
    /\ UNCHANGED <<now, held, promised>>

Tick ==
    /\ now' = now + 1
    /\ UNCHANGED <<held, promised, read>>

Next == Store \/ Release \/ Read \/ Tick

Spec == Init /\ [][Next]_vars

-----------------------------------------------------------------------------
\* A receipt is good until its expiry: the submission is on record unless it
\* was read.
ReceiptsHold ==
    \A p \in promised : p.expiresAt <= now \/ p.id \in read \/ p \in held
=============================================================================
