---------------------------- MODULE SocketPolicy ----------------------------
(***************************************************************************)
(* Who may hold a socket of one room of the Node relay: the upgrade gate,  *)
(* the quota decision it awaits, managed admission leases with their       *)
(* expiry timers and renewals, policy closes, and the reconnect cool-down  *)
(* they cause.  The cool-down registry is a bounded map in memory, ordered *)
(* by the last strike; an entry is dropped lazily, by a look-up or by the  *)
(* sweep of a later strike.                                                *)
(*                                                                         *)
(* Deadlines are kept as the time left.  An entry runs on below zero until *)
(* it has been quiet for longer than Reset.                                *)
(***************************************************************************)
EXTENDS Integers, Sequences, FiniteSets, Filters

CONSTANTS
    Client,         \* connections that clients of the room may open
    RoleOf,         \* RoleOf[c]: the role c's frames claim
    TicketRole,     \* TicketRole[c]: the role of c's signed ticket, or NoTicket
    NoTicket,       \* the client has no ticket
    Keyed,          \* Keyed[c]: c announces its recipient key at upgrade
    Identity,       \* cool-down identities
    ManagedId,      \* ManagedId[c]: digest of the ticket's account and device
    PlainId,        \* PlainId[c]: key digest, else role and sender
    NoId,           \* no identity is known yet
    Lives,          \* lifetimes with which tickets arrive
    MaxRoomSockets, \* MAX_ROOM_SOCKETS
    Base,           \* COOL_DOWN_BASE_MS
    MaxBackoff,     \* COOL_DOWN_MAX_MS
    Reset,          \* COOL_DOWN_RESET_MS
    MaxEntries,     \* COOL_DOWN_MAX_ENTRIES
    SweepPerStrike  \* SWEEP_PER_STRIKE

Role == {"machine", "phone"}

ASSUME ClientAssumption ==
    /\ RoleOf \in [Client -> Role]
    /\ TicketRole \in [Client -> Role \cup {NoTicket}] /\ NoTicket \notin Role
    /\ Keyed \in [Client -> BOOLEAN]
    /\ ManagedId \in [Client -> Identity] /\ PlainId \in [Client -> Identity]
    /\ NoId \notin Identity
    /\ \A c, d \in Client : ManagedId[c] # PlainId[d]

ASSUME BoundAssumption ==
    /\ Lives \subseteq Nat \ {0}
    /\ MaxRoomSockets \in Nat \ {0} /\ MaxEntries \in Nat \ {0}
    /\ Base \in Nat \ {0} /\ MaxBackoff \in Nat /\ MaxBackoff >= Base
    /\ Reset \in Nat /\ SweepPerStrike \in Nat

VARIABLES
    sock,       \* sock[c]: the socket, or upgrade, of connection c
    entries,    \* the cool-down registry, least recently struck first
    announced,  \* announced[i]: what is left of the last backoff told to i (history)
    rude,       \* rude[i]: was i struck for more than admission (history)
    others      \* others[i]: identities struck since i was, kept while i may have
                \* been evicted and is not quiet again (history)

history == <<announced, rude, others>>
vars == <<sock, entries, announced, rude, others>>

Forgotten == -(Reset + 1)
Span == Forgotten .. MaxBackoff
Entry == [id : Identity, strikes : 1 .. MaxBackoff, left : Span, admissionOnly : BOOLEAN]

\* managed: the upgrade carried a ticket, which then names the socket; lease: time
\* left on the ticket; timer: time left on admissionTimer.
Sock == [phase : {"none", "admitting", "open", "closing"}, spoke : BOOLEAN,
         managed : BOOLEAN, lease : Nat, timer : Nat,
         why : {"", "policy", "cool-down", "admission", "admission-expired"}]
NoSock == [phase |-> "none", spoke |-> FALSE, managed |-> FALSE,
           lease |-> 0, timer |-> 0, why |-> ""]

TypeOK ==
    /\ sock \in [Client -> Sock]
    /\ entries \in Seq(Entry)
    /\ Len(entries) <= MaxEntries
    /\ \A x, y \in DOMAIN entries : entries[x].id = entries[y].id => x = y
    /\ announced \in [Identity -> Span]
    /\ rude \in [Identity -> BOOLEAN]
    /\ others \in [Identity -> SUBSET Identity]

Init ==
    /\ sock = [c \in Client |-> NoSock]
    /\ entries = <<>>
    /\ announced = [i \in Identity |-> Forgotten]
    /\ rude = [i \in Identity |-> FALSE]
    /\ others = [i \in Identity |-> {}]

-----------------------------------------------------------------------------
(* CoolDownRegistry *)

Quiet(left) == left < -Reset

Struck(es, i) == \E k \in DOMAIN es : es[k].id = i
EntryOf(es, i) == es[CHOOSE k \in DOMAIN es : es[k].id = i]
Drop(es, i) == Filter(es, {x \in Entry : x.id # i})

\* remaining, what it deletes: a lease clears what only admission closes caused.
Looked(es, i, admitted) ==
    IF /\ Struck(es, i)
       /\ (admitted /\ EntryOf(es, i).admissionOnly) \/ Quiet(EntryOf(es, i).left)
    THEN Drop(es, i) ELSE es

\* remaining, what it returns.
Cooling(es, i, admitted) ==
    Struck(Looked(es, i, admitted), i) /\ EntryOf(es, i).left > 0

TwoTo[n \in 0 .. MaxBackoff] == IF n = 0 THEN 1 ELSE 2 * TwoTo[n - 1]

Backoff(strikes) ==
    LET doubled == Base * TwoTo[strikes - 1]
    IN IF doubled < MaxBackoff THEN doubled ELSE MaxBackoff

\* Mutant: the last close alone decides whether a lease clears the entry.
LastOnly(es, i, admission) == admission

\* Mutant: only a first strike can be for admission only.
FirstOnly(es, i, admission) == admission /\ ~Struck(es, i)

AdmissionOnly(es, i, admission) ==
    admission /\ (~Struck(es, i) \/ Quiet(EntryOf(es, i).left) \/ EntryOf(es, i).admissionOnly)

\* Strikes beyond MaxBackoff no longer change the backoff.
Strikes(es, i) ==
    IF ~Struck(es, i) \/ Quiet(EntryOf(es, i).left) THEN 1
    ELSE IF EntryOf(es, i).strikes < MaxBackoff THEN EntryOf(es, i).strikes + 1
    ELSE MaxBackoff

\* sweep: the least recently struck beyond the limit go, and the forgotten among
\* the first SweepPerStrike.
Swept(es) ==
    LET over == IF Len(es) > MaxEntries THEN Len(es) - MaxEntries ELSE 0
        kept == SubSeq(es, over + 1, Len(es))
        checked == {es[k] : k \in {j \in DOMAIN es : j <= SweepPerStrike}}
    IN Filter(kept, {x \in Entry : ~(Quiet(x.left) /\ x \in checked)})

Crowded(i) == Cardinality(others[i]) >= MaxEntries

\* strike, and what the client is told.
Strike(es, i, admission) ==
    IF i = NoId THEN entries' = es /\ UNCHANGED history
    ELSE LET n == Strikes(es, i) IN
        /\ entries' = Swept(Append(Drop(es, i),
                        [id |-> i, strikes |-> n, left |-> Backoff(n),
                         admissionOnly |-> AdmissionOnly(es, i, admission)]))
        /\ announced' = [announced EXCEPT ![i] = Backoff(n)]
        /\ rude' = [rude EXCEPT ![i] = @ \/ ~admission]
        /\ others' = [j \in Identity |-> IF j # i THEN others[j] \cup {i}
                                       ELSE IF Crowded(i) THEN others[i] ELSE {}]

\* A lease forgives the identities in ids that were struck for admission only.
Forgive(ids, admitted) ==
    /\ announced' = [i \in Identity |-> IF admitted /\ i \in ids /\ ~rude[i]
                                        THEN Forgotten ELSE announced[i]]
    /\ UNCHANGED <<rude, others>>

-----------------------------------------------------------------------------
(* Upgrade *)

InRoom == {c \in Client : sock[c].phase \in {"open", "closing"}}

\* The identity known before the first frame.
GateId(c, managed) ==
    IF managed THEN ManagedId[c] ELSE IF Keyed[c] THEN PlainId[c] ELSE NoId

\* The gate clears the plain identity of a ticket holder, then asks for the
\* identity that the socket will have.
Cleared(c, managed) ==
    LET plain == IF managed /\ Keyed[c] THEN Looked(entries, PlainId[c], TRUE) ELSE entries
    IN Looked(plain, GateId(c, managed), managed)

GateIds(c, managed) == {GateId(c, managed)} \cup (IF Keyed[c] THEN {PlainId[c]} ELSE {})

Passes(c, managed) ==
    /\ ~Cooling(entries, GateId(c, managed), managed)
    /\ Cardinality(InRoom) < MaxRoomSockets

\* The upgrade shows a signed ticket for the room that has not expired.
ReadManagedTicket(c) == TicketRole[c] # NoTicket

\* An authenticated upgrade; accepted, it awaits the quota decision.
Upgrade(c, managed, life) ==
    /\ sock[c].phase = "none"
    /\ managed => ReadManagedTicket(c)
    /\ entries' = Cleared(c, managed)
    /\ Forgive(GateIds(c, managed), managed)
    /\ sock' = IF Passes(c, managed)
               THEN [sock EXCEPT ![c] = [NoSock EXCEPT !.phase = "admitting",
                        !.managed = managed, !.lease = IF managed THEN life ELSE 0]]
               ELSE sock

\* Mutant: the room is not counted again after the await.
HasRoomAlways == TRUE

HasRoom == Cardinality(InRoom) < MaxRoomSockets

\* The quota service allows the connection and the client is still there.
Admitted(c) ==
    /\ sock[c].phase = "admitting"
    /\ sock' = [sock EXCEPT ![c] = IF HasRoom
                THEN [@ EXCEPT !.phase = "open", !.timer = sock[c].lease] ELSE NoSock]
    /\ UNCHANGED <<entries, history>>

\* The quota service refuses, or the client has left.
NotAdmitted(c) ==
    /\ sock[c].phase = "admitting"
    /\ sock' = [sock EXCEPT ![c] = NoSock]
    /\ UNCHANGED <<entries, history>>

-----------------------------------------------------------------------------
(* Frames, leases and closes *)

\* identityOf; a first frame brings role and sender with it.
IdOf(c, framed) ==
    IF sock[c].managed THEN ManagedId[c]
    ELSE IF Keyed[c] \/ sock[c].spoke \/ framed THEN PlainId[c] ELSE NoId

AdmittedSocket(c) == sock[c].managed /\ sock[c].lease > 0

\* A frame of a role the ticket does not have, or of a computer without a lease.
Unadmitted(c) ==
    \/ sock[c].managed /\ TicketRole[c] # RoleOf[c]
    \/ RoleOf[c] = "machine" /\ ~AdmittedSocket(c)

Closing(c, why) == sock' = [sock EXCEPT ![c].phase = "closing", ![c].why = why]

RefuseFirstFrame(c) ==
    /\ sock[c].phase = "open" /\ ~sock[c].spoke
    /\ Cooling(entries, IdOf(c, TRUE), AdmittedSocket(c))
    /\ entries' = Looked(entries, IdOf(c, TRUE), AdmittedSocket(c))
    /\ Closing(c, "cool-down")
    /\ UNCHANGED history

FirstFrame(c) ==
    /\ sock[c].phase = "open" /\ ~sock[c].spoke
    /\ ~Cooling(entries, IdOf(c, TRUE), AdmittedSocket(c))
    /\ ~Unadmitted(c)
    /\ entries' = Looked(entries, IdOf(c, TRUE), AdmittedSocket(c))
    /\ Forgive({IdOf(c, TRUE)}, AdmittedSocket(c))
    /\ sock' = [sock EXCEPT ![c].spoke = TRUE]

UnadmittedFrame(c) ==
    /\ sock[c].phase = "open"
    /\ Unadmitted(c)
    /\ sock[c].spoke \/ ~Cooling(entries, IdOf(c, TRUE), AdmittedSocket(c))
    /\ Strike(IF sock[c].spoke THEN entries
              ELSE Looked(entries, IdOf(c, TRUE), AdmittedSocket(c)), IdOf(c, TRUE), TRUE)
    /\ Closing(c, "admission")

\* More than 300 frames in a second, or a frame that is too large.
Abuse(c) ==
    /\ sock[c].phase = "open"
    /\ Strike(entries, IdOf(c, FALSE), FALSE)
    /\ Closing(c, "policy")

\* Mutant: the timer of the first ticket is left running.
ArmedBefore(c, life) == [sock[c] EXCEPT !.lease = life]

Armed(c, life) == [sock[c] EXCEPT !.lease = life, !.timer = life]

\* relay.admission with a later ticket of the same device.
Renew(c, life) ==
    /\ sock[c].phase = "open" /\ sock[c].managed
    /\ sock[c].spoke => TicketRole[c] = RoleOf[c]
    /\ life > sock[c].lease
    /\ sock' = [sock EXCEPT ![c] = Armed(c, life)]
    /\ UNCHANGED <<entries, history>>

\* relay.admission with any other value.
RejectRenewal(c) ==
    /\ sock[c].phase = "open"
    /\ Strike(entries, IdOf(c, FALSE), TRUE)
    /\ Closing(c, "admission")

\* Mutant: the timer only closes sockets that have registered a role.
TimerFiresSpoken(c) ==
    /\ sock[c].phase = "open" /\ sock[c].managed /\ sock[c].timer = 0
    /\ sock[c].spoke
    /\ Strike(entries, IdOf(c, FALSE), TRUE)
    /\ Closing(c, "admission-expired")

TimerFires(c) ==
    /\ sock[c].phase = "open" /\ sock[c].managed /\ sock[c].timer = 0
    /\ Strike(entries, IdOf(c, FALSE), TRUE)
    /\ Closing(c, "admission-expired")

\* The close event, after a policy close or of its own.
Closed(c) ==
    /\ c \in InRoom
    /\ sock' = [sock EXCEPT ![c] = NoSock]
    /\ UNCHANGED <<entries, history>>

\* A restart forgets sockets and cool-downs.
Restart ==
    /\ sock' = [c \in Client |-> NoSock]
    /\ entries' = <<>>
    /\ announced' = [i \in Identity |-> Forgotten]
    /\ rude' = [i \in Identity |-> FALSE]
    /\ others' = [i \in Identity |-> {}]

Down(x) == IF x > 0 THEN x - 1 ELSE x
Sooner(x) == IF x > Forgotten THEN x - 1 ELSE x

Tick ==
    /\ sock' = [c \in Client |->
                    [sock[c] EXCEPT !.lease = Down(@), !.timer = Down(@)]]
    /\ entries' = [k \in DOMAIN entries |-> [entries[k] EXCEPT !.left = Sooner(@)]]
    /\ announced' = [i \in Identity |-> Sooner(announced[i])]
    /\ rude' = [i \in Identity |-> rude[i] /\ ~Quiet(announced'[i])]
    /\ others' = [i \in Identity |-> IF Quiet(announced'[i]) THEN {} ELSE others[i]]

Next ==
    \/ \E c \in Client, managed \in BOOLEAN, life \in Lives : Upgrade(c, managed, life)
    \/ \E c \in Client : Admitted(c) \/ NotAdmitted(c)
    \/ \E c \in Client : RefuseFirstFrame(c) \/ FirstFrame(c) \/ UnadmittedFrame(c)
    \/ \E c \in Client : Abuse(c) \/ RejectRenewal(c) \/ TimerFires(c) \/ Closed(c)
    \/ \E c \in Client, life \in Lives : Renew(c, life)
    \/ Restart
    \/ Tick

Spec == Init /\ [][Next]_vars

\* Timers fire; nothing is assumed of clients.
FairSpec == Spec /\ \A c \in Client : WF_vars(TimerFires(c))

-----------------------------------------------------------------------------
(* Properties *)

\* However many upgrades await the quota service at once, the room never holds
\* more than MaxRoomSockets sockets.
RoomCapacity == Cardinality(InRoom) <= MaxRoomSockets

\* Nothing keeps identity i from connecting: its last backoff has passed, a lease
\* forgives strikes that were all for admission, or MaxEntries others were struck
\* since.
Served(i, admitted) ==
    i = NoId \/ announced[i] <= 0 \/ (admitted /\ ~rude[i]) \/ Crowded(i)

\* The backoff announced with a policy close is served: until then neither the
\* upgrade gate nor the first frame lets the identity in.
CoolDownServed ==
    [][\A c \in Client :
          /\ sock[c].phase = "none" /\ sock'[c].phase = "admitting" =>
                Served(GateId(c, sock'[c].managed), sock'[c].managed)
          /\ ~sock[c].spoke /\ sock'[c].spoke => Served(IdOf(c, TRUE), AdmittedSocket(c))]_vars

\* A computer that was closed for its admission only is never kept waiting once
\* it shows a valid lease: every entry a lease does not clear records abuse.
LeaseReconnects ==
    \A k \in DOMAIN entries :
        entries[k].left > 0 /\ ~entries[k].admissionOnly => rude[entries[k].id]

\* A socket is closed for an expired admission only when its lease has run out,
\* renewals included.
OnlyLapsedLeasesExpire ==
    [][\A c \in Client :
          sock'[c].why = "admission-expired" /\ sock[c].why # "admission-expired" =>
              sock[c].lease = 0]_vars

\* A socket whose lease has run out does not stay open without a renewal.
LapsedSocketsClose ==
    \A c \in Client :
        (sock[c].phase = "open" /\ sock[c].managed /\ sock[c].lease = 0) ~>
            ~(sock[c].phase = "open" /\ sock[c].managed /\ sock[c].lease = 0)
=============================================================================
