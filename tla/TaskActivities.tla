--------------------------- MODULE TaskActivities ---------------------------
(***************************************************************************)
(* Live Activities of one room: the registry of encrypted enrolments and   *)
(* the delivery of their updates.  The updates of an activity are sent one *)
(* at a time, on a chain of promises kept in memory; while an update       *)
(* awaits APNs the phone may rotate the activity's token, remove the       *)
(* activity or enrol it again.                                             *)
(*                                                                         *)
(* Each access to the registry is one step: a SQLite statement in Node, a  *)
(* storage transaction in the Worker.  What follows the answer of APNs     *)
(* (read the row, record or remove it) awaits nothing but the registry: no *)
(* request is served in between, in Node because the store is synchronous, *)
(* in the Worker because storage awaits keep the input gate closed.        *)
(***************************************************************************)
EXTENDS Naturals, Sequences, FiniteSets, SequencesExt

CONSTANTS
    Activities,  \* identities of activities
    Tokens,      \* APNs tokens of activities
    Deliveries,  \* deliveryIds
    Limit,       \* ACTIVITY_LIMIT
    Ttl,         \* ACTIVITY_TTL_MS
    Gap,         \* the 10 s between two updates of an activity
    BodyWait,    \* the longest time a request waits for its body
    MaxTime,     \* bound: the last instant
    MaxUpdates,  \* bound: updates that arrive
    None         \* no row, no token, no delivery

ASSUME ActivityAssumption ==
    /\ {Limit, Gap, Ttl} \subseteq Nat \ {0}
    /\ {BodyWait, MaxTime, MaxUpdates} \subseteq Nat
    /\ None \notin Tokens \cup Deliveries

VARIABLES
    now,      \* the clock
    rows,     \* persisted: the enrolment of each activity
    chain,    \* in memory: the updates of each activity, oldest first
    arrived,  \* number of updates so far (bound)
    wanted,   \* the enrolment the phone last made and nothing ended (history)
    accepted  \* sends since the enrolment whose acceptance came in time (history)

vars == <<now, rows, chain, arrived, wanted, accepted>>

Event == {"update", "end"}

Row == [token : Tokens, expiresAt : Nat,
        lastDeliveryId : Deliveries \cup {None}, lastDeliveredAt : Nat]

\* An update waits for its turn, is on its way to APNs, or has been answered
\* there; token and at are those of its send.
Stage == {"waiting", "sent", "ok", "stale", "refused"}

Update == [id : Deliveries, event : Event, stage : Stage,
           token : Tokens \cup {None}, at : Nat]

Send == [id : Deliveries, event : Event, at : Nat]

Enrolment == [token : Tokens, expiresAt : Nat]

ASSUME NoneAssumption == None \notin Row /\ None \notin Enrolment

\* At most Limit enrolments are kept, and only the oldest update of an
\* activity is on its way.
TypeOK ==
    /\ now \in 1..(MaxTime + 1)
    /\ rows \in [Activities -> Row \cup {None}]
    /\ Cardinality({a \in Activities : rows[a] # None}) <= Limit
    /\ chain \in [Activities -> Seq(Update)]
    /\ \A a \in Activities : \A i \in 2..Len(chain[a]) :
          chain[a][i].stage = "waiting"
    /\ arrived \in 0..MaxUpdates
    /\ wanted \in [Activities -> Enrolment \cup {None}]
    /\ accepted \in [Activities -> Seq(Send)]

Init ==
    /\ now = 1
    /\ rows = [a \in Activities |-> None]
    /\ chain = [a \in Activities |-> <<>>]
    /\ arrived = 0
    /\ wanted = [a \in Activities |-> None]
    /\ accepted = [a \in Activities |-> <<>>]

-----------------------------------------------------------------------------
(* The registry *)

Expired(row, t) == row # None /\ row.expiresAt <= t

\* Every access first drops the enrolments that have expired.
Purged(t) == [a \in Activities |-> IF Expired(rows[a], t) THEN None ELSE rows[a]]

\* What the phone may still count on, given the registry.
StillWanted(t) ==
    [a \in Activities |-> IF Expired(wanted[a], t) THEN None ELSE wanted[a]]

\* A receipt lasts as long as its enrolment.
Write(registry, receipts) ==
    /\ rows' = registry
    /\ accepted' = [a \in Activities |->
                       IF registry[a] = None THEN <<>> ELSE receipts[a]]

\* The instant a request read before it awaited its body.
RequestTimes == {t \in 1..now : now <= t + BodyWait}

\* Mutant: a rotation starts the receipt over.
RowOfNew(old, token, expiresAt) ==
    [token |-> token, expiresAt |-> expiresAt,
     lastDeliveryId |-> None, lastDeliveredAt |-> 0]

\* The stored record: a rotation keeps the receipt of the last delivery.
RowOf(old, token, expiresAt) ==
    [token |-> token, expiresAt |-> expiresAt,
     lastDeliveryId |-> IF old = None THEN None ELSE old.lastDeliveryId,
     lastDeliveredAt |-> IF old = None THEN 0 ELSE old.lastDeliveredAt]

HasRoom(live, a) ==
    \/ live[a] # None
    \/ Cardinality({b \in Activities : live[b] # None}) < Limit

\* PUT or POST /push/activity/register.
Register(a, token) ==
    \E t \in RequestTimes : \E expiresAt \in (t + 1)..(t + Ttl) :
        LET live == Purged(t)
            row == RowOf(live[a], token, expiresAt)
        IN  /\ HasRoom(live, a)
            /\ Write([live EXCEPT ![a] = row],
                     [accepted EXCEPT ![a] = IF live[a] = None THEN <<>> ELSE @])
            /\ wanted' = [StillWanted(now) EXCEPT ![a] =
                             [token |-> token, expiresAt |-> expiresAt]]
            /\ UNCHANGED <<now, chain, arrived>>

\* 409: the room has its eight activities.
RegisterRefused(a) ==
    \E t \in RequestTimes :
        /\ ~HasRoom(Purged(t), a)
        /\ Write(Purged(t), accepted)
        /\ wanted' = StillWanted(now)
        /\ UNCHANGED <<now, chain, arrived>>

\* DELETE /push/activity/register; the SQLite store purges nothing here, the
\* Worker what had expired when the request arrived.
Unregister(a) ==
    \E t \in RequestTimes \cup {0} :
        /\ Write([Purged(t) EXCEPT ![a] = None], accepted)
        /\ wanted' = [StillWanted(now) EXCEPT ![a] = None]
        /\ UNCHANGED <<now, chain, arrived>>

\* GET /push/activity/subscriptions.
List ==
    /\ Write(Purged(now), accepted)
    /\ wanted' = StillWanted(now)
    /\ UNCHANGED <<now, chain, arrived>>

-----------------------------------------------------------------------------
(* Delivery *)

\* POST /push/activity/update: the update joins its activity's chain.
Enqueue(a, id, event) ==
    /\ arrived < MaxUpdates
    /\ arrived' = arrived + 1
    /\ chain' = [chain EXCEPT ![a] = Append(@,
          [id |-> id, event |-> event, stage |-> "waiting", token |-> None, at |-> 0])]
    /\ UNCHANGED <<now, rows, wanted, accepted>>

\* Mutant: an update does not wait for the ones before it.
AnyTurn(a) == DOMAIN chain[a]

\* The first update of the chain is the one that runs.
Turn(a) == {i \in DOMAIN chain[a] : i = 1}

Answered(a, i) == chain' = [chain EXCEPT ![a] = RemoveAt(@, i)]

TooSoon(row, u, t) ==
    /\ u.event # "end"
    /\ row.lastDeliveredAt > 0
    /\ t - row.lastDeliveredAt < Gap

\* The activity is enrolled, the update is not the one delivered last, and
\* it does not come too soon.
MustSend(row, u, t) ==
    /\ row # None
    /\ row.lastDeliveryId # u.id
    /\ ~TooSoon(row, u, t)

\* deliver() when it sends nothing: closed, duplicate, 202, or, at any time
\* here, 503 because the relay has no APNs key for the token's environment.
DeliverNothing(a) == \E i \in Turn(a) :
    /\ chain[a][i].stage = "waiting"
    /\ Write(Purged(now), accepted)
    /\ Answered(a, i)
    /\ wanted' = StillWanted(now)
    /\ UNCHANGED <<now, arrived>>

\* deliver() up to the awaited send.
DeliverSend(a) == \E i \in Turn(a) :
    LET live == Purged(now)
    IN  /\ chain[a][i].stage = "waiting"
        /\ MustSend(live[a], chain[a][i], now)
        /\ Write(live, accepted)
        /\ chain' = [chain EXCEPT ![a][i].stage = "sent",
                                  ![a][i].token = live[a].token, ![a][i].at = now]
        /\ wanted' = StillWanted(now)
        /\ UNCHANGED <<now, arrived>>

\* External: APNs accepts the push, knows the token no longer, or refuses.
APNs(a) == \E i \in DOMAIN chain[a], outcome \in {"ok", "stale", "refused"} :
    /\ chain[a][i].stage = "sent"
    /\ chain' = [chain EXCEPT ![a][i].stage = outcome]
    /\ UNCHANGED <<now, rows, arrived, wanted, accepted>>

\* Mutant: the send waits for APNs for ever.
AbortedNever(a) == {}

\* AbortSignal.timeout(8_000): the answer never came, or came too late.
Aborted(a) == {i \in DOMAIN chain[a] : chain[a][i].stage # "waiting"}

\* 502: a refusal, or no answer in time whatever APNs did with the push.
Failed(a) == \E i \in Aborted(a) :
    /\ Answered(a, i)
    /\ UNCHANGED <<now, rows, arrived, wanted, accepted>>

\* Mutant: the activity goes whatever its token is by now.
ClosedByAny(row, token) == row # None

\* A stale answer closes the activity if it is about its present token.
Closed(row, token) == row # None /\ row.token = token

AnswerStale(a) == \E i \in DOMAIN chain[a] :
    LET u == chain[a][i]
        live == Purged(u.at)
    IN  /\ u.stage = "stale"
        /\ Write(IF Closed(live[a], u.token) THEN [live EXCEPT ![a] = None] ELSE live,
                 accepted)
        /\ wanted' = [StillWanted(now) EXCEPT ![a] =
                         IF @ # None /\ @.token = u.token THEN None ELSE @]
        /\ Answered(a, i)
        /\ UNCHANGED <<now, arrived>>

\* The receipt of the delivery, or nothing once the activity has ended.
AfterOk(row, u) ==
    IF row = None \/ u.event = "end" THEN None
    ELSE [row EXCEPT !.lastDeliveryId = u.id, !.lastDeliveredAt = u.at]

AnswerOk(a) == \E i \in DOMAIN chain[a] :
    LET u == chain[a][i]
        live == Purged(u.at)
    IN  /\ u.stage = "ok"
        /\ Write([live EXCEPT ![a] = AfterOk(@, u)],
                 [accepted EXCEPT ![a] =
                     Append(@, [id |-> u.id, event |-> u.event, at |-> u.at])])
        /\ wanted' = [StillWanted(now) EXCEPT ![a] = IF u.event = "end" THEN None ELSE @]
        /\ Answered(a, i)
        /\ UNCHANGED <<now, arrived>>

-----------------------------------------------------------------------------

\* A restart or an eviction of the Durable Object: the chains are lost, and
\* the answers their sends would have had.
Restart ==
    /\ \E a \in Activities : chain[a] # <<>>
    /\ chain' = [a \in Activities |-> <<>>]
    /\ UNCHANGED <<now, rows, arrived, wanted, accepted>>

Tick ==
    /\ now <= MaxTime
    /\ now' = now + 1
    /\ UNCHANGED <<rows, chain, arrived, wanted, accepted>>

Next ==
    \/ \E a \in Activities, token \in Tokens : Register(a, token)
    \/ \E a \in Activities : RegisterRefused(a)
    \/ \E a \in Activities : Unregister(a)
    \/ List
    \/ \E a \in Activities, id \in Deliveries, event \in Event : Enqueue(a, id, event)
    \/ \E a \in Activities : DeliverNothing(a)
    \/ \E a \in Activities : DeliverSend(a)
    \/ \E a \in Activities : APNs(a)
    \/ \E a \in Activities : Failed(a)
    \/ \E a \in Activities : AnswerStale(a)
    \/ \E a \in Activities : AnswerOk(a)
    \/ Restart
    \/ Tick

\* A promise whose predecessor has settled runs, and an awaited send settles
\* within its eight seconds.  Nothing is assumed of clients, APNs or time.
Fairness ==
    \A a \in Activities :
        /\ WF_vars(DeliverNothing(a) \/ DeliverSend(a))
        /\ WF_vars(Failed(a))

Spec == Init /\ [][Next]_vars /\ Fairness

-----------------------------------------------------------------------------

\* The enrolment the phone last made, unless the phone removed it, it expired,
\* APNs called that very token stale or an accepted end closed it, is the one
\* the registry holds; and the registry holds no other.  A rotation that
\* falls between a send and its answer is thus never undone by the answer
\* (endpoint.js deliver(), the registry's register and remove).
RegistryAgrees ==
    \A a \in Activities :
        LET live == Purged(now)[a]
            asked == StillWanted(now)[a]
        IN  IF asked = None THEN live = None
            ELSE live # None /\ live.token = asked.token

\* Of two updates of one enrolment whose acceptance the relay has learned in
\* time, the later was sent at least Gap after the earlier, across rotations of
\* the token and requests that arrive together; only an end may follow sooner
\* (endpoint.js:63-66).
UpdatesSpaced ==
    \A a \in Activities : \A i, j \in DOMAIN accepted[a] :
        i < j /\ accepted[a][j].event = "update"
            => accepted[a][i].at + Gap <= accepted[a][j].at

\* A retry of the last update known to be accepted is answered from its
\* receipt, also after the token was rotated: it is not pushed a second time
\* (endpoint.js:61, the receipt kept by register).
RetryNotResent ==
    \A a \in Activities : \A i \in 1..(Len(accepted[a]) - 1) :
        accepted[a][i].id # accepted[a][i + 1].id

\* Every update is answered, whatever happens to the ones before it: the
\* chain of an activity drains (endpoint.js enqueue()).
ChainDrains ==
    \A a \in Activities : chain[a] # <<>> ~> chain[a] = <<>>
=============================================================================
