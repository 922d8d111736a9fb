------------------------------ MODULE NodeRoom ------------------------------
(***************************************************************************)
(* Reliable delivery in one room of the Node relay: the two SQLite         *)
(* mailboxes (machine_queue, phone_queue), the sockets of the room, the    *)
(* storage receipts, the replay that starts when a socket registers its    *)
(* role, and the decrypt acknowledgements that remove rows.                *)
(*                                                                         *)
(* The relay is one JavaScript thread.  handleSocketMessage never awaits,  *)
(* so each of its outcomes is one action; replayNodeFrames awaits after    *)
(* every frame, so each frame it sends is an action of its own, and the    *)
(* snapshot it walks may be stale by then.  SQLite survives a restart,     *)
(* sockets and replays do not.                                             *)
(***************************************************************************)
EXTENDS Integers, FiniteSets, FiniteSetsExt

CONSTANTS
    Device,        \* the paired clients of the room (phones and computers)
    DeliveryId,    \* delivery identifiers in use
    DurableId,     \* those with an explicit-submission prefix
    NoId,          \* an envelope without deliveryId
    NoKey,         \* an envelope or socket without recipientKeyId
    NoExpiry,      \* an envelope without expiresAt
    NoRole,        \* a socket that has not sent its first envelope
    Envelope,      \* the envelopes the clients send
    Sends,         \* Sends[d]: the envelopes device d may send
    KeyOf,         \* KeyOf[d]: the key d can decrypt for
    Announces,     \* Announces[d]: does d send X-GrantTap-Recipient-Key-Id
    Control,       \* Control[d]: did d negotiate relay control frames
    SmallBytes,    \* frame and mailbox budget of ordinary traffic
    LargeFrame,    \* frame budget of a submission to the machine
    LargeBytes,    \* mailbox budget while accepting such a submission
    HoldLimit,     \* rows of one mailbox
    DefaultTTL,    \* DEFAULT_QUEUE_TTL_MS
    MaxClock,      \* bound on the clock
    MaxArrivals,   \* bound on stored rows
    MaxFaults      \* bound on closed connections and restarts

Role == {"machine", "phone"}

ASSUME EnvelopeAssumption ==
    \A e \in Envelope :
        /\ e.id \in DeliveryId \cup {NoId}
        /\ e.from \in Role
        /\ e.to \in Role \cup {"all"}
        /\ e.bytes \in Nat
        /\ e.expiresAt \in Nat \cup {NoExpiry}

\* A delivery id is immutable: a retry may carry another expiry or ciphertext,
\* but it is the same message between the same parties.
ASSUME ImmutableIdAssumption ==
    \A e, f \in Envelope :
        e.id = f.id /\ e.id # NoId =>
            e.from = f.from /\ e.to = f.to /\ e.recipient = f.recipient

ASSUME ClientAssumption ==
    /\ Sends \in [Device -> SUBSET Envelope]
    /\ Announces \in [Device -> BOOLEAN]
    /\ Control \in [Device -> BOOLEAN]
    /\ DurableId \subseteq DeliveryId
    /\ NoId \notin DeliveryId
    /\ NoRole \notin Role
    /\ NoExpiry \notin Nat

ASSUME BoundAssumption ==
    /\ SmallBytes \in Nat /\ LargeFrame \in Nat /\ LargeBytes \in Nat
    /\ HoldLimit \in Nat /\ DefaultTTL \in Nat \ {0}
    /\ MaxClock \in Nat /\ MaxArrivals \in Nat /\ MaxFaults \in Nat

VARIABLES
    now,        \* Date.now()
    queue,      \* queue[r]: the rows of role r's mailbox
    arrivals,   \* rows stored so far; numbers rows in mailbox order
    conn,       \* conn[d]: the socket of device d
    replay,     \* replay[d]: rows of the snapshot still to be replayed to d
    wire,       \* wire[d]: frames sent to d that it has not read
    inbox,      \* inbox[d]: reliable frames that device d has read and decrypted
    promised,   \* relay.stored receipts emitted (history)
    faults      \* closed connections and restarts so far

vars == <<now, queue, arrivals, conn, replay, wire, inbox, promised, faults>>

Row == [env : Envelope, at : Nat, expiresAt : Nat]
Conn == [phase : {"closed", "open", "closing"}, role : Role \cup {NoRole}]
Promise == [id : DurableId, expiresAt : Nat]

TypeOK ==
    /\ now \in Nat
    /\ queue \in [Role -> SUBSET Row]
    /\ arrivals \in Nat
    /\ conn \in [Device -> Conn]
    /\ replay \in [Device -> SUBSET Row]
    /\ wire \in [Device -> SUBSET Envelope]
    /\ inbox \in [Device -> SUBSET Envelope]
    /\ promised \subseteq Promise
    /\ faults \in Nat

Closed == [phase |-> "closed", role |-> NoRole]

Init ==
    /\ now = 0
    /\ queue = [r \in Role |-> {}]
    /\ arrivals = 0
    /\ conn = [d \in Device |-> Closed]
    /\ replay = [d \in Device |-> {}]
    /\ wire = [d \in Device |-> {}]
    /\ inbox = [d \in Device |-> {}]
    /\ promised = {}
    /\ faults = 0

-----------------------------------------------------------------------------
(* Retention policy *)

IsDurable(id) == id \in DurableId

FrameBytes(e) == IF e.to = "machine" /\ IsDurable(e.id) THEN LargeFrame ELSE SmallBytes
QueueBytes(e) == IF e.to = "machine" /\ IsDurable(e.id) THEN LargeBytes ELSE SmallBytes

\* Rows that a read of the mailbox returns; the read deletes the others.
Live(rows) == {r \in rows : r.expiresAt > now}

RowExpiry(e) == IF e.expiresAt = NoExpiry THEN now + DefaultTTL ELSE e.expiresAt
RowFor(e) == [env |-> e, at |-> arrivals + 1, expiresAt |-> RowExpiry(e)]

RowBytes(rows) == MapThenSumSet(LAMBDA r : r.env.bytes, rows)

\* Mutant: eviction takes the oldest row, protected or not.
KeptNewest(rows, c) == {r \in rows : r.at > c}

\* The mailbox after its ordinary rows up to arrival c have been evicted.
Kept(rows, c) == {r \in rows : IsDurable(r.env.id) \/ r.at > c}

\* Mutant: the row limit is tested before the row is added.
FitsBeforeInsert(rows, e) ==
    Cardinality(rows) <= HoldLimit + 1 /\ RowBytes(rows) <= QueueBytes(e)

Fits(rows, e) == Cardinality(rows) <= HoldLimit /\ RowBytes(rows) <= QueueBytes(e)

\* Evicting the oldest ordinary row until the mailbox fits is evicting up to the
\* first cut that fits.  The incoming row lies after every cut, so it is never
\* its own victim; when no cut fits the mailbox is full of protected rows.
Cuts(e) ==
    {c \in 0 .. arrivals : Fits(Kept(Live(queue[e.to]), c) \cup {RowFor(e)}, e)}

FirstCut(e, c) == c \in Cuts(e) /\ \A x \in Cuts(e) : c <= x

\* Mutant: retries are recognised by their whole frame, not by their id.
IsSameFrame(e) == \E r \in Live(queue[e.to]) : r.env = e

IsDuplicate(e) == \E r \in Live(queue[e.to]) : r.env.id = e.id

-----------------------------------------------------------------------------
(* Routing *)

AnnouncedKey(d) == IF Announces[d] THEN KeyOf[d] ELSE NoKey

MatchesRecipient(e, k) == k = NoKey \/ e.recipient = NoKey \/ e.recipient = k

Targets(d, e) ==
    {x \in Device \ {d} :
        /\ conn[x].phase = "open"
        /\ e.to \in {"all", conn[x].role}
        /\ MatchesRecipient(e, AnnouncedKey(x))}

Forward(d, e) ==
    wire' = [x \in Device |-> IF x \in Targets(d, e) THEN wire[x] \cup {e} ELSE wire[x]]

-----------------------------------------------------------------------------
(* One envelope from device d, after the checks every frame passes *)

Expired(e) == e.expiresAt # NoExpiry /\ e.expiresAt <= now

Accepts(d, e) ==
    /\ conn[d].phase = "open"
    /\ e \in Sends[d]
    /\ ~Expired(e)
    /\ conn[d].role \in {NoRole, e.from}

Registers(d) == conn[d].role = NoRole

\* Mutant: the replay ignores the announced key.
SnapshotOfRole(d, e) == Live(queue[e.from])

\* Mutant: the replay wants equal keys, also of clients that announce none.
SnapshotOfKey(d, e) == {r \in Live(queue[e.from]) : r.env.recipient = AnnouncedKey(d)}

\* registerRole: remember the role and take the snapshot to replay.
Snapshot(d, e) ==
    {r \in Live(queue[e.from]) : MatchesRecipient(r.env, AnnouncedKey(d))}

RegisterRole(d, e, phase) ==
    /\ conn' = [conn EXCEPT ![d] = [phase |-> phase, role |-> e.from]]
    /\ replay' = [replay EXCEPT ![d] =
                    IF phase # "open" THEN {}
                    ELSE IF Registers(d) THEN Snapshot(d, e) ELSE replay[d]]

\* The mailboxes once the reads of this frame have dropped expired rows.
Pruned(d, e, reads) ==
    [r \in Role |->
        IF r \in reads \cup (IF Registers(d) THEN {e.from} ELSE {})
        THEN Live(queue[r]) ELSE queue[r]]

Reliable(e) == e.to # "all" /\ e.id # NoId

\* A frame that is not queued is only forwarded.
ForwardLive(d, e) ==
    /\ Accepts(d, e)
    /\ ~Reliable(e)
    /\ RegisterRole(d, e, "open")
    /\ queue' = Pruned(d, e, {})
    /\ Forward(d, e)
    /\ UNCHANGED <<now, arrivals, inbox, promised, faults>>

EarnsReceipt(d, e) ==
    Control[d] /\ e.from = "phone" /\ e.to = "machine" /\ IsDurable(e.id)

Promises(d, e, expiry) ==
    promised' = IF EarnsReceipt(d, e)
                THEN promised \cup {[id |-> e.id, expiresAt |-> expiry]}
                ELSE promised

StoreAndForward(d, e) ==
    /\ Accepts(d, e)
    /\ Reliable(e)
    /\ e.bytes <= FrameBytes(e)
    /\ ~IsDuplicate(e)
    /\ arrivals < MaxArrivals
    /\ \E c \in 0 .. arrivals :
        /\ FirstCut(e, c)
        /\ queue' = [Pruned(d, e, {e.to}) EXCEPT ![e.to] =
                        Kept(Live(queue[e.to]), c) \cup {RowFor(e)}]
    /\ arrivals' = arrivals + 1
    /\ RegisterRole(d, e, "open")
    /\ Promises(d, e, RowExpiry(e))
    /\ Forward(d, e)
    /\ UNCHANGED <<now, inbox, faults>>

\* A retry of a row still held is forwarded and earns the receipt again; the
\* row keeps its first expiry.
ForwardDuplicate(d, e) ==
    /\ Accepts(d, e)
    /\ Reliable(e)
    /\ e.bytes <= FrameBytes(e)
    /\ \E r \in Live(queue[e.to]) :
        /\ r.env.id = e.id
        /\ Promises(d, e, r.expiresAt)
    /\ queue' = Pruned(d, e, {e.to})
    /\ RegisterRole(d, e, "open")
    /\ Forward(d, e)
    /\ UNCHANGED <<now, arrivals, inbox, faults>>

\* relay.dropped full: neither stored nor forwarded, the socket stays open.
DropFull(d, e) ==
    /\ Accepts(d, e)
    /\ Reliable(e)
    /\ e.bytes <= FrameBytes(e)
    /\ ~IsDuplicate(e)
    /\ Cuts(e) = {}
    /\ queue' = Pruned(d, e, {e.to})
    /\ RegisterRole(d, e, "open")
    /\ UNCHANGED <<now, arrivals, wire, inbox, promised, faults>>

\* relay.dropped oversize: a submission keeps its control socket.
DropOversize(d, e) ==
    /\ Accepts(d, e)
    /\ Reliable(e)
    /\ e.bytes > FrameBytes(e)
    /\ IsDurable(e.id)
    /\ queue' = Pruned(d, e, {})
    /\ RegisterRole(d, e, "open")
    /\ UNCHANGED <<now, arrivals, wire, inbox, promised, faults>>

\* Ordinary oversize closes the sender's socket.
CloseOversize(d, e) ==
    /\ Accepts(d, e)
    /\ Reliable(e)
    /\ e.bytes > FrameBytes(e)
    /\ ~IsDurable(e.id)
    /\ faults < MaxFaults
    /\ faults' = faults + 1
    /\ queue' = Pruned(d, e, {})
    /\ RegisterRole(d, e, "closing")
    /\ UNCHANGED <<now, arrivals, wire, inbox, promised>>

Decrypts(d, e) == e.recipient \in {NoKey, KeyOf[d]}

\* Mutant: an acknowledgement empties the mailbox.
AcknowledgeAll(d, id) ==
    /\ conn[d].phase = "open"
    /\ conn[d].role # NoRole
    /\ \E e \in inbox[d] : e.id = id
    /\ queue' = [queue EXCEPT ![conn[d].role] = {}]
    /\ UNCHANGED <<now, arrivals, conn, replay, wire, inbox, promised, faults>>

\* relay.ack.  The row leaves the mailbox of the role the socket registered,
\* whatever its key.  That the device has read and decrypted the frame is what
\* clients promise; the relay does not test it.
Acknowledge(d, id) ==
    /\ conn[d].phase = "open"
    /\ conn[d].role # NoRole
    /\ id # NoId
    /\ \E e \in inbox[d] : e.id = id
    /\ queue' = [queue EXCEPT ![conn[d].role] = {r \in Live(@) : r.env.id # id}]
    /\ UNCHANGED <<now, arrivals, conn, replay, wire, inbox, promised, faults>>

-----------------------------------------------------------------------------
(* Sockets, replay, time and restarts *)

Connect(d) ==
    /\ conn[d].phase = "closed"
    /\ conn' = [conn EXCEPT ![d] = [phase |-> "open", role |-> NoRole]]
    /\ UNCHANGED <<now, queue, arrivals, replay, wire, inbox, promised, faults>>

\* The next row of the snapshot, oldest first, is handed to the socket.
ReplayNext(d) ==
    /\ conn[d].phase = "open"
    /\ \E r \in replay[d] :
        /\ \A x \in replay[d] : r.at <= x.at
        /\ replay' = [replay EXCEPT ![d] = @ \ {r}]
        /\ wire' = [wire EXCEPT ![d] = @ \cup {r.env}]
    /\ UNCHANGED <<now, queue, arrivals, conn, inbox, promised, faults>>

\* The device reads a frame; a closing socket still drains its buffer.
Deliver(d, e) ==
    /\ conn[d].phase # "closed"
    /\ e \in wire[d]
    /\ wire' = [wire EXCEPT ![d] = @ \ {e}]
    /\ inbox' = [inbox EXCEPT ![d] = IF e.id # NoId /\ Decrypts(d, e)
                                      THEN @ \cup {e} ELSE @]
    /\ UNCHANGED <<now, queue, arrivals, conn, replay, promised, faults>>

\* A policy close (rate, cool-down, admission) or send backpressure: nothing
\* more is read from or written to the socket.
PolicyClose(d) ==
    /\ conn[d].phase = "open"
    /\ faults < MaxFaults
    /\ faults' = faults + 1
    /\ conn' = [conn EXCEPT ![d].phase = "closing"]
    /\ replay' = [replay EXCEPT ![d] = {}]
    /\ UNCHANGED <<now, queue, arrivals, wire, inbox, promised>>

\* The close event of a socket that was closing, with what it had not drained.
FinishClose(d) ==
    /\ conn[d].phase = "closing"
    /\ conn' = [conn EXCEPT ![d] = Closed]
    /\ wire' = [wire EXCEPT ![d] = {}]
    /\ UNCHANGED <<now, queue, arrivals, replay, inbox, promised, faults>>

\* The connection is lost: network, client exit or heartbeat termination.
LoseConnection(d) ==
    /\ conn[d].phase = "open"
    /\ faults < MaxFaults
    /\ faults' = faults + 1
    /\ conn' = [conn EXCEPT ![d] = Closed]
    /\ replay' = [replay EXCEPT ![d] = {}]
    /\ wire' = [wire EXCEPT ![d] = {}]
    /\ UNCHANGED <<now, queue, arrivals, inbox, promised>>

\* The process stops between two handlers; SQLite keeps the mailboxes.
Restart ==
    /\ \E d \in Device : conn[d].phase # "closed"
    /\ faults < MaxFaults
    /\ faults' = faults + 1
    /\ conn' = [d \in Device |-> Closed]
    /\ replay' = [d \in Device |-> {}]
    /\ wire' = [d \in Device |-> {}]
    /\ UNCHANGED <<now, queue, arrivals, inbox, promised>>

Tick ==
    /\ now < MaxClock
    /\ now' = now + 1
    /\ UNCHANGED <<queue, arrivals, conn, replay, wire, inbox, promised, faults>>

Message(d, e) ==
    \/ ForwardLive(d, e)
    \/ StoreAndForward(d, e)
    \/ ForwardDuplicate(d, e)
    \/ DropFull(d, e)
    \/ DropOversize(d, e)
    \/ CloseOversize(d, e)

SocketStep(d) ==
    \/ Connect(d)
    \/ ReplayNext(d)
    \/ PolicyClose(d)
    \/ FinishClose(d)
    \/ LoseConnection(d)

Next ==
    \/ \E d \in Device : \E e \in Envelope : Message(d, e) \/ Deliver(d, e)
    \/ \E d \in Device : \E id \in DeliveryId : Acknowledge(d, id)
    \/ \E d \in Device : SocketStep(d)
    \/ Restart
    \/ Tick

Spec == Init /\ [][Next]_vars

\* A computer that has lost its socket dials again and says hello; the event
\* loop drains replays and socket buffers.  Nothing is assumed of the phones.
Fairness ==
    \A d \in Device :
        /\ WF_vars(Connect(d))
        /\ WF_vars(FinishClose(d))
        /\ WF_vars(ReplayNext(d))
        /\ \A e \in Envelope : WF_vars(Deliver(d, e))
        /\ \A e \in Sends[d] : e.from = "machine" => WF_vars(ForwardLive(d, e))

FairSpec == Spec /\ Fairness

-----------------------------------------------------------------------------
(* Properties *)

\* A device able to decrypt the submission has read it.
Delivered(id) == \E d \in Device : \E e \in inbox[d] : e.id = id

\* A submission the phone holds a relay.stored receipt for stays in the
\* machine's mailbox until its promised expiry, unless an addressee has read it.
\* Eviction by ordinary traffic, retries, other computers' acknowledgements,
\* stale replays and restarts must all respect the receipt.
ReceiptDurability ==
    \A p \in promised :
        \/ p.expiresAt <= now
        \/ Delivered(p.id)
        \/ \E r \in queue["machine"] : r.env.id = p.id /\ r.expiresAt >= p.expiresAt

\* Each mailbox holds at most HoldLimit rows; its ordinary rows never exceed
\* the small budget, and protected rows raise only the machine's mailbox, to at
\* most the large budget.
MailboxBounds ==
    \A r \in Role :
        /\ Cardinality(queue[r]) <= HoldLimit
        /\ RowBytes({x \in queue[r] : ~IsDurable(x.env.id)}) <= SmallBytes
        /\ RowBytes(queue[r]) <= IF r = "machine" /\ LargeBytes > SmallBytes
                                THEN LargeBytes ELSE SmallBytes

\* A retry never leaves two rows with one delivery id in a mailbox.
OneRowPerDelivery ==
    \A r \in Role : \A x, y \in queue[r] : x.env.id = y.env.id => x = y

\* Frames on a socket, whether forwarded live or taken from the replay snapshot,
\* are addressed to the role it registered and to the key it announced.
AddresseeOnly ==
    \A d \in Device : \A e \in wire[d] \cup {r.env : r \in replay[d]} :
        /\ e.to \in {"all", conn[d].role}
        /\ MatchesRecipient(e, AnnouncedKey(d))

\* A protected row leaves a mailbox only when it has expired or when a device
\* that could decrypt it has read it: never by eviction, a retry or a restart.
SubmissionLeavesByAckOrExpiry ==
    [][\A q \in Role : \A r \in queue[q] \ queue'[q] :
          IsDurable(r.env.id) => r.expiresAt <= now \/ Delivered(r.env.id)]_vars

\* What the promise of Submissions is about: the protected rows of the
\* machine's mailbox and the submissions an addressee has read.
Held ==
    {[id |-> r.env.id, expiresAt |-> r.expiresAt] :
        r \in {x \in queue["machine"] : IsDurable(x.env.id)}}

Promised == INSTANCE Submissions
    WITH held <- Held, read <- {id \in DurableId : Delivered(id)}

\* The room implements Submissions: whatever is evicted, retried, acknowledged
\* by another device, replayed from a stale snapshot or cut short by a restart,
\* a stored submission is held until it expires or is read, and every receipt
\* was given for a submission then on record.
ImplementsSubmissions == Promised!Spec

\* A submission with a receipt reaches a device that can decrypt it, or expires.
EventuallyDelivered ==
    \A id \in DurableId :
        (\E p \in promised : p.id = id) ~>
            (Delivered(id) \/ \A p \in promised : p.id = id => p.expiresAt <= now)
=============================================================================
