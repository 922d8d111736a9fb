----------------------------- MODULE WorkerRoom -----------------------------
(***************************************************************************)
(* Reliable delivery in a room of the Worker, a Durable Object.  The room  *)
(* shares the retention, routing and receipt policy of NodeRoom, and so    *)
(* its state, but keeps each mailbox as one stored array and replays it    *)
(* whole when a socket says hello.                                         *)
(*                                                                         *)
(* webSocketMessage awaits nothing but storage before it has forwarded its *)
(* frame, and the object receives no event while it awaits storage: each   *)
(* outcome of a frame is one action.  Storage may refuse a write, which    *)
(* the handler catches.  Sockets survive the hibernation of the object and *)
(* are lost with a restart of it.                                          *)
(***************************************************************************)
EXTENDS NodeRoom

\* acceptWebSocket, for a credential that is the room's.
AcceptWebSocket(d) == Connect(d)

\* Mutant: the budgets allow one row and one byte too much.
RetainedOneMore(rows) == Cardinality(rows) <= HoldLimit + 1 /\ RowBytes(rows) <= SmallBytes + 1

\* One budget for every frame: the array must fit one stored value.
Retained(rows) == Cardinality(rows) <= HoldLimit /\ RowBytes(rows) <= SmallBytes

\* Cuts of retainSubmission, as in NodeRoom.
WorkerCuts(e) ==
    {c \in 0 .. arrivals : Retained(Kept(Live(queue[e.to]), c) \cup {RowFor(e)})}

\* Mutant: a hello is not answered with the backlog.
FlushNothing(d, e) == {}

\* flushTo: the live rows the socket's key matches, in one go.
Flush(d, e) == {r.env : r \in Snapshot(d, e)}

\* The first frame registers the role and flushes; an array of expired rows
\* only is deleted on the way.  Frames then go to the targets.
Hello(d, e, phase) ==
    conn' = [conn EXCEPT ![d] = [phase |-> phase, role |-> e.from]]

Flushed(d, e) ==
    IF Registers(d) /\ Live(queue[e.from]) = {}
    THEN [queue EXCEPT ![e.from] = {}] ELSE queue

Send(d, e, targets) ==
    wire' = [x \in Device |->
        wire[x] \cup (IF x \in targets THEN {e} ELSE {})
                \cup (IF x = d /\ Registers(d) THEN Flush(d, e) ELSE {})]

\* A frame that is not queued is only forwarded.
SendLive(d, e) ==
    /\ Accepts(d, e)
    /\ ~Reliable(e)
    /\ Hello(d, e, "open")
    /\ queue' = Flushed(d, e)
    /\ Send(d, e, Targets(d, e))
    /\ UNCHANGED <<now, arrivals, replay, inbox, promised, faults>>

Queueable(d, e) ==
    /\ Accepts(d, e)
    /\ Reliable(e)
    /\ e.bytes <= SmallBytes

Stored(e, c) == Kept(Live(queue[e.to]), c) \cup {RowFor(e)}

\* STORED: the array is written without its expired and evicted rows.
QueueAndSend(d, e) ==
    /\ Queueable(d, e)
    /\ ~IsDuplicate(e)
    /\ arrivals < MaxArrivals
    /\ \E c \in WorkerCuts(e) :
        /\ \A x \in WorkerCuts(e) : c <= x
        /\ queue' = [Flushed(d, e) EXCEPT ![e.to] = Stored(e, c)]
    /\ arrivals' = arrivals + 1
    /\ Hello(d, e, "open")
    /\ Promises(d, e, RowExpiry(e))
    /\ Send(d, e, Targets(d, e))
    /\ UNCHANGED <<now, replay, inbox, faults>>

\* DUPLICATE: forwarded and receipted again, the array is not written.
SendDuplicate(d, e) ==
    /\ Queueable(d, e)
    /\ \E r \in Live(queue[e.to]) : r.env.id = e.id /\ Promises(d, e, r.expiresAt)
    /\ queue' = Flushed(d, e)
    /\ Hello(d, e, "open")
    /\ Send(d, e, Targets(d, e))
    /\ UNCHANGED <<now, arrivals, replay, inbox, faults>>

\* The frame is dropped with a notice, neither stored nor forwarded.
DropUnqueued(d, e) ==
    /\ Queueable(d, e)
    /\ queue' = Flushed(d, e)
    /\ Hello(d, e, "open")
    /\ Send(d, e, {})
    /\ UNCHANGED <<now, arrivals, replay, inbox, promised>>

\* FULL.
QueueFull(d, e) ==
    /\ DropUnqueued(d, e)
    /\ ~IsDuplicate(e)
    /\ WorkerCuts(e) = {}
    /\ UNCHANGED faults

\* storage-unavailable: the read of the array failed, of a duplicate too, or the
\* write.
StorageFails(d, e) ==
    /\ DropUnqueued(d, e)
    /\ faults < MaxFaults
    /\ faults' = faults + 1

\* OVERSIZE: a submission keeps its socket, another frame closes it.
Oversize(d, e) ==
    /\ Accepts(d, e)
    /\ Reliable(e)
    /\ e.bytes > SmallBytes
    /\ \/ IsDurable(e.id) /\ Hello(d, e, "open") /\ UNCHANGED faults
       \/ /\ ~IsDurable(e.id) /\ Hello(d, e, "closing")
          /\ faults < MaxFaults /\ faults' = faults + 1
    /\ queue' = Flushed(d, e)
    /\ Send(d, e, {})
    /\ UNCHANGED <<now, arrivals, replay, inbox, promised>>

\* Mutant: an acknowledgement removes every row with the key of the acknowledged.
LeavesWithKey(r, id) == \E x \in queue["machine"] : x.env.id = id /\ x.env.recipient = r.env.recipient

Leaves(r, id) == r.env.id = id

\* relay.ack: the array is written without the row, or deleted.  As in NodeRoom,
\* clients acknowledge what they have read.
AcknowledgeRow(d, id) ==
    /\ conn[d].phase = "open"
    /\ conn[d].role # NoRole
    /\ id # NoId
    /\ \E e \in inbox[d] : e.id = id
    /\ queue' = [queue EXCEPT ![conn[d].role] = {r \in @ : ~Leaves(r, id)}]
    /\ UNCHANGED <<now, arrivals, conn, replay, wire, inbox, promised, faults>>

WebSocketMessage(d, e) ==
    \/ SendLive(d, e)
    \/ QueueAndSend(d, e)
    \/ SendDuplicate(d, e)
    \/ QueueFull(d, e)
    \/ StorageFails(d, e)
    \/ Oversize(d, e)

WorkerNext ==
    \/ \E d \in Device : \E e \in Envelope : WebSocketMessage(d, e) \/ Deliver(d, e)
    \/ \E d \in Device : \E id \in DeliveryId : AcknowledgeRow(d, id)
    \/ \E d \in Device :
          AcceptWebSocket(d) \/ PolicyClose(d) \/ FinishClose(d) \/ LoseConnection(d)
    \/ Restart
    \/ Tick

WorkerSpec == Init /\ [][WorkerNext]_vars

\* As in NodeRoom: a computer that has lost its socket dials again and says
\* hello, and sockets drain.
WorkerFairSpec ==
    /\ WorkerSpec
    /\ \A d \in Device :
        /\ WF_vars(AcceptWebSocket(d))
        /\ WF_vars(FinishClose(d))
        /\ \A e \in Envelope : WF_vars(Deliver(d, e))
        /\ \A e \in Sends[d] : e.from = "machine" => WF_vars(SendLive(d, e))

-----------------------------------------------------------------------------
(* Properties.  ImplementsSubmissions and EventuallyDelivered are NodeRoom's. *)

\* A mailbox always fits the one value it is stored in, and a retry, stored or
\* refused, never leaves two rows of one delivery (room.js queue, acknowledge).
ArrayBounds ==
    \A q \in Role :
        /\ Cardinality(queue[q]) <= HoldLimit
        /\ RowBytes(queue[q]) <= SmallBytes
        /\ \A x, y \in queue[q] : x.env.id = y.env.id => x = y
=============================================================================
