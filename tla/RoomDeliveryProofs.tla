------------------------- MODULE RoomDeliveryProofs -------------------------
(***************************************************************************)
(* Proofs about the rooms of both deployments, NodeRoom and WorkerRoom,    *)
(* for any number of devices, envelopes and limits.  The durability of     *)
(* receipts follows from two facts about single steps: which rows a step   *)
(* may remove from a mailbox (LossFacts), and that a new receipt is backed *)
(* by a row in the same step (PromiseFacts).                               *)
(*                                                                         *)
(* Both rooms implement Submissions, the Worker's with any number of       *)
(* failing writes.  The argument is the same; what differs is what one     *)
(* frame does, FrameFacts and ReceiptFacts.                                *)
(*                                                                         *)
(* The byte budgets of both are sums over sets of rows; FiniteFacts says   *)
(* what such a sum is, and BoundsInv and ArrayInv that the rows are finite.*)
(***************************************************************************)
EXTENDS WorkerRoom, FiniteFacts, TLAPS

-----------------------------------------------------------------------------
(* Types of the operators *)

\* The machine mailbox is one of the two.
LEMMA RoleFacts == "machine" \in Role /\ "phone" \in Role /\ "all" \notin Role
  BY DEF Role

\* The row made for an envelope is typed, and carries the envelope's id.
LEMMA RowForType ==
    ASSUME TypeOK, NEW e \in Envelope
    PROVE  RowFor(e) \in Row /\ RowExpiry(e) \in Nat /\ RowFor(e).env = e
           /\ RowFor(e).expiresAt = RowExpiry(e)
  BY EnvelopeAssumption, BoundAssumption DEF RowFor, RowExpiry, Row, TypeOK

\* Reads drop only expired rows.
LEMMA PrunedFacts ==
    ASSUME TypeOK, NEW d \in Device, NEW e \in Envelope, NEW reads \in SUBSET Role
    PROVE  /\ Pruned(d, e, reads) \in [Role -> SUBSET Row]
           /\ \A q \in Role : /\ Live(queue[q]) \subseteq Pruned(d, e, reads)[q]
                              /\ Pruned(d, e, reads)[q] \subseteq queue[q]
  BY DEF Pruned, Live, TypeOK

\* A mailbox named by a reliable envelope exists.
LEMMA ReliableRole == ASSUME NEW e \in Envelope, Reliable(e) PROVE e.to \in Role /\ e.id \in DeliveryId
  BY EnvelopeAssumption DEF Reliable

\* Registering a role keeps sockets and replays typed.
LEMMA RegisterType ==
    ASSUME TypeOK, NEW d \in Device, NEW e \in Envelope,
           NEW phase \in {"open", "closing"}, RegisterRole(d, e, phase)
    PROVE  conn' \in [Device -> Conn] /\ replay' \in [Device -> SUBSET Row]
<1>1. e.from \in Role
  BY EnvelopeAssumption
<1>2. Snapshot(d, e) \in SUBSET Row
  BY <1>1 DEF Snapshot, Live, TypeOK
<1>3. [phase |-> phase, role |-> e.from] \in Conn
  BY <1>1 DEF Conn
<1>4. QED
  BY <1>2, <1>3 DEF RegisterRole, TypeOK

\* Forwarding keeps the sockets' buffers typed.
LEMMA ForwardType ==
    ASSUME TypeOK, NEW d \in Device, NEW e \in Envelope, Forward(d, e)
    PROVE  wire' \in [Device -> SUBSET Envelope]
  BY DEF Forward, TypeOK

\* A receipt is for a submission and has an expiry.
LEMMA PromisesType ==
    ASSUME TypeOK, NEW d \in Device, NEW e \in Envelope, NEW x \in Nat, Promises(d, e, x)
    PROVE  promised' \subseteq Promise
  BY DEF Promises, EarnsReceipt, IsDurable, Promise, TypeOK

-----------------------------------------------------------------------------
(* Type correctness *)

\* A step keeps the room typed.
LEMMA TypeStep == ASSUME TypeOK, [Next]_vars PROVE TypeOK'
<1>a. Closed \in Conn
  BY DEF Closed, Conn
<1>1. ASSUME NEW d \in Device, NEW e \in Envelope, ForwardLive(d, e) PROVE TypeOK'
  <2>1. queue' \in [Role -> SUBSET Row]
    BY <1>1, PrunedFacts DEF ForwardLive
  <2>2. conn' \in [Device -> Conn] /\ replay' \in [Device -> SUBSET Row]
    BY <1>1, RegisterType DEF ForwardLive
  <2>3. wire' \in [Device -> SUBSET Envelope]
    BY <1>1, ForwardType DEF ForwardLive
  <2>4. QED
    BY <1>1, <2>1, <2>2, <2>3 DEF ForwardLive, TypeOK
<1>2. ASSUME NEW d \in Device, NEW e \in Envelope, StoreAndForward(d, e) PROVE TypeOK'
  <2>1. queue' \in [Role -> SUBSET Row]
    <3>1. PICK c \in 0 .. arrivals :
            queue' = [Pruned(d, e, {e.to}) EXCEPT ![e.to] =
                        Kept(Live(queue[e.to]), c) \cup {RowFor(e)}]
      BY <1>2 DEF StoreAndForward
    <3>2. e.to \in Role
      BY <1>2, ReliableRole DEF StoreAndForward
    <3>3. Kept(Live(queue[e.to]), c) \cup {RowFor(e)} \subseteq Row
      BY <3>2, RowForType DEF Kept, Live, TypeOK
    <3>4. Pruned(d, e, {e.to}) \in [Role -> SUBSET Row]
      BY <3>2, PrunedFacts
    <3>5. QED
      BY <3>1, <3>3, <3>4
  <2>2. conn' \in [Device -> Conn] /\ replay' \in [Device -> SUBSET Row]
    BY <1>2, RegisterType DEF StoreAndForward
  <2>3. wire' \in [Device -> SUBSET Envelope]
    BY <1>2, ForwardType DEF StoreAndForward
  <2>4. promised' \subseteq Promise
    <3>1. Promises(d, e, RowExpiry(e)) /\ RowExpiry(e) \in Nat
      BY <1>2, RowForType DEF StoreAndForward
    <3>2. QED
      BY <3>1, PromisesType
  <2>5. arrivals' = arrivals + 1 /\ UNCHANGED <<now, inbox, faults>>
    BY <1>2 DEF StoreAndForward
  <2>6. QED
    BY <2>1, <2>2, <2>3, <2>4, <2>5 DEF TypeOK
<1>3. ASSUME NEW d \in Device, NEW e \in Envelope, ForwardDuplicate(d, e) PROVE TypeOK'
  <2>0. e.to \in Role
    BY <1>3, ReliableRole DEF ForwardDuplicate
  <2>1. queue' \in [Role -> SUBSET Row]
    BY <1>3, <2>0, PrunedFacts DEF ForwardDuplicate
  <2>2. conn' \in [Device -> Conn] /\ replay' \in [Device -> SUBSET Row]
    BY <1>3, RegisterType DEF ForwardDuplicate
  <2>3. wire' \in [Device -> SUBSET Envelope]
    BY <1>3, ForwardType DEF ForwardDuplicate
  <2>4. promised' \subseteq Promise
    <3>1. PICK r \in Live(queue[e.to]) : Promises(d, e, r.expiresAt)
      BY <1>3 DEF ForwardDuplicate
    <3>2. r.expiresAt \in Nat
      BY <2>0 DEF Live, TypeOK, Row
    <3>3. QED
      BY <3>1, <3>2, PromisesType
  <2>5. QED
    BY <1>3, <2>1, <2>2, <2>3, <2>4 DEF ForwardDuplicate, TypeOK
<1>4. ASSUME NEW d \in Device, NEW e \in Envelope,
             DropFull(d, e) \/ DropOversize(d, e) \/ CloseOversize(d, e)
      PROVE  TypeOK'
  <2>0. e.to \in Role
    BY <1>4, ReliableRole DEF DropFull, DropOversize, CloseOversize
  <2>1. queue' \in [Role -> SUBSET Row]
    BY <1>4, <2>0, PrunedFacts DEF DropFull, DropOversize, CloseOversize
  <2>2. conn' \in [Device -> Conn] /\ replay' \in [Device -> SUBSET Row]
    BY <1>4, RegisterType DEF DropFull, DropOversize, CloseOversize
  <2>3. QED
    BY <1>4, <2>1, <2>2 DEF DropFull, DropOversize, CloseOversize, TypeOK
<1>5. ASSUME NEW d \in Device, NEW e \in Envelope, Deliver(d, e) PROVE TypeOK'
  BY <1>5 DEF Deliver, TypeOK
<1>6. ASSUME NEW d \in Device, NEW id \in DeliveryId, Acknowledge(d, id) PROVE TypeOK'
  <2>1. conn[d].role \in Role
    BY <1>6 DEF Acknowledge, TypeOK, Conn
  <2>2. QED
    BY <1>6, <2>1 DEF Acknowledge, Live, TypeOK
<1>7. ASSUME NEW d \in Device, SocketStep(d) PROVE TypeOK'
  <2>1. CASE Connect(d)
    BY <2>1 DEF Connect, TypeOK, Conn
  <2>2. CASE ReplayNext(d)
    BY <2>2 DEF ReplayNext, TypeOK, Row
  <2>3. CASE PolicyClose(d)
    BY <2>3 DEF PolicyClose, TypeOK, Conn
  <2>4. CASE FinishClose(d)
    BY <2>4, <1>a DEF FinishClose, TypeOK
  <2>5. CASE LoseConnection(d)
    BY <2>5, <1>a DEF LoseConnection, TypeOK
  <2>6. QED
    BY <1>7, <2>1, <2>2, <2>3, <2>4, <2>5 DEF SocketStep
<1>8. ASSUME Restart PROVE TypeOK'
  BY <1>8, <1>a DEF Restart, TypeOK
<1>9. ASSUME Tick PROVE TypeOK'
  BY <1>9 DEF Tick, TypeOK
<1>10. ASSUME UNCHANGED vars PROVE TypeOK'
  BY <1>10 DEF vars, TypeOK
<1>11. QED
  BY <1>1, <1>2, <1>3, <1>4, <1>5, <1>6, <1>7, <1>8, <1>9, <1>10 DEF Next, Message

\* Every reachable state is well typed, whatever clients send and whenever
\* sockets close or the process restarts.
THEOREM TypeCorrect == Spec => []TypeOK
<1>1. Init => TypeOK
  BY DEF Init, TypeOK, Closed, Conn
<1>2. TypeOK /\ [Next]_vars => TypeOK'
  BY TypeStep
<1>3. QED
  BY <1>1, <1>2, PTL DEF Spec

-----------------------------------------------------------------------------
(* What one step does to the mailboxes *)

\* The queue a store leaves behind: live protected rows stay, the new row is in,
\* and nothing else appears.
LEMMA StoreFacts ==
    ASSUME TypeOK, NEW d \in Device, NEW e \in Envelope, StoreAndForward(d, e)
    PROVE  /\ e.to \in Role
           /\ RowFor(e) \in queue'[e.to]
           /\ queue'[e.to] \subseteq Live(queue[e.to]) \cup {RowFor(e)}
           /\ \A r \in Live(queue[e.to]) : IsDurable(r.env.id) => r \in queue'[e.to]
           /\ \A q \in Role \ {e.to} : /\ Live(queue[q]) \subseteq queue'[q]
                                       /\ queue'[q] \subseteq queue[q]
<1>1. e.to \in Role
  BY ReliableRole DEF StoreAndForward
<1>2. PICK c \in 0 .. arrivals :
        queue' = [Pruned(d, e, {e.to}) EXCEPT ![e.to] =
                    Kept(Live(queue[e.to]), c) \cup {RowFor(e)}]
  BY DEF StoreAndForward
<1>3. /\ queue'[e.to] = Kept(Live(queue[e.to]), c) \cup {RowFor(e)}
      /\ \A q \in Role \ {e.to} : queue'[q] = Pruned(d, e, {e.to})[q]
  BY <1>1, <1>2, PrunedFacts
<1>4. /\ Kept(Live(queue[e.to]), c) \subseteq Live(queue[e.to])
      /\ \A r \in Live(queue[e.to]) : IsDurable(r.env.id) => r \in Kept(Live(queue[e.to]), c)
  BY DEF Kept
<1>5. QED
  BY <1>1, <1>3, <1>4, PrunedFacts

\* A message that is not stored only prunes expired rows.
LEMMA UnstoredFacts ==
    ASSUME TypeOK, NEW d \in Device, NEW e \in Envelope,
           Message(d, e), ~StoreAndForward(d, e)
    PROVE  \A q \in Role : Live(queue[q]) \subseteq queue'[q] /\ queue'[q] \subseteq queue[q]
<1>1. CASE ForwardLive(d, e)
  BY <1>1, PrunedFacts DEF ForwardLive
<1>2. CASE ForwardDuplicate(d, e) \/ DropFull(d, e) \/ DropOversize(d, e) \/ CloseOversize(d, e)
  <2>1. e.to \in Role
    BY <1>2, ReliableRole DEF ForwardDuplicate, DropFull, DropOversize, CloseOversize
  <2>2. queue' = Pruned(d, e, {e.to}) \/ queue' = Pruned(d, e, {})
    BY <1>2 DEF ForwardDuplicate, DropFull, DropOversize, CloseOversize
  <2>3. QED
    BY <2>1, <2>2, PrunedFacts
<1>3. QED
  BY <1>1, <1>2 DEF Message

\* Steps that are neither messages nor acknowledgements leave the mailboxes.
LEMMA QuietFacts ==
    ASSUME Next,
           ~\E d \in Device : \E e \in Envelope : Message(d, e),
           ~\E d \in Device : \E id \in DeliveryId : Acknowledge(d, id)
    PROVE  queue' = queue /\ promised' = promised
  BY DEF Next, Deliver, SocketStep, Connect, ReplayNext, PolicyClose, FinishClose,
         LoseConnection, Restart, Tick

\* A row leaves a mailbox when it has expired, when it is ordinary, or when a
\* device able to decrypt it has read it.
LEMMA LossFacts ==
    ASSUME TypeOK, Next, NEW q \in Role, NEW r \in queue[q] \ queue'[q]
    PROVE  r.expiresAt <= now \/ ~IsDurable(r.env.id) \/ Delivered(r.env.id)
<1>0. r \in Row /\ (r.expiresAt <= now \/ r \in Live(queue[q]))
  BY DEF Live, TypeOK, Row
<1>1. ASSUME NEW d \in Device, NEW e \in Envelope, Message(d, e)
      PROVE  r.expiresAt <= now \/ ~IsDurable(r.env.id)
  <2>1. CASE StoreAndForward(d, e)
    BY <1>0, <2>1, StoreFacts
  <2>2. CASE ~StoreAndForward(d, e)
    BY <1>0, <1>1, <2>2, UnstoredFacts
  <2>3. QED
    BY <2>1, <2>2
<1>2. ASSUME NEW d \in Device, NEW id \in DeliveryId, Acknowledge(d, id)
      PROVE  r.expiresAt <= now \/ Delivered(r.env.id)
  <2>1. Delivered(id)
    BY <1>2 DEF Acknowledge, Delivered
  <2>2. r \in Live(queue[q]) => r.env.id = id
    BY <1>2 DEF Acknowledge, TypeOK
  <2>3. QED
    BY <1>0, <2>1, <2>2
<1>3. QED
  BY <1>1, <1>2, QuietFacts

\* A receipt is emitted in the step that stores the row, or finds it held, and
\* carries that row's expiry.
LEMMA PromiseFacts ==
    ASSUME TypeOK, Next, NEW p \in promised' \ promised
    PROVE  \E r \in queue'["machine"] :
              /\ p = [id |-> r.env.id, expiresAt |-> r.expiresAt]
              /\ IsDurable(r.env.id)
              /\ r.expiresAt \in Nat
<1>1. PICK d \in Device, e \in Envelope : StoreAndForward(d, e) \/ ForwardDuplicate(d, e)
  <2>1. PICK d \in Device, e \in Envelope : Message(d, e)
    BY QuietFacts DEF Acknowledge
  <2>2. QED
    BY <2>1 DEF Message, ForwardLive, DropFull, DropOversize, CloseOversize
<1>2. CASE StoreAndForward(d, e)
  <2>1. /\ p = [id |-> e.id, expiresAt |-> RowExpiry(e)]
        /\ e.to = "machine" /\ IsDurable(e.id)
    BY <1>2 DEF StoreAndForward, Promises, EarnsReceipt
  <2>2. RowFor(e) \in queue'["machine"]
    BY <1>2, <2>1, StoreFacts
  <2>3. RowFor(e).env = e /\ RowFor(e).expiresAt = RowExpiry(e) /\ RowExpiry(e) \in Nat
    BY RowForType
  <2>4. QED
    BY <2>1, <2>2, <2>3
<1>3. CASE ForwardDuplicate(d, e)
  <2>1. PICK r \in Live(queue[e.to]) : r.env.id = e.id /\ Promises(d, e, r.expiresAt)
    BY <1>3 DEF ForwardDuplicate
  <2>2. /\ p = [id |-> e.id, expiresAt |-> r.expiresAt]
        /\ e.to = "machine" /\ IsDurable(e.id)
    BY <2>1 DEF Promises, EarnsReceipt
  <2>3. queue' = Pruned(d, e, {e.to})
    BY <1>3 DEF ForwardDuplicate
  <2>4. r \in queue'["machine"]
    BY <2>1, <2>2, <2>3, RoleFacts, PrunedFacts
  <2>5. r.expiresAt \in Nat
    BY <2>1, <2>2, RoleFacts DEF Live, TypeOK, Row
  <2>6. QED
    BY <2>1, <2>2, <2>4, <2>5
<1>4. QED
  BY <1>1, <1>2, <1>3

\* What a device has read stays read, and time does not run backwards.
LEMMA ReadingStays ==
    ASSUME TypeOK, Next
    PROVE  now' >= now /\ now' \in Nat /\ \A id : Delivered(id) => Delivered(id)'
<1>1. now' >= now /\ now' \in Nat /\ \A d \in Device : inbox[d] \subseteq inbox'[d]
  <2>1. ASSUME NEW d \in Device, NEW e \in Envelope, Message(d, e)
        PROVE  UNCHANGED <<now, inbox>>
    BY <2>1 DEF Message, ForwardLive, StoreAndForward, ForwardDuplicate, DropFull,
                DropOversize, CloseOversize
  <2>2. ASSUME NEW d \in Device, NEW e \in Envelope, Deliver(d, e)
        PROVE  now' = now /\ \A x \in Device : inbox[x] \subseteq inbox'[x]
    BY <2>2 DEF Deliver, TypeOK
  <2>3. ASSUME NEW d \in Device, SocketStep(d) PROVE UNCHANGED <<now, inbox>>
    BY <2>3 DEF SocketStep, Connect, ReplayNext, PolicyClose, FinishClose, LoseConnection
  <2>4. ASSUME Tick PROVE now' = now + 1 /\ inbox' = inbox
    BY <2>4 DEF Tick
  <2>5. ASSUME \/ \E d \in Device : \E id \in DeliveryId : Acknowledge(d, id)
               \/ Restart
        PROVE  UNCHANGED <<now, inbox>>
    BY <2>5 DEF Acknowledge, Restart
  <2>6. QED
    BY <2>1, <2>2, <2>3, <2>4, <2>5 DEF Next, TypeOK
<1>2. QED
  BY <1>1 DEF Delivered

-----------------------------------------------------------------------------
(* Durability *)

\* Protected rows leave a mailbox only by expiry or after an addressee read them.
THEOREM SubmissionsAreProtected == Spec => SubmissionLeavesByAckOrExpiry
<1>1. TypeOK /\ [Next]_vars =>
        [\A q \in Role : \A r \in queue[q] \ queue'[q] :
            IsDurable(r.env.id) => r.expiresAt <= now \/ Delivered(r.env.id)]_vars
  BY LossFacts
<1>2. QED
  BY <1>1, TypeCorrect, PTL DEF Spec, SubmissionLeavesByAckOrExpiry

\* A receipt the phone holds is honoured until its expiry, through evictions,
\* retries, acknowledgements by other computers, stale replays and restarts.
THEOREM ReceiptsAreDurable == Spec => []ReceiptDurability
<1>1. Init => ReceiptDurability
  BY DEF Init, ReceiptDurability
<1>2. TypeOK /\ TypeOK' /\ ReceiptDurability /\ [Next]_vars => ReceiptDurability'
  <2> SUFFICES ASSUME TypeOK, TypeOK', ReceiptDurability, [Next]_vars
               PROVE  ReceiptDurability'
    OBVIOUS
  <2>1. CASE UNCHANGED vars
    BY <2>1 DEF vars, ReceiptDurability, Delivered
  <2>2. CASE Next
    <3> SUFFICES ASSUME NEW p \in promised'
                 PROVE  \/ p.expiresAt <= now'
                        \/ Delivered(p.id)'
                        \/ \E r \in queue'["machine"] : r.env.id = p.id /\ r.expiresAt >= p.expiresAt
      BY DEF ReceiptDurability
    <3>1. p.id \in DurableId /\ p.expiresAt \in Nat
      BY DEF TypeOK, Promise
    <3>2. CASE p \notin promised
      <4>1. PICK r \in queue'["machine"] :
              p = [id |-> r.env.id, expiresAt |-> r.expiresAt] /\ r.expiresAt \in Nat
        BY <2>2, <3>2, PromiseFacts
      <4>2. r.env.id = p.id /\ r.expiresAt >= p.expiresAt
        BY <4>1
      <4>3. QED
        BY <4>2
    <3>3. CASE p \in promised /\ (p.expiresAt <= now \/ Delivered(p.id))
      BY <2>2, <3>1, <3>3, ReadingStays DEF TypeOK
    <3>4. CASE \E r \in queue["machine"] : r.env.id = p.id /\ r.expiresAt >= p.expiresAt
      <4>1. PICK r \in queue["machine"] : r.env.id = p.id /\ r.expiresAt >= p.expiresAt
        BY <3>4
      <4>2. CASE r \in queue'["machine"]
        BY <4>1, <4>2
      <4>3. CASE r \notin queue'["machine"]
        <5>1. r.expiresAt <= now \/ Delivered(p.id)
          BY <2>2, <3>1, <4>1, <4>3, RoleFacts, LossFacts DEF IsDurable
        <5>2. r.expiresAt \in Nat
          BY <4>1, RoleFacts DEF TypeOK, Row
        <5>3. QED
          BY <2>2, <3>1, <4>1, <5>1, <5>2, ReadingStays DEF TypeOK
      <4>4. QED
        BY <4>2, <4>3
    <3>5. QED
      BY <3>2, <3>3, <3>4 DEF ReceiptDurability
  <2>3. QED
    BY <2>1, <2>2
<1>3. QED
  BY <1>1, <1>2, TypeCorrect, PTL DEF Spec

\* A mailbox never holds one delivery twice.
THEOREM DeliveriesAreUnique == Spec => []OneRowPerDelivery
<1>1. Init => OneRowPerDelivery
  BY DEF Init, OneRowPerDelivery
<1>2. TypeOK /\ OneRowPerDelivery /\ [Next]_vars => OneRowPerDelivery'
  <2> SUFFICES ASSUME TypeOK, OneRowPerDelivery, [Next]_vars,
                      NEW q \in Role, NEW x \in queue'[q], NEW y \in queue'[q],
                      x.env.id = y.env.id
               PROVE  x = y
    BY DEF OneRowPerDelivery
  <2>a. CASE queue'[q] \subseteq queue[q]
    BY <2>a DEF OneRowPerDelivery
  <2>1. ASSUME NEW d \in Device, NEW e \in Envelope, StoreAndForward(d, e) PROVE x = y
    <3>1. CASE q # e.to
      BY <2>1, <2>a, <3>1, StoreFacts
    <3>2. CASE q = e.to
      <4>1. queue'[q] \subseteq Live(queue[q]) \cup {RowFor(e)} /\ RowFor(e).env.id = e.id
        BY <2>1, <3>2, StoreFacts, RowForType
      <4>2. \A r \in Live(queue[q]) : r.env.id # e.id
        BY <2>1, <3>2 DEF StoreAndForward, IsDuplicate
      <4>3. Live(queue[q]) \subseteq queue[q]
        BY DEF Live
      <4>4. QED
        BY <4>1, <4>2, <4>3 DEF OneRowPerDelivery
    <3>3. QED
      BY <3>1, <3>2
  <2>2. ASSUME NEW d \in Device, NEW e \in Envelope, Message(d, e), ~StoreAndForward(d, e)
        PROVE  x = y
    BY <2>2, <2>a, UnstoredFacts
  <2>3. ASSUME NEW d \in Device, NEW id \in DeliveryId, Acknowledge(d, id) PROVE x = y
    BY <2>3, <2>a DEF Acknowledge, Live, TypeOK
  <2>4. CASE queue' = queue
    BY <2>4, <2>a
  <2>5. QED
    BY <2>1, <2>2, <2>3, <2>4, QuietFacts DEF vars
<1>3. QED
  BY <1>1, <1>2, TypeCorrect, PTL DEF Spec

-----------------------------------------------------------------------------
(* Routing *)

\* A row sits in the mailbox it is addressed to.
FiledByRole == \A q \in Role : \A r \in queue[q] : r.env.to = q

\* Only an open socket is being replayed to, and a closed one has no role.
SocketShape ==
    \A d \in Device :
        /\ conn[d].phase # "open" => replay[d] = {}
        /\ conn[d].phase = "closed" => conn[d].role = NoRole

\* AddresseeOnly relates what was sent or snapshotted earlier to the role the
\* socket has now, so it needs how mailboxes are filed and how sockets end.
RoutingInv == TypeOK /\ FiledByRole /\ SocketShape /\ AddresseeOnly

\* Rows never change mailbox.
LEMMA FiledStep == ASSUME TypeOK, FiledByRole, [Next]_vars PROVE FiledByRole'
<1>a. ASSUME \A q \in Role : queue'[q] \subseteq queue[q] PROVE FiledByRole'
  BY <1>a DEF FiledByRole
<1>1. ASSUME NEW d \in Device, NEW e \in Envelope, StoreAndForward(d, e) PROVE FiledByRole'
  <2>1. e.to \in Role /\ queue'[e.to] \subseteq Live(queue[e.to]) \cup {RowFor(e)}
    BY <1>1, StoreFacts
  <2>2. \A q \in Role \ {e.to} : queue'[q] \subseteq queue[q]
    BY <1>1, StoreFacts
  <2>3. RowFor(e).env.to = e.to /\ Live(queue[e.to]) \subseteq queue[e.to]
    BY RowForType DEF Live
  <2>4. QED
    BY <2>1, <2>2, <2>3 DEF FiledByRole
<1>2. ASSUME NEW d \in Device, NEW e \in Envelope, Message(d, e), ~StoreAndForward(d, e)
      PROVE  FiledByRole'
  BY <1>2, <1>a, UnstoredFacts
<1>3. ASSUME NEW d \in Device, NEW id \in DeliveryId, Acknowledge(d, id) PROVE FiledByRole'
  BY <1>3, <1>a DEF Acknowledge, Live, TypeOK
<1>4. CASE queue' = queue
  BY <1>4, <1>a
<1>5. QED
  BY <1>1, <1>2, <1>3, <1>4, QuietFacts DEF vars

\* Every message registers its sender, and forwards to others or to nobody.
LEMMA MessageSockets ==
    ASSUME TypeOK, NEW d \in Device, NEW e \in Envelope, Message(d, e)
    PROVE  /\ Accepts(d, e)
           /\ RegisterRole(d, e, "open") \/ RegisterRole(d, e, "closing")
           /\ Forward(d, e) \/ wire' = wire
  BY DEF Message, ForwardLive, StoreAndForward, ForwardDuplicate, DropFull, DropOversize,
         CloseOversize

\* On a socket there are only frames for its registered role and announced key,
\* whether forwarded live or replayed from a snapshot that may be stale.
THEOREM FramesReachAddressees == Spec => []AddresseeOnly
<1>1. Init => RoutingInv
  BY DEF Init, RoutingInv, TypeOK, FiledByRole, SocketShape, AddresseeOnly, Closed, Conn
<1>2. RoutingInv /\ TypeOK' /\ [Next]_vars => RoutingInv'
  <2> SUFFICES ASSUME RoutingInv, TypeOK', [Next]_vars PROVE RoutingInv'
    OBVIOUS
  <2>0. TypeOK /\ FiledByRole'
    BY FiledStep DEF RoutingInv
  <2> DEFINE Frames(d) == wire[d] \cup {r.env : r \in replay[d]}
             Fine(e, d) == e.to \in {"all", conn[d].role} /\ MatchesRecipient(e, AnnouncedKey(d))
             Goal == SocketShape' /\ AddresseeOnly'
  \* Enough: sockets keep their role and gain no frame, or are emptied.
  <2>a. ASSUME \A d \in Device :
                 \/ conn'[d].role = conn[d].role /\ Frames(d)' \subseteq Frames(d)
                 \/ Frames(d)' = {}
        PROVE  AddresseeOnly'
    BY <2>a DEF RoutingInv, AddresseeOnly, MatchesRecipient, AnnouncedKey
  <2>1. ASSUME NEW d \in Device, NEW e \in Envelope, Message(d, e) PROVE Goal
    <3>1. /\ conn[d].phase = "open" /\ conn[d].role \in {NoRole, e.from} /\ e.from \in Role
          /\ conn'[d].role = e.from /\ conn'[d].phase \in {"open", "closing"}
          /\ \A x \in Device \ {d} : conn'[x] = conn[x] /\ replay'[x] = replay[x]
          /\ \/ replay'[d] \in {{}, Snapshot(d, e)}
             \/ replay'[d] = replay[d] /\ conn[d].role = e.from
          /\ conn'[d].phase # "open" => replay'[d] = {}
      BY <2>0, <2>1, MessageSockets, EnvelopeAssumption
         DEF Accepts, RegisterRole, Registers, TypeOK
    <3>2. SocketShape'
      BY <3>1 DEF SocketShape, RoutingInv
    <3>3. ASSUME NEW x \in Device, NEW f \in wire'[x] PROVE Fine(f, x)'
      <4>1. CASE f \in wire[x]
        <5>1. f.to \in {"all", conn[x].role} /\ MatchesRecipient(f, AnnouncedKey(x))
          BY <4>1 DEF RoutingInv, AddresseeOnly
        <5>2. f.to \in Role \cup {"all"}
          BY <2>0, <4>1, EnvelopeAssumption DEF TypeOK
        <5>3. f.to \in {"all", conn'[x].role}
          BY <3>1, <5>1, <5>2, ClientAssumption
        <5>4. QED
          BY <5>1, <5>3 DEF MatchesRecipient, AnnouncedKey
      <4>2. CASE f \notin wire[x]
        <5>1. x \in Targets(d, e) /\ f = e
          BY <2>0, <2>1, <3>3, <4>2, MessageSockets DEF Forward, TypeOK
        <5>2. x \in Device \ {d} /\ f.to \in {"all", conn[x].role}
                /\ MatchesRecipient(f, AnnouncedKey(x))
          BY <5>1 DEF Targets
        <5>3. QED
          BY <3>1, <5>2 DEF MatchesRecipient, AnnouncedKey
      <4>3. QED
        BY <4>1, <4>2
    <3>4. ASSUME NEW x \in Device, NEW r \in replay'[x] PROVE Fine(r.env, x)'
      <4>1. CASE x = d /\ replay'[d] = Snapshot(d, e)
        <5>1. r \in queue[e.from] /\ MatchesRecipient(r.env, AnnouncedKey(d))
          BY <3>4, <4>1 DEF Snapshot, Live
        <5>2. r.env.to = e.from
          BY <3>1, <5>1 DEF RoutingInv, FiledByRole
        <5>3. QED
          BY <3>1, <4>1, <5>1, <5>2 DEF MatchesRecipient, AnnouncedKey
      <4>2. CASE r \in replay[x] /\ conn'[x].role = conn[x].role
        BY <4>2 DEF RoutingInv, AddresseeOnly, MatchesRecipient, AnnouncedKey
      <4>3. QED
        BY <3>1, <3>4, <4>1, <4>2
    <3>5. QED
      BY <3>2, <3>3, <3>4 DEF AddresseeOnly
  <2>2. ASSUME NEW d \in Device, NEW e \in Envelope, Deliver(d, e) PROVE Goal
    <3>1. SocketShape'
      BY <2>2 DEF Deliver, SocketShape, RoutingInv
    <3>2. \A x \in Device : conn'[x].role = conn[x].role /\ Frames(x)' \subseteq Frames(x)
      BY <2>0, <2>2 DEF Deliver, TypeOK
    <3>3. QED
      BY <2>a, <3>1, <3>2
  <2>3. ASSUME NEW d \in Device, NEW id \in DeliveryId, Acknowledge(d, id) PROVE Goal
    BY <2>3 DEF Acknowledge, RoutingInv, SocketShape, AddresseeOnly, MatchesRecipient,
                AnnouncedKey
  <2>4. ASSUME NEW d \in Device, Connect(d) PROVE Goal
    <3>1. /\ conn'[d].role = conn[d].role /\ conn'[d].phase = "open"
          /\ \A x \in Device \ {d} : conn'[x] = conn[x]
          /\ UNCHANGED <<wire, replay>>
      BY <2>0, <2>4 DEF Connect, RoutingInv, SocketShape, TypeOK
    <3>2. QED
      BY <2>a, <3>1 DEF RoutingInv, SocketShape
  <2>5. ASSUME NEW d \in Device, ReplayNext(d) PROVE Goal
    <3>1. PICK r \in replay[d] : /\ replay' = [replay EXCEPT ![d] = @ \ {r}]
                                /\ wire' = [wire EXCEPT ![d] = @ \cup {r.env}]
      BY <2>5 DEF ReplayNext
    <3>2. conn' = conn
      BY <2>5 DEF ReplayNext
    <3>3. \A x \in Device : Frames(x)' \subseteq Frames(x)
      BY <2>0, <3>1 DEF TypeOK
    <3>4. SocketShape'
      BY <2>0, <3>1, <3>2 DEF RoutingInv, SocketShape, TypeOK
    <3>5. QED
      BY <2>a, <3>2, <3>3, <3>4
  <2>6. ASSUME NEW d \in Device, PolicyClose(d) \/ FinishClose(d) \/ LoseConnection(d)
        PROVE  Goal
    <3>1. SocketShape'
      BY <2>0, <2>6 DEF PolicyClose, FinishClose, LoseConnection, RoutingInv, SocketShape,
                        Closed, TypeOK, Conn
    <3>2. CASE PolicyClose(d)
      BY <2>0, <2>a, <3>1, <3>2 DEF PolicyClose, TypeOK, Conn
    <3>3. CASE FinishClose(d)
      <4>1. replay[d] = {}
        BY <3>3 DEF FinishClose, RoutingInv, SocketShape
      <4>2. QED
        BY <2>0, <2>a, <3>1, <3>3, <4>1 DEF FinishClose, TypeOK
    <3>4. CASE LoseConnection(d)
      BY <2>0, <2>a, <3>1, <3>4 DEF LoseConnection, TypeOK
    <3>5. QED
      BY <2>6, <3>2, <3>3, <3>4
  <2>7. ASSUME Restart PROVE Goal
    BY <2>7, <2>a DEF Restart, SocketShape, Closed
  <2>8. ASSUME Tick \/ UNCHANGED vars PROVE Goal
    BY <2>8 DEF Tick, vars, RoutingInv, SocketShape, AddresseeOnly, MatchesRecipient,
                AnnouncedKey
  <2>9. QED
    BY <2>0, <2>1, <2>2, <2>3, <2>4, <2>5, <2>6, <2>7, <2>8
       DEF Next, SocketStep, RoutingInv
<1>3. QED
  BY <1>1, <1>2, TypeCorrect, PTL DEF Spec, RoutingInv
-----------------------------------------------------------------------------
(* The room implements Submissions *)

\* A row is stored with an expiry that lies ahead.
LEMMA FreshRow ==
    ASSUME TypeOK, NEW e \in Envelope, ~Expired(e)
    PROVE  RowFor(e).expiresAt \in Nat /\ RowFor(e).expiresAt > now
  BY EnvelopeAssumption, BoundAssumption DEF RowFor, RowExpiry, Expired, TypeOK

\* A step that touches mailboxes is a step of Submissions if the protected rows
\* it drops had expired or were read, at most one row is new and that one is
\* alive, and new receipts are for protected rows then on record.
LEMMA MailboxStep ==
    ASSUME TypeOK, UNCHANGED <<now, inbox>>,
           \A r \in queue["machine"] \ queue'["machine"] :
               r.expiresAt <= now \/ ~IsDurable(r.env.id) \/ Delivered(r.env.id),
           NEW x,
           \A r \in queue'["machine"] \ queue["machine"] :
               r = x /\ x.expiresAt \in Nat /\ x.expiresAt > now,
           promised \subseteq promised',
           \A p \in promised' \ promised : p \in Held'
    PROVE  Promised!Store \/ Promised!Release
<1> DEFINE rec(r) == [id |-> r.env.id, expiresAt |-> r.expiresAt]
           read == {id \in DurableId : Delivered(id)}
<1>1. /\ \A h : h \in Held <=> \E r \in queue["machine"] : IsDurable(r.env.id) /\ h = rec(r)
      /\ \A h : h \in Held' <=> \E r \in queue'["machine"] : IsDurable(r.env.id) /\ h = rec(r)
  BY DEF Held, IsDurable
<1>2. read' = read
  BY DEF Delivered
<1>3. \A h \in Held \ Held' : h.expiresAt <= now \/ h.id \in read
  <2> SUFFICES ASSUME NEW h \in Held \ Held' PROVE h.expiresAt <= now \/ h.id \in read
    OBVIOUS
  <2>1. PICK r \in queue["machine"] : IsDurable(r.env.id) /\ h = rec(r)
    BY <1>1
  <2>2. r \notin queue'["machine"]
    BY <1>1, <2>1
  <2>3. QED
    BY <2>1, <2>2 DEF IsDurable
<1>4. \A h \in Held' \ Held : h = rec(x) /\ h.expiresAt \in Nat /\ h.expiresAt > now
  <2> SUFFICES ASSUME NEW h \in Held' \ Held
               PROVE  h = rec(x) /\ h.expiresAt \in Nat /\ h.expiresAt > now
    OBVIOUS
  <2>1. PICK r \in queue'["machine"] : IsDurable(r.env.id) /\ h = rec(r)
    BY <1>1
  <2>2. r \notin queue["machine"]
    BY <1>1, <2>1
  <2>3. QED
    BY <2>1, <2>2
<1>5. CASE Held' \ Held = {}
  <2>1. Held' \subseteq Held
    BY <1>5
  <2>2. Promised!Release
    BY <1>2, <1>3, <2>1 DEF Promised!Release, Promised!OnlyDoneLeave, Promised!Receipts
  <2>3. QED
    BY <2>2
<1>6. CASE Held' \ Held # {}
  <2>1. PICK h \in Held' : Held' \ Held = {h} /\ h.expiresAt \in Nat /\ h.expiresAt > now
    BY <1>4, <1>6
  <2>2. Promised!Store
    BY <1>2, <1>3, <2>1 DEF Promised!Store, Promised!OnlyDoneLeave, Promised!Receipts
  <2>3. QED
    BY <2>2
<1>7. QED
  BY <1>5, <1>6

\* Steps of sockets, readers and the clock leave mailboxes and receipts; what is
\* read stays read.
LEMMA QuietStep ==
    ASSUME TypeOK, UNCHANGED <<queue, promised>>,
           \/ now' = now /\ \A d \in Device : inbox[d] \subseteq inbox'[d]
           \/ now' = now + 1 /\ inbox' = inbox
    PROVE  Promised!Next
<1> DEFINE read == {id \in DurableId : Delivered(id)}
<1>1. Held' = Held
  BY DEF Held, IsDurable
<1>2. read \subseteq read'
  BY DEF Delivered
<1>3. CASE now' = now
  BY <1>1, <1>2, <1>3 DEF Promised!Next, Promised!Read
<1>4. CASE now' = now + 1 /\ inbox' = inbox
  <2>1. read' = read
    BY <1>4 DEF Delivered
  <2>2. QED
    BY <1>1, <1>4, <2>1 DEF Promised!Next, Promised!Tick
<1>5. QED
  BY <1>3, <1>4

\* An empty room is an initial state of Submissions.
LEMMA EmptyRoom == ASSUME Init PROVE Promised!Init
<1>1. Held = {} /\ {id \in DurableId : Delivered(id)} = {}
  BY DEF Init, Held, Delivered, Role
<1>2. QED
  BY <1>1 DEF Init, Promised!Init

\* A stutter of the room is a stutter of Submissions.
LEMMA RoomStutters == ASSUME UNCHANGED vars PROVE UNCHANGED Promised!vars
  BY DEF vars, Promised!vars, Held, IsDurable, Delivered

\* The Node room implements Submissions: evictions, retries, acknowledgements by
\* other devices, stale replays and restarts included, a stored submission is
\* held until it expires or is read, and receipts are for what is held.
THEOREM RoomImplementsSubmissions == Spec => ImplementsSubmissions
<1>1. TypeOK /\ [Next]_vars => [Promised!Next]_(Promised!vars)
  <2> SUFFICES ASSUME TypeOK, Next PROVE Promised!Next
    BY RoomStutters
  <2>a. ASSUME UNCHANGED <<now, inbox>>, NEW x,
               \A r \in queue'["machine"] \ queue["machine"] :
                   r = x /\ x.expiresAt \in Nat /\ x.expiresAt > now,
               promised \subseteq promised'
        PROVE  Promised!Next
    <3>1. \A r \in queue["machine"] \ queue'["machine"] :
            r.expiresAt <= now \/ ~IsDurable(r.env.id) \/ Delivered(r.env.id)
      BY LossFacts, RoleFacts
    <3>2. \A p \in promised' \ promised : p \in Held'
      BY PromiseFacts DEF Held, IsDurable
    <3>3. QED
      BY <2>a, <3>1, <3>2, MailboxStep DEF Promised!Next
  <2>1. ASSUME NEW d \in Device, NEW e \in Envelope, Message(d, e) PROVE Promised!Next
    <3>1. UNCHANGED <<now, inbox>>
      BY <2>1 DEF Message, ForwardLive, StoreAndForward, ForwardDuplicate, DropFull,
                  DropOversize, CloseOversize
    <3>2. promised \subseteq promised'
      BY <2>1 DEF Message, ForwardLive, StoreAndForward, ForwardDuplicate, DropFull,
                  DropOversize, CloseOversize, Promises
    <3>3. \A r \in queue'["machine"] \ queue["machine"] :
            /\ r = RowFor(e)
            /\ RowFor(e).expiresAt \in Nat
            /\ RowFor(e).expiresAt > now
      <4>1. CASE StoreAndForward(d, e)
        <5>1. RowFor(e).expiresAt \in Nat /\ RowFor(e).expiresAt > now
          BY <4>1, FreshRow DEF StoreAndForward, Accepts
        <5>2. \A q \in Role : queue'[q] \subseteq queue[q] \cup {RowFor(e)}
          BY <4>1, StoreFacts DEF Live
        <5>3. QED
          BY <5>1, <5>2, RoleFacts
      <4>2. CASE ~StoreAndForward(d, e)
        BY <2>1, <4>2, UnstoredFacts, RoleFacts
      <4>3. QED
        BY <4>1, <4>2
    <3>4. QED
      BY <2>a, <3>1, <3>2, <3>3
  <2>2. ASSUME NEW d \in Device, NEW id \in DeliveryId, Acknowledge(d, id) PROVE Promised!Next
    <3>1. UNCHANGED <<now, inbox, promised>>
      BY <2>2 DEF Acknowledge
    <3>2. queue'["machine"] \subseteq queue["machine"]
      BY <2>2, RoleFacts DEF Acknowledge, Live, TypeOK
    <3>3. QED
      BY <2>a, <3>1, <3>2
  <2>3. ASSUME NEW d \in Device, NEW e \in Envelope, Deliver(d, e) PROVE Promised!Next
    <3>1. UNCHANGED <<queue, promised, now>> /\ \A x \in Device : inbox[x] \subseteq inbox'[x]
      BY <2>3 DEF Deliver, TypeOK
    <3>2. QED
      BY <3>1, QuietStep
  <2>4. ASSUME \/ \E d \in Device : SocketStep(d)
               \/ Restart
               \/ Tick
        PROVE  Promised!Next
    <3>1. /\ UNCHANGED <<queue, promised, inbox>>
          /\ now' = now \/ now' = now + 1
      BY <2>4 DEF SocketStep, Connect, ReplayNext, PolicyClose, FinishClose, LoseConnection,
                  Restart, Tick
    <3>2. QED
      BY <3>1, QuietStep
  <2>5. QED
    BY <2>1, <2>2, <2>3, <2>4 DEF Next
<1>2. QED
  BY <1>1, EmptyRoom, TypeCorrect, PTL DEF Spec, ImplementsSubmissions, Promised!Spec

-----------------------------------------------------------------------------
(* What the promise is worth *)

\* Times are numbers and every receipt is honoured so far.
ReceiptInv ==
    /\ now \in Nat
    /\ \A h \in Held \cup promised : h.expiresAt \in Nat
    /\ Promised!ReceiptsHold

\* A step that changes the record keeps the receipts good.
LEMMA RecordStep ==
    ASSUME ReceiptInv, Promised!Store \/ Promised!Release
    PROVE  ReceiptInv'
<1> DEFINE read == {id \in DurableId : Delivered(id)}
<1>1. now' = now /\ read' = read /\ Promised!OnlyDoneLeave /\ Promised!Receipts
  BY DEF Promised!Store, Promised!Release
<1>2. \A h \in Held' : h.expiresAt \in Nat
  BY DEF Promised!Store, Promised!Release, ReceiptInv
<1>3. \A p \in promised' : p \in promised \/ p \in Held'
  BY <1>1 DEF Promised!Receipts
<1>4. \A p \in promised' : p.expiresAt \in Nat
  BY <1>2, <1>3 DEF ReceiptInv
<1>5. \A p \in promised : p.expiresAt <= now \/ p.id \in read \/ p \in Held
  BY DEF ReceiptInv, Promised!ReceiptsHold
<1>6. \A h \in Held \ Held' : h.expiresAt <= now \/ h.id \in read
  BY <1>1 DEF Promised!OnlyDoneLeave
<1>7. \A p \in promised' : p.expiresAt <= now' \/ p.id \in read' \/ p \in Held'
  <2> HIDE DEF read
  <2>1. QED
    BY <1>1, <1>3, <1>5, <1>6
<1>8. Promised!ReceiptsHold'
  BY <1>7 DEF Promised!ReceiptsHold
<1>9. QED
  BY <1>1, <1>2, <1>4, <1>8 DEF ReceiptInv

\* In every implementation of Submissions a receipt is good until its expiry:
\* the submission is on record with that very expiry unless it was read
\* (relay.stored, of both deployments).
THEOREM ReceiptsAreGood == ImplementsSubmissions => []Promised!ReceiptsHold
<1>1. Promised!Init => ReceiptInv
  BY DEF Promised!Init, ReceiptInv, Promised!ReceiptsHold
<1>2. ReceiptInv /\ [Promised!Next]_(Promised!vars) => ReceiptInv'
  <2> SUFFICES ASSUME ReceiptInv, [Promised!Next]_(Promised!vars) PROVE ReceiptInv'
    OBVIOUS
  <2>1. CASE Promised!Store \/ Promised!Release
    BY <2>1, RecordStep
  <2>2. CASE Promised!Read
    BY <2>2 DEF Promised!Read, ReceiptInv, Promised!ReceiptsHold
  <2>3. CASE Promised!Tick
    BY <2>3 DEF Promised!Tick, ReceiptInv, Promised!ReceiptsHold
  <2>4. CASE UNCHANGED Promised!vars
    BY <2>4 DEF Promised!vars, ReceiptInv, Promised!ReceiptsHold
  <2>5. QED
    BY <2>1, <2>2, <2>3, <2>4 DEF Promised!Next
<1>3. ReceiptInv => Promised!ReceiptsHold
  BY DEF ReceiptInv
<1>4. QED
  BY <1>1, <1>2, <1>3, PTL DEF ImplementsSubmissions, Promised!Spec

-----------------------------------------------------------------------------
(* Limits *)

\* RowBytes is the sum of the rows' sizes, in whatever order they are taken.
LEMMA RowBytesIsSum ==
    ASSUME NEW S, IsFiniteSet(S), \A r \in S : r.env.bytes \in Nat
    PROVE  \E g : IsSum(g, S, [r \in S |-> r.env.bytes]) /\ RowBytes(S) = g[S]
<1> DEFINE w == [r \in S |-> r.env.bytes]
           c(s) == CHOOSE x \in s : TRUE
           Rec(h) == h = [s \in SUBSET S |->
                             IF s = {} THEN 0 ELSE c(s).env.bytes + h[s \ {c(s)}]]
           g == CHOOSE h : Rec(h)
<1>1. RowBytes(S) = g[S]
  BY DEF RowBytes, MapThenSumSet, MapThenFoldSet
<1>2. \A h : Iterates(h, S, w) <=> Rec(h)
  BY DEF Iterates
<1>3. w \in [S -> Nat]
  OBVIOUS
<1> HIDE DEF w, Rec
<1>4. \E h : h \in [SUBSET S -> Nat] /\ Rec(h)
  BY <1>2, <1>3, IterationExists
<1>5. Rec(g)
  BY <1>4, Zenon
<1>6. IsSum(g, S, w)
  BY <1>2, <1>3, <1>5, IterationIsSum
<1>7. QED
  BY <1>1, <1>6 DEF w

\* A part of a mailbox has no more rows and no more bytes than the whole.
LEMMA PartIsSmaller ==
    ASSUME NEW S \in SUBSET Row, IsFiniteSet(S), NEW T \in SUBSET S
    PROVE  /\ IsFiniteSet(T)
           /\ Cardinality(T) \in Nat /\ Cardinality(S) \in Nat
           /\ Cardinality(T) <= Cardinality(S)
           /\ RowBytes(T) \in Nat /\ RowBytes(S) \in Nat
           /\ RowBytes(T) <= RowBytes(S)
<1> DEFINE w(U) == [r \in U |-> r.env.bytes]
<1>1. \A r \in S : r.env.bytes \in Nat
  BY EnvelopeAssumption DEF Row
<1>2. IsFiniteSet(T) /\ Cardinality(T) <= Cardinality(S)
  BY FS_Subset
<1>3. PICK g : IsSum(g, S, w(S)) /\ RowBytes(S) = g[S]
  BY <1>1, RowBytesIsSum
<1>4. PICK h : IsSum(h, T, w(T)) /\ RowBytes(T) = h[T]
  BY <1>1, <1>2, RowBytesIsSum
<1>5. w(S) \in [S -> Nat] /\ \A x \in T : w(S)[x] = w(T)[x]
  BY <1>1
<1>6. RowBytes(T) \in Nat /\ RowBytes(S) \in Nat
  BY <1>3, <1>4 DEF IsSum
<1> HIDE DEF w
<1>7. g[T] = h[T]
  BY <1>2, <1>3, <1>4, <1>5, SumAgrees
<1>8. g[T] <= g[S]
  BY <1>3, <1>5, SumMonotone
<1>9. Cardinality(T) \in Nat /\ Cardinality(S) \in Nat
  BY <1>2, FS_CardinalityType
<1>10. QED
  BY <1>2, <1>3, <1>4, <1>6, <1>7, <1>8, <1>9

\* The bounds of one mailbox.  Sums and cardinalities mean something of finite
\* sets only, so that the rows are finite is part of the invariant.
WithinBounds(q, rows) ==
    /\ IsFiniteSet(rows)
    /\ Cardinality(rows) <= HoldLimit
    /\ RowBytes({x \in rows : ~IsDurable(x.env.id)}) <= SmallBytes
    /\ RowBytes(rows) <= IF q = "machine" /\ LargeBytes > SmallBytes THEN LargeBytes ELSE SmallBytes

\* Both mailboxes are within their bounds.
BoundsInv == TypeOK /\ \A q \in Role : WithinBounds(q, queue[q])

\* Dropping rows keeps a mailbox within its bounds.
LEMMA DroppingKeepsBounds ==
    ASSUME NEW q \in Role, NEW S \in SUBSET Row, WithinBounds(q, S), NEW T \in SUBSET S
    PROVE  WithinBounds(q, T)
<1> DEFINE O(U) == {x \in U : ~IsDurable(x.env.id)}
<1>1. IsFiniteSet(S) /\ O(S) \in SUBSET S /\ O(T) \in SUBSET O(S) /\ O(S) \in SUBSET Row
  BY DEF WithinBounds
<1>2. IsFiniteSet(O(S))
  BY <1>1, PartIsSmaller
<1>3. /\ IsFiniteSet(T)
      /\ Cardinality(T) \in Nat /\ Cardinality(S) \in Nat /\ Cardinality(T) <= Cardinality(S)
      /\ RowBytes(T) \in Nat /\ RowBytes(S) \in Nat /\ RowBytes(T) <= RowBytes(S)
  BY <1>1, PartIsSmaller
<1> HIDE DEF O
<1>4. RowBytes(O(T)) \in Nat /\ RowBytes(O(S)) \in Nat /\ RowBytes(O(T)) <= RowBytes(O(S))
  BY <1>1, <1>2, PartIsSmaller
<1>5. /\ Cardinality(S) <= HoldLimit
      /\ RowBytes(O(S)) <= SmallBytes
      /\ RowBytes(S) <= IF q = "machine" /\ LargeBytes > SmallBytes THEN LargeBytes ELSE SmallBytes
  BY DEF WithinBounds, O
<1>6. Cardinality(T) <= HoldLimit /\ RowBytes(O(T)) <= SmallBytes
  BY <1>3, <1>4, <1>5, BoundAssumption
<1>7. RowBytes(T) <= IF q = "machine" /\ LargeBytes > SmallBytes THEN LargeBytes ELSE SmallBytes
  BY <1>3, <1>5, BoundAssumption
<1>8. QED
  BY <1>3, <1>6, <1>7 DEF WithinBounds, O

\* Storing a row after the first cut that fits keeps the mailbox within its
\* bounds.  A submission may fill the machine's mailbox up to the large budget;
\* the ordinary rows are then among those that were there.
LEMMA StoringKeepsBounds ==
    ASSUME BoundsInv, NEW e \in Envelope, e.to \in Role, NEW c \in Cuts(e)
    PROVE  WithinBounds(e.to, Kept(Live(queue[e.to]), c) \cup {RowFor(e)})
<1> DEFINE Old == Kept(Live(queue[e.to]), c)
           New == Old \cup {RowFor(e)}
           O(U) == {x \in U : ~IsDurable(x.env.id)}
<1>1. RowFor(e) \in Row /\ RowFor(e).env = e
  BY RowForType DEF BoundsInv
<1>2. Old \subseteq queue[e.to] /\ Old \subseteq Row /\ New \subseteq Row
  BY <1>1 DEF Kept, Live, BoundsInv, TypeOK
<1>3. WithinBounds(e.to, Old)
  BY <1>2, DroppingKeepsBounds DEF BoundsInv, TypeOK
<1>4. IsFiniteSet(New)
  BY <1>3, FS_AddElement DEF WithinBounds
<1>5. Cardinality(New) <= HoldLimit /\ RowBytes(New) <= QueueBytes(e)
  BY DEF Cuts, Fits
<1>6. O(New) \in SUBSET New /\ O(Old) \in SUBSET Old
  OBVIOUS
<1>7. CASE e.to = "machine" /\ IsDurable(e.id)
  <2>1. O(New) = O(Old)
    BY <1>1, <1>7
  <2>2. RowBytes(O(New)) <= SmallBytes
    BY <2>1, <1>3 DEF WithinBounds
  <2>3. QueueBytes(e) = LargeBytes
    BY <1>7 DEF QueueBytes
  <2> HIDE DEF O, Old, New
  <2>4. RowBytes(New) \in Nat
    BY <1>2, <1>4, PartIsSmaller
  <2>5. RowBytes(New) <= IF e.to = "machine" /\ LargeBytes > SmallBytes THEN LargeBytes ELSE SmallBytes
    BY <1>5, <1>7, <2>3, <2>4, BoundAssumption
  <2>6. QED
    BY <1>4, <1>5, <2>2, <2>5 DEF WithinBounds, O, Old, New
<1>8. CASE ~(e.to = "machine" /\ IsDurable(e.id))
  <2>1. QueueBytes(e) = SmallBytes
    BY <1>8 DEF QueueBytes
  <2> HIDE DEF O, Old, New
  <2>2. RowBytes(New) \in Nat /\ RowBytes(O(New)) \in Nat /\ RowBytes(O(New)) <= RowBytes(New)
    BY <1>2, <1>4, <1>6, PartIsSmaller
  <2>3. RowBytes(O(New)) <= SmallBytes
    BY <1>5, <2>1, <2>2, BoundAssumption
  <2>4. RowBytes(New) <= IF e.to = "machine" /\ LargeBytes > SmallBytes THEN LargeBytes ELSE SmallBytes
    BY <1>5, <2>1, <2>2, BoundAssumption
  <2>5. QED
    BY <1>4, <1>5, <2>3, <2>4 DEF WithinBounds, O, Old, New
<1>9. QED
  BY <1>7, <1>8

\* A step keeps both mailboxes within their bounds.
LEMMA BoundsStep == ASSUME BoundsInv, TypeOK', [Next]_vars PROVE BoundsInv'
<1> SUFFICES ASSUME NEW q \in Role PROVE WithinBounds(q, queue'[q])
  BY DEF BoundsInv, WithinBounds
<1>a. ASSUME queue'[q] \subseteq queue[q] PROVE WithinBounds(q, queue'[q])
  BY <1>a, DroppingKeepsBounds DEF BoundsInv, TypeOK
<1>1. ASSUME NEW d \in Device, NEW e \in Envelope, StoreAndForward(d, e)
      PROVE  WithinBounds(q, queue'[q])
  <2>1. CASE q # e.to
    BY <1>1, <1>a, <2>1, StoreFacts DEF BoundsInv
  <2>2. CASE q = e.to
    <3>1. PICK c \in 0 .. arrivals :
            /\ c \in Cuts(e)
            /\ queue' = [Pruned(d, e, {e.to}) EXCEPT ![e.to] =
                            Kept(Live(queue[e.to]), c) \cup {RowFor(e)}]
      BY <1>1 DEF StoreAndForward, FirstCut
    <3>2. Pruned(d, e, {e.to}) \in [Role -> SUBSET Row]
      BY <2>2, PrunedFacts DEF BoundsInv
    <3>3. queue'[q] = Kept(Live(queue[e.to]), c) \cup {RowFor(e)}
      BY <2>2, <3>1, <3>2
    <3>4. QED
      BY <2>2, <3>1, <3>3, StoringKeepsBounds
  <2>3. QED
    BY <2>1, <2>2
<1>2. ASSUME NEW d \in Device, NEW e \in Envelope, Message(d, e), ~StoreAndForward(d, e)
      PROVE  WithinBounds(q, queue'[q])
  BY <1>2, <1>a, UnstoredFacts DEF BoundsInv
<1>3. ASSUME NEW d \in Device, NEW id \in DeliveryId, Acknowledge(d, id)
      PROVE  WithinBounds(q, queue'[q])
  <2>1. queue'[q] \subseteq queue[q]
    BY <1>3 DEF Acknowledge, Live, BoundsInv, TypeOK
  <2>2. QED
    BY <1>a, <2>1
<1>4. CASE queue' = queue
  BY <1>4, <1>a
<1>5. QED
  BY <1>1, <1>2, <1>3, <1>4, QuietFacts DEF vars

\* An empty mailbox is within its bounds.
LEMMA EmptyWithinBounds == ASSUME NEW q \in Role PROVE WithinBounds(q, {})
<1>1. RowBytes({}) = 0
  <2>1. PICK g : IsSum(g, {}, [r \in {} |-> r.env.bytes]) /\ RowBytes({}) = g[{}]
    BY FS_EmptySet, RowBytesIsSum
  <2>2. QED
    BY <2>1 DEF IsSum
<1>2. {x \in {} : ~IsDurable(x.env.id)} = {}
  OBVIOUS
<1>3. QED
  BY <1>1, <1>2, FS_EmptySet, BoundAssumption DEF WithinBounds

\* The Node room's mailboxes never exceed their budgets, for any limits, row
\* sizes and number of devices: rows are evicted before the new one is stored,
\* and a submission never makes room for more ordinary traffic.
THEOREM MailboxesAreBounded == Spec => []MailboxBounds
<1>1. Init => BoundsInv
  <2> SUFFICES ASSUME Init PROVE BoundsInv
    OBVIOUS
  <2>1. \A q \in Role : queue[q] = {}
    BY DEF Init
  <2>2. TypeOK
    BY DEF Init, TypeOK, Closed, Conn
  <2>3. QED
    BY <2>1, <2>2, EmptyWithinBounds DEF BoundsInv
<1>2. BoundsInv /\ TypeOK' /\ [Next]_vars => BoundsInv'
  BY BoundsStep
<1>3. BoundsInv => MailboxBounds
  BY DEF BoundsInv, WithinBounds, MailboxBounds
<1>4. QED
  BY <1>1, <1>2, <1>3, TypeCorrect, PTL DEF Spec

-----------------------------------------------------------------------------
(* The Worker *)

(* What one frame does *)

\* A flush deletes an array of expired rows, and nothing else.
LEMMA FlushedFacts ==
    ASSUME TypeOK, NEW d \in Device, NEW e \in Envelope
    PROVE  /\ Flushed(d, e) \in [Role -> SUBSET Row]
           /\ \A q \in Role : /\ Live(queue[q]) \subseteq Flushed(d, e)[q]
                              /\ Flushed(d, e)[q] \subseteq queue[q]
<1>1. e.from \in Role
  BY EnvelopeAssumption
<1>2. \A q \in Role : Live(queue[q]) \subseteq queue[q] /\ queue[q] \subseteq Row
  BY DEF Live, TypeOK
<1>3. QED
  BY <1>1, <1>2 DEF Flushed, TypeOK

\* Sockets stay typed.
LEMMA HelloType ==
    ASSUME TypeOK, NEW d \in Device, NEW e \in Envelope,
           Hello(d, e, "open") \/ Hello(d, e, "closing")
    PROVE  conn' \in [Device -> Conn]
<1>1. e.from \in Role
  BY EnvelopeAssumption
<1>2. [phase |-> "open", role |-> e.from] \in Conn /\ [phase |-> "closing", role |-> e.from] \in Conn
  BY <1>1 DEF Conn
<1>3. QED
  BY <1>2 DEF Hello, TypeOK

\* What is sent are envelopes.
LEMMA SendType ==
    ASSUME TypeOK, NEW d \in Device, NEW e \in Envelope, NEW T, Send(d, e, T)
    PROVE  wire' \in [Device -> SUBSET Envelope]
<1>1. e.from \in Role
  BY EnvelopeAssumption
<1>2. Snapshot(d, e) \subseteq Row
  BY <1>1 DEF Snapshot, Live, TypeOK
<1>3. Flush(d, e) \subseteq Envelope
  BY <1>2 DEF Flush, Row
<1>4. QED
  BY <1>3 DEF Send, TypeOK

\* A frame that is stored: its row is alive and in, protected rows stay.
LEMMA QueueFacts ==
    ASSUME TypeOK, NEW d \in Device, NEW e \in Envelope, QueueAndSend(d, e)
    PROVE  /\ e.to \in Role
           /\ RowFor(e) \in queue'[e.to]
           /\ queue' \in [Role -> SUBSET Row]
           /\ \A q \in Role : /\ queue'[q] \subseteq queue[q] \cup {RowFor(e)}
                              /\ \A r \in Live(queue[q]) : IsDurable(r.env.id) => r \in queue'[q]
<1>1. e.to \in Role
  BY ReliableRole DEF QueueAndSend, Queueable
<1>2. PICK c : queue' = [Flushed(d, e) EXCEPT ![e.to] = Stored(e, c)]
  BY DEF QueueAndSend
<1>3. /\ Stored(e, c) \subseteq Live(queue[e.to]) \cup {RowFor(e)}
      /\ RowFor(e) \in Stored(e, c)
      /\ \A r \in Live(queue[e.to]) : IsDurable(r.env.id) => r \in Stored(e, c)
  BY DEF Stored, Kept
<1>4. Live(queue[e.to]) \subseteq queue[e.to] /\ queue[e.to] \subseteq Row
  BY <1>1 DEF Live, TypeOK
<1>5. RowFor(e) \in Row
  BY RowForType
<1>6. /\ queue'[e.to] = Stored(e, c)
      /\ \A q \in Role \ {e.to} : queue'[q] = Flushed(d, e)[q]
      /\ queue' \in [Role -> SUBSET Row]
  BY <1>1, <1>2, <1>3, <1>4, <1>5, FlushedFacts
<1>7. QED
  BY <1>1, <1>3, <1>4, <1>6, FlushedFacts

\* A frame that is not stored only flushes.
LEMMA UnqueuedFacts ==
    ASSUME TypeOK, NEW d \in Device, NEW e \in Envelope,
           WebSocketMessage(d, e), ~QueueAndSend(d, e)
    PROVE  queue' = Flushed(d, e)
  BY DEF WebSocketMessage, SendLive, SendDuplicate, QueueFull, StorageFails, DropUnqueued, Oversize

\* What every frame leaves alone, and what it sends.
LEMMA FrameFacts ==
    ASSUME TypeOK, NEW d \in Device, NEW e \in Envelope, WebSocketMessage(d, e)
    PROVE  /\ UNCHANGED <<now, inbox, replay>>
           /\ Accepts(d, e)
           /\ Hello(d, e, "open") \/ Hello(d, e, "closing")
           /\ Send(d, e, Targets(d, e)) \/ Send(d, e, {})
           /\ arrivals' \in Nat /\ faults' \in Nat
           /\ promised \subseteq promised'
  BY DEF WebSocketMessage, SendLive, QueueAndSend, SendDuplicate, QueueFull, StorageFails,
         DropUnqueued, Oversize, Queueable, Promises, TypeOK

\* A new receipt is for a protected row on record, and carries its expiry.
LEMMA ReceiptFacts ==
    ASSUME TypeOK, NEW d \in Device, NEW e \in Envelope, WebSocketMessage(d, e),
           NEW p \in promised' \ promised
    PROVE  /\ p \in Promise
           /\ \E r \in queue'["machine"] :
                p = [id |-> r.env.id, expiresAt |-> r.expiresAt] /\ IsDurable(r.env.id)
<1>1. CASE QueueAndSend(d, e)
  <2>1. /\ p = [id |-> e.id, expiresAt |-> RowExpiry(e)]
        /\ e.to = "machine" /\ IsDurable(e.id)
    BY <1>1 DEF QueueAndSend, Promises, EarnsReceipt
  <2>2. RowFor(e) \in queue'["machine"]
    BY <1>1, <2>1, QueueFacts
  <2>3. RowFor(e).env = e /\ RowFor(e).expiresAt = RowExpiry(e) /\ RowExpiry(e) \in Nat
    BY RowForType
  <2>4. QED
    BY <2>1, <2>2, <2>3 DEF Promise, IsDurable
<1>2. CASE SendDuplicate(d, e)
  <2>1. PICK r \in Live(queue[e.to]) : r.env.id = e.id /\ Promises(d, e, r.expiresAt)
    BY <1>2 DEF SendDuplicate
  <2>2. /\ p = [id |-> e.id, expiresAt |-> r.expiresAt]
        /\ e.to = "machine" /\ IsDurable(e.id)
    BY <2>1 DEF Promises, EarnsReceipt
  <2>3. r \in queue'["machine"]
    BY <1>2, <2>1, <2>2, RoleFacts, FlushedFacts DEF SendDuplicate
  <2>4. r.expiresAt \in Nat
    BY <2>1, <2>2, RoleFacts DEF Live, TypeOK, Row
  <2>5. QED
    BY <2>1, <2>2, <2>3, <2>4 DEF Promise, IsDurable
<1>3. QED
  BY <1>1, <1>2 DEF WebSocketMessage, SendLive, QueueFull, StorageFails, DropUnqueued, Oversize

-----------------------------------------------------------------------------
(* Type correctness *)

\* Other steps are steps of NodeRoom's sockets, readers, restarts and clock.
LEMMA SharedStep ==
    ASSUME WorkerNext,
           ~\E d \in Device : \E e \in Envelope : WebSocketMessage(d, e),
           ~\E d \in Device : \E id \in DeliveryId : AcknowledgeRow(d, id)
    PROVE  \/ \E d \in Device : \E e \in Envelope : Deliver(d, e)
           \/ \E d \in Device : SocketStep(d)
           \/ Restart
           \/ Tick
  BY DEF WorkerNext, AcceptWebSocket, SocketStep

\* Every reachable state of the Worker's room is well typed.
THEOREM WorkerTypeCorrect == WorkerSpec => []TypeOK
<1>1. Init => TypeOK
  BY DEF Init, TypeOK, Closed, Conn
<1>2. TypeOK /\ [WorkerNext]_vars => TypeOK'
  <2> SUFFICES ASSUME TypeOK, [WorkerNext]_vars PROVE TypeOK'
    OBVIOUS
  <2>1. ASSUME NEW d \in Device, NEW e \in Envelope, WebSocketMessage(d, e) PROVE TypeOK'
    <3>1. queue' \in [Role -> SUBSET Row]
      BY <2>1, QueueFacts, UnqueuedFacts, FlushedFacts
    <3>2. conn' \in [Device -> Conn]
      BY <2>1, FrameFacts, HelloType
    <3>3. wire' \in [Device -> SUBSET Envelope]
      BY <2>1, FrameFacts, SendType
    <3>4. promised' \subseteq Promise
      BY <2>1, ReceiptFacts DEF TypeOK
    <3>5. UNCHANGED <<now, inbox, replay>> /\ arrivals' \in Nat /\ faults' \in Nat
      BY <2>1, FrameFacts
    <3>6. QED
      BY <3>1, <3>2, <3>3, <3>4, <3>5 DEF TypeOK
  <2>2. ASSUME NEW d \in Device, NEW id \in DeliveryId, AcknowledgeRow(d, id) PROVE TypeOK'
    <3>1. conn[d].role \in Role
      BY <2>2 DEF AcknowledgeRow, TypeOK, Conn
    <3>2. QED
      BY <2>2, <3>1 DEF AcknowledgeRow, TypeOK
  <2>3. CASE UNCHANGED vars
    BY <2>3, TypeStep
  <2>4. CASE \/ \E d \in Device : \E e \in Envelope : Deliver(d, e)
             \/ \E d \in Device : SocketStep(d)
             \/ Restart
             \/ Tick
    <3>1. Next
      BY <2>4 DEF Next
    <3>2. QED
      BY <3>1, TypeStep
  <2>5. QED
    BY <2>1, <2>2, <2>3, <2>4, SharedStep
<1>3. QED
  BY <1>1, <1>2, PTL DEF WorkerSpec

-----------------------------------------------------------------------------
(* The room implements Submissions *)

\* The Worker's room implements Submissions: a stored submission is held until
\* it expires or is read, and receipts are for what is held, although writes
\* fail, arrays are rewritten whole, and the object restarts.
THEOREM WorkerImplementsSubmissions == WorkerSpec => ImplementsSubmissions
<1>1. TypeOK /\ [WorkerNext]_vars => [Promised!Next]_(Promised!vars)
  <2> SUFFICES ASSUME TypeOK, WorkerNext PROVE Promised!Next
    BY RoomStutters
  <2>1. ASSUME NEW d \in Device, NEW e \in Envelope, WebSocketMessage(d, e) PROVE Promised!Next
    <3>1. /\ UNCHANGED <<now, inbox>>
          /\ promised \subseteq promised'
      BY <2>1, FrameFacts
    <3>2. \A r \in queue["machine"] \ queue'["machine"] :
            r.expiresAt <= now \/ ~IsDurable(r.env.id) \/ Delivered(r.env.id)
      <4> SUFFICES ASSUME NEW r \in queue["machine"] \ queue'["machine"], IsDurable(r.env.id)
                   PROVE  r.expiresAt <= now
        OBVIOUS
      <4>1. r \notin Live(queue["machine"])
        BY <2>1, RoleFacts, QueueFacts, UnqueuedFacts, FlushedFacts
      <4>2. r.expiresAt \in Nat /\ now \in Nat
        BY RoleFacts DEF TypeOK, Row
      <4>3. QED
        BY <4>1, <4>2 DEF Live
    <3>3. \A r \in queue'["machine"] \ queue["machine"] :
            /\ r = RowFor(e)
            /\ RowFor(e).expiresAt \in Nat
            /\ RowFor(e).expiresAt > now
      <4>1. RowFor(e).expiresAt \in Nat /\ RowFor(e).expiresAt > now
        BY <2>1, FrameFacts, FreshRow DEF Accepts
      <4>2. queue'["machine"] \subseteq queue["machine"] \cup {RowFor(e)}
        BY <2>1, RoleFacts, QueueFacts, UnqueuedFacts, FlushedFacts
      <4>3. QED
        BY <4>1, <4>2
    <3>4. \A p \in promised' \ promised : p \in Held'
      BY <2>1, ReceiptFacts DEF Held, IsDurable
    <3>5. QED
      BY <3>1, <3>2, <3>3, <3>4, MailboxStep DEF Promised!Next
  <2>2. ASSUME NEW d \in Device, NEW id \in DeliveryId, AcknowledgeRow(d, id) PROVE Promised!Next
    <3>1. UNCHANGED <<now, inbox, promised>> /\ Delivered(id)
      BY <2>2 DEF AcknowledgeRow, Delivered
    <3>2. /\ queue'["machine"] \subseteq queue["machine"]
          /\ \A r \in queue["machine"] \ queue'["machine"] : r.env.id = id
      BY <2>2, RoleFacts DEF AcknowledgeRow, Leaves, TypeOK
    <3>3. QED
      BY <3>1, <3>2, MailboxStep DEF Promised!Next
  <2>3. ASSUME NEW d \in Device, NEW e \in Envelope, Deliver(d, e) PROVE Promised!Next
    <3>1. UNCHANGED <<queue, promised, now>> /\ \A x \in Device : inbox[x] \subseteq inbox'[x]
      BY <2>3 DEF Deliver, TypeOK
    <3>2. QED
      BY <3>1, QuietStep
  <2>4. ASSUME \/ \E d \in Device : SocketStep(d)
               \/ Restart
               \/ Tick
        PROVE  Promised!Next
    <3>1. /\ UNCHANGED <<queue, promised, inbox>>
          /\ now' = now \/ now' = now + 1
      BY <2>4 DEF SocketStep, Connect, ReplayNext, PolicyClose, FinishClose, LoseConnection,
                  Restart, Tick
    <3>2. QED
      BY <3>1, QuietStep
  <2>5. QED
    BY <2>1, <2>2, <2>3, <2>4, SharedStep
<1>2. QED
  BY <1>1, EmptyRoom, WorkerTypeCorrect, PTL DEF WorkerSpec, ImplementsSubmissions, Promised!Spec

\* A submission with a storage receipt stays in the Worker's machine array until
\* its promised expiry or until an addressee has read it, whatever writes fail
\* (room.js webSocketMessage, submissionReceipts.js).
THEOREM WorkerReceiptsAreDurable == WorkerSpec => []ReceiptDurability
<1>1. ASSUME TypeOK, Promised!ReceiptsHold PROVE ReceiptDurability
  <2> SUFFICES ASSUME NEW p \in promised, ~(p.expiresAt <= now), ~Delivered(p.id)
               PROVE  \E r \in queue["machine"] : r.env.id = p.id /\ r.expiresAt >= p.expiresAt
    BY DEF ReceiptDurability
  <2>1. p \in Held
    BY <1>1 DEF Promised!ReceiptsHold
  <2>2. PICK r \in queue["machine"] : p = [id |-> r.env.id, expiresAt |-> r.expiresAt]
    BY <2>1 DEF Held
  <2>3. p.expiresAt \in Nat
    BY <1>1 DEF TypeOK, Promise
  <2>4. QED
    BY <2>2, <2>3
<1>2. QED
  BY <1>1, WorkerTypeCorrect, WorkerImplementsSubmissions, ReceiptsAreGood, PTL

-----------------------------------------------------------------------------
(* Limits *)

\* What one mailbox's array looks like.  Its rows are finite, which gives its
\* count and its sum a meaning.
FitsArray(rows) ==
    /\ IsFiniteSet(rows)
    /\ Retained(rows)
    /\ \A x, y \in rows : x.env.id = y.env.id => x = y

\* Both arrays fit.
ArrayInv == TypeOK /\ \A q \in Role : FitsArray(queue[q])

\* Dropping rows keeps an array fitting.
LEMMA DroppingKeepsFit ==
    ASSUME NEW S \in SUBSET Row, FitsArray(S), NEW T \in SUBSET S
    PROVE  FitsArray(T)
<1>1. IsFiniteSet(S) /\ Cardinality(S) <= HoldLimit /\ RowBytes(S) <= SmallBytes
  BY DEF FitsArray, Retained
<1>2. /\ IsFiniteSet(T)
      /\ Cardinality(T) \in Nat /\ Cardinality(S) \in Nat /\ Cardinality(T) <= Cardinality(S)
      /\ RowBytes(T) \in Nat /\ RowBytes(S) \in Nat /\ RowBytes(T) <= RowBytes(S)
  BY <1>1, PartIsSmaller
<1>3. Cardinality(T) <= HoldLimit /\ RowBytes(T) <= SmallBytes
  BY <1>1, <1>2, BoundAssumption
<1>4. QED
  BY <1>2, <1>3 DEF FitsArray, Retained

\* The array written for a new delivery fits.
LEMMA StoringKeepsFit ==
    ASSUME ArrayInv, NEW e \in Envelope, e.to \in Role, ~IsDuplicate(e), NEW c \in WorkerCuts(e)
    PROVE  FitsArray(Stored(e, c))
<1> DEFINE Old == Kept(Live(queue[e.to]), c)
<1>1. RowFor(e).env.id = e.id
  BY RowForType DEF ArrayInv
<1>2. Old \subseteq Live(queue[e.to]) /\ Old \subseteq queue[e.to] /\ queue[e.to] \subseteq Row
  BY DEF Kept, Live, ArrayInv, TypeOK
<1>3. FitsArray(Old)
  BY <1>2, DroppingKeepsFit DEF ArrayInv
<1>4. Stored(e, c) = Old \cup {RowFor(e)}
  BY DEF Stored
<1>5. Retained(Stored(e, c))
  BY <1>4 DEF WorkerCuts
<1>6. \A r \in Old : r.env.id # e.id
  BY <1>2 DEF IsDuplicate
<1> HIDE DEF Old
<1>7. IsFiniteSet(Stored(e, c))
  BY <1>3, <1>4, FS_AddElement DEF FitsArray
<1>8. \A x, y \in Stored(e, c) : x.env.id = y.env.id => x = y
  BY <1>1, <1>3, <1>4, <1>6 DEF FitsArray
<1>9. QED
  BY <1>5, <1>7, <1>8 DEF FitsArray

\* A step keeps both arrays fitting.
LEMMA ArrayStep == ASSUME ArrayInv, TypeOK', [WorkerNext]_vars PROVE ArrayInv'
<1> SUFFICES ASSUME NEW q \in Role PROVE FitsArray(queue'[q])
  BY DEF ArrayInv, FitsArray, Retained
<1>a. ASSUME queue'[q] \subseteq queue[q] PROVE FitsArray(queue'[q])
  BY <1>a, DroppingKeepsFit DEF ArrayInv, TypeOK
<1>1. ASSUME NEW d \in Device, NEW e \in Envelope, QueueAndSend(d, e) PROVE FitsArray(queue'[q])
  <2>1. e.to \in Role /\ ~IsDuplicate(e)
    BY <1>1, QueueFacts DEF ArrayInv, QueueAndSend
  <2>2. PICK c \in WorkerCuts(e) : queue' = [Flushed(d, e) EXCEPT ![e.to] = Stored(e, c)]
    BY <1>1 DEF QueueAndSend
  <2>3. /\ Flushed(d, e) \in [Role -> SUBSET Row]
        /\ Flushed(d, e)[q] \subseteq queue[q]
    BY FlushedFacts DEF ArrayInv
  <2>4. CASE q = e.to
    <3>1. queue'[q] = Stored(e, c)
      BY <2>2, <2>3, <2>4
    <3>2. QED
      BY <2>1, <3>1, StoringKeepsFit
  <2>5. CASE q # e.to
    <3>1. queue'[q] = Flushed(d, e)[q]
      BY <2>2, <2>3, <2>5
    <3>2. QED
      BY <1>a, <2>3, <3>1
  <2>6. QED
    BY <2>4, <2>5
<1>2. ASSUME NEW d \in Device, NEW e \in Envelope, WebSocketMessage(d, e), ~QueueAndSend(d, e)
      PROVE  FitsArray(queue'[q])
  BY <1>2, <1>a, UnqueuedFacts, FlushedFacts DEF ArrayInv
<1>3. ASSUME NEW d \in Device, NEW id \in DeliveryId, AcknowledgeRow(d, id)
      PROVE  FitsArray(queue'[q])
  <2>1. queue'[q] \subseteq queue[q]
    BY <1>3 DEF AcknowledgeRow, ArrayInv, TypeOK
  <2>2. QED
    BY <1>a, <2>1
<1>4. CASE queue' = queue
  BY <1>4, <1>a
<1>5. ASSUME \/ \E d \in Device : \E e \in Envelope : Deliver(d, e)
             \/ \E d \in Device : SocketStep(d)
             \/ Restart
             \/ Tick
      PROVE  queue' = queue
  BY <1>5 DEF Deliver, SocketStep, Connect, ReplayNext, PolicyClose, FinishClose,
              LoseConnection, Restart, Tick
<1>6. QED
  BY <1>1, <1>2, <1>3, <1>4, <1>5, SharedStep DEF vars

\* A mailbox of the Worker always fits the one value it is stored in, with no
\* delivery twice, whatever frames arrive and whichever of its writes fail.
THEOREM ArraysAreBounded == WorkerSpec => []ArrayBounds
<1>1. Init => ArrayInv
  <2> SUFFICES ASSUME Init PROVE ArrayInv
    OBVIOUS
  <2>1. \A q \in Role : queue[q] = {}
    BY DEF Init
  <2>2. TypeOK
    BY DEF Init, TypeOK, Closed, Conn
  <2>3. FitsArray({})
    BY RoleFacts, EmptyWithinBounds, BoundAssumption DEF FitsArray, Retained, WithinBounds
  <2>4. QED
    BY <2>1, <2>2, <2>3 DEF ArrayInv
<1>2. ArrayInv /\ TypeOK' /\ [WorkerNext]_vars => ArrayInv'
  BY ArrayStep
<1>3. ArrayInv => ArrayBounds
  BY DEF ArrayInv, FitsArray, Retained, ArrayBounds
<1>4. QED
  BY <1>1, <1>2, <1>3, WorkerTypeCorrect, PTL DEF WorkerSpec
=============================================================================
