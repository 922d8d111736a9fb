---------------------------- MODULE RetainedState ---------------------------
(***************************************************************************)
(* The retained state of one room: the latest encrypted snapshots of its   *)
(* computers, kept for phones that connect later.  A newer revision        *)
(* replaces the frame of its slot; a room at its limits evicts whole       *)
(* groups, those of phones not seen for long first and catalogs last.      *)
(*                                                                         *)
(* Node keeps a row in one SQLite row and replaces in one transaction.     *)
(* The Worker keeps a row as metadata, the chunks of the frame and an      *)
(* entry of the room's index, each written and awaited by itself: a fault  *)
(* between two writes leaves what was written so far.  Its puts run one    *)
(* after the other and reads wait for them, so only a fault shows an       *)
(* unfinished put; a put that waits for its turn has had no effect yet.    *)
(***************************************************************************)
EXTENDS Naturals, Sequences, FiniteSets, FiniteSetsExt, Filters, Deployments

CONSTANTS
    Frames,       \* Frames[r]: frames computers send to deployment r, each with
                  \* its slot, revision, priority, group and size in chunks
    Recipient,    \* Recipient[s]: the phone key a slot belongs to
    Device,       \* keys of phones and computers
    RoomSlots,    \* STATE_ROOM_SLOTS
    RoomBytes,    \* STATE_ROOM_BYTES, in chunks of 60000
    FrameBytes,   \* STATE_FRAME_BYTES, in chunks
    Ttl,          \* STATE_TTL_MS, also the retention of presence
    Lives,        \* lifetimes of frames, at most Ttl
    PresenceLimit,\* the 32 devices of the presence record
    MaxTime,      \* bound: the last instant
    MaxFaults,    \* bound: faults that interrupt a Worker's put
    None          \* no row, no chunk, no group

Slot == DOMAIN Recipient
Frame == UNION {Frames[r] : r \in Runtime}
Chunk == 1..FrameBytes

\* What a put receives, and the rows that may be stored.
Received == [frame : Frame, expiresAt : Nat, savedAt : Nat]
Row == {r \in Received : r.frame.size <= FrameBytes}
Seen == [id : Device, lastSeenAt : Nat]

ASSUME StateAssumption ==
    /\ {RoomSlots, RoomBytes, FrameBytes, Ttl, PresenceLimit} \subseteq Nat \ {0}
    /\ {MaxTime, MaxFaults} \subseteq Nat
    /\ \A s \in Slot : Recipient[s] \in Device
    /\ Lives \subseteq 0..Ttl
    /\ \A f \in Frame :
          /\ f.slot \in Slot
          /\ f.revision \in Nat /\ f.size \in Nat \ {0} /\ f.priority \in 0..3

VARIABLES
    now,       \* the clock
    index,     \* persisted: the slots of the room's index
    meta,      \* persisted: meta[s], the metadata of the row in slot s
    chunk,     \* persisted: chunk[s][i], the frame whose i-th part is stored
    presence,  \* persisted: devices seen, the last one last
    put,       \* in memory: the Worker's put that runs, or None
    faults,    \* number of faults so far (bound)
    cuts       \* cuts[s]: puts a fault cut short in slot s (history)

store == <<index, meta, chunk>>
vars == <<runtime, now, store, presence, put, faults, cuts>>

\* A put between two writes.
Put == [row : Received,            \* what it was called with
        before : SUBSET Row,       \* rows() when it began
        after : SUBSET Row,        \* what retainState() returned
        gone : SUBSET Row,         \* rows it has still to remove
        fresh : SUBSET Row,        \* rows it has still to add
        work : Row \cup {None},    \* the one it has begun to remove or to add
        done : 0..FrameBytes,      \* the chunks of it that are dealt with
        shown : [Slot -> Frame \cup {None}]]  \* what phones read (history)

ASSUME NoneAssumption == None \notin Frame /\ None \notin Received /\ None \notin Put

Running == put # None

TypeOK ==
    /\ runtime \in Runtime
    /\ now \in 1..(MaxTime + 1)
    /\ index \in SUBSET Slot
    /\ meta \in [Slot -> Row \cup {None}]
    /\ chunk \in [Slot -> [Chunk -> Frame \cup {None}]]
    /\ presence \in Seq(Seen)
    /\ Len(presence) <= PresenceLimit
    /\ put \in Put \cup {None}
    /\ faults \in 0..MaxFaults
    /\ cuts \in [Slot -> 0..MaxFaults]
    /\ runtime = "node" => ~Running

Init ==
    /\ runtime \in Runtime
    /\ now = 1
    /\ index = {}
    /\ meta = [s \in Slot |-> None]
    /\ chunk = [s \in Slot |-> [i \in Chunk |-> None]]
    /\ presence = <<>>
    /\ put = None
    /\ faults = 0
    /\ cuts = [s \in Slot |-> 0]

-----------------------------------------------------------------------------
(* retainState: what a room keeps *)

SlotOf(row) == row.frame.slot

SizeOf(row) == row.frame.size

Phone(row) == Recipient[SlotOf(row)]

\* Frames that belong together: a key grant and the snapshots it opens.
GroupOf(row) ==
    <<Phone(row), IF row.frame.group = None THEN SlotOf(row) ELSE row.frame.group>>

GroupsOf(rows) == {{r \in rows : GroupOf(r) = GroupOf(q)} : q \in rows}

\* When the phone was last noted, 0 if not within the retention.
LastSeen(phone) ==
    Max({0} \cup {presence[i].lastSeenAt : i \in
             {j \in DOMAIN presence : presence[j].id = phone
                                      /\ now < presence[j].lastSeenAt + Ttl}})

Bodies(group) == {r \in group : r.frame.priority # 0}

Priority(group) ==
    IF Bodies(group) = {} THEN 2 ELSE Max({r.frame.priority : r \in Bodies(group)})

SavedAt(group) ==
    Max({r.savedAt : r \in IF Bodies(group) = {} THEN group ELSE Bodies(group)})

\* Mutant: catalogs are worth no more than other groups.
RankByPhone(group) ==
    <<0, LastSeen(Phone(CHOOSE r \in group : TRUE)), 4 - Priority(group), SavedAt(group)>>

\* What the eviction sorts by: catalogs last, then the phone seen last, the
\* lower priority number and the newer group stay longer.
Rank(group) ==
    <<IF Priority(group) = 1 THEN 1 ELSE 0,
      LastSeen(Phone(CHOOSE r \in group : TRUE)),
      4 - Priority(group),
      SavedAt(group)>>

Before(g, h) ==
    \E i \in 1..4 : /\ Rank(g)[i] < Rank(h)[i]
                    /\ \A j \in 1..(i - 1) : Rank(g)[j] = Rank(h)[j]

Bytes(rows) == MapThenSumSet(SizeOf, rows)

\* Mutant: a full room takes one more.
FitsOneMore(rows) ==
    /\ Cardinality(rows) <= RoomSlots + 1
    /\ Bytes(rows) <= RoomBytes

Fits(rows) ==
    /\ Cardinality(rows) <= RoomSlots
    /\ Bytes(rows) <= RoomBytes

\* The groups an eviction may remove: the first ones of the order, as few as
\* make the rest fit; groups of equal rank in either order.
Evictions(rows) ==
    {gone \in SUBSET GroupsOf(rows) :
        /\ \A g \in gone, h \in GroupsOf(rows) \ gone : ~Before(h, g)
        /\ Fits(rows \ UNION gone)
        /\ gone = {} \/ \E last \in gone :
              /\ \A g \in gone : ~Before(last, g)
              /\ ~Fits(rows \ UNION (gone \ {last}))}

\* Mutant: a frame sent twice replaces itself.
OutdatedIfOlder(rows, frame) ==
    \E r \in rows : SlotOf(r) = frame.slot /\ r.frame.revision > frame.revision

\* The slot already holds this revision or a later one.
Outdated(rows, frame) ==
    \E r \in rows : SlotOf(r) = frame.slot /\ r.frame.revision >= frame.revision

\* retainState() keeps only what it had for an envelope that is expired, that
\* has no group and is no catalog, that is too large or not new.
Refused(rows, row) ==
    \/ row.expiresAt <= now
    \/ row.frame.priority # 1 /\ row.frame.group = None
    \/ row.frame.size > FrameBytes
    \/ Outdated(rows, row.frame)

Live(rows) == {r \in rows : r.expiresAt > now}

\* The rows that compete for the room when row takes its slot.
Contenders(rows, row) == {r \in Live(rows) : SlotOf(r) # SlotOf(row)} \cup {row}

\* The sets of rows retainState() may return.
RetainState(rows, row) ==
    IF Refused(Live(rows), row) THEN {Live(rows)}
    ELSE {Contenders(rows, row) \ UNION gone : gone \in Evictions(Contenders(rows, row))}

-----------------------------------------------------------------------------
(* The stores *)

Parts(row) == 1..SizeOf(row)

\* The indexed slots whose metadata and chunks are all there.
Complete == {s \in index : meta[s] # None /\ \A i \in Parts(meta[s]) : chunk[s][i] # None}

\* rows()
Rows == {meta[s] : s \in Complete}

\* Slots whose chunks are those of the frame the metadata describes.
Whole == {s \in Complete : \A i \in Parts(meta[s]) : chunk[s][i] = meta[s].frame}

\* What list() has for a phone in each slot, as far as it can be decrypted.
Listed == [s \in Slot |-> IF s \in Whole /\ meta[s].expiresAt > now THEN meta[s].frame ELSE None]

\* NodeRetainedState.put: one transaction.
NodePut(row) ==
    /\ runtime = "node"
    /\ \E after \in RetainState(Rows, row) :
          LET held == {SlotOf(r) : r \in after}
              RowIn(s) == CHOOSE r \in after : SlotOf(r) = s
          IN  /\ index' = held
              /\ meta' = [s \in Slot |-> IF s \in held THEN RowIn(s) ELSE None]
              /\ chunk' = [s \in Slot |-> [i \in Chunk |->
                    IF s \in held /\ i \in Parts(RowIn(s)) THEN RowIn(s).frame ELSE None]]
    /\ UNCHANGED <<runtime, now, presence, put, faults, cuts>>

\* NodeRetainedState.purge, from the minute's maintenance.
NodePurge ==
    /\ runtime = "node"
    /\ index' = {s \in Complete : meta[s].expiresAt > now}
    /\ meta' = [s \in Slot |-> IF s \in index' THEN meta[s] ELSE None]
    /\ chunk' = [s \in Slot |-> [i \in Chunk |-> IF s \in index' THEN chunk[s][i] ELSE None]]
    /\ UNCHANGED <<runtime, now, presence, put, faults, cuts>>

\* Mutant: the row a newer revision replaces is overwritten in place.
ReplacedInPlace(before, after) ==
    {r \in before \ after : \A q \in after : SlotOf(q) # SlotOf(r)}

\* The rows a put removes: evicted, expired or replaced ones.
Replaced(before, after) == before \ after

\* WorkerRetainedState.put up to its first write: what there is is read and
\* the writes are determined.
WorkerPut(row) ==
    /\ runtime = "worker"
    /\ ~Running
    /\ \E after \in RetainState(Rows, row) :
          put' = [row |-> row, before |-> Rows, after |-> after,
                  gone |-> Replaced(Rows, after), fresh |-> after \ Rows,
                  work |-> None, done |-> 0, shown |-> Listed]
    /\ UNCHANGED <<runtime, now, store, presence, faults, cuts>>

\* The put has written all chunks of r, or goes on with the next one.
ChunksDone(r) == put.work = r /\ put.done = SizeOf(r)
NextChunk(r) == put.work \in {None, r} /\ put.done < SizeOf(r)

WriteChunk(r, value) ==
    /\ NextChunk(r)
    /\ chunk' = [chunk EXCEPT ![SlotOf(r)][put.done + 1] = value]
    /\ put' = [put EXCEPT !.work = r, !.done = @ + 1]
    /\ UNCHANGED <<index, meta, cuts>>

\* remove(): the chunks in order, then the metadata, of one row after the other.
RemoveChunk(r) == r \in put.gone /\ WriteChunk(r, None)

RemoveMeta(r) ==
    /\ r \in put.gone /\ ChunksDone(r)
    /\ meta' = [meta EXCEPT ![SlotOf(r)] = None]
    /\ put' = [put EXCEPT !.gone = @ \ {r}, !.work = None, !.done = 0]
    /\ UNCHANGED <<index, chunk, cuts>>

\* The new row, when nothing is left to remove.
AddChunk(r) == put.gone = {} /\ r \in put.fresh /\ WriteChunk(r, r.frame)

AddMeta(r) ==
    /\ put.gone = {} /\ r \in put.fresh /\ ChunksDone(r)
    /\ meta' = [meta EXCEPT ![SlotOf(r)] = r]
    /\ put' = [put EXCEPT !.fresh = @ \ {r}, !.work = None, !.done = 0]
    /\ cuts' = [cuts EXCEPT ![SlotOf(r)] = 0]
    /\ UNCHANGED <<index, chunk>>

\* The last write.
WriteIndex ==
    /\ put.gone = {} /\ put.fresh = {}
    /\ index' = {SlotOf(r) : r \in put.after}
    /\ put' = None
    /\ UNCHANGED <<meta, chunk, cuts>>

\* One awaited write of the put.
WorkerWrite ==
    /\ Running
    /\ \/ \E r \in put.gone : RemoveChunk(r) \/ RemoveMeta(r)
       \/ \E r \in put.fresh : AddChunk(r) \/ AddMeta(r)
       \/ WriteIndex
    /\ UNCHANGED <<runtime, now, presence, faults>>

\* A write fails, or the object is evicted: the rest of the put is not done.
Fault ==
    /\ Running
    /\ faults < MaxFaults
    /\ faults' = faults + 1
    /\ cuts' = [s \in Slot |-> IF \E r \in put.gone \cup put.fresh : SlotOf(r) = s
                               THEN cuts[s] + 1 ELSE cuts[s]]
    /\ put' = None
    /\ UNCHANGED <<runtime, now, store, presence>>

-----------------------------------------------------------------------------
(* Presence and time *)

\* updatePresence at a hello or a close: the device moves to the end, what is
\* past the retention goes, the last PresenceLimit stay.  No event is
\* delivered to a Durable Object while it awaits its storage.
NotePresence(device) ==
    LET others == Filter(presence, {x \in Seen : x.id # device /\ now < x.lastSeenAt + Ttl})
        rows == Append(others, [id |-> device, lastSeenAt |-> now])
    IN  /\ ~Running
        /\ presence' = IF Len(rows) <= PresenceLimit THEN rows
                       ELSE SubSeq(rows, Len(rows) - PresenceLimit + 1, Len(rows))
        /\ UNCHANGED <<runtime, now, store, put, faults, cuts>>

\* A put reads the clock once, before its writes: time passes between puts.
Tick ==
    /\ ~Running
    /\ now <= MaxTime
    /\ now' = now + 1
    /\ UNCHANGED <<runtime, store, presence, put, faults, cuts>>

\* The rows computers may ask to store now.
Arriving == {[frame |-> f, expiresAt |-> now + life, savedAt |-> now] :
                f \in Frames[runtime], life \in Lives}

Next ==
    \/ \E row \in Arriving : NodePut(row)
    \/ NodePurge
    \/ \E row \in Arriving : WorkerPut(row)
    \/ WorkerWrite
    \/ Fault
    \/ \E device \in Device : NotePresence(device)
    \/ Tick

Spec == Init /\ [][Next]_vars

-----------------------------------------------------------------------------
(* Properties *)

\* What phones read in each slot; a read waits for the put that runs.
Shown == IF Running THEN put.shown ELSE Listed

Cache == INSTANCE StateCache WITH shown <- Shown

\* Both stores implement the abstract cache: whatever puts, expiries,
\* evictions and faults do, a slot passes only from a whole frame to a newer
\* one or to nothing, and a put changes no other slot but by evicting it
\* (retainedState/policy.js, node.js put, worker.js put and rows).
ImplementsStateCache == Cache!Spec

\* The Worker never joins the chunks of two frames, or shows a frame under
\* another's metadata, unless two puts of that slot in a row were cut short:
\* the first after it began to delete, the second before its metadata
\* (worker.js put, remove, rows).
TornOnlyAfterTwoCuts == \A s \in Complete : s \in Whole \/ Running \/ cuts[s] >= 2

\* The whole frames that can be read stay within the room's slots and bytes,
\* also after puts that were cut short; a torn one may come on top of them.
RoomLimits ==
    LET rows == {meta[s] : s \in Whole}
    IN  /\ Cardinality(rows) <= RoomSlots
        /\ Bytes(rows) <= RoomBytes

\* What is left of the rows that competed for the room: whole groups, catalogs
\* before all others, and of the rest the phones seen last.
Ordered(all, left) ==
    LET isCatalog(r) == Priority({q \in all : GroupOf(q) = GroupOf(r)}) = 1
    IN  /\ left \subseteq all
        /\ \A r \in all \ left, q \in left :
              /\ GroupOf(q) # GroupOf(r)
              /\ isCatalog(r) => isCatalog(q)
              /\ isCatalog(r) = isCatalog(q) => LastSeen(Phone(r)) <= LastSeen(Phone(q))

\* A completed put leaves what it should of the rows it found and the one it
\* brought.
Evicts ==
    /\ \A row \in Arriving :
          NodePut(row) /\ ~Refused(Live(Rows), row) => Ordered(Contenders(Rows, row), Rows')
    /\ Running /\ ~Running' /\ faults' = faults /\ ~Refused(Live(put.before), put.row) =>
          Ordered(Contenders(put.before, put.row), Rows')

\* In both deployments a put evicts in the order of the policy, although the
\* Worker's takes several writes (policy.js retainState, evictionGroups).
EvictionOrder == [][Evicts]_vars
=============================================================================
