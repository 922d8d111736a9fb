------------------------------ MODULE TaskJobs ------------------------------
(***************************************************************************)
(* The durable encrypted task jobs of one room: a writer stores a job, a   *)
(* receiver claims and finishes it, the owner may cancel it, the relay     *)
(* expires and finally purges it.  Every operation runs in one             *)
(* transaction of the Node store (BEGIN IMMEDIATE) or of the Durable       *)
(* Object, so each is one action and nothing but their order is open.      *)
(*                                                                         *)
(* A body stands for the immutable request: its envelope, its schedule and *)
(* its acceptance hash.  Two requests with the same fingerprint are the    *)
(* same body.                                                              *)
(***************************************************************************)
EXTENDS Integers, FiniteSets, FiniteSetsExt

CONSTANTS
    JobId,          \* job identities
    Body,           \* job bodies: [tag, notBefore, expiresAt, bytes]
    ClaimId,        \* receiver attempts
    NoClaim,        \* a row without claimId
    NoJob,          \* no row under this identity
    JobTTL,         \* JOB_TTL_MS
    Retention,      \* seven days
    RoomJobBytes,   \* ROOM_JOB_BYTES
    RoomJobLimit,   \* ROOM_JOB_LIMIT
    RoomReceiptLimit, \* ROOM_RECEIPT_LIMIT
    MaxClock        \* bound on the clock

State == {"queued", "accepted", "failed", "completed", "cancelled", "expired"}
Job == [body : Body, state : State, claimId : ClaimId \cup {NoClaim},
        createdAt : Nat, updatedAt : Nat, sealed : BOOLEAN]

ASSUME BodyAssumption ==
    \A b \in Body : b.notBefore \in Nat /\ b.expiresAt \in Nat /\ b.bytes \in Nat

ASSUME NullAssumption == NoClaim \notin ClaimId /\ NoJob \notin Job

ASSUME BoundAssumption ==
    /\ JobTTL \in Nat /\ Retention \in Nat /\ RoomJobBytes \in Nat
    /\ RoomJobLimit \in Nat /\ RoomReceiptLimit \in Nat /\ MaxClock \in Nat

VARIABLES
    now,      \* Date.now()
    job,      \* job[id]: the row of task_jobs, or NoJob
    started,  \* claims the relay granted (history)
    receipts  \* 201 receipts the relay returned (history)

vars == <<now, job, started, receipts>>

Start == [id : JobId, body : Body, claimId : ClaimId]
Receipt == [id : JobId, body : Body]

TypeOK ==
    /\ now \in Nat
    /\ job \in [JobId -> Job \cup {NoJob}]
    /\ started \subseteq Start
    /\ receipts \subseteq Receipt

Init ==
    /\ now = 0
    /\ job = [i \in JobId |-> NoJob]
    /\ started = {}
    /\ receipts = {}

-----------------------------------------------------------------------------
(* Policy *)

\* A request is normalised against the creation time of the row it retries.
ValidBody(b, t) ==
    /\ b.expiresAt > t
    /\ b.expiresAt > b.notBefore
    /\ b.expiresAt - b.notBefore <= JobTTL
    /\ b.expiresAt <= t + JobTTL

RetainsPayload(row) == row.state \in {"queued", "accepted", "failed"}

\* Mutant: a retired row keeps its ciphertext.
RetireJobSealed(row, state, t) == [row EXCEPT !.state = state, !.updatedAt = t]

\* A retired row drops its ciphertext and keeps its routing and fingerprint.
RetireJob(row, state, t) ==
    [row EXCEPT !.state = state, !.updatedAt = t, !.sealed = FALSE]

\* Mutant: a job may still start at the instant it expires.
OverdueAfter(row) == row.state = "queued" /\ row.body.expiresAt < now

Overdue(row) == row.state = "queued" /\ row.body.expiresAt <= now

ExpireJob(row) ==
    IF Overdue(row) THEN RetireJob(row, "expired", row.body.expiresAt) ELSE row

ExpireQueued ==
    [i \in JobId |-> IF job[i] = NoJob THEN NoJob ELSE ExpireJob(job[i])]

Rows(jobs) == {i \in JobId : jobs[i] # NoJob}
Active(jobs) == {i \in Rows(jobs) : RetainsPayload(jobs[i])}
PendingBytes(jobs) == MapThenSumSet(LAMBDA i : jobs[i].body.bytes, Active(jobs))

-----------------------------------------------------------------------------
(* Requests.  A refused or repeated request leaves the store as it was. *)

NewJob(b) == [body |-> b, state |-> "queued", claimId |-> NoClaim,
              createdAt |-> now, updatedAt |-> now, sealed |-> TRUE]

\* Mutant: the counts are compared after the fact.
HasCapacityLate(b) ==
    /\ Cardinality(Rows(job)) <= RoomReceiptLimit
    /\ Cardinality(Active(ExpireQueued)) <= RoomJobLimit
    /\ PendingBytes(ExpireQueued) <= RoomJobBytes

HasCapacity(b) ==
    /\ Cardinality(Rows(job)) < RoomReceiptLimit
    /\ Cardinality(Active(ExpireQueued)) < RoomJobLimit
    /\ PendingBytes(ExpireQueued) + b.bytes <= RoomJobBytes

\* PUT of a new identity: stored, 201.
Put(i, b) ==
    /\ job[i] = NoJob
    /\ ValidBody(b, now)
    /\ HasCapacity(b)
    /\ job' = [ExpireQueued EXCEPT ![i] = NewJob(b)]
    /\ receipts' = receipts \cup {[id |-> i, body |-> b]}
    /\ UNCHANGED <<now, started>>

\* PUT refused for capacity, 429: overdue rows have been expired all the same.
PutRefused(i, b) ==
    /\ job[i] = NoJob
    /\ ValidBody(b, now)
    /\ ~HasCapacity(b)
    /\ job' = ExpireQueued
    /\ UNCHANGED <<now, started, receipts>>

\* Mutant: failed work may be claimed again.
ClaimFailedToo(i, c) ==
    /\ job[i] # NoJob
    /\ job[i].state \in {"queued", "failed"}
    /\ job' = [job EXCEPT ![i] =
                [@ EXCEPT !.state = "accepted", !.claimId = c, !.updatedAt = now]]
    /\ started' = started \cup {[id |-> i, body |-> job[i].body, claimId |-> c]}
    /\ UNCHANGED <<now, receipts>>

\* POST claim with a valid proof.  The first claim of a due job wins; the same
\* receiver attempt may repeat it.  Expiry is applied first but saved only with
\* a granted claim, so an overdue row is refused and left in place.
Claim(i, c) ==
    /\ job[i] # NoJob
    /\ LET current == ExpireJob(job[i]) IN
        /\ current.state = "queued"
        /\ current.body.notBefore <= now
        /\ job' = [job EXCEPT ![i] =
                    [current EXCEPT !.state = "accepted", !.claimId = c, !.updatedAt = now]]
        /\ started' = started \cup {[id |-> i, body |-> current.body, claimId |-> c]}
    /\ UNCHANGED <<now, receipts>>

\* A repeated claim by the receiver that holds the job is granted again.
ClaimAgain(i, c) ==
    /\ job[i] # NoJob
    /\ job[i].state = "accepted"
    /\ job[i].claimId = c
    /\ started' = started \cup {[id |-> i, body |-> job[i].body, claimId |-> c]}
    /\ UNCHANGED <<now, job, receipts>>

\* DELETE cancels queued or failed work; an accepted job has left the queue.
Cancel(i) ==
    /\ job[i] # NoJob
    /\ LET current == ExpireJob(job[i]) IN
        /\ current.state \in {"queued", "failed"}
        /\ job' = [job EXCEPT ![i] = RetireJob(current, "cancelled", now)]
    /\ UNCHANGED <<now, started, receipts>>

\* POST finish by the receiver that holds the claim.
Finish(i, c, state) ==
    /\ job[i] # NoJob
    /\ job[i].claimId = c
    /\ job[i].state = "accepted"
    /\ job' = [job EXCEPT ![i] =
                IF state = "completed" THEN RetireJob(@, state, now)
                ELSE [@ EXCEPT !.state = state, !.updatedAt = now]]
    /\ UNCHANGED <<now, started, receipts>>

\* GET, the job list and the offer pump persist expiry as they read.
Read ==
    /\ job' = ExpireQueued
    /\ UNCHANGED <<now, started, receipts>>

-----------------------------------------------------------------------------
(* Maintenance and time *)

LaterOf(x, y) == IF x > y THEN x ELSE y

\* Mutant: retention counts from the last change only.
PurgeableByAge(row) == row.state # "accepted" /\ now > row.updatedAt + Retention

\* Mutant: accepted work is purged like the rest.
PurgeableAnyState(row) == now > LaterOf(row.body.expiresAt, row.updatedAt) + Retention

Purgeable(row) ==
    /\ row.state # "accepted"
    /\ now > LaterOf(row.body.expiresAt, row.updatedAt) + Retention

Purge ==
    /\ job' = [i \in JobId |->
                IF ExpireQueued[i] # NoJob /\ Purgeable(ExpireQueued[i])
                THEN NoJob ELSE ExpireQueued[i]]
    /\ UNCHANGED <<now, started, receipts>>

Tick ==
    /\ now < MaxClock
    /\ now' = now + 1
    /\ UNCHANGED <<job, started, receipts>>

Next ==
    \/ \E i \in JobId, b \in Body : Put(i, b) \/ PutRefused(i, b)
    \/ \E i \in JobId, c \in ClaimId : Claim(i, c) \/ ClaimAgain(i, c)
    \/ \E i \in JobId : Cancel(i)
    \/ \E i \in JobId, c \in ClaimId, s \in {"completed", "failed"} : Finish(i, c, s)
    \/ Read
    \/ Purge
    \/ Tick

Spec == Init /\ [][Next]_vars

-----------------------------------------------------------------------------
(* Properties *)

\* A job never starts twice: for one job identity and body the relay grants at
\* most one receiver attempt, even when the row is cancelled, finished, purged
\* and the writer repeats its request afterwards.
SingleStart ==
    \A x, y \in started : x.id = y.id /\ x.body = y.body => x.claimId = y.claimId

\* The ciphertext is kept exactly while the job may still need it: never lost
\* from work that is queued, claimed or failed, never kept once it is retired.
CiphertextLifetime ==
    \A i \in JobId : job[i] # NoJob => (job[i].sealed <=> RetainsPayload(job[i]))

\* A full queue refuses new work instead of evicting: unresolved jobs, their
\* bytes and the receipt history stay within the room's bounds.
RoomBounds ==
    /\ Cardinality(Rows(job)) <= RoomReceiptLimit
    /\ Cardinality(Active(job)) <= RoomJobLimit
    /\ PendingBytes(job) <= RoomJobBytes

\* A stored job stays on record until the retention after its expiry has
\* passed, and until then an identical retry is still a valid request for it:
\* it is answered with the job's receipt, never stored a second time.
ReceiptOnRecord ==
    \A r \in receipts :
        \/ /\ job[r.id] # NoJob
           /\ job[r.id].body = r.body
           /\ ValidBody(r.body, job[r.id].createdAt)
        \/ now > r.body.expiresAt + Retention

\* Only the receiver's own report ends a claimed job: the relay never expires,
\* cancels, purges or hands to another attempt what a receiver has started.
AcceptedUntilFinished ==
    [][\A i \in JobId :
          job[i] # NoJob /\ job[i].state = "accepted" =>
            /\ job'[i] # NoJob
            /\ job'[i].claimId = job[i].claimId
            /\ job'[i].body = job[i].body
            /\ job'[i].state \in {"accepted", "completed", "failed"}]_vars

\* Work starts only from the queue, inside its schedule: a job that becomes
\* accepted was queued, due and not yet expired in the same instant.
StartsInsideSchedule ==
    [][\A i \in JobId :
          (job'[i] # NoJob /\ job'[i].state = "accepted")
            /\ ~(job[i] # NoJob /\ job[i].state = "accepted") =>
            /\ job[i] # NoJob
            /\ job[i].state = "queued"
            /\ job[i].body.notBefore <= now
            /\ now < job[i].body.expiresAt]_vars
=============================================================================
