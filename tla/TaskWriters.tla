----------------------------- MODULE TaskWriters ----------------------------
(***************************************************************************)
(* The task jobs of a room with their delegated writers.  The room's owner *)
(* grants a writer the right to upload jobs for one recipient until an     *)
(* expiry, and may revoke it.  A writer's upload is authorised before its  *)
(* body is read: the grant may be revoked, expire, be purged or be issued  *)
(* anew while the body is awaited.  Grants are read and changed in one     *)
(* transaction each; a job table step is one of TaskJobs.                  *)
(***************************************************************************)
EXTENDS TaskJobs

CONSTANTS
    Writer,         \* identities of writers
    NoWriter,       \* a job the owner stored; an absent grant or upload
    OwnerBody,      \* the bodies the room's owner uploads itself
    Grant,          \* grants an owner may issue: [id, recipient, tokenHash, expiresAt]
    GrantLifetime,  \* the 30 days of a grant
    GrantLimit,     \* the 128 grants of a room
    Never           \* not revoked

\* A grant on record, and an upload whose body is awaited, with the row that
\* authorised it.
GrantRow == [grant : Grant, revokedAt : Nat \cup {Never}]
Upload == [row : GrantRow, id : JobId]

ASSUME GrantAssumption ==
    /\ \A g \in Grant : g.id \in Writer /\ g.expiresAt \in Nat
    /\ GrantLifetime \in Nat /\ GrantLimit \in Nat
    /\ OwnerBody \subseteq Body
    /\ NoWriter \notin Writer \cup GrantRow \cup Upload
    /\ Never \notin Nat

VARIABLES
    writers,   \* persisted: writers[w], the row of task_job_writers
    reports,   \* persisted: writers with a resource report
    upload,    \* in memory: the upload that awaits its body
    author     \* author[i]: the row that authorised the upload of job i (history)

grantVars == <<writers, reports, upload, author>>
writerVars == <<vars, grantVars>>

WriterTypeOK ==
    /\ TypeOK
    /\ writers \in [Writer -> GrantRow \cup {NoWriter}]
    /\ \A w \in Writer : writers[w] # NoWriter => writers[w].grant.id = w
    /\ reports \subseteq Writer
    /\ upload \in Upload \cup {NoWriter}
    /\ author \in [JobId -> GrantRow \cup {NoWriter}]

WriterInit ==
    /\ Init
    /\ writers = [w \in Writer |-> NoWriter]
    /\ reports = {}
    /\ upload = NoWriter
    /\ author = [i \in JobId |-> NoWriter]

-----------------------------------------------------------------------------
(* Grants *)

\* writerRetainedUntil: seven days after the end of the grant, by expiry or
\* by revocation.
RetainedUntil(row) ==
    Retention + IF row.revokedAt # Never /\ row.revokedAt < row.grant.expiresAt
                THEN row.revokedAt ELSE row.grant.expiresAt

\* authorize() for new work.
Usable(row) == row # NoWriter /\ row.revokedAt = Never /\ row.grant.expiresAt > now

Lapsed == {w \in Writer : writers[w] # NoWriter /\ RetainedUntil(writers[w]) <= now}

OnRecord == {w \in Writer : writers[w] # NoWriter}

\* PUT of a grant under a new identity: rows past their retention go first.
\* Under an identity on record the request is answered and changes nothing.
PutGrant(g) ==
    /\ g.expiresAt > now
    /\ g.expiresAt <= now + GrantLifetime
    /\ writers[g.id] = NoWriter
    /\ writers' = [w \in Writer |->
          IF w = g.id /\ Cardinality(OnRecord \ Lapsed) < GrantLimit
          THEN [grant |-> g, revokedAt |-> Never]
          ELSE IF w \in Lapsed THEN NoWriter ELSE writers[w]]
    /\ reports' = reports \ Lapsed
    /\ UNCHANGED <<vars, upload, author>>

\* Mutant: the report of a revoked writer stays.
ReportsAfterKept(w) == reports

ReportsAfter(w) == reports \ {w}

\* DELETE of a grant.
Revoke(w) ==
    /\ writers' = [writers EXCEPT ![w] =
          IF @ # NoWriter /\ @.revokedAt = Never THEN [@ EXCEPT !.revokedAt = now] ELSE @]
    /\ reports' = ReportsAfter(w)
    /\ UNCHANGED <<vars, upload, author>>

\* PUT of an encrypted resource report by the room's owner.
Report(w) ==
    /\ Usable(writers[w])
    /\ reports' = reports \cup {w}
    /\ UNCHANGED <<vars, writers, upload, author>>

-----------------------------------------------------------------------------
(* Jobs of writers *)

Own(w, i) == job[i] # NoJob /\ job[i].body.writerId = w

\* A writer's PUT: authorised, its job looked up (which may persist an
\* expiry), its body awaited.
UploadBegin(w, i) ==
    /\ upload = NoWriter
    /\ Usable(writers[w])
    /\ job[i] = NoJob \/ Own(w, i)
    /\ upload' = [row |-> writers[w], id |-> i]
    /\ Read
    /\ UNCHANGED <<writers, reports, author>>

\* Mutant: a job may outlive the grant it was stored under.
WithinRecipient(row, b) ==
    /\ b.writerId = row.grant.id
    /\ b.recipient = row.grant.recipient

\* The body names the granted recipient and ends with the grant at the latest.
Within(row, b) ==
    /\ b.writerId = row.grant.id
    /\ b.recipient = row.grant.recipient
    /\ b.expiresAt <= row.grant.expiresAt

\* The body has come and the job is stored, or refused for capacity.
UploadEnd(b) ==
    /\ upload # NoWriter
    /\ Within(upload.row, b)
    /\ \/ Put(upload.id, b) /\ author' = [author EXCEPT ![upload.id] = upload.row]
       \/ PutRefused(upload.id, b) /\ UNCHANGED author
    /\ upload' = NoWriter
    /\ UNCHANGED <<writers, reports>>

\* The body is refused (400, 403, 409), repeats a stored job or never comes.
UploadDropped ==
    /\ upload # NoWriter
    /\ upload' = NoWriter
    /\ UNCHANGED <<vars, writers, reports, author>>

WriterCancel(w, i) ==
    /\ Usable(writers[w])
    /\ Own(w, i)
    /\ Cancel(i)
    /\ UNCHANGED grantVars

\* The owner stores jobs of its own; receivers, the owner and
\* maintenance do with all jobs what TaskJobs says.
OwnerPut(i, b) ==
    /\ \/ Put(i, b) /\ author' = [author EXCEPT ![i] = NoWriter]
       \/ PutRefused(i, b) /\ UNCHANGED author
    /\ UNCHANGED <<writers, reports, upload>>

JobStep ==
    /\ \/ \E i \in JobId, c \in ClaimId : Claim(i, c) \/ ClaimAgain(i, c)
       \/ \E i \in JobId : Cancel(i)
       \/ \E i \in JobId, c \in ClaimId, s \in {"completed", "failed"} : Finish(i, c, s)
       \/ Read
       \/ Purge
       \/ Tick
    /\ UNCHANGED grantVars

WriterNext ==
    \/ \E g \in Grant : PutGrant(g)
    \/ \E w \in Writer : Revoke(w) \/ Report(w)
    \/ \E w \in Writer, i \in JobId : UploadBegin(w, i) \/ WriterCancel(w, i)
    \/ \E b \in Body : UploadEnd(b)
    \/ UploadDropped
    \/ \E i \in JobId, b \in OwnerBody : OwnerPut(i, b)
    \/ JobStep

WriterSpec == WriterInit /\ [][WriterNext]_writerVars

-----------------------------------------------------------------------------
(* Properties *)

\* Delegated work starts only under its grant: a job a writer uploaded is
\* claimed for the granted recipient, before the grant expires, and its upload
\* began before the grant was revoked, although the grant may have been
\* revoked, purged or issued anew while the body was awaited or the job was
\* queued (taskDispatch/index.js:10 and :53-58, policy.js claimJob).
StartsWithinGrant ==
    [][\A i \in JobId :
          /\ job[i] # NoJob /\ author[i] # NoWriter
          /\ job[i].state = "queued" /\ job'[i] # NoJob /\ job'[i].state = "accepted"
          => /\ author[i].grant.id = job[i].body.writerId
             /\ author[i].grant.recipient = job[i].body.recipient
             /\ now < author[i].grant.expiresAt
             /\ author[i].revokedAt = Never]_writerVars

\* A resource report is on record only for a grant that is, and that was not
\* revoked: neither a revocation nor the purge of a grant leaves one behind
\* that a later grant of the same identity would show (writers/index.js,
\* writers/node.js revoke and commit).
ReportsOfGrants ==
    \A w \in reports : writers[w] # NoWriter /\ writers[w].revokedAt = Never
=============================================================================
