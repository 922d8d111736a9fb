--------------------------- MODULE TaskJobsProofs ---------------------------
(***************************************************************************)
(* Proofs about TaskJobs, and about TaskWriters in front of it, for every  *)
(* set of identities, bodies and attempts and every bound.  SingleStart    *)
(* needs the strengthening JobInv: it says what the row of a job that was  *)
(* once started looks like, or that the job's schedule is over and no row  *)
(* with its body can appear again.                                         *)
(*                                                                         *)
(* A room with writers implements TaskJobs, so what is proved of the job   *)
(* table holds with any number of writers in front of it.  That delegated  *)
(* work starts only under its grant follows from GrantInv: a job carries   *)
(* the bounds of the row that authorised it for as long as it is on        *)
(* record.                                                                 *)
(***************************************************************************)
EXTENDS TaskWriters, FiniteFacts, TLAPS

\* A queued row has not been claimed, and no attempt at it was ever granted.
QueuedIsUnstarted ==
    \A i \in JobId :
        job[i] # NoJob /\ job[i].state = "queued" =>
            \A x \in started : ~(x.id = i /\ x.body = job[i].body)

\* A granted attempt is the one its row names; once the row is gone, the body
\* has expired and no row can hold it again.
StartIsOnRecord ==
    \A x \in started :
        \/ /\ job[x.id] # NoJob
           /\ job[x.id].body = x.body
           /\ job[x.id].claimId = x.claimId
        \/ /\ x.body.expiresAt <= now
           /\ job[x.id] # NoJob => job[x.id].body # x.body

JobInv == TypeOK /\ QueuedIsUnstarted /\ StartIsOnRecord /\ SingleStart

-----------------------------------------------------------------------------
(* What expiry does to a row and to the store *)

\* Expiring a row keeps its type, request and claim, and changes only a queued
\* row, whose ciphertext it drops.
LEMMA ExpireJobFacts ==
    ASSUME NEW row \in Job
    PROVE  /\ ExpireJob(row) \in Job
           /\ ExpireJob(row).body = row.body
           /\ ExpireJob(row).claimId = row.claimId
           /\ ExpireJob(row).createdAt = row.createdAt
           /\ row.state # "queued" => ExpireJob(row) = row
           /\ ExpireJob(row) = row \/ (row.state = "queued" /\ ExpireJob(row).state = "expired"
                                        /\ ExpireJob(row).sealed = FALSE)
  BY BodyAssumption DEF ExpireJob, Overdue, RetireJob, Job, State

\* Expiry applied to the store keeps its type and every identity's row.
LEMMA ExpireQueuedFacts ==
    ASSUME TypeOK
    PROVE  /\ ExpireQueued \in [JobId -> Job \cup {NoJob}]
           /\ \A i \in JobId :
                /\ job[i] = NoJob => ExpireQueued[i] = NoJob
                /\ job[i] # NoJob =>
                    /\ job[i] \in Job
                    /\ ExpireQueued[i] # NoJob
                    /\ ExpireQueued[i] = ExpireJob(job[i])
<1>1. ASSUME NEW i \in JobId, job[i] # NoJob
      PROVE  /\ job[i] \in Job
             /\ ExpireJob(job[i]) \in Job
             /\ ExpireJob(job[i]) # NoJob
  BY <1>1, ExpireJobFacts, NullAssumption DEF TypeOK
<1>2. QED
  BY <1>1 DEF ExpireQueued

\* Seen from outside, expiry keeps every row's request and claim; what is queued
\* afterwards was queued before, and only queued rows change.
LEMMA ExpireKeeps ==
    ASSUME TypeOK
    PROVE  \A i \in JobId :
             /\ ExpireQueued[i] = NoJob <=> job[i] = NoJob
             /\ job[i] # NoJob =>
                 /\ ExpireQueued[i].body = job[i].body
                 /\ ExpireQueued[i].claimId = job[i].claimId
                 /\ ExpireQueued[i].createdAt = job[i].createdAt
                 /\ ExpireQueued[i].state = "queued" => job[i].state = "queued"
                 /\ ExpireQueued[i].state = "accepted" <=> job[i].state = "accepted"
<1> SUFFICES ASSUME NEW i \in JobId, job[i] # NoJob
             PROVE  /\ ExpireQueued[i] # NoJob
                    /\ ExpireQueued[i].body = job[i].body
                    /\ ExpireQueued[i].claimId = job[i].claimId
                    /\ ExpireQueued[i].createdAt = job[i].createdAt
                    /\ ExpireQueued[i].state = "queued" => job[i].state = "queued"
                    /\ ExpireQueued[i].state = "accepted" <=> job[i].state = "accepted"
  BY ExpireQueuedFacts
<1>1. job[i] \in Job /\ ExpireQueued[i] # NoJob /\ ExpireQueued[i] = ExpireJob(job[i])
  BY ExpireQueuedFacts
<1>2. QED
  BY <1>1, ExpireJobFacts

\* A stored job is typed.
LEMMA NewJobType == ASSUME TypeOK, NEW b \in Body PROVE NewJob(b) \in Job /\ NewJob(b) # NoJob
<1>1. NewJob(b) \in Job
  BY DEF NewJob, Job, State, TypeOK
<1>2. QED
  BY <1>1, NullAssumption

-----------------------------------------------------------------------------
(* What each operation on one row does to it *)

\* Only a queued, due, unexpired row can be claimed; the claim keeps its request.
LEMMA ClaimRow ==
    ASSUME TypeOK, NEW i \in JobId, NEW c \in ClaimId, Claim(i, c)
    PROVE  /\ job[i] \in Job /\ job[i] # NoJob /\ job[i].state = "queued"
           /\ job[i].body.notBefore <= now /\ now < job[i].body.expiresAt
           /\ started' = started \cup {[id |-> i, body |-> job[i].body, claimId |-> c]}
           /\ UNCHANGED <<now, receipts>>
           /\ \E row \in Job :
                /\ job' = [job EXCEPT ![i] = row] /\ row # NoJob
                /\ row.body = job[i].body /\ row.createdAt = job[i].createdAt
                /\ row.claimId = c /\ row.state = "accepted" /\ row.sealed = job[i].sealed
<1>1. job[i] \in Job /\ job[i] # NoJob
  BY DEF Claim, TypeOK
<1>2. job[i].state = "queued" /\ ExpireJob(job[i]) = job[i]
  BY <1>1, ExpireJobFacts DEF Claim
<1>3. job[i].body.notBefore <= now /\ now < job[i].body.expiresAt
  <2>1. ~Overdue(job[i])
    BY <1>1, <1>2 DEF ExpireJob, RetireJob, Job
  <2>2. QED
    BY <1>1, <1>2, <2>1, BodyAssumption DEF Claim, Overdue, Job, TypeOK
<1> DEFINE row == [job[i] EXCEPT !.state = "accepted", !.claimId = c, !.updatedAt = now]
<1>4. row \in Job
  BY <1>1 DEF Job, State, TypeOK
<1>5. /\ row.body = job[i].body /\ row.createdAt = job[i].createdAt
      /\ row.claimId = c /\ row.state = "accepted" /\ row.sealed = job[i].sealed
  BY <1>1 DEF Job
<1>6. /\ job' = [job EXCEPT ![i] = row]
      /\ started' = started \cup {[id |-> i, body |-> job[i].body, claimId |-> c]}
      /\ UNCHANGED <<now, receipts>>
  BY <1>2 DEF Claim
<1> HIDE DEF row
<1>7. QED
  BY <1>1, <1>2, <1>3, <1>4, <1>5, <1>6, NullAssumption

\* Cancelling retires a row that is queued or failed.
LEMMA CancelRow ==
    ASSUME TypeOK, NEW i \in JobId, Cancel(i)
    PROVE  /\ job[i] \in Job /\ job[i] # NoJob /\ job[i].state \in {"queued", "failed"}
           /\ UNCHANGED <<now, started, receipts>>
           /\ \E row \in Job :
                /\ job' = [job EXCEPT ![i] = row] /\ row # NoJob
                /\ row.body = job[i].body /\ row.createdAt = job[i].createdAt
                /\ row.claimId = job[i].claimId /\ row.state = "cancelled" /\ row.sealed = FALSE
<1> DEFINE current == ExpireJob(job[i])
           row == RetireJob(current, "cancelled", now)
<1>1. job[i] \in Job /\ job[i] # NoJob /\ current \in Job
  BY ExpireJobFacts DEF Cancel, TypeOK
<1>2. job[i].state \in {"queued", "failed"}
  BY <1>1, ExpireJobFacts DEF Cancel
<1>3. row \in Job
  BY <1>1 DEF RetireJob, Job, State, TypeOK
<1>4. /\ row.body = current.body /\ row.createdAt = current.createdAt
      /\ row.claimId = current.claimId /\ row.state = "cancelled" /\ row.sealed = FALSE
  BY <1>1 DEF RetireJob, Job
<1>5. job' = [job EXCEPT ![i] = row] /\ UNCHANGED <<now, started, receipts>>
  BY DEF Cancel
<1> HIDE DEF row
<1>6. QED
  BY <1>1, <1>2, <1>3, <1>4, <1>5, ExpireJobFacts, NullAssumption

\* Finishing ends an accepted row; only completion drops the ciphertext.
LEMMA FinishRow ==
    ASSUME TypeOK, NEW i \in JobId, NEW c \in ClaimId, NEW s \in {"completed", "failed"},
           Finish(i, c, s)
    PROVE  /\ job[i] \in Job /\ job[i] # NoJob /\ job[i].state = "accepted"
           /\ UNCHANGED <<now, started, receipts>>
           /\ \E row \in Job :
                /\ job' = [job EXCEPT ![i] = row] /\ row # NoJob
                /\ row.body = job[i].body /\ row.createdAt = job[i].createdAt
                /\ row.claimId = job[i].claimId /\ row.state = s
                /\ row.sealed = (s # "completed" /\ job[i].sealed)
<1>1. job[i] \in Job /\ job[i] # NoJob /\ job[i].state = "accepted"
  BY DEF Finish, TypeOK
<1>2. CASE s = "completed"
  <2> DEFINE row == RetireJob(job[i], s, now)
  <2>1. row \in Job
    BY <1>1, <1>2 DEF RetireJob, Job, State, TypeOK
  <2>2. /\ row.body = job[i].body /\ row.createdAt = job[i].createdAt
        /\ row.claimId = job[i].claimId /\ row.state = s /\ row.sealed = FALSE
    BY <1>1 DEF RetireJob, Job
  <2>3. job' = [job EXCEPT ![i] = row] /\ UNCHANGED <<now, started, receipts>>
    BY <1>2 DEF Finish
  <2> HIDE DEF row
  <2>4. QED
    BY <1>1, <1>2, <2>1, <2>2, <2>3, NullAssumption
<1>3. CASE s = "failed"
  <2> DEFINE row == [job[i] EXCEPT !.state = s, !.updatedAt = now]
  <2>1. row \in Job
    BY <1>1, <1>3 DEF Job, State, TypeOK
  <2>2. /\ row.body = job[i].body /\ row.createdAt = job[i].createdAt
        /\ row.claimId = job[i].claimId /\ row.state = s /\ row.sealed = job[i].sealed
    BY <1>1 DEF Job
  <2>3. job' = [job EXCEPT ![i] = row] /\ UNCHANGED <<now, started, receipts>>
    BY <1>3 DEF Finish
  <2>4. job[i].sealed \in BOOLEAN
    BY <1>1 DEF Job
  <2> HIDE DEF row
  <2>5. QED
    BY <1>1, <1>3, <2>1, <2>2, <2>3, <2>4, NullAssumption
<1>4. QED
  BY <1>2, <1>3

\* The purge removes a row only after its retention, and never an accepted one.
LEMMA PurgeRow ==
    ASSUME TypeOK, Purge, NEW i \in JobId, job'[i] # ExpireQueued[i]
    PROVE  /\ job'[i] = NoJob /\ job[i] # NoJob /\ job[i].state # "accepted"
           /\ now > job[i].body.expiresAt + Retention
<1>1. job'[i] = NoJob /\ ExpireQueued[i] # NoJob /\ Purgeable(ExpireQueued[i])
  BY DEF Purge
<1>2. job[i] # NoJob /\ job[i] \in Job /\ ExpireQueued[i] \in Job
        /\ ExpireQueued[i].body = job[i].body
  BY <1>1, ExpireQueuedFacts, ExpireJobFacts
<1>3. job[i].body.expiresAt \in Nat /\ ExpireQueued[i].updatedAt \in Nat
  BY <1>2, BodyAssumption DEF Job
<1>4. now > job[i].body.expiresAt + Retention
  BY <1>1, <1>2, <1>3, BoundAssumption DEF Purgeable, LaterOf, TypeOK
<1>5. job[i].state # "accepted"
  BY <1>1, <1>2, ExpireKeeps DEF Purgeable
<1>6. QED
  BY <1>1, <1>2, <1>4, <1>5

-----------------------------------------------------------------------------
(* Type correctness *)

\* A step keeps the store typed.
LEMMA TypeStep == ASSUME TypeOK, [Next]_vars PROVE TypeOK'
<1> USE DEF TypeOK
<1>1. ASSUME NEW i \in JobId, NEW b \in Body, Put(i, b) PROVE TypeOK'
  BY <1>1, ExpireQueuedFacts, NewJobType DEF Put, Receipt
<1>2. ASSUME NEW i \in JobId, NEW b \in Body, PutRefused(i, b) PROVE TypeOK'
  BY <1>2, ExpireQueuedFacts DEF PutRefused
<1>3. ASSUME NEW i \in JobId, NEW c \in ClaimId, Claim(i, c) PROVE TypeOK'
  <2>1. job' \in [JobId -> Job \cup {NoJob}]
    BY <1>3, ClaimRow
  <2>2. [id |-> i, body |-> job[i].body, claimId |-> c] \in Start
    BY <1>3, ClaimRow DEF Start, Job
  <2>3. QED
    BY <1>3, <2>1, <2>2, ClaimRow
<1>4. ASSUME NEW i \in JobId, NEW c \in ClaimId, ClaimAgain(i, c) PROVE TypeOK'
  <2>1. job[i] \in Job
    BY <1>4 DEF ClaimAgain
  <2>2. QED
    BY <1>4, <2>1 DEF ClaimAgain, Start, Job
<1>5. ASSUME NEW i \in JobId, Cancel(i) PROVE TypeOK'
  BY <1>5, CancelRow
<1>6. ASSUME NEW i \in JobId, NEW c \in ClaimId, NEW s \in {"completed", "failed"},
             Finish(i, c, s)
      PROVE  TypeOK'
  BY <1>6, FinishRow
<1>7. ASSUME Read PROVE TypeOK'
  BY <1>7, ExpireQueuedFacts DEF Read
<1>8. ASSUME Purge PROVE TypeOK'
  BY <1>8, ExpireQueuedFacts DEF Purge
<1>9. ASSUME Tick PROVE TypeOK'
  BY <1>9 DEF Tick
<1>10. ASSUME UNCHANGED vars PROVE TypeOK'
  BY <1>10 DEF vars
<1>11. QED
  BY <1>1, <1>2, <1>3, <1>4, <1>5, <1>6, <1>7, <1>8, <1>9, <1>10 DEF Next

\* Every reachable state is well typed, whatever requests arrive.
THEOREM TypeCorrect == Spec => []TypeOK
<1>1. Init => TypeOK
  BY DEF Init, TypeOK
<1>2. TypeOK /\ [Next]_vars => TypeOK'
  BY TypeStep
<1>3. QED
  BY <1>1, <1>2, PTL DEF Spec

-----------------------------------------------------------------------------
(* A job starts at most once *)

\* The strengthened invariant is inductive: the case that matters is an identity
\* purged and stored again, where the old body must already have expired.
THEOREM JobInvHolds == Spec => []JobInv
<1>1. Init => JobInv
  BY DEF Init, JobInv, TypeOK, QueuedIsUnstarted, StartIsOnRecord, SingleStart
<1>2. JobInv /\ TypeOK' /\ [Next]_vars => JobInv'
  <2> SUFFICES ASSUME JobInv, TypeOK', [Next]_vars
               PROVE  QueuedIsUnstarted' /\ StartIsOnRecord' /\ SingleStart'
    BY DEF JobInv
  <2>0. TypeOK
    BY DEF JobInv
  <2> USE DEF JobInv, QueuedIsUnstarted, StartIsOnRecord, SingleStart
  <2> DEFINE Goal == QueuedIsUnstarted' /\ StartIsOnRecord' /\ SingleStart'
  \* Rows change only by expiry, or not at all, and no attempt is granted.
  <2>a. ASSUME UNCHANGED <<now, started>>, job' = ExpireQueued PROVE Goal
    BY <2>0, <2>a, ExpireKeeps DEF TypeOK, Start
  <2>1. ASSUME NEW i \in JobId, NEW b \in Body, Put(i, b) PROVE Goal
    <3>1. /\ job' \in [JobId -> Job \cup {NoJob}]
          /\ job'[i] = NewJob(b)
          /\ \A k \in JobId \ {i} : job'[k] = ExpireQueued[k]
      BY <2>0, <2>1, ExpireQueuedFacts, NewJobType DEF Put
    <3>2. NewJob(b).body = b /\ NewJob(b) # NoJob
      BY <2>0, NewJobType DEF NewJob
    <3>3. \A x \in started : x.id = i => x.body # b /\ x.body.expiresAt <= now
      BY <2>0, <2>1, BodyAssumption DEF Put, ValidBody, TypeOK, Start
    <3>4. QED
      <4>1. UNCHANGED <<now, started>>
        BY <2>1 DEF Put
      <4>2. QueuedIsUnstarted'
        BY <2>0, <3>1, <3>2, <3>3, <4>1, ExpireKeeps
      <4>3. StartIsOnRecord'
        BY <2>0, <2>1, <3>1, <3>2, <3>3, <4>1, ExpireKeeps DEF Put, TypeOK, Start
      <4>4. QED
        BY <4>1, <4>2, <4>3
  <2>2. ASSUME NEW i \in JobId, NEW b \in Body, PutRefused(i, b) PROVE Goal
    BY <2>2, <2>a DEF PutRefused
  <2>3. ASSUME NEW i \in JobId, NEW c \in ClaimId, Claim(i, c) PROVE Goal
    <3>1. PICK row \in Job :
            /\ job' = [job EXCEPT ![i] = row] /\ row # NoJob
            /\ row.body = job[i].body /\ row.claimId = c /\ row.state = "accepted"
      BY <2>0, <2>3, ClaimRow
    <3>2. /\ started' = started \cup {[id |-> i, body |-> job[i].body, claimId |-> c]}
          /\ job[i] # NoJob /\ now' = now
      BY <2>0, <2>3, ClaimRow DEF Claim
    <3>3. \A x \in started : ~(x.id = i /\ x.body = job[i].body)
      BY <2>0, <2>3, ClaimRow
    <3>4. QED
      BY <2>0, <3>1, <3>2, <3>3 DEF TypeOK, Start
  <2>4. ASSUME NEW i \in JobId, NEW c \in ClaimId, ClaimAgain(i, c) PROVE Goal
    BY <2>0, <2>4 DEF ClaimAgain, TypeOK, Start
  <2>5. ASSUME NEW i \in JobId, Cancel(i) PROVE Goal
    <3>1. PICK row \in Job :
            /\ job' = [job EXCEPT ![i] = row] /\ row # NoJob
            /\ row.body = job[i].body /\ row.claimId = job[i].claimId
            /\ row.state = "cancelled"
      BY <2>0, <2>5, CancelRow
    <3>2. UNCHANGED <<now, started>> /\ job[i] # NoJob
      BY <2>0, <2>5, CancelRow
    <3>3. QED
      BY <2>0, <3>1, <3>2 DEF TypeOK, Start
  <2>6. ASSUME NEW i \in JobId, NEW c \in ClaimId, NEW s \in {"completed", "failed"},
               Finish(i, c, s)
        PROVE  Goal
    <3>1. PICK row \in Job :
            /\ job' = [job EXCEPT ![i] = row] /\ row # NoJob
            /\ row.body = job[i].body /\ row.claimId = job[i].claimId
            /\ row.state = s
      BY <2>0, <2>6, FinishRow
    <3>2. UNCHANGED <<now, started>> /\ job[i] # NoJob
      BY <2>0, <2>6, FinishRow
    <3>3. QED
      BY <2>0, <3>1, <3>2 DEF TypeOK, Start
  <2>7. ASSUME Read PROVE Goal
    BY <2>7, <2>a DEF Read
  <2>8. ASSUME Purge PROVE Goal
    <3>1. UNCHANGED <<now, started>>
      BY <2>8 DEF Purge
    <3>2. \A i \in JobId :
            \/ job'[i] = ExpireQueued[i]
            \/ job'[i] = NoJob /\ job[i] # NoJob /\ job[i].body.expiresAt <= now
      <4> SUFFICES ASSUME NEW i \in JobId, job'[i] # ExpireQueued[i]
                   PROVE  job'[i] = NoJob /\ job[i] # NoJob /\ job[i].body.expiresAt <= now
        OBVIOUS
      <4>1. job[i].body.expiresAt \in Nat
        BY <2>0, <2>8, PurgeRow, BodyAssumption DEF TypeOK, Job
      <4>2. QED
        BY <2>0, <2>8, <4>1, PurgeRow, BoundAssumption DEF TypeOK
    <3>3. QED
      <4>1. QueuedIsUnstarted'
        BY <2>0, <3>1, <3>2, ExpireKeeps
      <4>2. StartIsOnRecord'
        BY <2>0, <3>1, <3>2, ExpireKeeps DEF TypeOK, Start
      <4>3. QED
        BY <3>1, <4>1, <4>2
  <2>9. ASSUME Tick PROVE Goal
    BY <2>0, <2>9, BodyAssumption DEF Tick, TypeOK, Start
  <2>10. ASSUME UNCHANGED vars PROVE Goal
    BY <2>10 DEF vars
  <2>11. QED
    BY <2>1, <2>2, <2>3, <2>4, <2>5, <2>6, <2>7, <2>8, <2>9, <2>10 DEF Next
<1>3. QED
  BY <1>1, <1>2, TypeCorrect, PTL DEF Spec

\* Whatever is retried, cancelled, finished, expired or purged, the relay grants
\* at most one receiver attempt for a job identity and body.
THEOREM StartsOnce == Spec => []SingleStart
  BY JobInvHolds, PTL DEF JobInv

-----------------------------------------------------------------------------
(* Retries and retention *)

\* A stored job answers its identical retry until the retention after its
\* expiry is over: no request, expiry or purge removes it before.
THEOREM ReceiptsStayOnRecord == Spec => []ReceiptOnRecord
<1>1. Init => ReceiptOnRecord
  BY DEF Init, ReceiptOnRecord
<1>2. TypeOK /\ TypeOK' /\ ReceiptOnRecord /\ [Next]_vars => ReceiptOnRecord'
  <2> SUFFICES ASSUME TypeOK, TypeOK', ReceiptOnRecord, [Next]_vars PROVE ReceiptOnRecord'
    OBVIOUS
  \* It is enough that a row keeps its request, or that its retention is over.
  <2>a. ASSUME UNCHANGED <<now, receipts>>,
               \A i \in JobId : job[i] # NoJob =>
                  \/ /\ job'[i] # NoJob
                     /\ job'[i].body = job[i].body
                     /\ job'[i].createdAt = job[i].createdAt
                  \/ now > job[i].body.expiresAt + Retention
        PROVE  ReceiptOnRecord'
    BY <2>a DEF ReceiptOnRecord, TypeOK, Receipt
  <2>1. ASSUME NEW i \in JobId, NEW b \in Body, Put(i, b) PROVE ReceiptOnRecord'
    <3>1. /\ job'[i] = NewJob(b)
          /\ \A k \in JobId \ {i} : job'[k] = ExpireQueued[k]
          /\ job[i] = NoJob
          /\ receipts' = receipts \cup {[id |-> i, body |-> b]}
          /\ now' = now
      BY <2>1, ExpireQueuedFacts DEF Put
    <3>2. NewJob(b) # NoJob /\ NewJob(b).body = b /\ ValidBody(b, NewJob(b).createdAt)
      BY <2>1, NewJobType DEF NewJob, Put
    <3>3. ASSUME NEW r \in receipts
          PROVE  \/ /\ job'[r.id] # NoJob
                    /\ job'[r.id].body = r.body
                    /\ ValidBody(r.body, job'[r.id].createdAt)
                 \/ now > r.body.expiresAt + Retention
      <4>1. CASE r.id = i
        BY <3>1, <4>1 DEF ReceiptOnRecord
      <4>2. CASE r.id # i
        <5>1. r.id \in JobId \ {i}
          BY <4>2 DEF TypeOK, Receipt
        <5>2. QED
          BY <3>1, <5>1, ExpireKeeps DEF ReceiptOnRecord
      <4>3. QED
        BY <4>1, <4>2
    <3>4. QED
      BY <3>1, <3>2, <3>3 DEF ReceiptOnRecord, ValidBody
  <2>2. ASSUME NEW i \in JobId, NEW b \in Body, PutRefused(i, b) PROVE ReceiptOnRecord'
    BY <2>2, <2>a, ExpireKeeps DEF PutRefused
  <2>3. ASSUME NEW i \in JobId, NEW c \in ClaimId, Claim(i, c) PROVE ReceiptOnRecord'
    BY <2>3, <2>a, ClaimRow DEF TypeOK
  <2>4. ASSUME NEW i \in JobId, NEW c \in ClaimId, ClaimAgain(i, c) PROVE ReceiptOnRecord'
    BY <2>4, <2>a DEF ClaimAgain
  <2>5. ASSUME NEW i \in JobId, Cancel(i) PROVE ReceiptOnRecord'
    BY <2>5, <2>a, CancelRow DEF TypeOK
  <2>6. ASSUME NEW i \in JobId, NEW c \in ClaimId, NEW s \in {"completed", "failed"},
               Finish(i, c, s)
        PROVE  ReceiptOnRecord'
    BY <2>6, <2>a, FinishRow DEF TypeOK
  <2>7. ASSUME Read PROVE ReceiptOnRecord'
    BY <2>7, <2>a, ExpireKeeps DEF Read
  <2>8. ASSUME Purge PROVE ReceiptOnRecord'
    <3>1. UNCHANGED <<now, receipts>>
      BY <2>8 DEF Purge
    <3>2. QED
      BY <2>8, <2>a, <3>1, PurgeRow, ExpireKeeps
  <2>9. ASSUME Tick PROVE ReceiptOnRecord'
    BY <2>9, BodyAssumption, BoundAssumption DEF Tick, TypeOK, Receipt, ReceiptOnRecord, ValidBody
  <2>10. ASSUME UNCHANGED vars PROVE ReceiptOnRecord'
    BY <2>10 DEF vars, ReceiptOnRecord, ValidBody
  <2>11. QED
    BY <2>1, <2>2, <2>3, <2>4, <2>5, <2>6, <2>7, <2>8, <2>9, <2>10 DEF Next
<1>3. QED
  BY <1>1, <1>2, TypeCorrect, PTL DEF Spec

-----------------------------------------------------------------------------
(* Ciphertext, and what may end or begin a claimed job *)

\* The ciphertext is there exactly while the job may need it.
THEOREM CiphertextKept == Spec => []CiphertextLifetime
<1>1. Init => CiphertextLifetime
  BY DEF Init, CiphertextLifetime
<1>2. TypeOK /\ TypeOK' /\ CiphertextLifetime /\ [Next]_vars => CiphertextLifetime'
  <2> SUFFICES ASSUME TypeOK, TypeOK', CiphertextLifetime, [Next]_vars
               PROVE  CiphertextLifetime'
    OBVIOUS
  <2> USE DEF CiphertextLifetime, RetainsPayload
  <2>a. \A i \in JobId : ExpireQueued[i] # NoJob =>
            (ExpireQueued[i].sealed <=> ExpireQueued[i].state \in {"queued", "accepted", "failed"})
    <3> SUFFICES ASSUME NEW i \in JobId, ExpireQueued[i] # NoJob
                 PROVE  ExpireQueued[i].sealed
                          <=> ExpireQueued[i].state \in {"queued", "accepted", "failed"}
      OBVIOUS
    <3>1. job[i] # NoJob /\ job[i] \in Job /\ ExpireQueued[i] = ExpireJob(job[i])
      BY ExpireQueuedFacts
    <3>2. CASE ExpireJob(job[i]) = job[i]
      BY <3>1, <3>2
    <3>3. CASE ExpireJob(job[i]).state = "expired" /\ ExpireJob(job[i]).sealed = FALSE
      BY <3>1, <3>3
    <3>4. QED
      BY <3>1, <3>2, <3>3, ExpireJobFacts
  <2>1. ASSUME NEW i \in JobId, NEW b \in Body, Put(i, b) PROVE CiphertextLifetime'
    <3>1. /\ job'[i] = NewJob(b)
          /\ \A k \in JobId \ {i} : job'[k] = ExpireQueued[k]
      BY <2>1, ExpireQueuedFacts DEF Put
    <3>2. NewJob(b).sealed = TRUE /\ NewJob(b).state = "queued"
      BY DEF NewJob
    <3>3. QED
      BY <2>a, <3>1, <3>2
  <2>2. ASSUME NEW i \in JobId, NEW b \in Body, PutRefused(i, b) PROVE CiphertextLifetime'
    BY <2>2, <2>a DEF PutRefused
  <2>3. ASSUME NEW i \in JobId, NEW c \in ClaimId, Claim(i, c) PROVE CiphertextLifetime'
    BY <2>3, ClaimRow DEF TypeOK
  <2>4. ASSUME NEW i \in JobId, NEW c \in ClaimId, ClaimAgain(i, c) PROVE CiphertextLifetime'
    BY <2>4 DEF ClaimAgain
  <2>5. ASSUME NEW i \in JobId, Cancel(i) PROVE CiphertextLifetime'
    BY <2>5, CancelRow DEF TypeOK
  <2>6. ASSUME NEW i \in JobId, NEW c \in ClaimId, NEW s \in {"completed", "failed"},
               Finish(i, c, s)
        PROVE  CiphertextLifetime'
    <3>1. PICK row \in Job :
            /\ job' = [job EXCEPT ![i] = row] /\ row.state = s
            /\ row.sealed = (s # "completed" /\ job[i].sealed)
      BY <2>6, FinishRow
    <3>2. job[i] # NoJob /\ job[i].sealed
      BY <2>6, FinishRow
    <3>3. row.sealed <=> s = "failed"
      <4>1. CASE s = "completed"
        BY <3>1, <4>1
      <4>2. CASE s = "failed"
        BY <3>1, <3>2, <4>2
      <4>3. QED
        BY <4>1, <4>2
    <3>4. QED
      BY <3>1, <3>3 DEF TypeOK
  <2>7. ASSUME Read PROVE CiphertextLifetime'
    BY <2>7, <2>a DEF Read
  <2>8. ASSUME Purge PROVE CiphertextLifetime'
    BY <2>8, <2>a, PurgeRow
  <2>9. ASSUME Tick PROVE CiphertextLifetime'
    BY <2>9 DEF Tick
  <2>10. ASSUME UNCHANGED vars PROVE CiphertextLifetime'
    BY <2>10 DEF vars
  <2>11. QED
    BY <2>1, <2>2, <2>3, <2>4, <2>5, <2>6, <2>7, <2>8, <2>9, <2>10 DEF Next
<1>3. QED
  BY <1>1, <1>2, TypeCorrect, PTL DEF Spec

\* Only the receiver that holds a claim can end it, and it does so by finishing.
THEOREM ClaimsEndByFinishing == Spec => AcceptedUntilFinished
<1> DEFINE Held(i) == job[i] # NoJob /\ job[i].state = "accepted"
           Stays(i) == /\ job'[i] # NoJob
                       /\ job'[i].claimId = job[i].claimId
                       /\ job'[i].body = job[i].body
                       /\ job'[i].state \in {"accepted", "completed", "failed"}
<1>1. TypeOK /\ [Next]_vars => [\A i \in JobId : Held(i) => Stays(i)]_vars
  <2> SUFFICES ASSUME TypeOK, Next, NEW k \in JobId, Held(k) PROVE Stays(k)
    OBVIOUS
  <2>a. ASSUME job'[k] = ExpireQueued[k] PROVE Stays(k)
    BY <2>a, ExpireKeeps
  <2>b. ASSUME job'[k] = job[k] PROVE Stays(k)
    BY <2>b
  <2>1. ASSUME NEW i \in JobId, NEW b \in Body, Put(i, b) PROVE Stays(k)
    BY <2>1, <2>a, ExpireQueuedFacts DEF Put
  <2>2. ASSUME NEW i \in JobId, NEW b \in Body, PutRefused(i, b) PROVE Stays(k)
    BY <2>2, <2>a DEF PutRefused
  <2>3. ASSUME NEW i \in JobId, NEW c \in ClaimId, Claim(i, c) PROVE Stays(k)
    <3>1. i # k /\ job'[k] = job[k]
      BY <2>3, ClaimRow DEF TypeOK
    <3>2. QED
      BY <2>b, <3>1
  <2>4. ASSUME NEW i \in JobId, NEW c \in ClaimId, ClaimAgain(i, c) PROVE Stays(k)
    BY <2>4, <2>b DEF ClaimAgain
  <2>5. ASSUME NEW i \in JobId, Cancel(i) PROVE Stays(k)
    <3>1. i # k /\ job'[k] = job[k]
      BY <2>5, CancelRow DEF TypeOK
    <3>2. QED
      BY <2>b, <3>1
  <2>6. ASSUME NEW i \in JobId, NEW c \in ClaimId, NEW s \in {"completed", "failed"},
               Finish(i, c, s)
        PROVE  Stays(k)
    BY <2>6, FinishRow DEF TypeOK
  <2>7. ASSUME Read PROVE Stays(k)
    BY <2>7, <2>a DEF Read
  <2>8. ASSUME Purge PROVE Stays(k)
    BY <2>8, <2>a, PurgeRow
  <2>9. ASSUME Tick PROVE Stays(k)
    BY <2>9, <2>b DEF Tick
  <2>10. QED
    BY <2>1, <2>2, <2>3, <2>4, <2>5, <2>6, <2>7, <2>8, <2>9 DEF Next
<1>2. QED
  BY <1>1, TypeCorrect, PTL DEF Spec, AcceptedUntilFinished

\* A job becomes accepted only from the queue, at a moment inside its schedule.
THEOREM StartsAreInsideSchedule == Spec => StartsInsideSchedule
<1> DEFINE Held(i) == job[i] # NoJob /\ job[i].state = "accepted"
           Begins(i) == (job'[i] # NoJob /\ job'[i].state = "accepted") /\ ~Held(i)
           Inside(i) == /\ job[i] # NoJob
                        /\ job[i].state = "queued"
                        /\ job[i].body.notBefore <= now
                        /\ now < job[i].body.expiresAt
<1>1. TypeOK /\ [Next]_vars => [\A i \in JobId : Begins(i) => Inside(i)]_vars
  <2> SUFFICES ASSUME TypeOK, Next, NEW k \in JobId, Begins(k) PROVE Inside(k)
    OBVIOUS
  <2>a. ASSUME job'[k] = ExpireQueued[k] PROVE FALSE
    BY <2>a, ExpireKeeps
  <2>1. ASSUME NEW i \in JobId, NEW b \in Body, Put(i, b) PROVE Inside(k)
    <3>1. CASE i = k
      BY <2>1, <3>1, ExpireQueuedFacts DEF Put, NewJob
    <3>2. CASE i # k
      BY <2>1, <2>a, <3>2, ExpireQueuedFacts DEF Put
    <3>3. QED
      BY <3>1, <3>2
  <2>2. ASSUME NEW i \in JobId, NEW b \in Body, PutRefused(i, b) PROVE Inside(k)
    BY <2>2, <2>a DEF PutRefused
  <2>3. ASSUME NEW i \in JobId, NEW c \in ClaimId, Claim(i, c) PROVE Inside(k)
    <3>1. i = k
      BY <2>3, ClaimRow DEF TypeOK
    <3>2. QED
      BY <2>3, <3>1, ClaimRow
  <2>4. ASSUME NEW i \in JobId, NEW c \in ClaimId, ClaimAgain(i, c) PROVE Inside(k)
    BY <2>4 DEF ClaimAgain
  <2>5. ASSUME NEW i \in JobId, Cancel(i) PROVE Inside(k)
    BY <2>5, CancelRow DEF TypeOK
  <2>6. ASSUME NEW i \in JobId, NEW c \in ClaimId, NEW s \in {"completed", "failed"},
               Finish(i, c, s)
        PROVE  Inside(k)
    BY <2>6, FinishRow DEF TypeOK
  <2>7. ASSUME Read PROVE Inside(k)
    BY <2>7, <2>a DEF Read
  <2>8. ASSUME Purge PROVE Inside(k)
    BY <2>8, <2>a, PurgeRow
  <2>9. ASSUME Tick PROVE Inside(k)
    BY <2>9 DEF Tick
  <2>10. QED
    BY <2>1, <2>2, <2>3, <2>4, <2>5, <2>6, <2>7, <2>8, <2>9 DEF Next
<1>2. QED
  BY <1>1, TypeCorrect, PTL DEF Spec, StartsInsideSchedule

-----------------------------------------------------------------------------
(* Limits *)

\* The size of each unresolved job.
Sizes(jobs) == [i \in Active(jobs) |-> jobs[i].body.bytes]

\* PendingBytes is the sum of the sizes of the unresolved jobs.
LEMMA PendingIsSum ==
    ASSUME NEW jobs \in [JobId -> Job \cup {NoJob}], IsFiniteSet(Active(jobs))
    PROVE  /\ Sizes(jobs) \in [Active(jobs) -> Nat]
           /\ \E g : /\ IsSum(g, Active(jobs), Sizes(jobs))
                     /\ PendingBytes(jobs) = g[Active(jobs)]
<1> DEFINE S == Active(jobs)
           c(s) == CHOOSE x \in s : TRUE
           Rec(h) == h = [s \in SUBSET S |->
                             IF s = {} THEN 0 ELSE jobs[c(s)].body.bytes + h[s \ {c(s)}]]
           g == CHOOSE h : Rec(h)
<1>1. PendingBytes(jobs) = g[S]
  BY DEF PendingBytes, MapThenSumSet, MapThenFoldSet
<1>2. \A h : Iterates(h, S, Sizes(jobs)) <=> Rec(h)
  BY DEF Iterates, Sizes
<1>3. Sizes(jobs) \in [S -> Nat]
  BY BodyAssumption DEF Sizes, Active, Rows, Job
<1> HIDE DEF Rec, S
<1>4. IsFiniteSet(S)
  BY DEF S
<1>5. \E h : h \in [SUBSET S -> Nat] /\ Rec(h)
  BY <1>2, <1>3, <1>4, IterationExists
<1>6. Rec(g)
  BY <1>5, Zenon
<1>7. IsSum(g, S, Sizes(jobs))
  BY <1>2, <1>3, <1>4, <1>6, IterationIsSum
<1>8. QED
  BY <1>1, <1>3, <1>7 DEF S

\* The rows and the unresolved jobs of a store, and their bytes, are numbers.
LEMMA BoundTypes ==
    ASSUME NEW jobs \in [JobId -> Job \cup {NoJob}], IsFiniteSet(Rows(jobs))
    PROVE  /\ IsFiniteSet(Active(jobs)) /\ Active(jobs) \subseteq Rows(jobs)
           /\ Cardinality(Rows(jobs)) \in Nat /\ Cardinality(Active(jobs)) \in Nat
           /\ PendingBytes(jobs) \in Nat
<1>1. Active(jobs) \subseteq Rows(jobs)
  BY DEF Active
<1>2. IsFiniteSet(Active(jobs))
  BY <1>1, FS_Subset
<1>3. PendingBytes(jobs) \in Nat
  <2>1. PICK g : /\ IsSum(g, Active(jobs), Sizes(jobs))
                 /\ PendingBytes(jobs) = g[Active(jobs)]
    BY <1>2, PendingIsSum
  <2>2. QED
    BY <2>1 DEF IsSum
<1>4. QED
  BY <1>1, <1>2, <1>3, FS_CardinalityType

\* A store whose rows were all there, whose unresolved jobs were all
\* unresolved, with the same bodies.
Shrinks(jobs, later) ==
    /\ Rows(later) \subseteq Rows(jobs)
    /\ Active(later) \subseteq Active(jobs)
    /\ \A i \in Active(later) : later[i].body = jobs[i].body

\* Such a store is no larger.
LEMMA ShrinkingIsSmaller ==
    ASSUME NEW jobs \in [JobId -> Job \cup {NoJob}], IsFiniteSet(Rows(jobs)),
           NEW later \in [JobId -> Job \cup {NoJob}], Shrinks(jobs, later)
    PROVE  /\ IsFiniteSet(Rows(later))
           /\ Cardinality(Rows(later)) <= Cardinality(Rows(jobs))
           /\ Cardinality(Active(later)) <= Cardinality(Active(jobs))
           /\ PendingBytes(later) <= PendingBytes(jobs)
<1>1. IsFiniteSet(Active(jobs))
  BY BoundTypes
<1>2. IsFiniteSet(Rows(later)) /\ Cardinality(Rows(later)) <= Cardinality(Rows(jobs))
  BY FS_Subset DEF Shrinks
<1>3. IsFiniteSet(Active(later)) /\ Cardinality(Active(later)) <= Cardinality(Active(jobs))
  BY <1>1, FS_Subset DEF Shrinks
<1>4. PICK g : IsSum(g, Active(jobs), Sizes(jobs)) /\ PendingBytes(jobs) = g[Active(jobs)]
  BY <1>1, PendingIsSum
<1>5. PICK h : IsSum(h, Active(later), Sizes(later)) /\ PendingBytes(later) = h[Active(later)]
  BY <1>3, PendingIsSum
<1>6. Active(later) \subseteq Active(jobs) /\ \A i \in Active(later) : Sizes(jobs)[i] = Sizes(later)[i]
  BY DEF Shrinks, Sizes
<1>7. g[Active(later)] = h[Active(later)]
  BY <1>3, <1>4, <1>5, <1>6, SumAgrees
<1>8. g[Active(later)] <= g[Active(jobs)]
  BY <1>1, <1>4, <1>6, PendingIsSum, SumMonotone
<1>9. QED
  BY <1>2, <1>3, <1>4, <1>5, <1>7, <1>8

\* One job more: the counts grow by one and the bytes by its size.
LEMMA StoringAddsOne ==
    ASSUME NEW jobs \in [JobId -> Job \cup {NoJob}], IsFiniteSet(Rows(jobs)),
           NEW i \in JobId, jobs[i] = NoJob,
           NEW row \in Job, row # NoJob, RetainsPayload(row)
    PROVE  LET later == [jobs EXCEPT ![i] = row] IN
           /\ IsFiniteSet(Rows(later))
           /\ Cardinality(Rows(later)) = Cardinality(Rows(jobs)) + 1
           /\ Cardinality(Active(later)) = Cardinality(Active(jobs)) + 1
           /\ PendingBytes(later) = PendingBytes(jobs) + row.body.bytes
<1> DEFINE later == [jobs EXCEPT ![i] = row]
<1>1. later \in [JobId -> Job \cup {NoJob}] /\ later[i] = row
  OBVIOUS
<1>2. Rows(later) = Rows(jobs) \cup {i} /\ i \notin Rows(jobs)
  BY DEF Rows
<1>3. Active(later) = Active(jobs) \cup {i} /\ i \notin Active(jobs)
  BY <1>2 DEF Active, Rows
<1>4. \A k \in Active(jobs) : Sizes(jobs)[k] = Sizes(later)[k]
  BY <1>3 DEF Sizes, Active, Rows
<1>5. Sizes(later)[i] = row.body.bytes
  BY <1>1, <1>3 DEF Sizes
<1> HIDE DEF later
<1>6. IsFiniteSet(Rows(later)) /\ Cardinality(Rows(later)) = Cardinality(Rows(jobs)) + 1
  BY <1>2, FS_AddElement
<1>7. IsFiniteSet(Active(jobs))
  BY BoundTypes
<1>8. IsFiniteSet(Active(later)) /\ Cardinality(Active(later)) = Cardinality(Active(jobs)) + 1
  BY <1>3, <1>7, FS_AddElement
<1>9. PICK g : IsSum(g, Active(jobs), Sizes(jobs)) /\ PendingBytes(jobs) = g[Active(jobs)]
  BY <1>7, PendingIsSum
<1>10. PICK h : IsSum(h, Active(later), Sizes(later)) /\ PendingBytes(later) = h[Active(later)]
  BY <1>1, <1>8, PendingIsSum
<1>11. g[Active(jobs)] = h[Active(jobs)]
  BY <1>3, <1>4, <1>7, <1>9, <1>10, SumAgrees
<1>12. i \in Active(later) /\ Active(later) \ {i} = Active(jobs)
  BY <1>3
<1>13. h[Active(later)] = Sizes(later)[i] + h[Active(jobs)]
  BY <1>10, <1>12 DEF IsSum
<1>14. row.body.bytes \in Nat /\ PendingBytes(jobs) \in Nat
  BY BodyAssumption, BoundTypes DEF Job
<1>15. PendingBytes(later) = row.body.bytes + PendingBytes(jobs)
  BY <1>5, <1>9, <1>10, <1>11, <1>13, Zenon
<1>16. PendingBytes(later) = PendingBytes(jobs) + row.body.bytes
  BY <1>14, <1>15
<1>17. QED
  BY <1>6, <1>8, <1>16 DEF later

\* The bounds, and that there is a number of rows to bound.
BoundsInv == TypeOK /\ IsFiniteSet(Rows(job)) /\ RoomBounds

\* Expiry leaves no more unresolved jobs than there were.
LEMMA ExpiryShrinks == ASSUME TypeOK PROVE Shrinks(job, ExpireQueued)
<1> SUFFICES ASSUME NEW i \in JobId, ExpireQueued[i] # NoJob
             PROVE  /\ job[i] # NoJob /\ ExpireQueued[i].body = job[i].body
                    /\ RetainsPayload(ExpireQueued[i]) => RetainsPayload(job[i])
  BY DEF Shrinks, Rows, Active
<1>1. job[i] # NoJob /\ job[i] \in Job /\ ExpireQueued[i] = ExpireJob(job[i])
  BY ExpireQueuedFacts
<1>2. QED
  BY <1>1, ExpireJobFacts DEF RetainsPayload

\* Dropping, retiring and moving rows on keeps the bounds.
LEMMA ShrinkingKeepsBounds ==
    ASSUME BoundsInv, TypeOK', Shrinks(job, job')
    PROVE  BoundsInv'
<1>1. /\ IsFiniteSet(Rows(job'))
      /\ Cardinality(Rows(job')) <= Cardinality(Rows(job))
      /\ Cardinality(Active(job')) <= Cardinality(Active(job))
      /\ PendingBytes(job') <= PendingBytes(job)
  BY ShrinkingIsSmaller DEF BoundsInv, TypeOK
<1>2. /\ Cardinality(Rows(job)) \in Nat /\ Cardinality(Active(job)) \in Nat
      /\ PendingBytes(job) \in Nat
  BY BoundTypes DEF BoundsInv, TypeOK
<1>3. /\ Cardinality(Rows(job')) \in Nat /\ Cardinality(Active(job')) \in Nat
      /\ PendingBytes(job') \in Nat
  BY <1>1, BoundTypes DEF TypeOK
<1>4. /\ Cardinality(Rows(job)) <= RoomReceiptLimit
      /\ Cardinality(Active(job)) <= RoomJobLimit
      /\ PendingBytes(job) <= RoomJobBytes
  BY DEF BoundsInv, RoomBounds
<1>5. /\ Cardinality(Rows(job')) <= RoomReceiptLimit
      /\ Cardinality(Active(job')) <= RoomJobLimit
      /\ PendingBytes(job') <= RoomJobBytes
  BY <1>1, <1>2, <1>3, <1>4, BoundAssumption
<1>6. QED
  BY <1>1, <1>5 DEF BoundsInv, RoomBounds

\* A job is stored only where there is room for it, counted after expiry.
LEMMA PutKeepsBounds ==
    ASSUME BoundsInv, TypeOK', NEW i \in JobId, NEW b \in Body, Put(i, b)
    PROVE  BoundsInv'
<1> DEFINE old == ExpireQueued
<1>1. old \in [JobId -> Job \cup {NoJob}] /\ old[i] = NoJob
  BY ExpireQueuedFacts DEF Put, BoundsInv
<1>2. NewJob(b) \in Job /\ NewJob(b) # NoJob
  BY NewJobType DEF BoundsInv
<1>3. RetainsPayload(NewJob(b)) /\ NewJob(b).body = b
  BY DEF RetainsPayload, NewJob
<1>4. job' = [old EXCEPT ![i] = NewJob(b)]
  BY DEF Put
<1>5. /\ Cardinality(Rows(job)) < RoomReceiptLimit
      /\ Cardinality(Active(old)) < RoomJobLimit
      /\ PendingBytes(old) + b.bytes <= RoomJobBytes
  BY DEF Put, HasCapacity
<1>6. job \in [JobId -> Job \cup {NoJob}] /\ IsFiniteSet(Rows(job)) /\ Shrinks(job, old)
  BY ExpiryShrinks DEF BoundsInv, TypeOK
<1> HIDE DEF old
<1>7. IsFiniteSet(Rows(old)) /\ Cardinality(Rows(old)) <= Cardinality(Rows(job))
  BY <1>1, <1>6, ShrinkingIsSmaller
<1>8. /\ IsFiniteSet(Rows(job'))
      /\ Cardinality(Rows(job')) = Cardinality(Rows(old)) + 1
      /\ Cardinality(Active(job')) = Cardinality(Active(old)) + 1
      /\ PendingBytes(job') = PendingBytes(old) + b.bytes
  BY <1>1, <1>2, <1>3, <1>4, <1>7, StoringAddsOne
<1>9. /\ Cardinality(Rows(job)) \in Nat /\ Cardinality(Rows(old)) \in Nat
      /\ Cardinality(Active(old)) \in Nat
  BY <1>1, <1>6, <1>7, BoundTypes
<1>10. /\ Cardinality(Rows(job')) <= RoomReceiptLimit
       /\ Cardinality(Active(job')) <= RoomJobLimit
  BY <1>5, <1>7, <1>8, <1>9, BoundAssumption
<1>11. PendingBytes(job') <= RoomJobBytes
  BY <1>5, <1>8
<1>12. QED
  BY <1>8, <1>10, <1>11 DEF BoundsInv, RoomBounds

\* Replacing a row by a later state of the same job does not make a room larger.
LEMMA UpdateShrinks ==
    ASSUME TypeOK, NEW i \in JobId, job[i] # NoJob, NEW row \in Job,
           row.body = job[i].body, RetainsPayload(row) => RetainsPayload(job[i]),
           job' = [job EXCEPT ![i] = row]
    PROVE  Shrinks(job, job')
  BY DEF Shrinks, Rows, Active, TypeOK

\* The job queue of a room never outgrows its limits, for any limits, sizes and
\* requests: the queue refuses new work when it is full instead of dropping old
\* work, and no operation brings a retired job back into it.
THEOREM QueueIsBounded == Spec => []RoomBounds
<1>1. Init => BoundsInv
  <2> SUFFICES ASSUME Init PROVE BoundsInv
    OBVIOUS
  <2>1. Rows(job) = {} /\ Active(job) = {} /\ TypeOK
    BY DEF Init, Rows, Active, TypeOK
  <2>2. PICK g : IsSum(g, {}, Sizes(job)) /\ PendingBytes(job) = g[{}]
    BY <2>1, FS_EmptySet, PendingIsSum DEF TypeOK
  <2>3. PendingBytes(job) = 0
    BY <2>2 DEF IsSum
  <2>4. QED
    BY <2>1, <2>3, FS_EmptySet, BoundAssumption DEF BoundsInv, RoomBounds
<1>2. BoundsInv /\ TypeOK' /\ [Next]_vars => BoundsInv'
  <2> SUFFICES ASSUME BoundsInv, TypeOK', [Next]_vars PROVE BoundsInv'
    OBVIOUS
  <2>0. TypeOK
    BY DEF BoundsInv
  <2>1. ASSUME NEW i \in JobId, NEW b \in Body, Put(i, b) PROVE BoundsInv'
    BY <2>1, PutKeepsBounds
  <2>2. ASSUME job' = ExpireQueued PROVE BoundsInv'
    BY <2>0, <2>2, ExpiryShrinks, ShrinkingKeepsBounds
  <2>3. ASSUME NEW i \in JobId, NEW c \in ClaimId, Claim(i, c) PROVE Shrinks(job, job')
    <3>1. PICK row \in Job : /\ job' = [job EXCEPT ![i] = row]
                             /\ row.body = job[i].body /\ row.state = "accepted"
      BY <2>0, <2>3, ClaimRow
    <3>2. job[i] # NoJob /\ RetainsPayload(job[i])
      BY <2>0, <2>3, ClaimRow DEF RetainsPayload
    <3>3. QED
      BY <2>0, <3>1, <3>2, UpdateShrinks
  <2>4. ASSUME NEW i \in JobId, Cancel(i) PROVE Shrinks(job, job')
    <3>1. PICK row \in Job : /\ job' = [job EXCEPT ![i] = row]
                             /\ row.body = job[i].body /\ row.state = "cancelled"
      BY <2>0, <2>4, CancelRow
    <3>2. job[i] # NoJob /\ ~RetainsPayload(row)
      BY <2>0, <2>4, <3>1, CancelRow DEF RetainsPayload
    <3>3. QED
      BY <2>0, <3>1, <3>2, UpdateShrinks
  <2>5. ASSUME NEW i \in JobId, NEW c \in ClaimId, NEW s \in {"completed", "failed"},
               Finish(i, c, s)
        PROVE  Shrinks(job, job')
    <3>1. PICK row \in Job : /\ job' = [job EXCEPT ![i] = row]
                             /\ row.body = job[i].body
      BY <2>0, <2>5, FinishRow
    <3>2. job[i] # NoJob /\ RetainsPayload(job[i])
      BY <2>0, <2>5, FinishRow DEF RetainsPayload
    <3>3. QED
      BY <2>0, <3>1, <3>2, UpdateShrinks
  <2>6. ASSUME Purge PROVE Shrinks(job, job')
    <3>1. \A i \in JobId : job'[i] # NoJob => job'[i] = ExpireQueued[i]
      BY <2>0, <2>6, PurgeRow
    <3>2. Shrinks(ExpireQueued, job')
      BY <3>1 DEF Shrinks, Rows, Active
    <3>3. QED
      BY <2>0, <3>2, ExpiryShrinks DEF Shrinks
  <2>7. ASSUME job' = job PROVE Shrinks(job, job')
    BY <2>7 DEF Shrinks
  <2>8. ASSUME NEW i \in JobId, NEW b \in Body, PutRefused(i, b) PROVE job' = ExpireQueued
    BY <2>8 DEF PutRefused
  <2>9. ASSUME Read PROVE job' = ExpireQueued
    BY <2>9 DEF Read
  <2>10. ASSUME NEW i \in JobId, NEW c \in ClaimId, ClaimAgain(i, c) PROVE job' = job
    BY <2>10 DEF ClaimAgain
  <2>11. ASSUME Tick \/ UNCHANGED vars PROVE job' = job
    BY <2>11 DEF Tick, vars
  <2>12. Shrinks(job, job') => BoundsInv'
    BY ShrinkingKeepsBounds
  <2>13. QED
    BY <2>1, <2>2, <2>3, <2>4, <2>5, <2>6, <2>7, <2>8, <2>9, <2>10, <2>11, <2>12 DEF Next
<1>3. QED
  BY <1>1, <1>2, TypeCorrect, PTL DEF Spec, BoundsInv

-----------------------------------------------------------------------------
(* Writers and the job table *)

\* A step of a room with writers is a step of its job table, or leaves it.
LEMMA WriterStep == ASSUME WriterTypeOK, [WriterNext]_writerVars PROVE [Next]_vars
<1>1. ASSUME NEW g \in Grant, PutGrant(g) PROVE UNCHANGED vars
  BY <1>1 DEF PutGrant
<1>2. ASSUME NEW w \in Writer, Revoke(w) \/ Report(w) PROVE UNCHANGED vars
  BY <1>2 DEF Revoke, Report
<1>3. ASSUME NEW w \in Writer, NEW i \in JobId, UploadBegin(w, i) \/ WriterCancel(w, i)
      PROVE  Next
  BY <1>3 DEF UploadBegin, WriterCancel, Next
<1>4. ASSUME NEW b \in Body, UploadEnd(b) PROVE Next
  <2>1. upload.id \in JobId
    BY <1>4 DEF UploadEnd, WriterTypeOK, Upload
  <2>2. Put(upload.id, b) \/ PutRefused(upload.id, b)
    BY <1>4 DEF UploadEnd
  <2>3. QED
    BY <2>1, <2>2 DEF Next
<1>5. ASSUME UploadDropped PROVE UNCHANGED vars
  BY <1>5 DEF UploadDropped
<1>6. ASSUME NEW i \in JobId, NEW b \in OwnerBody, OwnerPut(i, b) PROVE Next
  <2>1. b \in Body /\ (Put(i, b) \/ PutRefused(i, b))
    BY <1>6, GrantAssumption DEF OwnerPut
  <2>2. QED
    BY <2>1 DEF Next
<1>7. ASSUME JobStep PROVE Next
  BY <1>7 DEF JobStep, Next
<1>8. ASSUME UNCHANGED writerVars PROVE UNCHANGED vars
  BY <1>8 DEF writerVars
<1>9. QED
  BY <1>1, <1>2, <1>3, <1>4, <1>5, <1>6, <1>7, <1>8 DEF WriterNext

\* Grants, reports, uploads and authors keep their types.
LEMMA GrantTypeStep ==
    ASSUME WriterTypeOK, TypeOK', [WriterNext]_writerVars
    PROVE  WriterTypeOK'
<1> USE DEF WriterTypeOK
<1>1. ASSUME NEW g \in Grant, PutGrant(g) PROVE WriterTypeOK'
  <2>1. [grant |-> g, revokedAt |-> Never] \in GrantRow
    BY DEF GrantRow
  <2>2. g.id \in Writer
    BY GrantAssumption
  <2>3. QED
    BY <1>1, <2>1, <2>2 DEF PutGrant
<1>2. ASSUME NEW w \in Writer, Revoke(w) PROVE WriterTypeOK'
  <2> DEFINE row == [writers[w] EXCEPT !.revokedAt = now]
  <2>1. writers[w] # NoWriter =>
          row \in GrantRow /\ row.grant = writers[w].grant /\ row # NoWriter
    BY GrantAssumption DEF GrantRow, TypeOK
  <2>2. QED
    BY <1>2, <2>1 DEF Revoke, ReportsAfter
<1>3. ASSUME NEW w \in Writer, Report(w) PROVE WriterTypeOK'
  BY <1>3 DEF Report
<1>4. ASSUME NEW w \in Writer, NEW i \in JobId, UploadBegin(w, i) PROVE WriterTypeOK'
  <2>1. writers[w] \in GrantRow
    BY <1>4 DEF UploadBegin, Usable
  <2>2. [row |-> writers[w], id |-> i] \in Upload
    BY <2>1 DEF Upload
  <2>3. QED
    BY <1>4, <2>2 DEF UploadBegin
<1>5. ASSUME NEW w \in Writer, NEW i \in JobId, WriterCancel(w, i) PROVE WriterTypeOK'
  BY <1>5 DEF WriterCancel, grantVars
<1>6. ASSUME NEW b \in Body, UploadEnd(b) PROVE WriterTypeOK'
  <2>1. upload.row \in GrantRow
    BY <1>6 DEF UploadEnd, Upload
  <2>2. QED
    BY <1>6, <2>1 DEF UploadEnd
<1>7. ASSUME UploadDropped PROVE WriterTypeOK'
  BY <1>7 DEF UploadDropped
<1>8. ASSUME NEW i \in JobId, NEW b \in OwnerBody, OwnerPut(i, b) PROVE WriterTypeOK'
  BY <1>8 DEF OwnerPut
<1>9. ASSUME JobStep \/ UNCHANGED writerVars PROVE WriterTypeOK'
  BY <1>9 DEF JobStep, writerVars, grantVars
<1>10. QED
  BY <1>1, <1>2, <1>3, <1>4, <1>5, <1>6, <1>7, <1>8, <1>9 DEF WriterNext

\* Every reachable state of a room with writers is well typed.
THEOREM WriterTypeCorrect == WriterSpec => []WriterTypeOK
<1>1. WriterInit => WriterTypeOK
  BY DEF WriterInit, WriterTypeOK, Init, TypeOK
<1>2. WriterTypeOK /\ [WriterNext]_writerVars => WriterTypeOK'
  <2> SUFFICES ASSUME WriterTypeOK, [WriterNext]_writerVars PROVE WriterTypeOK'
    OBVIOUS
  <2>1. TypeOK
    BY DEF WriterTypeOK
  <2>2. QED
    BY <2>1, WriterStep, TypeStep, GrantTypeStep
<1>3. QED
  BY <1>1, <1>2, PTL DEF WriterSpec

\* A room with delegated writers implements the room of TaskJobs, in which
\* anybody may store any job: its steps are steps of the job table or leave it.
THEOREM WritersRefineTaskJobs == WriterSpec => Spec
<1>1. WriterInit => Init
  BY DEF WriterInit
<1>2. WriterTypeOK /\ [WriterNext]_writerVars => [Next]_vars
  BY WriterStep
<1>3. QED
  BY <1>1, <1>2, WriterTypeCorrect, PTL DEF WriterSpec, Spec

\* What is proved of the job table holds under every use of the grants: a job
\* starts once, inside its schedule, and ends by its receiver's report, and the
\* room stays within its limits (taskDispatch/index.js, policy.js).
THEOREM DelegatedJobsAreSafe ==
    WriterSpec => /\ []SingleStart /\ []ReceiptOnRecord /\ []CiphertextLifetime /\ []RoomBounds
                  /\ AcceptedUntilFinished /\ StartsInsideSchedule
  BY WritersRefineTaskJobs, StartsOnce, ReceiptsStayOnRecord, CiphertextKept, QueueIsBounded,
     ClaimsEndByFinishing, StartsAreInsideSchedule, PTL

-----------------------------------------------------------------------------
(* Reports *)

\* A resource report never outlives its grant.
THEOREM ReportsBelongToGrants == WriterSpec => []ReportsOfGrants
<1>1. WriterInit => ReportsOfGrants
  BY DEF WriterInit, ReportsOfGrants
<1>2. WriterTypeOK /\ ReportsOfGrants /\ [WriterNext]_writerVars => ReportsOfGrants'
  <2> SUFFICES ASSUME WriterTypeOK, ReportsOfGrants, [WriterNext]_writerVars,
                      NEW w \in reports'
               PROVE  writers'[w] # NoWriter /\ writers'[w].revokedAt = Never
    BY DEF ReportsOfGrants
  <2>a. reports \subseteq Writer
    BY DEF WriterTypeOK
  <2>1. ASSUME NEW g \in Grant, PutGrant(g)
        PROVE  writers'[w] # NoWriter /\ writers'[w].revokedAt = Never
    <3>1. w \in reports /\ w \notin Lapsed /\ w \in Writer
      BY <2>1, <2>a DEF PutGrant
    <3>2. w # g.id
      BY <2>1, <3>1 DEF PutGrant, ReportsOfGrants
    <3>3. writers'[w] = writers[w]
      BY <2>1, <3>1, <3>2 DEF PutGrant
    <3>4. QED
      BY <3>1, <3>3 DEF ReportsOfGrants
  <2>2. ASSUME NEW x \in Writer, Revoke(x)
        PROVE  writers'[w] # NoWriter /\ writers'[w].revokedAt = Never
    <3>1. w \in reports /\ w # x
      BY <2>2 DEF Revoke, ReportsAfter
    <3>2. writers'[w] = writers[w]
      BY <2>2, <2>a, <3>1 DEF Revoke, WriterTypeOK
    <3>3. QED
      BY <3>1, <3>2 DEF ReportsOfGrants
  <2>3. ASSUME NEW x \in Writer, Report(x)
        PROVE  writers'[w] # NoWriter /\ writers'[w].revokedAt = Never
    BY <2>3 DEF Report, Usable, ReportsOfGrants
  <2>4. CASE UNCHANGED <<writers, reports>>
    BY <2>4 DEF ReportsOfGrants
  <2>5. QED
    BY <2>1, <2>2, <2>3, <2>4 DEF WriterNext, UploadBegin, WriterCancel, UploadEnd,
       UploadDropped, OwnerPut, JobStep, grantVars, writerVars
<1>3. QED
  BY <1>1, <1>2, WriterTypeCorrect, PTL DEF WriterSpec

-----------------------------------------------------------------------------
(* Delegated work *)

\* An upload was authorised by a row that was not revoked then.
UploadAuthorised == upload # NoWriter => upload.row.revokedAt = Never

\* A delegated job on record stays within the row that authorised it.
JobWithinGrant ==
    \A i \in JobId :
        job[i] # NoJob /\ author[i] # NoWriter =>
            /\ author[i].revokedAt = Never
            /\ Within(author[i], job[i].body)

\* The grants on record may have changed since, so StartsWithinGrant is not
\* about them: it needs what the upload and the job remember.
GrantInv == UploadAuthorised /\ JobWithinGrant

\* What receivers, owners, readers and maintenance do leaves every row they
\* keep with its body.
LEMMA BodiesStay ==
    ASSUME TypeOK, NEW k \in JobId, job'[k] # NoJob,
           JobStep \/ Read \/ \E i \in JobId : Cancel(i)
    PROVE  job[k] # NoJob /\ job'[k].body = job[k].body
<1> DEFINE Stays == job[k] # NoJob /\ job'[k].body = job[k].body
<1>a. ASSUME job'[k] = ExpireQueued[k] PROVE Stays
  BY <1>a, ExpireKeeps
<1>b. ASSUME job'[k] = job[k] PROVE Stays
  BY <1>b
<1>1. ASSUME NEW i \in JobId, NEW c \in ClaimId, Claim(i, c) PROVE Stays
  BY <1>1, <1>b, ClaimRow DEF TypeOK
<1>2. ASSUME NEW i \in JobId, Cancel(i) PROVE Stays
  BY <1>2, <1>b, CancelRow DEF TypeOK
<1>3. ASSUME NEW i \in JobId, NEW c \in ClaimId, NEW s \in {"completed", "failed"},
             Finish(i, c, s)
      PROVE  Stays
  BY <1>3, <1>b, FinishRow DEF TypeOK
<1>4. ASSUME Read PROVE Stays
  BY <1>4, <1>a DEF Read
<1>5. ASSUME Purge PROVE Stays
  BY <1>5, <1>a, PurgeRow
<1>6. ASSUME job' = job PROVE Stays
  BY <1>6, <1>b
<1>7. QED
  BY <1>1, <1>2, <1>3, <1>4, <1>5, <1>6 DEF JobStep, ClaimAgain, Tick

\* A new row has the body that was put; other rows only expire.
LEMMA PutBody ==
    ASSUME TypeOK, NEW i \in JobId, NEW b \in Body, Put(i, b)
    PROVE  /\ job'[i].body = b
           /\ \A k \in JobId \ {i} : job'[k] = ExpireQueued[k]
  BY ExpireQueuedFacts DEF Put, NewJob

\* A job becomes accepted only before it expires.
LEMMA StartsBeforeExpiry ==
    ASSUME TypeOK, [Next]_vars, NEW k \in JobId,
           job[k] # NoJob, job[k].state = "queued",
           job'[k] # NoJob, job'[k].state = "accepted"
    PROVE  job[k] \in Job /\ now < job[k].body.expiresAt
<1>a. ASSUME job'[k] = ExpireQueued[k] PROVE FALSE
  BY <1>a, ExpireKeeps
<1>1. ASSUME NEW i \in JobId, NEW b \in Body, Put(i, b) PROVE FALSE
  BY <1>1, <1>a, ExpireQueuedFacts DEF Put
<1>2. ASSUME NEW i \in JobId, NEW b \in Body, PutRefused(i, b) PROVE FALSE
  BY <1>2, <1>a DEF PutRefused
<1>3. ASSUME NEW i \in JobId, NEW c \in ClaimId, Claim(i, c)
      PROVE  job[k] \in Job /\ now < job[k].body.expiresAt
  <2>1. i = k
    BY <1>3, ClaimRow DEF TypeOK
  <2>2. QED
    BY <1>3, <2>1, ClaimRow
<1>4. ASSUME NEW i \in JobId, Cancel(i) PROVE FALSE
  BY <1>4, CancelRow DEF TypeOK
<1>5. ASSUME NEW i \in JobId, NEW c \in ClaimId, NEW s \in {"completed", "failed"},
             Finish(i, c, s)
      PROVE  FALSE
  BY <1>5, FinishRow DEF TypeOK
<1>6. ASSUME Read PROVE FALSE
  BY <1>6, <1>a DEF Read
<1>7. ASSUME Purge PROVE FALSE
  BY <1>7, <1>a, PurgeRow
<1>8. ASSUME job' = job PROVE FALSE
  BY <1>8
<1>9. QED
  BY <1>1, <1>2, <1>3, <1>4, <1>5, <1>6, <1>7, <1>8 DEF Next, ClaimAgain, Tick, vars

\* Uploads and jobs keep the bounds they were authorised with.
LEMMA GrantInvStep ==
    ASSUME WriterTypeOK, GrantInv, [WriterNext]_writerVars
    PROVE  GrantInv'
<1>0. TypeOK /\ [Next]_vars
  BY WriterStep DEF WriterTypeOK
<1>1. UploadAuthorised'
  <2>1. ASSUME NEW w \in Writer, NEW i \in JobId, UploadBegin(w, i) PROVE UploadAuthorised'
    BY <2>1 DEF UploadBegin, Usable, UploadAuthorised
  <2>2. CASE upload' = NoWriter
    BY <2>2 DEF UploadAuthorised
  <2>3. CASE upload' = upload
    BY <2>3 DEF UploadAuthorised, GrantInv
  <2>4. QED
    BY <2>1, <2>2, <2>3 DEF WriterNext, PutGrant, Revoke, Report, WriterCancel, UploadEnd,
       UploadDropped, OwnerPut, JobStep, grantVars, writerVars
<1>2. JobWithinGrant'
  <2> SUFFICES ASSUME NEW k \in JobId, job'[k] # NoJob, author'[k] # NoWriter
               PROVE  author'[k].revokedAt = Never /\ Within(author'[k], job'[k].body)
    BY DEF JobWithinGrant, Within
  <2> DEFINE Goal == author'[k].revokedAt = Never /\ Within(author'[k], job'[k].body)
  <2>a. ASSUME author'[k] = author[k], job[k] # NoJob, job'[k].body = job[k].body PROVE Goal
    BY <2>a DEF GrantInv, JobWithinGrant
  <2>b. ASSUME author'[k] = author[k], job'[k] = ExpireQueued[k] PROVE Goal
    BY <1>0, <2>a, <2>b, ExpireKeeps
  <2>1. ASSUME NEW b \in Body, UploadEnd(b) PROVE Goal
    <3>1. upload.id \in JobId /\ Within(upload.row, b) /\ upload.row.revokedAt = Never
      BY <2>1 DEF UploadEnd, WriterTypeOK, Upload, GrantInv, UploadAuthorised
    <3>2. CASE Put(upload.id, b) /\ author' = [author EXCEPT ![upload.id] = upload.row]
      <4>1. CASE k = upload.id
        <5>1. author'[k] = upload.row
          BY <3>2, <4>1 DEF WriterTypeOK
        <5>2. job'[k].body = b
          BY <1>0, <3>1, <3>2, <4>1, PutBody
        <5>3. QED
          BY <3>1, <5>1, <5>2
      <4>2. CASE k # upload.id
        BY <1>0, <2>b, <3>1, <3>2, <4>2, PutBody DEF WriterTypeOK
      <4>3. QED
        BY <4>1, <4>2
    <3>3. CASE PutRefused(upload.id, b) /\ UNCHANGED author
      BY <2>b, <3>3 DEF PutRefused
    <3>4. QED
      BY <2>1, <3>2, <3>3 DEF UploadEnd
  <2>2. ASSUME NEW i \in JobId, NEW b \in OwnerBody, OwnerPut(i, b) PROVE Goal
    <3>1. CASE Put(i, b) /\ author' = [author EXCEPT ![i] = NoWriter]
      <4>1. k # i
        BY <3>1 DEF WriterTypeOK
      <4>2. QED
        BY <1>0, <2>b, <3>1, <4>1, PutBody, GrantAssumption DEF WriterTypeOK
    <3>2. CASE PutRefused(i, b) /\ UNCHANGED author
      BY <2>b, <3>2 DEF PutRefused
    <3>3. QED
      BY <2>2, <3>1, <3>2 DEF OwnerPut
  <2>3. ASSUME author' = author, JobStep \/ Read \/ \E i \in JobId : Cancel(i) PROVE Goal
    BY <1>0, <2>a, <2>3, BodiesStay
  <2>4. ASSUME author' = author, job' = job PROVE Goal
    BY <2>a, <2>4
  <2>5. QED
    BY <2>1, <2>2, <2>3, <2>4 DEF WriterNext, PutGrant, Revoke, Report, UploadBegin,
       WriterCancel, UploadDropped, JobStep, grantVars, writerVars, vars
<1>3. QED
  BY <1>1, <1>2 DEF GrantInv

\* Delegated work starts only under the grant that authorised its upload,
\* whatever became of that grant in the meantime.
THEOREM DelegatedStartsAreGranted == WriterSpec => StartsWithinGrant
<1> DEFINE Begins(i) == /\ job[i] # NoJob /\ author[i] # NoWriter
                        /\ job[i].state = "queued" /\ job'[i] # NoJob /\ job'[i].state = "accepted"
           Granted(i) == /\ author[i].grant.id = job[i].body.writerId
                         /\ author[i].grant.recipient = job[i].body.recipient
                         /\ now < author[i].grant.expiresAt
                         /\ author[i].revokedAt = Never
<1>1. WriterInit => GrantInv
  BY DEF WriterInit, GrantInv, UploadAuthorised, JobWithinGrant
<1>2. WriterTypeOK /\ GrantInv /\ [WriterNext]_writerVars => GrantInv'
  BY GrantInvStep
<1>3. WriterTypeOK /\ GrantInv /\ [WriterNext]_writerVars =>
        [\A i \in JobId : Begins(i) => Granted(i)]_writerVars
  <2> SUFFICES ASSUME WriterTypeOK, GrantInv, [WriterNext]_writerVars,
                      NEW i \in JobId, Begins(i)
               PROVE  Granted(i)
    OBVIOUS
  <2>1. job[i] \in Job /\ now < job[i].body.expiresAt
    BY WriterStep, StartsBeforeExpiry DEF WriterTypeOK
  <2>2. author[i].revokedAt = Never /\ Within(author[i], job[i].body)
    BY DEF GrantInv, JobWithinGrant
  <2>3. /\ now \in Nat
        /\ job[i].body.expiresAt \in Nat
        /\ author[i].grant.expiresAt \in Nat
    BY <2>1, BodyAssumption, GrantAssumption DEF WriterTypeOK, TypeOK, Job, GrantRow
  <2>4. QED
    BY <2>1, <2>2, <2>3 DEF Within
<1>4. QED
  BY <1>1, <1>2, <1>3, WriterTypeCorrect, PTL DEF WriterSpec, StartsWithinGrant
=============================================================================
