-------------------------- MODULE RoomAlarmProofs ---------------------------
(***************************************************************************)
(* Proofs about RoomAlarm for any number of recipients and any limits and  *)
(* lifetimes.  That the alarm composes the room's deadlines is not         *)
(* inductive as it stands: while a push of a request is awaited nobody     *)
(* owes a scheduling yet, so AlarmInv says what the alarm covers then, and *)
(* that an alarm handler which awaits its push has drained.                *)
(***************************************************************************)
EXTENDS RoomAlarm, FiniteFacts, TLAPS

-----------------------------------------------------------------------------
(* The directory *)

\* The assumptions on the limits, one by one.
LEMMA BoundFacts ==
    /\ Limit \in Nat /\ TTL \in Nat /\ Interval \in Nat /\ MaxTries \in Nat
    /\ OfferEvery \in Nat /\ Keep \in Nat /\ MaxEvictions \in Nat
    /\ TTL > 0 /\ OfferEvery > 0 /\ Keep > 0
    /\ WakeLives \subseteq Nat /\ JobLives \subseteq Nat /\ Starts \subseteq Nat
    /\ None \notin Int
<1>1. /\ Limit \in Nat \ {0} /\ TTL \in Nat \ {0} /\ Interval \in Nat \ {0}
      /\ MaxTries \in Nat \ {0} /\ OfferEvery \in Nat \ {0} /\ Keep \in Nat \ {0}
  BY BoundAssumption
<1>2. QED
  BY <1>1, BoundAssumption

\* The recipients that have a record.
Records(e) == {r \in Recipient : e[r] # None}

\* Records live at most TTL.
Directory == [Recipient -> 0 .. TTL \cup {None}]

\* The number of records is a number, and within the limit.
DirectoryOK(e) ==
    e \in Directory /\ IsFiniteSet(Records(e)) /\ Cardinality(Records(e)) <= Limit

\* The type invariant, and that the records are finitely many.
TypeInv == TypeOK /\ DirectoryOK(endpoint)

\* Fewer records keep the directory within its limit.
LEMMA FewerRecords ==
    ASSUME NEW e, DirectoryOK(e), NEW f \in Directory, Records(f) \subseteq Records(e)
    PROVE  DirectoryOK(f)
<1>1. IsFiniteSet(Records(e)) /\ Cardinality(Records(e)) <= Limit
  BY DEF DirectoryOK
<1>2. IsFiniteSet(Records(f)) /\ Cardinality(Records(f)) <= Cardinality(Records(e))
  BY <1>1, FS_Subset
<1>3. Cardinality(Records(f)) \in Nat /\ Cardinality(Records(e)) \in Nat
  BY <1>1, <1>2, FS_CardinalityType
<1>4. QED
  BY <1>1, <1>2, <1>3, BoundFacts DEF DirectoryOK

\* The purge removes records and adds none.
LEMMA PurgedFacts ==
    ASSUME endpoint \in Directory
    PROVE  Purged \in Directory /\ Records(Purged) \subseteq Records(endpoint)
  BY DEF Purged, Directory, Records

\* A record is added only below the limit.
LEMMA PutKeepsDirectory ==
    ASSUME DirectoryOK(endpoint), NEW r \in Recipient, NEW life \in RecordLives, ~Full(Purged, r)
    PROVE  DirectoryOK([Purged EXCEPT ![r] = life])
<1> DEFINE e == [Purged EXCEPT ![r] = life]
<1>1. Purged \in Directory /\ DirectoryOK(Purged)
  BY PurgedFacts, FewerRecords DEF DirectoryOK
<1>2. life \in 0 .. TTL /\ life # None
  BY BoundFacts DEF RecordLives
<1>3. e \in Directory /\ Records(e) = Records(Purged) \cup {r}
  BY <1>1, <1>2 DEF Directory, Records
<1>4. CASE r \in Records(Purged)
  <2>1. Records(e) \subseteq Records(Purged)
    BY <1>3, <1>4
  <2>2. QED
    BY <1>1, <1>3, <2>1, FewerRecords
<1>5. CASE r \notin Records(Purged)
  <2>1. ~(Cardinality(Records(Purged)) >= Limit)
    BY <1>5 DEF Full, Records
  <2> HIDE DEF e
  <2>2. IsFiniteSet(Records(e)) /\ Cardinality(Records(e)) = Cardinality(Records(Purged)) + 1
    BY <1>1, <1>3, <1>5, FS_AddElement DEF DirectoryOK
  <2>3. Cardinality(Records(Purged)) \in Nat
    BY <1>1, FS_CardinalityType DEF DirectoryOK
  <2>4. Cardinality(Records(e)) <= Limit
    BY <2>1, <2>2, <2>3, BoundFacts
  <2>5. QED
    BY <1>3, <2>2, <2>4 DEF DirectoryOK, e
<1>6. QED
  BY <1>4, <1>5

\* A step keeps the directory within its limit.
LEMMA DirectoryStep == ASSUME DirectoryOK(endpoint), [Next]_vars PROVE DirectoryOK(endpoint')
<1>0. endpoint \in Directory
  BY DEF DirectoryOK
<1>a. ASSUME NEW r \in Recipient, endpoint' = [endpoint EXCEPT ![r] = None] PROVE DirectoryOK(endpoint')
  <2>1. endpoint' \in Directory /\ Records(endpoint') \subseteq Records(endpoint)
    BY <1>0, <1>a DEF Directory, Records
  <2>2. QED
    BY <2>1, FewerRecords
<1>b. ASSUME endpoint' = Purged PROVE DirectoryOK(endpoint')
  BY <1>0, <1>b, PurgedFacts, FewerRecords
<1>1. CASE Schedule
  BY <1>1, <1>b DEF Schedule
<1>2. ASSUME NEW r \in Recipient, NEW life \in RecordLives, PutEndpoint(r, life)
      PROVE  DirectoryOK(endpoint')
  BY <1>2, PutKeepsDirectory DEF PutEndpoint
<1>3. ASSUME NEW r \in Recipient, RefuseEndpoint(r) \/ DeleteEndpoint(r) \/ GetEndpoint(r)
      PROVE  DirectoryOK(endpoint')
  BY <1>3, <1>a, <1>b DEF RefuseEndpoint, DeleteEndpoint, GetEndpoint
<1>4. CASE Tick
  <2>1. \A r \in Recipient : /\ Later(endpoint[r]) \in 0 .. TTL \cup {None}
                             /\ Later(endpoint[r]) # None => endpoint[r] # None
    BY <1>0, BoundFacts DEF Later, Directory
  <2>2. endpoint' \in Directory /\ Records(endpoint') \subseteq Records(endpoint)
    BY <1>4, <2>1 DEF Tick, Directory, Records
  <2>3. QED
    BY <2>2, FewerRecords
<1>5. CASE endpoint' = endpoint
  BY <1>5
<1>6. QED
  BY <1>1, <1>2, <1>3, <1>4, <1>5
     DEF Next, PutJob, ClaimJob, CancelJob, RepeatJob, ReadJob, FinishJob, TaskRequest, Connect,
         Disconnect, WakeRequest, PushDone, AlarmFires, AlarmDrains, Evict, vars, rows

-----------------------------------------------------------------------------
(* Deadlines *)

\* The minimum of a finite set of integers is its least member.
LEMMA MinFacts ==
    ASSUME NEW S \in SUBSET Int, IsFiniteSet(S), S # {}
    PROVE  Min(S) \in S /\ \A t \in S : Min(S) <= t
<1>1. \E x \in S : \A y \in S : x <= y
  BY LeastInteger
<1>2. QED
  BY <1>1 DEF Min

\* Deadlines of the directory are finitely many, whatever the recipients.
LEMMA EndpointTimes ==
    ASSUME NEW e \in Directory
    PROVE  EndpointDeadlines(e) \in SUBSET Nat /\ IsFiniteSet(EndpointDeadlines(e))
<1>1. EndpointDeadlines(e) \subseteq 0 .. TTL
  BY DEF EndpointDeadlines, Directory
<1>2. IsFiniteSet(0 .. TTL)
  BY FS_Interval, BoundFacts
<1>3. IsFiniteSet(EndpointDeadlines(e))
  BY <1>1, <1>2, FS_Subset
<1>4. 0 .. TTL \subseteq Nat
  BY BoundFacts
<1>5. QED
  BY <1>1, <1>3, <1>4

\* The job has at most two.
LEMMA JobTimes ==
    ASSUME NEW j \in Job \cup {None}
    PROVE  JobDeadlines(j) \in SUBSET Int /\ IsFiniteSet(JobDeadlines(j))
<1>1. JobDeadlines(j) \in SUBSET Int
  BY BoundFacts DEF JobDeadlines, Job, Retired
<1>2. \E x, y : JobDeadlines(j) \subseteq {x, y}
  BY DEF JobDeadlines
<1>3. PICK x, y : JobDeadlines(j) \subseteq {x, y}
  BY <1>2
<1>4. IsFiniteSet({x} \cup {y}) /\ {x, y} = {x} \cup {y}
  BY FS_Singleton, FS_Union
<1>5. IsFiniteSet({x, y})
  BY <1>4
<1>6. QED
  BY <1>1, <1>3, <1>5, FS_Subset

\* So has the wake.
LEMMA WakeTimes ==
    ASSUME TypeOK
    PROVE  WakeDeadlines \in SUBSET Nat /\ IsFiniteSet(WakeDeadlines)
<1>1. WakeDeadlines \in SUBSET Nat
  BY BoundFacts DEF WakeDeadlines, TypeOK, Wake
<1>2. WakeDeadlines \subseteq {spacing} \cup {wake.left}
  BY DEF WakeDeadlines
<1>3. IsFiniteSet({spacing} \cup {wake.left})
  BY FS_Singleton, FS_Union
<1>4. QED
  BY <1>1, <1>2, <1>3, FS_Subset

\* Expiry and maintenance keep a job typed; what maintenance leaves is not
\* overdue.
LEMMA MaintainedFacts ==
    ASSUME TypeOK
    PROVE  /\ ExpiredJob \in Job \cup {None}
           /\ MaintainedJob \in Job \cup {None}
           /\ JobDeadlines(MaintainedJob) \in SUBSET Nat
<1>1. CASE job = None
  BY <1>1 DEF ExpiredJob, MaintainedJob, JobDeadlines
<1>2. CASE job # None
  <2>1. job \in Job
    BY <1>2 DEF TypeOK
  <2>2. ExpiredJob \in Job /\ (ExpiredJob.state = "queued" => ExpiredJob.left > 0)
    <3>1. job.state \in {"queued", "accepted", "failed", "ended"} /\ job.left \in Int /\ Keep \in Int
      BY <2>1, BoundFacts DEF Job
    <3>2. CASE job.state = "queued" /\ job.left <= 0
      <4> DEFINE left == job.left + Keep
      <4>1. ExpiredJob = [job EXCEPT !.state = "ended", !.left = left]
        BY <1>2, <3>2 DEF ExpiredJob
      <4>2. left \in Int
        BY <3>1
      <4> HIDE DEF left
      <4>3. ExpiredJob \in Job /\ ExpiredJob.state = "ended"
        BY <2>1, <4>1, <4>2 DEF Job
      <4>4. QED
        BY <4>3
    <3>3. CASE ~(job.state = "queued" /\ job.left <= 0)
      <4>1. ExpiredJob = job
        BY <3>3 DEF ExpiredJob
      <4>2. QED
        BY <2>1, <3>1, <3>3, <4>1
    <3>4. QED
      BY <3>2, <3>3
  <2>3. MaintainedJob = None \/ (/\ MaintainedJob = ExpiredJob
                                 /\ ExpiredJob.state \in Retired => ExpiredJob.left >= 0)
    BY <2>2, NoneAssumption DEF MaintainedJob, Job
  <2>4. JobDeadlines(None) = {}
    BY DEF JobDeadlines
  <2>5. MaintainedJob = ExpiredJob /\ (ExpiredJob.state \in Retired => ExpiredJob.left >= 0)
        => JobDeadlines(ExpiredJob) \in SUBSET Nat
    <3> DEFINE j == ExpiredJob
    <3> HIDE DEF j
    <3>1. j \in Job /\ (j.state = "queued" => j.left > 0)
      BY <2>2 DEF j
    <3>2. (j.state \in Retired => j.left >= 0) => JobDeadlines(j) \in SUBSET Nat
      BY <3>1, BoundFacts DEF JobDeadlines, Job, Retired
    <3>3. QED
      BY <3>2 DEF j
  <2>6. QED
    BY <2>2, <2>3, <2>4, <2>5
<1>3. QED
  BY <1>1, <1>2

\* What a turn of scheduling composes is finite and has no time in the past.
LEMMA ComposedTimes ==
    ASSUME TypeOK, NEW e \in Directory
    PROVE  Composed(e, MaintainedJob) \in SUBSET Nat /\ IsFiniteSet(Composed(e, MaintainedJob))
<1>1. EndpointDeadlines(e) \in SUBSET Nat /\ IsFiniteSet(EndpointDeadlines(e))
  BY EndpointTimes
<1>2. JobDeadlines(MaintainedJob) \in SUBSET Nat /\ IsFiniteSet(JobDeadlines(MaintainedJob))
  BY MaintainedFacts, JobTimes
<1>3. WakeDeadlines \in SUBSET Nat /\ IsFiniteSet(WakeDeadlines)
  BY WakeTimes
<1>4. IsFiniteSet(EndpointDeadlines(e) \cup JobDeadlines(MaintainedJob))
  BY <1>1, <1>2, FS_Union
<1>5. IsFiniteSet((EndpointDeadlines(e) \cup JobDeadlines(MaintainedJob)) \cup WakeDeadlines)
  BY <1>3, <1>4, FS_Union
<1>6. QED
  BY <1>1, <1>2, <1>3, <1>5 DEF Composed

\* The earliest of finitely many times is a time, or there is none.
LEMMA EarliestFacts ==
    ASSUME NEW S \in SUBSET Nat, IsFiniteSet(S)
    PROVE  /\ Earliest(S) \in Nat \cup {None}
           /\ \A t \in S : Earliest(S) \in Nat /\ Earliest(S) <= t
<1>1. CASE S = {}
  BY <1>1 DEF Earliest
<1>2. CASE S # {}
  <2>1. Min(S) \in S /\ \A t \in S : Min(S) <= t
    BY <1>2, MinFacts
  <2>2. QED
    BY <1>2, <2>1 DEF Earliest
<1>3. QED
  BY <1>1, <1>2

-----------------------------------------------------------------------------
(* Type correctness *)

\* A drain or a request leaves a typed wake, and one that is being pushed.
LEMMA SendDueType ==
    ASSUME TypeOK, NEW w \in Wake \cup {None}, NEW who \in {"request", "alarm"},
           pushing = "nobody", SendDue(w, who)
    PROVE  /\ wake' \in Wake \cup {None}
           /\ spacing' \in 0 .. Interval
           /\ pushing' \in {"nobody", who}
           /\ pushing' # "nobody" => wake' # None
<1>1. CASE Spent(w) \/ spacing > 0
  <2>1. wake' \in Wake \cup {None} /\ spacing' = spacing /\ pushing' = pushing
    BY <1>1, BoundFacts DEF SendDue, TypeOK
  <2>2. QED
    BY <2>1 DEF TypeOK
<1>2. CASE ~Spent(w) /\ spacing = 0
  <2>1. w \in Wake /\ w.tries < MaxTries
    BY <1>2, BoundFacts DEF Spent, Wake
  <2>2. wake' = [w EXCEPT !.tries = @ + 1] /\ spacing' = Interval /\ pushing' = who
    BY <1>2 DEF SendDue
  <2>3. wake' \in Wake
    BY <2>1, <2>2, BoundFacts DEF Wake
  <2>4. QED
    BY <2>2, <2>3, NoneAssumption, BoundFacts
<1>3. QED
  BY <1>1, <1>2, BoundFacts DEF TypeOK

\* What a request asks for is a wake.
LEMMA NewWakeType ==
    ASSUME TypeOK, NEW left \in WakeLives
    PROVE  NewWake(left) \in Wake
<1>1. left \in Nat /\ 0 \in 0 .. MaxTries
  BY BoundFacts
<1>2. wake # None => wake.left \in Nat
  BY DEF TypeOK, Wake
<1>3. QED
  BY <1>1, <1>2 DEF NewWake, Wake

\* A step keeps the room typed.
LEMMA TypeStep == ASSUME TypeInv, [Next]_vars PROVE TypeInv'
<1>0. TypeOK /\ endpoint \in Directory /\ DirectoryOK(endpoint)
  BY DEF TypeInv, DirectoryOK
<1>a. DirectoryOK(endpoint')
  BY <1>0, DirectoryStep
<1>b. /\ endpoint' \in [Recipient -> 0 .. TTL \cup {None}]
      /\ Cardinality({r \in Recipient : endpoint'[r] # None}) <= Limit
  BY <1>a DEF DirectoryOK, Directory, Records
<1> SUFFICES TypeOK'
  BY <1>a DEF TypeInv, DirectoryOK, Records
<1>1. CASE Schedule
  <2>1. Purged \in Directory
    BY <1>0, PurgedFacts
  <2>2. alarm' \in Nat \cup {None}
    BY <1>0, <1>1, <2>1, ComposedTimes, EarliestFacts DEF Schedule
  <2>3. job' \in Job \cup {None}
    BY <1>0, <1>1, MaintainedFacts DEF Schedule
  <2>4. firing' \in {"no", "begun", "drained"} /\ owed' = FALSE /\ slip' = "none"
    BY <1>0, <1>1 DEF Schedule, TypeOK
  <2>5. UNCHANGED <<computer, wake, spacing, pushing, evictions>>
    BY <1>1 DEF Schedule
  <2>6. QED
    BY <1>0, <1>b, <2>2, <2>3, <2>4, <2>5 DEF TypeOK
<1>2. ASSUME NEW r \in Recipient, NEW life \in RecordLives, PutEndpoint(r, life) PROVE TypeOK'
  <2>1. EndpointDeadlines(Purged) \in SUBSET Nat /\ IsFiniteSet(EndpointDeadlines(Purged))
    BY <1>0, PurgedFacts, EndpointTimes
  <2>2. life \in Nat
    BY BoundFacts DEF RecordLives
  <2>3. {life} \cup EndpointDeadlines(Purged) \in SUBSET Nat
    BY <2>1, <2>2
  <2>4. IsFiniteSet({life} \cup EndpointDeadlines(Purged))
    BY <2>1, FS_Singleton, FS_Union
  <2>5. Min({life} \cup EndpointDeadlines(Purged)) \in Nat
    BY <2>3, <2>4, MinFacts
  <2>6. alarm' \in Nat /\ owed' = TRUE
        /\ UNCHANGED <<job, computer, wake, spacing, pushing, firing, slip, evictions>>
    BY <1>2, <2>5 DEF PutEndpoint
  <2>7. QED
    BY <1>0, <1>b, <2>6 DEF TypeOK
<1>3. ASSUME NEW r \in Recipient, RefuseEndpoint(r) PROVE TypeOK'
  <2>1. EndpointDeadlines(Purged) \in SUBSET Nat /\ IsFiniteSet(EndpointDeadlines(Purged))
    BY <1>0, PurgedFacts, EndpointTimes
  <2>2. alarm' \in Nat \cup {None}
    BY <1>3, <2>1, EarliestFacts DEF RefuseEndpoint
  <2>3. slip' = "refused"
        /\ UNCHANGED <<job, computer, wake, spacing, pushing, firing, owed, evictions>>
    BY <1>3 DEF RefuseEndpoint
  <2>4. QED
    BY <1>0, <1>b, <2>2, <2>3 DEF TypeOK
<1>4. ASSUME NEW r \in Recipient, DeleteEndpoint(r) \/ GetEndpoint(r) PROVE TypeOK'
  <2>1. owed' \in BOOLEAN
        /\ UNCHANGED <<job, computer, wake, spacing, pushing, firing, alarm, slip, evictions>>
    BY <1>0, <1>4 DEF DeleteEndpoint, GetEndpoint, TypeOK
  <2>2. QED
    BY <1>0, <1>b, <2>1 DEF TypeOK
<1>c. ASSUME job' \in Job \cup {None}, TaskRequest PROVE TypeOK'
  BY <1>0, <1>b, <1>c DEF TaskRequest, TypeOK
<1>5. ASSUME NEW start \in Starts, NEW left \in JobLives, PutJob(start, left) PROVE TypeOK'
  <2>1. start \in Nat /\ left \in Int
    BY BoundFacts
  <2>2. job' \in Job /\ TaskRequest
    BY <1>5, <2>1 DEF PutJob, Job
  <2>3. QED
    BY <1>c, <2>2
<1>6. ASSUME ClaimJob \/ CancelJob \/ RepeatJob \/ \E state \in Retired : FinishJob(state)
      PROVE  TypeOK'
  <2>1. job \in Job
    BY <1>0, <1>6 DEF ClaimJob, CancelJob, RepeatJob, FinishJob, TypeOK
  <2>0. job.left \in Int /\ Keep \in Int /\ job.left + Keep \in Int
    <3>1. job.left \in Int /\ Keep \in Int
      BY <2>1, BoundFacts DEF Job
    <3>2. QED
      BY <3>1
  <2>2. Max({job.left, Keep}) \in Int
    <3>1. job.left \in Int /\ Keep \in Int
      BY <2>0
    <3>2. \E x \in {job.left, Keep} : \A y \in {job.left, Keep} : x >= y
      BY <3>1
    <3>3. QED
      BY <3>1, <3>2 DEF Max
  <2>3. job' \in Job
    <3>1. CASE ClaimJob \/ RepeatJob
      BY <2>1, <3>1 DEF ClaimJob, RepeatJob, Job
    <3>2. CASE CancelJob
      BY <2>0, <2>1, <2>2, <3>2 DEF CancelJob, Job
    <3>3. ASSUME NEW state \in Retired, FinishJob(state) PROVE job' \in Job
      BY <2>0, <2>1, <3>3 DEF FinishJob, Job, Retired
    <3>4. QED
      BY <1>6, <3>1, <3>2, <3>3
  <2>4. TaskRequest
    BY <1>6 DEF ClaimJob, CancelJob, RepeatJob, FinishJob
  <2>5. QED
    BY <1>c, <2>3, <2>4
<1>7. CASE ReadJob
  BY <1>0, <1>b, <1>7, MaintainedFacts DEF ReadJob, TypeOK
<1>8. CASE Connect \/ Disconnect
  BY <1>0, <1>b, <1>8 DEF Connect, Disconnect, TypeOK
<1>9. ASSUME NEW w \in Wake \cup {None}, WakeRequest(w) PROVE TypeOK'
  <2>1. pushing = "nobody" /\ SendDue(w, "request")
        /\ UNCHANGED <<endpoint, job, computer, firing, alarm, slip, evictions>>
    BY <1>9 DEF WakeRequest
  <2>2. /\ wake' \in Wake \cup {None}
        /\ spacing' \in 0 .. Interval
        /\ pushing' \in {"nobody", "request"}
        /\ pushing' # "nobody" => wake' # None
    BY <1>0, <2>1, SendDueType
  <2>3. owed' \in BOOLEAN
    BY <1>0, <1>9 DEF WakeRequest, AfterRequest, TypeOK
  <2>4. QED
    BY <1>0, <1>b, <2>1, <2>2, <2>3 DEF TypeOK
<1>10. ASSUME NEW ok \in BOOLEAN, PushDone(ok) PROVE TypeOK'
  BY <1>0, <1>b, <1>10 DEF PushDone, AfterRequest, TypeOK
<1>11. CASE AlarmFires
  BY <1>0, <1>b, <1>11 DEF AlarmFires, rows, TypeOK
<1>12. CASE AlarmDrains
  <2>1. /\ wake' \in Wake \cup {None}
        /\ spacing' \in 0 .. Interval
        /\ pushing' \in {"nobody", "alarm"}
        /\ pushing' # "nobody" => wake' # None
    <3>1. wake \in Wake \cup {None} /\ pushing = "nobody" /\ SendDue(wake, "alarm")
      BY <1>0, <1>12 DEF AlarmDrains, TypeOK
    <3>2. QED
      BY <1>0, <3>1, SendDueType
  <2>2. owed' \in BOOLEAN /\ firing' = "drained"
        /\ UNCHANGED <<endpoint, job, computer, alarm, slip, evictions>>
    BY <1>0, <1>12 DEF AlarmDrains, TypeOK
  <2>3. QED
    BY <1>0, <1>b, <2>1, <2>2 DEF TypeOK
<1>13. CASE Evict
  <2>1. evictions' \in 0 .. MaxEvictions
    BY <1>0, <1>13, BoundFacts DEF Evict, TypeOK
  <2>2. alarm' \in Nat \cup {None} /\ slip' \in {"none", "refused", "evicted"}
    BY <1>0, <1>13 DEF Evict, TypeOK
  <2>3. /\ pushing' = "nobody" /\ firing' = "no" /\ owed' = FALSE /\ computer' = FALSE
        /\ UNCHANGED <<endpoint, job, wake, spacing>>
    BY <1>13 DEF Evict
  <2>4. QED
    BY <1>0, <1>b, <2>1, <2>2, <2>3 DEF TypeOK
<1>14. CASE Tick
  <2>1. job' \in Job \cup {None}
    <3>1. CASE job = None
      BY <1>14, <3>1 DEF Tick
    <3>2. CASE job # None
      <4>1. /\ job \in Job
            /\ job' = [job EXCEPT !.start = Later(@),
                                  !.left = IF @ > Lowest(job.state) THEN @ - 1 ELSE @]
        BY <1>0, <1>14, <3>2 DEF Tick, TypeOK
      <4> DEFINE left == IF job.left > Lowest(job.state) THEN job.left - 1 ELSE job.left
      <4>2. left \in Int /\ Later(job.start) \in Nat
        BY <4>1 DEF Job, Later
      <4>3. job' = [job EXCEPT !.start = Later(job.start), !.left = left]
        BY <4>1
      <4> HIDE DEF left
      <4>4. job' \in Job
        BY <4>1, <4>2, <4>3 DEF Job
      <4>5. QED
        BY <4>4
    <3>3. QED
      BY <3>1, <3>2
  <2>2. wake' \in Wake \cup {None} /\ (wake # None => wake' # None)
    <3>1. CASE wake = None
      BY <1>14, <3>1 DEF Tick
    <3>2. CASE wake # None
      <4>1. wake \in Wake /\ wake' = [wake EXCEPT !.left = Later(@)]
        BY <1>0, <1>14, <3>2 DEF Tick, TypeOK
      <4>2. Later(wake.left) \in Nat
        BY <4>1, BoundFacts DEF Later, Wake
      <4>3. wake' \in Wake
        BY <4>1, <4>2 DEF Wake
      <4>4. QED
        BY <4>3, NoneAssumption
    <3>3. QED
      BY <3>1, <3>2
  <2>3. spacing' \in 0 .. Interval /\ alarm' \in Nat \cup {None}
    BY <1>0, <1>14, BoundFacts DEF Tick, TypeOK, Later
  <2>4. UNCHANGED <<computer, pushing, firing, owed, slip, evictions>>
    BY <1>14 DEF Tick
  <2>5. QED
    BY <1>0, <1>b, <2>1, <2>2, <2>3, <2>4 DEF TypeOK
<1>15. CASE UNCHANGED vars
  BY <1>0, <1>15 DEF vars, rows, TypeOK
<1>16. wake \in Wake \cup {None} /\ \A left \in WakeLives : NewWake(left) \in Wake \cup {None}
  BY <1>0, NewWakeType DEF TypeOK
<1>17. QED
  BY <1>1, <1>2, <1>3, <1>4, <1>5, <1>6, <1>7, <1>8, <1>9, <1>10, <1>11, <1>12, <1>13,
     <1>14, <1>15, <1>16 DEF Next

\* An empty room is typed.
LEMMA InitTypes == ASSUME Init PROVE TypeInv
<1>1. Records(endpoint) = {} /\ endpoint \in Directory
  BY DEF Init, Records, Directory
<1>2. DirectoryOK(endpoint)
  BY <1>1, FS_EmptySet, BoundFacts DEF DirectoryOK
<1>3. 0 \in 0 .. Interval /\ 0 \in 0 .. MaxEvictions
  BY BoundFacts
<1>4. /\ endpoint \in [Recipient -> 0 .. TTL \cup {None}]
      /\ Cardinality({r \in Recipient : endpoint[r] # None}) <= Limit
  BY <1>2 DEF DirectoryOK, Directory, Records
<1>5. TypeOK
  BY <1>3, <1>4 DEF Init, TypeOK
<1>6. QED
  BY <1>2, <1>5 DEF TypeInv

\* The room's rows are always typed, and the directory never holds more than
\* Limit records, however records are published, refused and purged.
THEOREM TypeCorrect == Spec => []TypeOK
<1>1. Init => TypeInv
  BY InitTypes
<1>2. TypeInv /\ [Next]_vars => TypeInv'
  BY TypeStep
<1>3. QED
  BY <1>1, <1>2, PTL DEF Spec, TypeInv

-----------------------------------------------------------------------------
(* The alarm composes the deadlines *)

\* No handler is under way that will schedule, and nothing exempts the alarm.
Settled == firing = "no" /\ ~owed /\ slip = "none"

\* Settled, the alarm covers the directory and the job, and the wake too unless
\* a request awaits its push.  Only a drained alarm handler awaits one.
AlarmInv ==
    /\ TypeInv
    /\ pushing = "alarm" => firing = "drained"
    /\ Settled => /\ Covered(EndpointDeadlines(endpoint))
                  /\ Covered(JobDeadlines(job))
                  /\ pushing = "nobody" => Covered(WakeDeadlines)

\* A turn of scheduling covers every deadline.
LEMMA ScheduleCovers ==
    ASSUME TypeInv, Schedule
    PROVE  /\ Covered(EndpointDeadlines(endpoint))'
           /\ Covered(JobDeadlines(job))'
           /\ Covered(WakeDeadlines)'
<1> DEFINE S == Composed(Purged, MaintainedJob)
<1>1. Purged \in Directory
  BY PurgedFacts DEF TypeInv, DirectoryOK
<1>2. S \in SUBSET Nat /\ IsFiniteSet(S)
  BY <1>1, ComposedTimes DEF TypeInv
<1>3. alarm' = Earliest(S) /\ endpoint' = Purged /\ job' = MaintainedJob
      /\ UNCHANGED <<computer, wake, spacing>>
  BY DEF Schedule
<1>4. (JobDeadlines(job))' = JobDeadlines(MaintainedJob) /\ WakeDeadlines' = WakeDeadlines
      /\ (EndpointDeadlines(endpoint))' = EndpointDeadlines(Purged)
  BY <1>3 DEF JobDeadlines, WakeDeadlines, EndpointDeadlines
<1>5. /\ EndpointDeadlines(Purged) \subseteq S /\ JobDeadlines(MaintainedJob) \subseteq S
      /\ WakeDeadlines \subseteq S
  BY DEF Composed
<1> HIDE DEF S
<1>6. \A t \in S : alarm' \in Nat /\ alarm' <= t
  BY <1>2, <1>3, EarliestFacts
<1>7. \A t \in S : alarm' # None /\ (alarm' <= t \/ alarm' = 0)
  BY <1>6, BoundFacts
<1>8. QED
  BY <1>4, <1>5, <1>7 DEF Covered

\* A deadline that a tick brings nearer stays covered, as the alarm comes
\* nearer with it.
LEMMA TickCovers ==
    ASSUME alarm \in Nat \cup {None}, alarm' = Later(alarm),
           NEW t \in Int, NEW u \in Int, u >= t - 1 \/ (u >= 0 /\ t <= 1), Covered({t})
    PROVE  alarm' # None /\ (alarm' <= u \/ alarm' = 0)
<1>1. alarm \in Nat /\ (alarm <= t \/ alarm = 0)
  BY DEF Covered
<1>2. CASE alarm = 0
  BY <1>2, BoundFacts DEF Later
<1>3. CASE alarm > 0
  <2>1. alarm' = alarm - 1 /\ alarm <= t
    BY <1>1, <1>3, BoundFacts DEF Later
  <2>2. QED
    BY <1>1, <1>3, <2>1, BoundFacts
<1>4. QED
  BY <1>1, <1>2, <1>3

\* Time passing keeps what is covered covered.
LEMMA TickStep ==
    ASSUME TypeInv, Tick
    PROVE  /\ Covered(EndpointDeadlines(endpoint)) => Covered(EndpointDeadlines(endpoint))'
           /\ Covered(JobDeadlines(job)) => Covered(JobDeadlines(job))'
           /\ Covered(WakeDeadlines) => Covered(WakeDeadlines)'
<1>0. TypeOK /\ alarm \in Nat \cup {None} /\ alarm' = Later(alarm)
  BY DEF TypeInv, TypeOK, Tick
<1>1. ASSUME Covered(EndpointDeadlines(endpoint)) PROVE Covered(EndpointDeadlines(endpoint))'
  <2> SUFFICES ASSUME NEW r \in Recipient, endpoint'[r] # None
               PROVE  alarm' # None /\ (alarm' <= endpoint'[r] \/ alarm' = 0)
    BY DEF Covered, EndpointDeadlines
  <2>1. endpoint[r] \in 0 .. TTL /\ endpoint'[r] = Later(endpoint[r])
    BY <1>0 DEF Tick, TypeOK, Later
  <2>2. Covered({endpoint[r]})
    BY <1>1, <2>1, BoundFacts DEF Covered, EndpointDeadlines
  <2>3. endpoint[r] \in Int /\ endpoint'[r] \in Int /\ endpoint'[r] >= endpoint[r] - 1
    BY <2>1, BoundFacts DEF Later
  <2>4. QED
    BY <1>0, <2>2, <2>3, TickCovers
<1>2. ASSUME Covered(WakeDeadlines) PROVE Covered(WakeDeadlines)'
  <2>1. CASE wake = None
    BY <2>1 DEF Tick, Covered, WakeDeadlines
  <2>2. CASE wake # None
    <3>1. /\ wake \in Wake /\ wake' = [wake EXCEPT !.left = Later(@)]
          /\ spacing' = Later(spacing) /\ spacing \in 0 .. Interval
      BY <1>0, <2>2 DEF Tick, TypeOK
    <3>2. wake.left \in Nat /\ spacing \in Nat
      BY <3>1, BoundFacts DEF Wake
    <3>3. wake'.left = Later(wake.left)
      BY <3>1 DEF Wake
    <3>4. /\ wake'.left \in Int /\ wake'.left >= wake.left - 1
          /\ spacing' \in Int /\ spacing' >= spacing - 1
      BY <3>1, <3>2, <3>3, BoundFacts DEF Later
    <3>5. Covered({wake.left}) /\ Covered({spacing})
      BY <1>2, <2>2 DEF Covered, WakeDeadlines
    <3>6. alarm' # None /\ (alarm' <= wake'.left \/ alarm' = 0)
      BY <1>0, <3>2, <3>4, <3>5, TickCovers
    <3>7. alarm' # None /\ (alarm' <= spacing' \/ alarm' = 0)
      BY <1>0, <3>2, <3>4, <3>5, TickCovers
    <3>8. WakeDeadlines' \subseteq {spacing', wake'.left}
      BY DEF WakeDeadlines
    <3>9. QED
      BY <3>6, <3>7, <3>8 DEF Covered
  <2>3. QED
    BY <2>1, <2>2
<1>3. ASSUME Covered(JobDeadlines(job)) PROVE Covered(JobDeadlines(job))'
  <2>1. CASE job = None
    BY <2>1 DEF Tick, Covered, JobDeadlines
  <2>2. CASE job # None
    <3> DEFINE left == IF job.left > Lowest(job.state) THEN job.left - 1 ELSE job.left
               next(j) == IF j.start > 0 THEN j.start ELSE OfferEvery
    <3>1. job \in Job /\ job' = [job EXCEPT !.start = Later(job.start), !.left = left]
          /\ computer' = computer
      BY <1>0, <2>2 DEF Tick, TypeOK
    <3>2. job'.state = job.state /\ job'.start = Later(job.start) /\ job'.left = left
      BY <3>1 DEF Job
    <3>3. job.left \in Int /\ job.start \in Nat
      BY <3>1 DEF Job
    <3>4. left \in Int /\ left >= job.left - 1
      BY <3>3
    <3>5. next(job) \in Int /\ next(job') \in Int
          /\ (next(job') >= next(job) - 1 \/ (next(job') >= 0 /\ next(job) <= 1))
      BY <3>2, <3>3, BoundFacts DEF Later
    <3>6. (JobDeadlines(job))' \subseteq {left, next(job')}
      BY <3>1, <3>2 DEF JobDeadlines
    <3>7. ASSUME left \in (JobDeadlines(job))' PROVE alarm' # None /\ (alarm' <= left \/ alarm' = 0)
      <4>1. JobDeadlines(job) # {} => job.left \in JobDeadlines(job)
        BY DEF JobDeadlines
      <4>2. JobDeadlines(job) # {}
        BY <2>2, <3>1, <3>2, <3>7 DEF JobDeadlines
      <4>3. Covered({job.left})
        BY <1>3, <4>1, <4>2 DEF Covered
      <4> HIDE DEF left
      <4>4. QED
        BY <1>0, <3>3, <3>4, <4>3, TickCovers
    <3>8. ASSUME next(job') \in (JobDeadlines(job))', next(job') # left
          PROVE  alarm' # None /\ (alarm' <= next(job') \/ alarm' = 0)
      <4>1. next(job) \in JobDeadlines(job)
        BY <2>2, <3>1, <3>2, <3>8 DEF JobDeadlines
      <4>2. Covered({next(job)})
        BY <1>3, <4>1 DEF Covered
      <4> HIDE DEF next
      <4>3. QED
        BY <1>0, <3>5, <4>2, TickCovers
    <3> HIDE DEF left, next
    <3>9. QED
      BY <3>6, <3>7, <3>8 DEF Covered
  <2>3. QED
    BY <2>1, <2>2
<1>4. QED
  BY <1>1, <1>2, <1>3

\* A read that expires an overdue job leaves its new deadline covered: the alarm
\* was due already.
LEMMA ReadCovers ==
    ASSUME TypeInv, ReadJob, Covered(JobDeadlines(job))
    PROVE  Covered(JobDeadlines(job))'
<1>0. job \in Job /\ job' = ExpiredJob /\ computer' = computer /\ alarm' = alarm
      /\ alarm \in Nat \cup {None}
  BY DEF ReadJob, TypeInv, TypeOK
<1>1. CASE job.state = "queued" /\ job.left <= 0
  <2>1. job.left \in Int /\ job.left \in JobDeadlines(job)
    BY <1>0, <1>1, NoneAssumption DEF JobDeadlines, Retired, Job
  <2>2. alarm \in Nat /\ alarm = 0
    BY <1>0, <1>1, <2>1 DEF Covered
  <2>3. alarm' # None /\ alarm' = 0
    BY <1>0, <2>2, BoundFacts
  <2>4. QED
    BY <2>3 DEF Covered
<1>2. CASE ~(job.state = "queued" /\ job.left <= 0)
  <2>1. job' = job
    BY <1>0, <1>2 DEF ExpiredJob
  <2>2. (JobDeadlines(job))' = JobDeadlines(job)
    BY <1>0, <2>1 DEF JobDeadlines
  <2>3. QED
    BY <1>0, <2>2 DEF Covered
<1>3. QED
  BY <1>1, <1>2

\* A step of any handler keeps the alarm composed, or owes a scheduling.
LEMMA AlarmStep == ASSUME AlarmInv, TypeInv', [Next]_vars PROVE AlarmInv'
<1> DEFINE Times == /\ Covered(EndpointDeadlines(endpoint))
                    /\ Covered(JobDeadlines(job))
                    /\ pushing = "nobody" => Covered(WakeDeadlines)
           Drained == pushing = "alarm" => firing = "drained"
<1>0. TypeInv /\ TypeOK /\ Drained /\ (Settled => Times)
  BY DEF AlarmInv, TypeInv
<1> SUFFICES Drained' /\ (Settled' => Times')
  BY DEF AlarmInv
<1>a. ASSUME UNCHANGED <<pushing, firing>> PROVE Drained'
  BY <1>0, <1>a
<1>b. ASSUME owed' = TRUE PROVE ~Settled'
  BY <1>b DEF Settled
<1>c. ASSUME UNCHANGED <<endpoint, alarm>>
      PROVE  Covered(EndpointDeadlines(endpoint)) => Covered(EndpointDeadlines(endpoint))'
  BY <1>c DEF Covered, EndpointDeadlines
<1>d. ASSUME UNCHANGED <<job, alarm>>, computer' = computer \/ computer' = FALSE
      PROVE  Covered(JobDeadlines(job)) => Covered(JobDeadlines(job))'
  BY <1>d DEF Covered, JobDeadlines
<1>e. ASSUME UNCHANGED <<wake, spacing, alarm>>
      PROVE  Covered(WakeDeadlines) => Covered(WakeDeadlines)'
  BY <1>e DEF Covered, WakeDeadlines
<1>f. wake' = None => Covered(WakeDeadlines)'
  BY DEF Covered, WakeDeadlines
<1>1. CASE Schedule
  <2>1. Drained'
    BY <1>0, <1>1 DEF Schedule
  <2>2. QED
    BY <1>0, <1>1, <2>1, ScheduleCovers
<1>2. ASSUME NEW r \in Recipient, NEW life \in RecordLives, PutEndpoint(r, life)
      PROVE  Drained' /\ (Settled' => Times')
  BY <1>2, <1>a, <1>b DEF PutEndpoint
<1>3. ASSUME NEW r \in Recipient, RefuseEndpoint(r) PROVE Drained' /\ (Settled' => Times')
  <2>1. UNCHANGED <<pushing, firing>> /\ slip' = "refused"
    BY <1>3 DEF RefuseEndpoint
  <2>2. QED
    BY <1>a, <2>1 DEF Settled
<1>4. ASSUME NEW r \in Recipient, DeleteEndpoint(r) PROVE Drained' /\ (Settled' => Times')
  BY <1>4, <1>a, <1>b DEF DeleteEndpoint
<1>5. ASSUME NEW r \in Recipient, GetEndpoint(r) PROVE Drained' /\ (Settled' => Times')
  <2>1. /\ UNCHANGED <<job, computer, wake, spacing, pushing, firing, alarm, slip>>
        /\ owed' = (owed \/ endpoint'[r] # None)
        /\ endpoint' = endpoint \/ endpoint' = [endpoint EXCEPT ![r] = None]
    BY <1>5 DEF GetEndpoint
  <2>2. Settled' => Settled
    BY <2>1 DEF Settled
  <2>3. (EndpointDeadlines(endpoint))' \subseteq EndpointDeadlines(endpoint)
    BY <1>0, <2>1 DEF EndpointDeadlines, TypeOK
  <2>4. Covered(EndpointDeadlines(endpoint)) => Covered(EndpointDeadlines(endpoint))'
    BY <2>1, <2>3 DEF Covered
  <2>5. QED
    BY <1>0, <1>a, <1>d, <1>e, <2>1, <2>2, <2>4
<1>6. CASE TaskRequest \/ Connect
  BY <1>6, <1>a, <1>b DEF TaskRequest, Connect
<1>7. CASE ReadJob
  <2>1. UNCHANGED <<endpoint, computer, wake, spacing, pushing, firing, owed, alarm, slip>>
    BY <1>7 DEF ReadJob
  <2>2. Settled' => Settled
    BY <2>1 DEF Settled
  <2>3. Settled' => Covered(JobDeadlines(job))'
    BY <1>0, <1>7, <2>2, ReadCovers
  <2>4. QED
    BY <1>0, <1>a, <1>c, <1>e, <2>1, <2>2, <2>3
<1>8. CASE Disconnect
  <2>1. /\ UNCHANGED <<endpoint, job, wake, spacing, pushing, firing, owed, alarm, slip>>
        /\ computer' = FALSE
    BY <1>8 DEF Disconnect
  <2>2. Settled' => Settled
    BY <2>1 DEF Settled
  <2>3. QED
    BY <1>0, <1>a, <1>c, <1>d, <1>e, <2>1, <2>2
<1>9. ASSUME NEW w \in Wake \cup {None}, WakeRequest(w) PROVE Drained' /\ (Settled' => Times')
  <2>1. pushing' \in {"nobody", "request"}
    BY <1>0, <1>9, SendDueType DEF WakeRequest
  <2>2. UNCHANGED <<endpoint, job, computer, firing, alarm, slip>>
    BY <1>9 DEF WakeRequest
  <2>3. ~owed' => ~owed /\ (pushing' = "nobody" => wake' = None)
    BY <1>0, <1>9, <2>1 DEF WakeRequest, AfterRequest, TypeOK
  <2>4. Settled' => Settled /\ ~owed'
    BY <2>2, <2>3 DEF Settled
  <2>5. QED
    BY <1>0, <1>c, <1>d, <1>f, <2>1, <2>2, <2>3, <2>4
<1>10. ASSUME NEW ok \in BOOLEAN, PushDone(ok) PROVE Drained' /\ (Settled' => Times')
  <2>1. UNCHANGED <<endpoint, job, computer, firing, alarm, slip>> /\ pushing' = "nobody"
    BY <1>10 DEF PushDone
  <2>2. ~owed' => ~owed /\ wake' = None
    BY <1>0, <1>10 DEF PushDone, AfterRequest, TypeOK
  <2>3. Settled' => Settled /\ ~owed'
    BY <2>1, <2>2 DEF Settled
  <2>4. QED
    BY <1>0, <1>c, <1>d, <1>f, <2>1, <2>2, <2>3
<1>11. CASE AlarmFires
  <2>1. firing = "no" /\ firing' = "begun" /\ pushing' = pushing
    BY <1>11 DEF AlarmFires
  <2>2. QED
    BY <1>0, <2>1 DEF Settled
<1>12. CASE AlarmDrains
  <2>1. firing' = "drained"
    BY <1>12 DEF AlarmDrains
  <2>2. QED
    BY <2>1 DEF Settled
<1>13. CASE Evict
  <2>1. /\ pushing' = "nobody" /\ computer' = FALSE
        /\ UNCHANGED <<endpoint, job, wake, spacing>>
    BY <1>13 DEF Evict
  <2>2. Settled' => slip = "none" /\ ~owed /\ pushing # "request"
    BY <1>13 DEF Evict, Settled
  <2>3. CASE firing # "no"
    <3>1. alarm' = 0 /\ alarm' # None
      BY <1>13, <2>3, BoundFacts DEF Evict
    <3>2. QED
      BY <2>1, <3>1 DEF Covered
  <2>4. CASE firing = "no"
    <3>1. alarm' = alarm
      BY <1>13, <2>4 DEF Evict
    <3>2. pushing # "alarm"
      BY <1>0, <2>4
    <3>3. Settled' => Settled /\ pushing = "nobody"
      BY <1>0, <2>2, <2>4, <3>2 DEF Settled, TypeOK
    <3>4. QED
      BY <1>0, <1>c, <1>d, <1>e, <2>1, <3>1, <3>3
  <2>5. QED
    BY <2>3, <2>4
<1>14. CASE Tick
  <2>1. UNCHANGED <<pushing, firing, owed, slip>>
    BY <1>14 DEF Tick
  <2>2. Settled' => Settled
    BY <2>1 DEF Settled
  <2>3. QED
    BY <1>0, <1>14, <1>a, <2>1, <2>2, TickStep
<1>15. CASE UNCHANGED vars
  <2>1. UNCHANGED <<endpoint, job, computer, wake, spacing, pushing, firing, owed, alarm, slip>>
    BY <1>15 DEF vars, rows
  <2>2. Settled' => Settled
    BY <2>1 DEF Settled
  <2>3. QED
    BY <1>0, <1>a, <1>c, <1>d, <1>e, <2>1, <2>2
<1>16. wake \in Wake \cup {None} /\ \A left \in WakeLives : NewWake(left) \in Wake \cup {None}
  BY <1>0, NewWakeType DEF TypeOK
<1> HIDE DEF Times, Drained
<1>17. QED
  BY <1>1, <1>2, <1>3, <1>4, <1>5, <1>6, <1>7, <1>8, <1>9, <1>10, <1>11, <1>12, <1>13,
     <1>14, <1>15, <1>16
     DEF Next, PutJob, ClaimJob, CancelJob, RepeatJob, FinishJob

\* One alarm serves the directory, the jobs and the wake: whenever every handler
\* has ended, it is no later than the earliest deadline, whichever handlers
\* interleaved, for any limits, lifetimes and number of recipients.
THEOREM AlarmIsComposed == Spec => []AlarmComposed
<1>1. Init => AlarmInv
  <2> SUFFICES ASSUME Init PROVE AlarmInv
    OBVIOUS
  <2>1. TypeInv
    BY InitTypes
  <2>2. EndpointDeadlines(endpoint) = {} /\ JobDeadlines(job) = {} /\ WakeDeadlines = {}
    BY DEF Init, EndpointDeadlines, JobDeadlines, WakeDeadlines
  <2>3. QED
    BY <2>1, <2>2 DEF Init, AlarmInv, Covered
<1>2. AlarmInv /\ [Next]_vars => AlarmInv'
  BY TypeStep, AlarmStep DEF AlarmInv
<1>3. AlarmInv => AlarmComposed
  BY DEF AlarmInv, AlarmComposed, Idle, Settled, Covered
<1>4. QED
  BY <1>1, <1>2, <1>3, PTL DEF Spec
=============================================================================
