----------------------------- MODULE RoomAlarm ------------------------------
(***************************************************************************)
(* The one alarm of a Worker room (a Durable Object), shared by the        *)
(* endpoint directory, the scheduled task jobs and the trailing wake.      *)
(* Every handler that moves a deadline ends in scheduleRoomTaskAlarm,      *)
(* which purges, computes the earliest deadline and sets the alarm; the    *)
(* directory also sets the alarm on its own, from its records only.        *)
(*                                                                         *)
(* A handler is interrupted only where it awaits something other than      *)
(* storage: the push itself, and the turn of its scheduling.  The object   *)
(* may be evicted there; storage and the alarm survive.  One job stands    *)
(* for the job table, deadlines are kept as the time left.                 *)
(***************************************************************************)
EXTENDS Integers, FiniteSets, FiniteSetsExt

CONSTANTS
    Recipient,    \* keys under which endpoints are published
    Limit,        \* ENDPOINT_RECIPIENT_LIMIT
    TTL,          \* ENDPOINT_TTL_MS
    Interval,     \* WAKE_INTERVAL_MS
    MaxTries,     \* MAX_ATTEMPTS
    WakeLives,    \* lifetimes with which wakes are requested
    OfferEvery,   \* the 15 seconds between offers of a due job
    Starts,       \* times until a new job's notBefore
    JobLives,     \* lifetimes of new jobs
    Keep,         \* the 7 days a finished job stays on record
    MaxEvictions, \* bound: evictions of the object in one behaviour
    None          \* an absent row, or no alarm

ASSUME BoundAssumption ==
    /\ \A n \in {Limit, TTL, Interval, MaxTries, OfferEvery, Keep} : n \in Nat \ {0}
    /\ WakeLives \subseteq Nat \ {0} /\ JobLives \subseteq Nat \ {0}
    /\ Starts \subseteq Nat
    /\ MaxEvictions \in Nat
    /\ None \notin Int

VARIABLES
    endpoint,   \* endpoint[r]: time left of r's record, or None
    job,        \* the task job, or None
    computer,   \* is the job's computer connected
    wake,       \* the pending wake, or None
    spacing,    \* time left until lastSentAt + WAKE_INTERVAL_MS
    pushing,    \* who awaits APNs: "nobody", a "request" or the "alarm"
    firing,     \* the alarm handler: "no", "begun", or "drained" until its scheduling
    owed,       \* some handler has still to take its turn of scheduling
    alarm,      \* time left until the alarm, or None
    slip,       \* what last left the alarm uncomposed (history)
    evictions   \* evictions so far

rows == <<endpoint, job, computer, wake, spacing>>
vars == <<rows, pushing, firing, owed, alarm, slip, evictions>>

\* start, left: time left until notBefore and expiresAt; of a retired job, left is
\* what remains of its retention.
Retired == {"failed", "ended"}
Job == [state : {"queued", "accepted", "failed", "ended"}, start : Nat, left : Int]
Wake == [left : Nat, tries : 0 .. MaxTries]

ASSUME NoneAssumption == None \notin Job /\ None \notin Wake

TypeOK ==
    /\ endpoint \in [Recipient -> 0 .. TTL \cup {None}]
    /\ Cardinality({r \in Recipient : endpoint[r] # None}) <= Limit
    /\ job \in Job \cup {None}
    /\ computer \in BOOLEAN
    /\ wake \in Wake \cup {None}
    /\ spacing \in 0 .. Interval
    /\ pushing \in {"nobody", "request", "alarm"}
    /\ pushing # "nobody" => wake # None
    /\ firing \in {"no", "begun", "drained"} /\ owed \in BOOLEAN
    /\ alarm \in Nat \cup {None}
    /\ slip \in {"none", "refused", "evicted"}
    /\ evictions \in 0 .. MaxEvictions

Init ==
    /\ endpoint = [r \in Recipient |-> None]
    /\ job = None /\ computer = FALSE
    /\ wake = None /\ spacing = 0
    /\ pushing = "nobody" /\ firing = "no" /\ owed = FALSE
    /\ alarm = None /\ slip = "none" /\ evictions = 0

-----------------------------------------------------------------------------
(* Deadlines *)

Earliest(times) == IF times = {} THEN None ELSE Min(times)

Purged == [r \in Recipient |-> IF endpoint[r] = 0 THEN None ELSE endpoint[r]]

EndpointDeadlines(e) == {e[r] : r \in {q \in Recipient : e[q] # None}}

\* expireJob: the retention runs from expiresAt.
ExpiredJob ==
    IF job # None /\ job.state = "queued" /\ job.left <= 0
    THEN [job EXCEPT !.state = "ended", !.left = @ + Keep] ELSE job

\* maintain removes what was kept long enough.
MaintainedJob ==
    IF ExpiredJob # None /\ ExpiredJob.state \in Retired /\ ExpiredJob.left < 0
    THEN None ELSE ExpiredJob

JobDeadlines(j) ==
    IF j = None \/ j.state = "accepted" THEN {}
    ELSE IF j.state \in Retired \/ ~computer THEN {j.left}
    ELSE {j.left, IF j.start > 0 THEN j.start ELSE OfferEvery}

WakeDeadlines == IF wake = None THEN {} ELSE {spacing, wake.left}

\* Mutant: the wake's deadline is left out.
ComposedWithoutWake(e, j) == EndpointDeadlines(e) \cup JobDeadlines(j)

Composed(e, j) == EndpointDeadlines(e) \cup JobDeadlines(j) \cup WakeDeadlines

\* A turn of scheduleRoomTaskAlarm.
Schedule ==
    /\ owed
    /\ endpoint' = Purged
    /\ job' = MaintainedJob
    /\ alarm' = Earliest(Composed(endpoint', job'))
    /\ owed' = FALSE /\ slip' = "none"
    /\ firing' = IF firing = "drained" /\ pushing # "alarm" THEN "no" ELSE firing
    /\ UNCHANGED <<computer, wake, spacing, pushing, evictions>>

-----------------------------------------------------------------------------
(* The endpoint directory *)

\* validEndpointRecord: not expired, and at most TTL ahead.
RecordLives == 1 .. TTL

Full(e, r) == e[r] = None /\ Cardinality({q \in Recipient : e[q] # None}) >= Limit

\* Mutant: the alarm is left to the scheduling.
PutEndpointUnset(r, life) ==
    /\ ~Full(Purged, r)
    /\ endpoint' = [Purged EXCEPT ![r] = life]
    /\ owed' = TRUE
    /\ UNCHANGED <<job, computer, wake, spacing, pushing, firing, alarm, slip, evictions>>

\* PUT, accepted: the alarm is set from the records, then scheduled.
PutEndpoint(r, life) ==
    /\ ~Full(Purged, r)
    /\ endpoint' = [Purged EXCEPT ![r] = life]
    /\ alarm' = Min({life} \cup EndpointDeadlines(Purged))
    /\ owed' = TRUE
    /\ UNCHANGED <<job, computer, wake, spacing, pushing, firing, slip, evictions>>

\* PUT, 409: the purge has set the alarm, and nothing is scheduled.
RefuseEndpoint(r) ==
    /\ Full(Purged, r)
    /\ endpoint' = Purged
    /\ alarm' = Earliest(EndpointDeadlines(Purged))
    /\ slip' = "refused"
    /\ UNCHANGED <<job, computer, wake, spacing, pushing, firing, owed, evictions>>

\* DELETE, of a record or of none.
DeleteEndpoint(r) ==
    /\ endpoint' = [endpoint EXCEPT ![r] = None]
    /\ owed' = TRUE
    /\ UNCHANGED <<job, computer, wake, spacing, pushing, firing, alarm, slip, evictions>>

\* GET: 200 schedules, 404 removes an expired record and does not.
GetEndpoint(r) ==
    /\ endpoint' = IF endpoint[r] = 0 THEN [endpoint EXCEPT ![r] = None] ELSE endpoint
    /\ owed' = (owed \/ endpoint'[r] # None)
    /\ UNCHANGED <<job, computer, wake, spacing, pushing, firing, alarm, slip, evictions>>

-----------------------------------------------------------------------------
(* Task jobs *)

TaskRequest ==
    /\ owed' = TRUE
    /\ UNCHANGED <<endpoint, computer, wake, spacing, pushing, firing, alarm, slip, evictions>>

PutJob(start, left) ==
    /\ job = None /\ start < left
    /\ job' = [state |-> "queued", start |-> start, left |-> left]
    /\ TaskRequest

ClaimJob ==
    /\ job # None /\ job.state = "queued" /\ job.start = 0 /\ job.left > 0
    /\ job' = [job EXCEPT !.state = "accepted"]
    /\ TaskRequest

\* finish by the receiver.
FinishJob(state) ==
    /\ job # None /\ job.state = "accepted"
    /\ job' = [job EXCEPT !.state = state, !.left = @ + Keep]
    /\ TaskRequest

\* cancel of a queued job, or of a failed one, whose retention begins again.
CancelJob ==
    /\ job # None
    /\ \/ /\ job.state = "queued" /\ job.left > 0
          /\ job' = [job EXCEPT !.state = "ended", !.left = @ + Keep]
       \/ /\ job.state = "failed"
          /\ job' = [job EXCEPT !.state = "ended", !.left = Max({@, Keep})]
    /\ TaskRequest

\* A listing, a look-up or a search for due jobs expires on the way.
ReadJob ==
    /\ job # None /\ job' = ExpiredJob
    /\ UNCHANGED <<endpoint, computer, wake, spacing, pushing, firing, owed, alarm, slip, evictions>>

\* A repeated put, claim, finish or cancel that changes nothing succeeds.
RepeatJob ==
    /\ job # None /\ UNCHANGED job
    /\ TaskRequest

\* Hello of the computer; a closed socket schedules nothing.
Connect ==
    /\ ~computer /\ computer' = TRUE
    /\ owed' = TRUE
    /\ UNCHANGED <<endpoint, job, wake, spacing, pushing, firing, alarm, slip, evictions>>

Disconnect ==
    /\ computer /\ computer' = FALSE
    /\ UNCHANGED <<endpoint, job, wake, spacing, pushing, firing, owed, alarm, slip, evictions>>

-----------------------------------------------------------------------------
(* Wakes *)

\* Nothing pending, or it expired or used up its attempts.
Spent(w) == IF w = None THEN TRUE ELSE w.left = 0 \/ w.tries >= MaxTries

\* sendDue on the record w, run by who: give up, wait, or claim and push.
SendDue(w, who) ==
    \/ /\ Spent(w)
       /\ wake' = None
       /\ UNCHANGED <<spacing, pushing>>
    \/ /\ ~Spent(w) /\ spacing > 0
       /\ wake' = w
       /\ UNCHANGED <<spacing, pushing>>
    \/ /\ ~Spent(w) /\ spacing = 0
       /\ wake' = [w EXCEPT !.tries = @ + 1]
       /\ spacing' = Interval
       /\ pushing' = who

\* Mutant: nothing is scheduled for a wake that is still pending.
AfterRequestNothing(w, owing) == owing

\* A request whose push, if any, is over: nextAt decides whether it schedules.
AfterRequest(w, owing) == owing \/ w # None

NewWake(left) ==
    [left |-> IF wake # None /\ wake.left > left THEN wake.left ELSE left, tries |-> 0]

\* An envelope with wake: true; of a known one only sendDue runs.
WakeRequest(w) ==
    /\ pushing = "nobody"
    /\ SendDue(w, "request")
    /\ owed' = IF pushing' = "request" THEN owed ELSE AfterRequest(wake', owed)
    /\ UNCHANGED <<endpoint, job, computer, firing, alarm, slip, evictions>>

PushDone(ok) ==
    /\ pushing # "nobody"
    /\ wake' = IF ok \/ wake.tries >= MaxTries THEN None ELSE wake
    /\ owed' = IF pushing = "alarm" THEN TRUE ELSE AfterRequest(wake', owed)
    /\ pushing' = "nobody"
    /\ UNCHANGED <<endpoint, job, computer, spacing, firing, alarm, slip, evictions>>

\* alarm(): the drain waits for its turn, then offers and schedules.
AlarmFires ==
    /\ alarm = 0 /\ firing = "no"
    /\ alarm' = None /\ firing' = "begun"
    /\ UNCHANGED <<rows, pushing, owed, slip, evictions>>

AlarmDrains ==
    /\ firing = "begun" /\ pushing = "nobody"
    /\ firing' = "drained"
    /\ SendDue(wake, "alarm")
    /\ owed' = (owed \/ pushing' # "alarm")
    /\ UNCHANGED <<endpoint, job, computer, alarm, slip, evictions>>

\* The object is evicted; an alarm whose handler had not ended is run again.
Evict ==
    /\ evictions < MaxEvictions
    /\ evictions' = evictions + 1
    /\ alarm' = IF firing # "no" THEN 0 ELSE alarm
    /\ slip' = IF owed \/ pushing = "request" THEN "evicted" ELSE slip
    /\ pushing' = "nobody" /\ firing' = "no" /\ owed' = FALSE /\ computer' = FALSE
    /\ UNCHANGED <<endpoint, job, wake, spacing>>

Later(x) == IF x # None /\ x > 0 THEN x - 1 ELSE x

\* A job that nobody maintains is overdue by what its retention can tell apart.
Lowest(state) ==
    IF state = "accepted" THEN 0 ELSE IF state = "queued" THEN -(Keep + 1) ELSE -1

Tick ==
    /\ endpoint' = [r \in Recipient |-> Later(endpoint[r])]
    /\ job' = IF job = None THEN None
              ELSE [job EXCEPT !.start = Later(@),
                               !.left = IF @ > Lowest(job.state) THEN @ - 1 ELSE @]
    /\ wake' = IF wake = None THEN None ELSE [wake EXCEPT !.left = Later(@)]
    /\ spacing' = Later(spacing)
    /\ alarm' = Later(alarm)
    /\ UNCHANGED <<computer, pushing, firing, owed, slip, evictions>>

Next ==
    \/ Schedule
    \/ \E r \in Recipient, life \in RecordLives : PutEndpoint(r, life)
    \/ \E r \in Recipient : RefuseEndpoint(r) \/ DeleteEndpoint(r) \/ GetEndpoint(r)
    \/ \E start \in Starts, left \in JobLives : PutJob(start, left)
    \/ ClaimJob \/ CancelJob \/ RepeatJob \/ ReadJob
    \/ \E state \in Retired : FinishJob(state)
    \/ Connect \/ Disconnect
    \/ \E left \in WakeLives : WakeRequest(NewWake(left))
    \/ WakeRequest(wake)
    \/ \E ok \in BOOLEAN : PushDone(ok)
    \/ AlarmFires \/ AlarmDrains
    \/ Evict
    \/ Tick

Spec == Init /\ [][Next]_vars

\* Time passes, handlers end, the drain gets its turn in the first-in first-out
\* chain of wakes, and an alarm that is due again and again fires.
FairSpec ==
    /\ Spec
    /\ WF_vars(Tick) /\ WF_vars(Schedule)
    /\ WF_vars(\E ok \in BOOLEAN : PushDone(ok))
    /\ SF_vars(AlarmDrains) /\ SF_vars(AlarmFires)

-----------------------------------------------------------------------------
(* Properties *)

Idle == pushing = "nobody" /\ firing = "no" /\ ~owed

Covered(times) == \A t \in times : alarm # None /\ (alarm <= t \/ alarm = 0)

\* scheduleRoomTaskAlarm composes: once every handler has ended, the alarm is no
\* later than any deadline of the room.  Only a refused endpoint, which overwrites
\* the alarm, and an eviction before the scheduling are exempt, until the next one.
AlarmComposed ==
    Idle /\ slip = "none" =>
        Covered(EndpointDeadlines(endpoint) \cup JobDeadlines(job) \cup WakeDeadlines)

\* "Expiry is enforced by storage alarms": whatever is refused or evicted, an
\* expired record is removed without anybody reading the directory.
ExpiredRecordsRemoved ==
    \A r \in Recipient : endpoint[r] = 0 ~> endpoint[r] # 0

\* A pending wake is pushed or given up once it is due, refused endpoints included;
\* an eviction before the alarm was set is the one way to leave it behind.
DueWakeServed ==
    (wake # None /\ spacing = 0) ~> (wake = None \/ pushing # "nobody" \/ slip = "evicted")
=============================================================================
