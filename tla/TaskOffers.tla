----------------------------- MODULE TaskOffers -----------------------------
(***************************************************************************)
(* How due task jobs are offered to the one connected computer they are    *)
(* addressed to.  Each round offers the first due job that is not in the   *)
(* socket's cache of recent offers; a cache entry is forgotten after       *)
(* Repeat units.  Node runs a round every Period units from a timer.  The  *)
(* Worker runs one when a computer says hello, after each PUT, and when    *)
(* the room's alarm fires.  Each of these sets the alarm again, and so do  *)
(* requests that offer nothing: endpoints, wakes, claims, finishes and     *)
(* cancellations.  It is set for the moment a job becomes due, and Period  *)
(* units ahead for a job that is due already, so that a request postpones  *)
(* the round such a job waits for.                                         *)
(*                                                                         *)
(* Jobs are numbered in the order store.due returns them; expiry is left   *)
(* to TaskJobs.  Only the time since an offer matters, so ages replace the *)
(* clock.                                                                  *)
(***************************************************************************)
EXTENDS Integers, Deployments

CONSTANTS
    Jobs,      \* number of jobs
    Repeat     \* 15 seconds, in units of Node's pump

ASSUME OfferAssumption ==
    /\ Jobs \in Nat
    /\ Repeat \in Nat \ {0}

JobNo == 1 .. Jobs
NotOffered == Repeat   \* forgotten offers and jobs never offered look alike

VARIABLES
    state,      \* state[j]: absent, scheduled (before its notBefore), queued (due),
                \* or left (claimed or cancelled)
    connected,  \* the computer has registered and advertised task dispatch
    age,        \* age[j]: units since j was offered on this socket
    seen,       \* jobs offered on this socket (history)
    wait        \* units until the next round

vars == <<runtime, state, connected, age, seen, wait>>

Worker == runtime = "worker"

\* A pump of one unit in Node, an alarm now + 15 seconds in the Worker.
Period == IF Worker THEN Repeat ELSE 1

TypeOK ==
    /\ runtime \in Runtime
    /\ state \in [JobNo -> {"absent", "scheduled", "queued", "left"}]
    /\ connected \in BOOLEAN
    /\ age \in [JobNo -> 0 .. Repeat]
    /\ seen \subseteq JobNo
    /\ wait \in 0 .. Period

Init ==
    /\ runtime \in Runtime
    /\ state = [j \in JobNo |-> "absent"]
    /\ connected = FALSE
    /\ age = [j \in JobNo |-> NotOffered]
    /\ seen = {}
    /\ wait = Period

\* Mutant: recent offers are not remembered.
DueAgain(jobs, ages) == {j \in JobNo : jobs[j] = "queued"}

\* The job one round offers: the first due one not offered recently.
Due(jobs, ages) == {j \in JobNo : jobs[j] = "queued" /\ ages[j] >= Repeat}
Chosen(jobs, ages) == {j \in Due(jobs, ages) : \A x \in Due(jobs, ages) : j <= x}

Offer(jobs, ages) ==
    /\ age' = [j \in JobNo |-> IF j \in Chosen(jobs, ages) THEN 0 ELSE ages[j]]
    /\ seen' = seen \cup Chosen(jobs, ages)

\* After a request the Worker offers and sets the alarm again.
OfferOnRequest(jobs, ages) ==
    IF Worker /\ connected'
    THEN Offer(jobs, ages) /\ wait' = Period
    ELSE age' = ages /\ UNCHANGED <<seen, wait>>

\* A job is stored, for later or due at once.
Put(j) ==
    /\ state[j] = "absent"
    /\ \E s \in {"scheduled", "queued"} : state' = [state EXCEPT ![j] = s]
    /\ UNCHANGED <<runtime, connected>>
    /\ OfferOnRequest(state', age)

\* Its notBefore passes; the alarm of a connected computer's room is set for it.
FallsDue(j) ==
    /\ state[j] = "scheduled"
    /\ state' = [state EXCEPT ![j] = "queued"]
    /\ wait' = IF Worker /\ connected THEN 0 ELSE wait
    /\ UNCHANGED <<runtime, connected, age, seen>>

\* The cache of offers belongs to the socket: a new socket starts empty.
Connect ==
    /\ ~connected
    /\ connected' = TRUE
    /\ UNCHANGED <<runtime, state>>
    /\ OfferOnRequest(state, [j \in JobNo |-> NotOffered])

Disconnect ==
    /\ connected
    /\ connected' = FALSE
    /\ age' = [j \in JobNo |-> NotOffered]
    /\ seen' = {}
    /\ UNCHANGED <<runtime, state, wait>>

\* The Durable Object hibernates: its sockets live on, its cache of offers does not.
Hibernate ==
    /\ Worker
    /\ connected
    /\ age' = [j \in JobNo |-> NotOffered]
    /\ UNCHANGED <<runtime, state, connected, seen, wait>>

\* The receiver claims a job it was offered, or the owner cancels one; either
\* way the Worker sets its alarm again.
Leave(j) ==
    /\ state[j] \in {"scheduled", "queued"}
    /\ state' = [state EXCEPT ![j] = "left"]
    /\ wait' = IF Worker THEN Period ELSE wait
    /\ UNCHANGED <<runtime, connected, age, seen>>

\* Mutant: the Worker's alarm offers nothing.
RoundOfNode ==
    /\ wait' = Period
    /\ IF connected /\ ~Worker THEN Offer(state, age) ELSE UNCHANGED <<age, seen>>
    /\ UNCHANGED <<runtime, state, connected>>

Round ==
    /\ wait' = Period
    /\ IF connected THEN Offer(state, age) ELSE UNCHANGED <<age, seen>>
    /\ UNCHANGED <<runtime, state, connected>>

\* The pump's timer, or the alarm at the time it was set for.
TimedRound == wait = 0 /\ Round

\* The Worker's alarm fires for an endpoint or wake deadline; a repeated PUT or
\* another computer's hello offers as well.
EarlyRound == Worker /\ wait > 0 /\ Round

\* An endpoint request, a wake, or a repeated claim, finish or cancellation: the
\* alarm is set again and nothing is offered, as often as clients ask, at the
\* last moment too.  A refused endpoint, which sets it later still, is as good
\* as several of these.
Reschedule ==
    /\ Worker
    /\ wait' = Period
    /\ UNCHANGED <<runtime, state, connected, age, seen>>

Tick ==
    /\ wait > 0
    /\ wait' = wait - 1
    /\ age' = [j \in JobNo |-> IF age[j] < Repeat THEN age[j] + 1 ELSE Repeat]
    /\ UNCHANGED <<runtime, state, connected, seen>>

Next ==
    \/ \E j \in JobNo : Put(j) \/ FallsDue(j) \/ Leave(j)
    \/ Connect
    \/ Disconnect
    \/ Hibernate
    \/ TimedRound
    \/ EarlyRound
    \/ Reschedule
    \/ Tick

\* Time passes, and a timer or alarm that is due again and again fires; nothing
\* is assumed of writers, owners, receivers or other clients.
Spec == Init /\ [][Next]_vars /\ SF_vars(TimedRound) /\ WF_vars(Tick)

-----------------------------------------------------------------------------
(* Properties *)

\* A due job of a connected computer is offered to it, however the receiver
\* treats the other jobs, unless the job leaves the queue or the socket closes.
EveryDueJobOffered ==
    \A j \in JobNo :
        (connected /\ state[j] = "queued") ~>
            (j \in seen \/ state[j] # "queued" \/ ~connected)

\* The receiver claims, or the owner cancels, every job it was offered.
OfferedJobsLeave ==
    \A j \in JobNo : j \in seen ~> (state[j] # "queued" \/ ~connected)

\* Requests pause: again and again none postpones the alarm until it is due, or
\* a round comes before.
RequestsPause == []<>(wait = 0) \/ []<><<EarlyRound>>_vars

\* Node's pump reaches every due job even when the receiver leaves all earlier
\* ones unclaimed, up to as many as it can visit within Repeat.  The Worker's
\* alarm does so only if the receiver deals with what it is offered and requests
\* that postpone the alarm pause for Period now and then.
OffersReachEveryJob ==
    (~Worker \/ (OfferedJobsLeave /\ RequestsPause)) => EveryDueJobOffered
=============================================================================
