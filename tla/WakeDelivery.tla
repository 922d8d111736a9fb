---------------------------- MODULE WakeDelivery ----------------------------
(***************************************************************************)
(* The background wake pushes of one room.  Requests and drains of a room  *)
(* run one after another on an in-memory chain of promises.  Each records  *)
(* what it owes in the persisted wake state, claims the send there, and    *)
(* only then talks to APNs; the answer is written when it arrives.  A      *)
(* process or Durable Object that stops loses the chain and an answer that *)
(* was awaited, never the record.                                          *)
(*                                                                         *)
(* Nothing compares two absolute times but through their distance, so the  *)
(* model keeps what is left of each deadline and needs no clock.  A row    *)
(* that was never written reads as Fresh: nothing recorded, last push long *)
(* ago.                                                                    *)
(***************************************************************************)
EXTENDS Integers, Sequences, Filters, Deployments

CONSTANTS
    Key,           \* wake identities: digests of sender, recipient, delivery
    Lifetimes,     \* lifetimes with which envelopes arrive
    NoExpiry,      \* an envelope without expiresAt
    DefaultTTL,    \* DEFAULT_TTL_MS
    Interval,      \* WAKE_INTERVAL_MS
    HistoryLimit,  \* WAKE_HISTORY_LIMIT
    MaxAttempts,   \* MAX_ATTEMPTS
    NoPending,     \* no wake is owed
    MaxLine        \* bound on requests waiting on the chain

Longest == LET all == Lifetimes \cup {DefaultTTL}
           IN CHOOSE x \in all : \A y \in all : x >= y

Left == 0 .. Longest
Pending == [left : Left, attempts : 0 .. MaxAttempts, nextIn : 0 .. Interval]
Receipt == [key : Key, left : Left]
Waiting == [key : Key, left : Left \cup {NoExpiry}]

ASSUME WakeAssumption ==
    /\ Lifetimes \subseteq Nat /\ DefaultTTL \in Nat \ {0}
    /\ Longest \in Nat /\ \A x \in Lifetimes \cup {DefaultTTL} : x <= Longest
    /\ Interval \in Nat \ {0} /\ MaxAttempts \in Nat \ {0}
    /\ HistoryLimit \in Nat \ {0} /\ MaxLine \in Nat
    /\ NoExpiry \notin Nat /\ NoPending \notin Pending

VARIABLES
    line,     \* requests waiting on the room's chain
    sending,  \* a claimed push awaits the provider's answer
    recent,   \* persisted: the wake receipts still remembered
    pending,  \* persisted: the owed wake, or NoPending
    lastAge,  \* persisted: time since lastSentAt, up to Interval
    gap,      \* time since the last push, up to Interval (history)
    tries,    \* pushes since the last new request (history)
    owed      \* life left in requests not yet pushed (history)

store == <<recent, pending, lastAge>>
vars == <<runtime, line, sending, recent, pending, lastAge, gap, tries, owed>>

TypeOK ==
    /\ runtime \in Runtime
    /\ line \in Seq(Waiting) /\ Len(line) <= MaxLine
    /\ sending \in BOOLEAN
    /\ recent \in Seq(Receipt) /\ Len(recent) <= HistoryLimit
    /\ pending \in Pending \cup {NoPending}
    /\ lastAge \in 0 .. Interval
    /\ gap \in 0 .. Interval
    /\ tries \in Nat
    /\ owed \in Left

Init ==
    /\ runtime \in Runtime
    /\ line = <<>>
    /\ sending = FALSE
    /\ recent = <<>>
    /\ pending = NoPending
    /\ lastAge = Interval
    /\ gap = Interval
    /\ tries = 0
    /\ owed = 0

-----------------------------------------------------------------------------
(* sendDue: the tail of every request and of every drain *)

Larger(x, y) == IF x > y THEN x ELSE y

\* Mutant: the attempts are not counted when a drain resumes.
ExhaustedByTime(p) == p.left = 0

Exhausted(p) == p.left = 0 \/ p.attempts >= MaxAttempts

Claimed(p) == [p EXCEPT !.attempts = @ + 1, !.nextIn = Interval]

\* The persisted claim precedes the push; n pushes precede it.
ClaimAndSend(p, n) ==
    /\ pending' = Claimed(p)
    /\ lastAge' = 0
    /\ sending' = TRUE
    /\ gap' = 0
    /\ tries' = n + 1

Rest(p, n) ==
    /\ pending' = p
    /\ tries' = n
    /\ UNCHANGED <<lastAge, sending, gap>>

SendDue(p, n) ==
    \/ p = NoPending /\ Rest(NoPending, n)
    \/ p # NoPending /\ Exhausted(p) /\ Rest(NoPending, n)
    \/ p # NoPending /\ ~Exhausted(p) /\ p.nextIn > 0 /\ Rest(p, n)
    \/ p # NoPending /\ ~Exhausted(p) /\ p.nextIn = 0 /\ ClaimAndSend(p, n)

-----------------------------------------------------------------------------
(* Requests *)

\* A frame to the phone with the wake flag joins the room's chain.
Request(k, t) ==
    /\ Len(line) < MaxLine
    /\ line' = Append(line, [key |-> k, left |-> t])
    /\ UNCHANGED <<runtime, sending, store, gap, tries, owed>>

\* The request whose turn it is: the chain is not awaiting the provider.
Turn(e) == ~sending /\ line # <<>> /\ e = Head(line)
LifeOf(e) == IF e.left = NoExpiry THEN DefaultTTL ELSE e.left

Remembered == Filter(recent, {x \in Receipt : x.left > 0})
Known(k) == \E i \in DOMAIN Remembered : Remembered[i].key = k

\* recent.slice(-WAKE_HISTORY_LIMIT)
Newest(s) == SubSeq(s, Larger(1, Len(s) - HistoryLimit + 1), Len(s))

\* Mutant: a new request is always due at once.
NextInNow == 0

NextIn == Interval - lastAge

\* Mutant: the latest request decides how long a wake is owed.
NewPendingLast(t) == [left |-> t, attempts |-> 0, nextIn |-> NextIn]

NewPending(t) ==
    [left |-> Larger(t, IF pending = NoPending THEN 0 ELSE pending.left),
     attempts |-> 0, nextIn |-> NextIn]

SkipExpired ==
    /\ \E e \in Waiting : Turn(e) /\ LifeOf(e) = 0
    /\ line' = Tail(line)
    /\ UNCHANGED <<runtime, sending, store, gap, tries, owed>>

ServeDuplicate ==
    /\ \E e \in Waiting : Turn(e) /\ LifeOf(e) > 0 /\ Known(e.key)
    /\ line' = Tail(line)
    /\ SendDue(pending, tries)
    /\ UNCHANGED <<runtime, recent, owed>>

ServeNew ==
    \E e \in Waiting :
        /\ Turn(e)
        /\ LifeOf(e) > 0
        /\ ~Known(e.key)
        /\ line' = Tail(line)
        /\ recent' = Newest(Append(Remembered, [key |-> e.key, left |-> LifeOf(e)]))
        /\ SendDue(NewPending(LifeOf(e)), 0)
        /\ owed' = IF tries >= MaxAttempts THEN LifeOf(e) ELSE Larger(owed, LifeOf(e))
        /\ UNCHANGED runtime

\* Mutant: the pump only retries pushes that failed.
DrainRetries ==
    /\ ~sending
    /\ pending # NoPending
    /\ pending.attempts > 0
    /\ SendDue(pending, tries)
    /\ UNCHANGED <<runtime, line, recent, owed>>

\* The deadline by which the pump's query or the alarm finds the room.
WakeDue == pending # NoPending /\ (pending.left = 0 \/ pending.nextIn = 0)

\* Node's minute pump and start-up, or the Worker's alarm.
Drain ==
    /\ ~sending
    /\ WakeDue
    /\ SendDue(pending, tries)
    /\ UNCHANGED <<runtime, line, recent, owed>>

\* The provider accepted the push, refused it, or did not answer in time.
SendDone(ok) ==
    /\ sending
    /\ sending' = FALSE
    /\ pending' = IF ok \/ pending.attempts >= MaxAttempts THEN NoPending ELSE pending
    /\ owed' = IF ok THEN 0 ELSE owed
    /\ UNCHANGED <<runtime, line, recent, lastAge, gap, tries>>

-----------------------------------------------------------------------------
(* Restarts, maintenance and time *)

Restart ==
    /\ sending \/ line # <<>>
    /\ sending' = FALSE
    /\ line' = <<>>
    /\ UNCHANGED <<runtime, store, gap, tries, owed>>

\* Node's maintenance deletes the row of a room that owes no wake and
\* remembers no unexpired receipt, lastSentAt included.
PurgeRow ==
    /\ runtime = "node"
    /\ pending = NoPending
    /\ Remembered = <<>>
    /\ recent' = <<>>
    /\ lastAge' = Interval
    /\ UNCHANGED <<runtime, line, sending, pending, gap, tries, owed>>

Less(x) == IF x \in Nat /\ x > 0 THEN x - 1 ELSE x
Older(x) == IF x < Interval THEN x + 1 ELSE x

Tick ==
    /\ line' = [i \in DOMAIN line |-> [line[i] EXCEPT !.left = Less(@)]]
    /\ recent' = [i \in DOMAIN recent |-> [recent[i] EXCEPT !.left = Less(@)]]
    /\ pending' = IF pending = NoPending THEN NoPending
                  ELSE [pending EXCEPT !.left = Less(@), !.nextIn = Less(@)]
    /\ lastAge' = Older(lastAge)
    /\ gap' = Older(gap)
    /\ owed' = Less(owed)
    /\ UNCHANGED <<runtime, sending, tries>>

Next ==
    \/ \E k \in Key, t \in Lifetimes \cup {NoExpiry} : Request(k, t)
    \/ SkipExpired
    \/ ServeDuplicate
    \/ ServeNew
    \/ Drain
    \/ \E ok \in BOOLEAN : SendDone(ok)
    \/ Restart
    \/ PurgeRow
    \/ Tick

Spec == Init /\ [][Next]_vars

\* Time passes, the pump or alarm comes round, the event loop serves the chain,
\* and every push ends by its eight-second timeout.
FairSpec ==
    /\ Spec
    /\ WF_vars(Tick)
    /\ WF_vars(Drain)
    /\ WF_vars(SkipExpired \/ ServeDuplicate \/ ServeNew)
    /\ WF_vars(\E ok \in BOOLEAN : SendDone(ok))

-----------------------------------------------------------------------------
(* Properties *)

\* A recorded wake is never lost: until the provider has accepted a push made
\* after it, three pushes were spent on it, or it has expired, the persisted
\* state still owes a wake that lives at least as long.  Coalescing, failed
\* pushes, restarts between claim and answer, and purges may not drop it.
NoLostWake ==
    owed > 0 /\ tries < MaxAttempts =>
        pending # NoPending /\ pending.left >= owed

\* A provider failure is retried to at most MaxAttempts pushes, whatever is
\* repeated, drained or restarted in between.
PushBudget == tries <= MaxAttempts

\* The Worker, which keeps the wake state, spaces its pushes; Node does as long
\* as the state was not purged since the last one.
PushesSpacedWhileRemembered ==
    [][sending' /\ ~sending =>
          gap >= Interval \/ (runtime = "node" /\ lastAge > gap)]_vars

\* A coalesced wake does not wait for ever: it is pushed or expires, also when
\* new requests keep coming and restarts interrupt the chain.
TrailingWakeServed ==
    (pending # NoPending /\ pending.attempts = 0) ~>
        (pending = NoPending \/ pending.attempts > 0)
=============================================================================
