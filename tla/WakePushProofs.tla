--------------------------- MODULE WakePushProofs ---------------------------
(***************************************************************************)
(* Proofs about the two halves of a background wake: WakeDelivery, which   *)
(* decides when a push is sent, and PushTokens, which holds the tokens it  *)
(* is sent to.                                                             *)
(*                                                                         *)
(* WakeDelivery, for every interval, budget and set of requests: the       *)
(* invariant ties the persisted record to the history.  The attempts on    *)
(* record are the pushes made, the next push is due no earlier than an     *)
(* interval after lastSentAt, and lastSentAt is the last push unless Node  *)
(* purged it.                                                              *)
(*                                                                         *)
(* PushTokens, for any tokens and every limit: the list is in the order of *)
(* the registrations, so what the cap drops has had Limit registrations    *)
(* after it; and as long as nothing has changed during a pass, the list    *)
(* that the Worker writes back is the one there is.                        *)
(***************************************************************************)
EXTENDS WakeDelivery, PushTokens, FiniteFacts, TLAPS

-----------------------------------------------------------------------------
(* WakeDelivery: the record and the history *)

\* The part of the state that the argument is about, without the sequences.
RecordType ==
    /\ runtime \in Runtime
    /\ sending \in BOOLEAN
    /\ pending \in Pending \cup {NoPending}
    /\ lastAge \in 0 .. Interval
    /\ gap \in 0 .. Interval
    /\ tries \in Nat
    /\ owed \in Left

\* A push awaiting its answer is on record.
SendIsClaimed == sending => pending # NoPending

\* The attempts on record are the pushes made for the last new request.
AttemptsAreTries == pending # NoPending => pending.attempts = tries

\* An owed wake is not due before the interval since lastSentAt is over.
DueAfterInterval == pending # NoPending => pending.nextIn + lastAge >= Interval

\* lastSentAt is the time of the last push, unless Node has purged it.
LastSentIsLastPush == lastAge = gap \/ (runtime = "node" /\ lastAge > gap)

WakeInv ==
    /\ RecordType
    /\ SendIsClaimed
    /\ AttemptsAreTries
    /\ DueAfterInterval
    /\ LastSentIsLastPush
    /\ PushBudget
    /\ NoLostWake

-----------------------------------------------------------------------------
(* Facts about the record *)

\* A record that is not exhausted is claimed with one attempt more.
LEMMA ClaimedFacts ==
    ASSUME NEW p \in Pending, ~Exhausted(p)
    PROVE  /\ Claimed(p) \in Pending /\ Claimed(p) # NoPending
           /\ Claimed(p).left = p.left /\ Claimed(p).left > 0
           /\ Claimed(p).attempts = p.attempts + 1 /\ Claimed(p).nextIn = Interval
<1>1. /\ p.attempts \in 0 .. MaxAttempts /\ p.attempts < MaxAttempts
      /\ p.left \in Left /\ p.left # 0
  BY WakeAssumption DEF Exhausted, Pending
<1>2. /\ Claimed(p).left = p.left /\ Claimed(p).attempts = p.attempts + 1
      /\ Claimed(p).nextIn = Interval
  BY DEF Claimed, Pending
<1>3. Claimed(p) \in Pending
  <2>1. p.attempts + 1 \in 0 .. MaxAttempts /\ Interval \in 0 .. Interval
    BY <1>1, WakeAssumption
  <2>2. QED
    BY <2>1 DEF Claimed, Pending
<1>4. Claimed(p) # NoPending
  BY <1>3, WakeAssumption
<1>5. p.left > 0
  BY <1>1, WakeAssumption DEF Left
<1>6. QED
  BY <1>2, <1>3, <1>4, <1>5

\* The record of a new request lives at least as long as what it replaces.
LEMMA NewPendingFacts ==
    ASSUME RecordType, NEW t \in Left, t > 0
    PROVE  /\ NewPending(t) \in Pending /\ NewPending(t) # NoPending
           /\ NewPending(t).left >= t
           /\ pending # NoPending => NewPending(t).left >= pending.left
           /\ NewPending(t).attempts = 0
           /\ NewPending(t).nextIn = Interval - lastAge
           /\ ~Exhausted(NewPending(t))
<1> DEFINE old == IF pending = NoPending THEN 0 ELSE pending.left
<1>1. old \in Left /\ Longest \in Nat /\ Interval \in Nat
  BY WakeAssumption DEF RecordType, Pending, Left
<1>2. /\ Larger(t, old) \in Left /\ Larger(t, old) >= t /\ Larger(t, old) >= old
  BY <1>1 DEF Larger, Left
<1>3. Interval - lastAge \in 0 .. Interval
  BY <1>1 DEF RecordType
<1>4. NewPending(t) = [left |-> Larger(t, old), attempts |-> 0, nextIn |-> Interval - lastAge]
  BY DEF NewPending, NextIn
<1>5. NewPending(t) \in Pending
  BY <1>2, <1>3, <1>4, WakeAssumption DEF Pending
<1>6. QED
  BY <1>1, <1>2, <1>4, <1>5, WakeAssumption DEF Exhausted, Left

\* sendDue on a sound record leaves a sound record, and pushes only when the
\* interval since the last push on record is over.
LEMMA SendDueFacts ==
    ASSUME RecordType, ~sending, NEW p \in Pending \cup {NoPending}, NEW n \in Nat,
           SendDue(p, n), LastSentIsLastPush,
           n <= MaxAttempts,
           p # NoPending => p.attempts = n /\ p.nextIn + lastAge >= Interval
    PROVE  /\ sending' \in BOOLEAN /\ pending' \in Pending \cup {NoPending}
           /\ lastAge' \in 0 .. Interval /\ gap' \in 0 .. Interval
           /\ tries' \in Nat /\ tries' <= MaxAttempts
           /\ SendIsClaimed' /\ AttemptsAreTries' /\ DueAfterInterval'
           /\ lastAge' = gap' \/ (lastAge' = lastAge /\ gap' = gap)
           /\ sending' => lastAge = Interval
           /\ \/ pending' # NoPending /\ p # NoPending /\ pending'.left = p.left
              \/ pending' = NoPending /\ tries' = n /\ (p = NoPending \/ p.left = 0 \/ n >= MaxAttempts)
<1> USE DEF RecordType, SendIsClaimed, AttemptsAreTries, DueAfterInterval
<1>1. CASE Rest(NoPending, n) /\ (p = NoPending \/ Exhausted(p))
  BY <1>1 DEF Rest, Exhausted
<1>2. CASE p # NoPending /\ Rest(p, n)
  BY <1>2 DEF Rest
<1>3. CASE p # NoPending /\ ~Exhausted(p) /\ p.nextIn = 0 /\ ClaimAndSend(p, n)
  <2>1. p \in Pending /\ p.attempts < MaxAttempts
    BY <1>3, WakeAssumption DEF Exhausted, Pending
  <2>2. lastAge = Interval
    BY <1>3, WakeAssumption
  <2>3. pending' = Claimed(p) /\ lastAge' = 0 /\ gap' = 0 /\ sending' = TRUE /\ tries' = n + 1
    BY <1>3 DEF ClaimAndSend
  <2>4. QED
    BY <1>3, <2>1, <2>2, <2>3, ClaimedFacts, WakeAssumption
<1>4. QED
  BY <1>1, <1>2, <1>3 DEF SendDue

-----------------------------------------------------------------------------
(* The invariant *)

\* A request still waiting has a lifetime within the bounds.
LEMMA LifeType == ASSUME NEW e \in Waiting PROVE LifeOf(e) \in Left
  BY WakeAssumption DEF LifeOf, Waiting, Left

\* Less takes one off what is left and stops at zero.
LEMMA LessFacts ==
    ASSUME NEW x \in Nat
    PROVE  Less(x) \in Nat /\ Less(x) <= x /\ (x = 0 => Less(x) = 0) /\ (x > 0 => Less(x) = x - 1)
  BY DEF Less

\* A tick shortens both deadlines of a record and nothing else.
LEMMA TickedFacts ==
    ASSUME NEW q \in Pending
    PROVE  LET next == [q EXCEPT !.left = Less(@), !.nextIn = Less(@)]
           IN  /\ next \in Pending /\ next.attempts = q.attempts
               /\ next.left = Less(q.left) /\ next.nextIn = Less(q.nextIn)
               /\ q.left \in Nat /\ q.nextIn \in Nat
<1> DEFINE next == [q EXCEPT !.left = Less(@), !.nextIn = Less(@)]
<1>1. /\ q.left \in Nat /\ q.left <= Longest /\ q.nextIn \in Nat /\ q.nextIn <= Interval
      /\ q.attempts \in 0 .. MaxAttempts /\ Longest \in Nat /\ Interval \in Nat
  BY WakeAssumption DEF Pending, Left
<1>2. Less(q.left) \in Left /\ Less(q.nextIn) \in 0 .. Interval
  BY <1>1, LessFacts DEF Left
<1>3. next \in Pending
  BY <1>2 DEF Pending
<1>4. /\ next.attempts = q.attempts
      /\ next.left = Less(q.left) /\ next.nextIn = Less(q.nextIn)
  BY DEF Pending
<1>5. QED
  BY <1>1, <1>3, <1>4

\* One step of Next keeps the invariant.
LEMMA WakeInvStep == WakeInv /\ [Next]_vars => WakeInv'
<1> SUFFICES ASSUME WakeInv, [Next]_vars PROVE WakeInv'
  OBVIOUS
<1> USE DEF WakeInv
<1>1. ASSUME NEW k \in Key, NEW t \in Lifetimes \cup {NoExpiry}, Request(k, t) PROVE WakeInv'
  BY <1>1 DEF Request, store, RecordType, SendIsClaimed, AttemptsAreTries, DueAfterInterval,
              LastSentIsLastPush, PushBudget, NoLostWake
<1>2. ASSUME SkipExpired \/ Restart PROVE WakeInv'
  <2>1. /\ UNCHANGED <<runtime, pending, lastAge, gap, tries, owed>>
        /\ sending' = sending \/ sending' = FALSE
    BY <1>2 DEF SkipExpired, Restart, store
  <2>2. RecordType' /\ SendIsClaimed'
    <3>1. CASE sending' = sending
      BY <2>1, <3>1 DEF RecordType, SendIsClaimed
    <3>2. CASE sending' = FALSE
      BY <2>1, <3>2 DEF RecordType, SendIsClaimed
    <3>3. QED
      BY <2>1, <3>1, <3>2
  <2>3. QED
    BY <2>1, <2>2 DEF AttemptsAreTries, DueAfterInterval, LastSentIsLastPush, PushBudget,
                      NoLostWake
<1>3. ASSUME ServeDuplicate \/ Drain PROVE WakeInv'
  <2>1. ~sending /\ SendDue(pending, tries) /\ UNCHANGED <<runtime, owed>>
    BY <1>3 DEF ServeDuplicate, Drain, Turn
  <2>2. /\ pending \in Pending \cup {NoPending} /\ tries \in Nat /\ tries <= MaxAttempts
        /\ pending # NoPending => pending.attempts = tries /\ pending.nextIn + lastAge >= Interval
    BY DEF RecordType, AttemptsAreTries, DueAfterInterval, PushBudget
  <2>3. /\ sending' \in BOOLEAN /\ pending' \in Pending \cup {NoPending}
        /\ lastAge' \in 0 .. Interval /\ gap' \in 0 .. Interval
        /\ tries' \in Nat /\ tries' <= MaxAttempts
        /\ SendIsClaimed' /\ AttemptsAreTries' /\ DueAfterInterval'
        /\ lastAge' = gap' \/ (lastAge' = lastAge /\ gap' = gap)
    BY <2>1, <2>2, SendDueFacts
  <2>4. \/ pending' # NoPending /\ pending # NoPending /\ pending'.left = pending.left
        \/ /\ pending' = NoPending /\ tries' = tries
           /\ pending = NoPending \/ pending.left = 0 \/ tries >= MaxAttempts
    BY <2>1, <2>2, SendDueFacts
  <2>5. NoLostWake'
    <3>1. CASE pending' = NoPending
      BY <2>1, <2>2, <2>4, <3>1, WakeAssumption DEF NoLostWake, RecordType, Left
    <3>2. CASE pending' # NoPending
      <4>1. pending # NoPending /\ pending'.left = pending.left
        BY <2>4, <3>2
      <4>2. ~Exhausted(pending)
        BY <2>1, <3>2, <4>1 DEF SendDue, Rest
      <4>3. tries < MaxAttempts
        BY <2>2, <4>1, <4>2, WakeAssumption DEF Exhausted
      <4>4. QED
        BY <2>1, <3>2, <4>1, <4>3 DEF NoLostWake
    <3>3. QED
      BY <3>1, <3>2
  <2>6. QED
    BY <2>1, <2>3, <2>5 DEF RecordType, LastSentIsLastPush, PushBudget
<1>4. ASSUME ServeNew PROVE WakeInv'
  <2>1. PICK e \in Waiting : /\ ~sending /\ LifeOf(e) > 0
                             /\ SendDue(NewPending(LifeOf(e)), 0)
                             /\ owed' = IF tries >= MaxAttempts THEN LifeOf(e)
                                        ELSE Larger(owed, LifeOf(e))
                             /\ UNCHANGED runtime
    BY <1>4 DEF ServeNew, Turn
  <2> DEFINE t == LifeOf(e)
             p == NewPending(t)
  <2>2. t \in Left /\ t > 0
    BY <2>1, LifeType
  <2> HIDE DEF t
  <2>3. /\ p \in Pending /\ p # NoPending /\ p.left >= t /\ p.attempts = 0
        /\ p.nextIn = Interval - lastAge
        /\ pending # NoPending => p.left >= pending.left
    BY <2>2, NewPendingFacts
  <2>4. SendDue(p, 0) /\ owed' = IF tries >= MaxAttempts THEN t ELSE Larger(owed, t)
    BY <2>1 DEF t
  <2> HIDE DEF p
  <2>5. p.nextIn + lastAge >= Interval
    BY <2>3, WakeAssumption DEF RecordType
  <2>6. /\ sending' \in BOOLEAN /\ pending' \in Pending \cup {NoPending}
        /\ lastAge' \in 0 .. Interval /\ gap' \in 0 .. Interval
        /\ tries' \in Nat /\ tries' <= MaxAttempts
        /\ SendIsClaimed' /\ AttemptsAreTries' /\ DueAfterInterval'
        /\ lastAge' = gap' \/ (lastAge' = lastAge /\ gap' = gap)
        /\ pending' # NoPending /\ pending'.left = p.left
    <3>1. p.left \in Nat /\ p.left > 0 /\ MaxAttempts > 0
      BY <2>2, <2>3, WakeAssumption DEF Pending, Left
    <3>2. QED
      BY <2>1, <2>3, <2>4, <2>5, <3>1, SendDueFacts, WakeAssumption
  <2>7. owed' \in Left /\ p.left \in Left /\ pending' # NoPending
    BY <2>2, <2>3, <2>4, <2>6 DEF RecordType, Larger, Left, Pending
  <2>8. p.left >= owed'
    <3>1. CASE tries >= MaxAttempts
      BY <2>3, <2>4, <3>1
    <3>2. CASE tries < MaxAttempts /\ owed > 0
      <4>1. pending # NoPending /\ pending.left >= owed /\ pending.left \in Left
        BY <3>2 DEF NoLostWake, RecordType, Pending
      <4>2. QED
        BY <2>2, <2>3, <2>4, <2>7, <3>2, <4>1, WakeAssumption DEF Larger, Left, RecordType
    <3>3. CASE tries < MaxAttempts /\ owed = 0
      BY <2>2, <2>3, <2>4, <2>7, <3>3, WakeAssumption DEF Larger, Left, RecordType
    <3>4. QED
      BY <3>1, <3>2, <3>3, WakeAssumption DEF RecordType, Left
  <2>9. QED
    BY <2>1, <2>6, <2>7, <2>8 DEF RecordType, LastSentIsLastPush, PushBudget, NoLostWake
<1>5. ASSUME NEW ok \in BOOLEAN, SendDone(ok) PROVE WakeInv'
  <2>1. sending /\ pending # NoPending /\ pending.attempts = tries /\ sending' = FALSE
          /\ UNCHANGED <<runtime, lastAge, gap, tries>>
    BY <1>5 DEF SendDone, SendIsClaimed, AttemptsAreTries
  <2>2. \/ pending' = NoPending /\ owed' = 0
        \/ pending' = NoPending /\ owed' = owed /\ tries >= MaxAttempts
        \/ pending' = pending /\ owed' = owed
    BY <1>5, <2>1 DEF SendDone
  <2>3. 0 \in Left
    BY WakeAssumption DEF Left
  <2>4. RecordType'
    BY <2>1, <2>2, <2>3 DEF RecordType
  <2>5. NoLostWake'
    BY <2>1, <2>2, WakeAssumption DEF NoLostWake, RecordType
  <2>6. QED
    BY <2>1, <2>2, <2>4, <2>5 DEF SendIsClaimed, AttemptsAreTries, DueAfterInterval,
                                  LastSentIsLastPush, PushBudget
<1>6. ASSUME PurgeRow PROVE WakeInv'
  BY <1>6, WakeAssumption
     DEF PurgeRow, RecordType, SendIsClaimed, AttemptsAreTries, DueAfterInterval,
         LastSentIsLastPush, PushBudget, NoLostWake
<1>7. ASSUME Tick PROVE WakeInv'
  <2>1. /\ lastAge' \in 0 .. Interval /\ gap' \in 0 .. Interval
        /\ lastAge' = (IF lastAge < Interval THEN lastAge + 1 ELSE lastAge)
        /\ gap' = (IF gap < Interval THEN gap + 1 ELSE gap)
        /\ UNCHANGED <<runtime, sending, tries>>
    BY <1>7, WakeAssumption DEF Tick, Older, RecordType
  <2>2. owed' \in Left /\ owed' <= owed /\ (owed > 0 => owed' = owed - 1)
    BY <1>7, LessFacts, WakeAssumption DEF Tick, RecordType, Left
  <2>3. pending' = NoPending <=> pending = NoPending
    <3>1. ASSUME NEW q \in Pending
          PROVE  [q EXCEPT !.left = Less(@), !.nextIn = Less(@)] \in Pending
      BY TickedFacts
    <3>2. QED
      BY <1>7, <3>1, WakeAssumption DEF Tick, RecordType
  <2>4. ASSUME pending # NoPending
        PROVE  /\ pending' \in Pending /\ pending'.attempts = pending.attempts
               /\ pending'.left = Less(pending.left) /\ pending'.nextIn = Less(pending.nextIn)
               /\ pending.left \in Nat /\ pending.nextIn \in Nat
    <3>1. pending' = [pending EXCEPT !.left = Less(@), !.nextIn = Less(@)] /\ pending \in Pending
      BY <1>7, <2>4 DEF Tick, RecordType
    <3>2. QED
      BY <3>1, TickedFacts
  <2>5. RecordType'
    BY <2>1, <2>2, <2>3, <2>4 DEF RecordType
  <2>6. SendIsClaimed' /\ AttemptsAreTries' /\ PushBudget'
    BY <2>1, <2>3, <2>4 DEF SendIsClaimed, AttemptsAreTries, PushBudget
  <2>7. DueAfterInterval'
    BY <2>1, <2>3, <2>4, LessFacts, WakeAssumption DEF DueAfterInterval, RecordType
  <2>8. LastSentIsLastPush'
    BY <2>1, WakeAssumption DEF LastSentIsLastPush, RecordType
  <2>9. NoLostWake'
    BY <2>1, <2>2, <2>3, <2>4, LessFacts, WakeAssumption DEF NoLostWake, RecordType, Left
  <2>10. QED
    BY <2>5, <2>6, <2>7, <2>8, <2>9
<1>8. ASSUME UNCHANGED vars PROVE WakeInv'
  BY <1>8 DEF vars, RecordType, SendIsClaimed, AttemptsAreTries, DueAfterInterval,
              LastSentIsLastPush, PushBudget, NoLostWake
<1>9. QED
  BY <1>1, <1>2, <1>3, <1>4, <1>5, <1>6, <1>7, <1>8 DEF Next

\* The record and the history agree in every reachable state.
THEOREM WakeInvHolds == Spec => []WakeInv
<1>1. Init => WakeInv
  <2> SUFFICES ASSUME Init PROVE WakeInv
    OBVIOUS
  <2>1. 0 \in Left /\ Interval \in 0 .. Interval
    BY WakeAssumption DEF Left
  <2>2. RecordType
    BY <2>1, WakeAssumption DEF Init, RecordType
  <2>3. QED
    BY <2>2, WakeAssumption DEF Init, WakeInv, SendIsClaimed, AttemptsAreTries,
       DueAfterInterval, LastSentIsLastPush, PushBudget, NoLostWake
<1>2. QED
  BY <1>1, WakeInvStep, PTL DEF Spec

-----------------------------------------------------------------------------
(* The chain and the receipts *)

Lines ==
    /\ line \in Seq(Waiting) /\ Len(line) <= MaxLine
    /\ recent \in Seq(Receipt) /\ Len(recent) <= HistoryLimit

\* A history cut to its limit.
LEMMA NewestType ==
    ASSUME NEW s \in Seq(Receipt)
    PROVE  Newest(s) \in Seq(Receipt) /\ Len(Newest(s)) <= HistoryLimit
<1> DEFINE n == Len(s)
           from == Larger(1, n - HistoryLimit + 1)
<1>1. n \in Nat /\ HistoryLimit \in Nat /\ HistoryLimit > 0
  BY WakeAssumption
<1>2. \A i \in 1..n : s[i] \in Receipt
  OBVIOUS
<1>3. Newest(s) = SubSeq(s, from, n)
  BY DEF Newest
<1> HIDE DEF n
<1>4. from \in Int /\ from >= 1 /\ n - from + 1 <= HistoryLimit
  BY <1>1 DEF Larger
<1> HIDE DEF from
<1>5. \A i \in from..n : s[i] \in Receipt
  BY <1>1, <1>2, <1>4
<1>6. Newest(s) \in Seq(Receipt) /\ Len(Newest(s)) = IF from <= n THEN n - from + 1 ELSE 0
  BY <1>1, <1>3, <1>4, <1>5, SubSeqProperties
<1>7. QED
  BY <1>1, <1>4, <1>6

\* What is left of a lifetime, also of one without an end.
LEMMA LessType ==
    /\ \A x \in Left : Less(x) \in Left
    /\ \A x \in Left \cup {NoExpiry} : Less(x) \in Left \cup {NoExpiry}
<1>1. \A x \in Left : Less(x) \in Left
  BY WakeAssumption DEF Left, Less
<1>2. Less(NoExpiry) = NoExpiry
  BY WakeAssumption DEF Less
<1>3. QED
  BY <1>1, <1>2

LEMMA LinesStep == ASSUME Lines, [Next]_vars PROVE Lines'
<1>0. /\ Len(line) \in Nat /\ Len(recent) \in Nat /\ MaxLine \in Nat
      /\ HistoryLimit \in Nat /\ HistoryLimit > 0
  BY WakeAssumption DEF Lines
<1>1. ASSUME NEW k \in Key, NEW t \in Lifetimes \cup {NoExpiry}, Request(k, t) PROVE Lines'
  <2> DEFINE e == [key |-> k, left |-> t]
  <2>1. e \in Waiting
    BY WakeAssumption DEF Waiting, Left
  <2>2. line' = Append(line, e) /\ recent' = recent /\ Len(line) < MaxLine
    BY <1>1 DEF Request, store
  <2> HIDE DEF e
  <2>3. line' \in Seq(Waiting) /\ Len(line') = Len(line) + 1
    BY <2>1, <2>2, AppendProperties DEF Lines
  <2>4. Len(line') <= MaxLine
    BY <1>0, <2>2, <2>3
  <2>5. QED
    BY <2>2, <2>3, <2>4 DEF Lines
<1>2. ASSUME line # <<>>, line' = Tail(line) PROVE line' \in Seq(Waiting) /\ Len(line') <= MaxLine
  <2>1. line' \in Seq(Waiting) /\ Len(line') = Len(line) - 1
    BY <1>2 DEF Lines
  <2>2. Len(line') <= Len(line)
    BY <1>0, <2>1
  <2>3. QED
    BY <1>0, <2>1, <2>2 DEF Lines
<1>3. ASSUME SkipExpired \/ ServeDuplicate PROVE Lines'
  <2>1. line # <<>> /\ line' = Tail(line) /\ recent' = recent
    BY <1>3 DEF SkipExpired, ServeDuplicate, Turn, store
  <2>2. QED
    BY <1>2, <2>1 DEF Lines
<1>4. ASSUME ServeNew PROVE Lines'
  <2>1. PICK e \in Waiting :
            /\ line # <<>> /\ line' = Tail(line)
            /\ recent' = Newest(Append(Remembered, [key |-> e.key, left |-> LifeOf(e)]))
    BY <1>4 DEF ServeNew, Turn
  <2> DEFINE q == [key |-> e.key, left |-> LifeOf(e)]
  <2>2. q \in Receipt
    BY LifeType DEF Waiting, Receipt
  <2> HIDE DEF q
  <2>3. Remembered \in Seq(Receipt)
    BY FilterKeeps DEF Remembered, Lines
  <2>4. Append(Remembered, q) \in Seq(Receipt)
    BY <2>2, <2>3, AppendProperties
  <2>5. recent' \in Seq(Receipt) /\ Len(recent') <= HistoryLimit
    BY <2>1, <2>4, NewestType DEF q
  <2>6. QED
    BY <1>2, <2>1, <2>5 DEF Lines
<1>5. ASSUME Drain \/ (\E ok \in BOOLEAN : SendDone(ok)) PROVE Lines'
  BY <1>5 DEF Drain, SendDone, Lines
<1>6. ASSUME Restart \/ PurgeRow PROVE Lines'
  <2>1. CASE Restart
    <3>1. line' = <<>> /\ recent' = recent
      BY <2>1 DEF Restart, store
    <3>2. QED
      BY <1>0, <3>1 DEF Lines
  <2>2. CASE PurgeRow
    <3>1. line' = line /\ recent' = <<>>
      BY <2>2 DEF PurgeRow
    <3>2. QED
      BY <1>0, <3>1 DEF Lines
  <2>3. QED
    BY <1>6, <2>1, <2>2
<1>7. ASSUME Tick PROVE Lines'
  <2> DEFINE n == Len(line)
             m == Len(recent)
             aged(e) == [e EXCEPT !.left = Less(@)]
  <2>1. /\ line' = [i \in 1..n |-> aged(line[i])]
        /\ recent' = [i \in 1..m |-> aged(recent[i])]
    <3>1. DOMAIN line = 1..n /\ DOMAIN recent = 1..m
      BY DEF Lines
    <3>2. /\ line' = [i \in DOMAIN line |-> aged(line[i])]
          /\ recent' = [i \in DOMAIN recent |-> aged(recent[i])]
      BY <1>7, Zenon DEF Tick
    <3>3. QED
      BY <3>1, <3>2
  <2>2. \A i \in 1..n : line[i] \in Waiting
    BY DEF Lines
  <2>3. \A i \in 1..m : recent[i] \in Receipt
    BY DEF Lines
  <2>4. ASSUME NEW e \in Waiting PROVE aged(e) \in Waiting
    <3> DEFINE l == Less(e.left)
    <3>1. l \in Left \cup {NoExpiry}
      BY LessType DEF Waiting
    <3> HIDE DEF l
    <3>2. [e EXCEPT !.left = l] \in Waiting
      BY <3>1 DEF Waiting
    <3>3. QED
      BY <3>2 DEF l
  <2>5. ASSUME NEW e \in Receipt PROVE aged(e) \in Receipt
    <3> DEFINE l == Less(e.left)
    <3>1. l \in Left
      BY LessType DEF Receipt
    <3> HIDE DEF l
    <3>2. [e EXCEPT !.left = l] \in Receipt
      BY <3>1 DEF Receipt
    <3>3. QED
      BY <3>2 DEF l
  <2> HIDE DEF aged
  <2>6. line' \in [1..n -> Waiting] /\ recent' \in [1..m -> Receipt]
    BY <2>1, <2>2, <2>3, <2>4, <2>5
  <2>7. line' \in Seq(Waiting) /\ Len(line') = n /\ recent' \in Seq(Receipt) /\ Len(recent') = m
    BY <1>0, <2>6
  <2>8. QED
    BY <2>7 DEF Lines
<1>8. ASSUME UNCHANGED vars PROVE Lines'
  BY <1>8 DEF vars, Lines
<1>9. QED
  BY <1>1, <1>3, <1>4, <1>5, <1>6, <1>7, <1>8 DEF Next

\* Type correctness; the receipts remembered stay within the history limit
\* (slice(-WAKE_HISTORY_LIMIT) of request).
THEOREM TypeCorrect == Spec => []TypeOK
<1>1. Init => Lines
  BY WakeAssumption DEF Init, Lines
<1>2. Spec => []Lines
  BY <1>1, LinesStep, PTL DEF Spec
<1>3. WakeInv /\ Lines => TypeOK
  BY DEF WakeInv, RecordType, Lines, TypeOK
<1>4. QED
  BY <1>2, <1>3, WakeInvHolds, PTL

-----------------------------------------------------------------------------
(* What the record is for *)

\* A recorded wake is never lost before it is pushed, given up or expired.
THEOREM WakesAreKept == Spec => []NoLostWake
  BY WakeInvHolds, PTL DEF WakeInv

\* At most MaxAttempts pushes are made for a request.
THEOREM BudgetHolds == Spec => []PushBudget
  BY WakeInvHolds, PTL DEF WakeInv

\* Pushes are an interval apart unless Node has purged the last one's time.
THEOREM PushesAreSpaced == Spec => PushesSpacedWhileRemembered
<1>1. WakeInv /\ [Next]_vars =>
        [sending' /\ ~sending => gap >= Interval \/ (runtime = "node" /\ lastAge > gap)]_vars
  <2> SUFFICES ASSUME WakeInv, Next, sending', ~sending
               PROVE  gap >= Interval \/ (runtime = "node" /\ lastAge > gap)
    OBVIOUS
  <2> USE DEF WakeInv
  <2>1. lastAge = Interval
    <3>1. CASE ServeDuplicate \/ Drain
      <4>1. SendDue(pending, tries)
        BY <3>1 DEF ServeDuplicate, Drain
      <4>2. QED
        BY <4>1, SendDueFacts DEF RecordType, AttemptsAreTries, DueAfterInterval, PushBudget
    <3>2. CASE ServeNew
      <4>1. PICK e \in Waiting : LifeOf(e) > 0 /\ SendDue(NewPending(LifeOf(e)), 0)
        BY <3>2 DEF ServeNew
      <4>2. LifeOf(e) \in Left
        BY LifeType
      <4>3. NewPending(LifeOf(e)) \in Pending /\ NewPending(LifeOf(e)).attempts = 0
              /\ NewPending(LifeOf(e)).nextIn + lastAge >= Interval
        BY <4>1, <4>2, NewPendingFacts, WakeAssumption DEF RecordType
      <4>4. QED
        BY <4>1, <4>3, SendDueFacts, WakeAssumption
    <3>3. QED
      BY <3>1, <3>2 DEF Next, Request, SkipExpired, SendDone, Restart, PurgeRow, Tick
  <2>2. QED
    BY <2>1, WakeAssumption DEF LastSentIsLastPush, RecordType
<1>2. QED
  BY <1>1, WakeInvHolds, PTL DEF PushesSpacedWhileRemembered, Spec

-----------------------------------------------------------------------------
(* PushTokens: lists of tokens *)

\* A list repeats no token and is within the limit.
IsList(s) == s \in Seq(Token) /\ Len(s) <= Limit /\ \A x : ~Ahead(s, x, x)

LEMMA ListedHas == ASSUME NEW s \in Seq(Token) PROVE \A x : x \in Listed(s) <=> Has(s, x)
<1>1. DOMAIN s = 1..Len(s)
  OBVIOUS
<1>2. QED
  BY <1>1 DEF Listed, Has

\* A list that repeats nothing has as many tokens as it is long.
LEMMA ListCount ==
    ASSUME NEW s \in Seq(Token), \A x : ~Ahead(s, x, x)
    PROVE  /\ \A i, j \in 1..Len(s) : s[i] = s[j] => i = j
           /\ Cardinality(Listed(s)) = Len(s)
<1> DEFINE n == Len(s)
           E == Listed(s)
<1>1. n \in Nat /\ DOMAIN s = 1..n
  OBVIOUS
<1>2. ASSUME NEW i \in 1..n, NEW j \in 1..n, s[i] = s[j] PROVE i = j
  <2>1. ~(i < j) /\ ~(j < i)
    BY <1>2 DEF Ahead
  <2>2. QED
    BY <1>1, <2>1
<1>3. s \in [1..n -> E] /\ \A x \in E : \E i \in 1..n : s[i] = x
  <2>1. \A i \in 1..n : s[i] \in E
    BY <1>1 DEF Listed
  <2>2. s = [i \in 1..n |-> s[i]]
    OBVIOUS
  <2>3. \A x \in E : \E i \in 1..n : s[i] = x
    BY <1>1 DEF Listed
  <2> HIDE DEF E, n
  <2>4. s \in [1..n -> E]
    BY <2>1, <2>2
  <2>5. QED
    BY <2>3, <2>4
<1> HIDE DEF n, E
<1>4. Cardinality(E) = n
  BY <1>1, <1>2, <1>3, DistinctElements
<1>5. QED
  BY <1>2, <1>4 DEF n, E

\* Tokens are dropped from a list.
LEMMA WithoutList ==
    ASSUME NEW s, IsList(s), NEW gone
    PROVE  /\ IsList(Without(s, gone))
           /\ \A x : Has(Without(s, gone), x) <=> Has(s, x) /\ x \notin gone
           /\ \A x, y : Ahead(Without(s, gone), x, y) => Ahead(s, x, y)
<1> DEFINE f == Filter(s, Token \ gone)
<1>1. s \in Seq(Token) /\ Len(s) \in Nat /\ Len(s) <= Limit /\ Limit \in Nat
  BY TokenAssumption DEF IsList
<1>2. /\ f \in Seq(Token) /\ Len(f) <= Len(s)
      /\ \A x : Has(f, x) <=> Has(s, x) /\ x \in Token \ gone
      /\ \A x, y : Ahead(f, x, y) => Ahead(s, x, y)
  BY <1>1, FilterKeeps
<1>3. \A x : Has(s, x) => x \in Token
  BY <1>1 DEF Has
<1> HIDE DEF f
<1>4. Len(f) <= Limit
  <2>1. Len(f) \in Nat
    BY <1>2
  <2>2. QED
    BY <1>1, <1>2, <2>1
<1>5. IsList(f)
  BY <1>2, <1>4 DEF IsList
<1>6. QED
  BY <1>2, <1>3, <1>5 DEF f, Without

\* The first of Limit + 1 tokens has Limit tokens behind it.
LEMMA CrowdedOut ==
    ASSUME NEW s \in Seq(Token), \A x : ~Ahead(s, x, x), Len(s) = Limit + 1,
           NEW A, IsFiniteSet(A), \A y : Ahead(s, s[1], y) => y \in A
    PROVE  Cardinality(A) >= Limit
<1> DEFINE n == Limit
           f == [k \in 1..n |-> s[k + 1]]
           E == {f[k] : k \in 1..n}
<1>1. n \in Nat
  BY TokenAssumption
<1>2. \A k \in 1..n : k + 1 \in 1..(n + 1) /\ 1 < k + 1 /\ k \in Int
  BY <1>1
<1>3. 1 \in 1..(n + 1) /\ \A i, j \in 1..(n + 1) : s[i] = s[j] => i = j
  BY <1>1, ListCount
<1>4. ASSUME NEW k \in 1..n PROVE s[k + 1] \in A
  <2>1. Ahead(s, s[1], s[k + 1])
    BY <1>2, <1>3 DEF Ahead
  <2>2. QED
    BY <2>1
<1> HIDE DEF n
<1>5. E \subseteq A
  BY <1>4
<1>6. /\ f \in [1..n -> E]
      /\ \A x \in E : \E k \in 1..n : f[k] = x
  OBVIOUS
<1>7. ASSUME NEW j \in 1..n, NEW k \in 1..n, f[j] = f[k] PROVE j = k
  <2>1. j + 1 = k + 1
    BY <1>2, <1>3, <1>7
  <2>2. QED
    BY <1>2, <2>1
<1> HIDE DEF f
<1> HIDE DEF E
<1>8. IsFiniteSet(E) /\ Cardinality(E) = n
  BY <1>1, <1>6, <1>7, DistinctElements
<1>9. Cardinality(E) <= Cardinality(A)
  BY <1>5, FS_Subset
<1>10. Cardinality(A) \in Nat
  BY FS_CardinalityType
<1>11. QED
  BY <1>1, <1>8, <1>9, <1>10 DEF n

\* A registration moves the token to the end, and may push out the first.
LEMMA RegisterList ==
    ASSUME NEW s, IsList(s), NEW t \in Token
    PROVE  LET n == Capped(Append(Without(s, {t}), t)) IN
           /\ IsList(n) /\ Has(n, t)
           /\ \A x : Has(n, x) => Has(s, x) \/ x = t
           /\ \A x, y : Ahead(n, x, y) =>
                 x # t /\ ((Ahead(s, x, y) /\ y # t) \/ y = t)
           /\ \A x, A : Has(s, x) /\ ~Has(n, x) /\ IsFiniteSet(A)
                            /\ t \in A /\ (\A y : Ahead(s, x, y) => y \in A) =>
                 Cardinality(A) >= Limit
<1> DEFINE d == Without(s, {t})
           p == Append(d, t)
           n == Capped(p)
           r == SubSeq(p, 2, Len(p))
<1>1. /\ IsList(d) /\ d \in Seq(Token) /\ Len(d) \in Nat /\ Len(d) <= Limit
      /\ \A x : Has(d, x) <=> Has(s, x) /\ x # t
      /\ \A x, y : Ahead(d, x, y) => Ahead(s, x, y)
  <2>1. /\ IsList(d)
        /\ \A x : Has(d, x) <=> Has(s, x) /\ x \notin {t}
        /\ \A x, y : Ahead(d, x, y) => Ahead(s, x, y)
    BY WithoutList
  <2> HIDE DEF d
  <2>2. QED
    BY <2>1 DEF IsList
<1>2. Limit \in Nat /\ Limit > 0
  BY TokenAssumption
<1> HIDE DEF d
<1>3. \A x, y : Ahead(d, x, y) => Has(d, x) /\ Has(d, y)
  BY DEF Ahead, Has
<1>4. /\ p \in Seq(Token) /\ Len(p) = Len(d) + 1 /\ p[Len(d) + 1] = t
      /\ \A x : Has(p, x) <=> Has(d, x) \/ x = t
      /\ \A x, y : Ahead(p, x, y) => Ahead(d, x, y) \/ (Has(d, x) /\ y = t)
  BY <1>1, AppendKeeps
<1> HIDE DEF p
<1>5. \A x, y : Ahead(p, x, y) => x # t /\ ((Ahead(s, x, y) /\ y # t) \/ y = t)
  BY <1>1, <1>3, <1>4
<1>6. \A x : ~Ahead(p, x, x)
  <2>1. \A x : ~Ahead(d, x, x)
    BY <1>1 DEF IsList
  <2>2. QED
    BY <1>1, <1>4, <2>1
<1>7. CASE Len(p) <= Limit
  <2>1. n = p
    BY <1>1, <1>2, <1>4, <1>7 DEF Capped
  <2> HIDE DEF n
  <2>2. IsList(n)
    BY <1>4, <1>6, <1>7, <2>1 DEF IsList
  <2>3. \A x : Has(s, x) => Has(n, x)
    BY <1>1, <1>4, <2>1
  <2>4. QED
    BY <1>1, <1>4, <1>5, <2>1, <2>2, <2>3 DEF n, p, d
<1>8. CASE Len(p) = Limit + 1
  <2>1. Len(p) > Limit /\ Len(p) - Limit + 1 = 2 /\ p # <<>>
    BY <1>2, <1>8
  <2>2. n = r
    BY <2>1 DEF Capped
  <2>3. /\ r \in Seq(Token) /\ Len(r) = Len(p) - 1
        /\ \A x : Has(r, x) => Has(p, x) /\ Ahead(p, p[1], x)
        /\ \A x : Has(p, x) /\ x # p[1] => Has(r, x)
        /\ \A x, y : Ahead(r, x, y) => Ahead(p, x, y)
    BY <1>4, <2>1, DropFirst
  <2> HIDE DEF n, r
  <2>4. IsList(n)
    BY <1>2, <1>6, <1>8, <2>2, <2>3 DEF IsList
  <2>5. p[1] # t
    <3>1. 1 \in 1..Len(p) /\ Len(p) \in 1..Len(p) /\ 1 < Len(p) /\ p[Len(p)] = t
      BY <1>1, <1>2, <1>4, <1>8
    <3>2. Ahead(p, p[1], t)
      BY <3>1 DEF Ahead
    <3>3. QED
      BY <1>6, <3>2
  <2>6. Has(n, t)
    BY <1>4, <2>2, <2>3, <2>5
  <2>7. \A x : Has(n, x) => Has(s, x) \/ x = t
    BY <1>1, <1>4, <2>2, <2>3
  <2>8. \A x, y : Ahead(n, x, y) => x # t /\ ((Ahead(s, x, y) /\ y # t) \/ y = t)
    BY <1>5, <2>2, <2>3
  <2>9. ASSUME NEW x, NEW A, Has(s, x), ~Has(n, x), IsFiniteSet(A), t \in A,
               \A y : Ahead(s, x, y) => y \in A
        PROVE  Cardinality(A) >= Limit
    <3>1. x = p[1]
      BY <1>1, <1>4, <2>2, <2>3, <2>9
    <3>2. \A y : Ahead(p, p[1], y) => y \in A
      BY <1>5, <2>9, <3>1
    <3>3. QED
      BY <1>4, <1>6, <1>8, <2>9, <3>2, CrowdedOut
  <2>10. QED
    BY <2>4, <2>6, <2>7, <2>8, <2>9 DEF n, p, d
<1>9. Len(p) <= Limit \/ Len(p) = Limit + 1
  BY <1>1, <1>2, <1>4
<1>10. QED
  BY <1>7, <1>8, <1>9

-----------------------------------------------------------------------------
(* PushTokens: the inductive invariant *)

Types ==
    /\ runtime \in Runtime
    /\ IsList(tokens)
    /\ pass \in Pass
    /\ IsList(pass.sent)
    /\ wanted \subseteq Token
    /\ reported \subseteq Token
    /\ after \in [Token -> SUBSET Token]
    /\ \A t \in Token : IsFiniteSet(after[t])
    /\ raced \in BOOLEAN

\* What a pass has sent is the list, unless a registration changed meanwhile.
SentIsCurrent == Running /\ ~raced => pass.sent = tokens

\* The list is in the order of the registrations.
InOrder == \A x, y \in Token : Ahead(tokens, x, y) => y \in after[x]

PushInv ==
    /\ Types
    /\ SentIsCurrent
    /\ Undisturbed => RegistrationKept /\ UnregisteredStaysOut /\ InOrder

\* Elements of a list are tokens.
LEMMA ListTokens ==
    ASSUME NEW s, IsList(s)
    PROVE  /\ s \in Seq(Token)
           /\ \A x : Has(s, x) => x \in Token
           /\ \A x, y : Ahead(s, x, y) => Has(s, x) /\ Has(s, y)
           /\ \A x : x \in Listed(s) <=> Has(s, x)
<1>1. s \in Seq(Token)
  BY DEF IsList
<1>2. QED
  BY <1>1, ListedHas DEF Has, Ahead

\* The list loses tokens that are no longer wanted or were reported.
LEMMA LosingKeeps ==
    ASSUME PushInv, NEW gone, IsList(tokens'),
           Undisturbed' => /\ Undisturbed
                           /\ \A x : Has(tokens', x) <=> Has(tokens, x) /\ x \notin gone
                           /\ \A x, y : Ahead(tokens', x, y) => Ahead(tokens, x, y),
           after' = after, wanted' \subseteq wanted,
           \A x \in wanted' : x \in gone => x \in reported',
           reported \subseteq reported',
           \A x \in wanted \ wanted' : x \in gone
    PROVE  Undisturbed' => RegistrationKept' /\ UnregisteredStaysOut' /\ InOrder'
<1> SUFFICES ASSUME Undisturbed' PROVE RegistrationKept' /\ UnregisteredStaysOut' /\ InOrder'
  OBVIOUS
<1>1. /\ \A x : Has(tokens', x) <=> Has(tokens, x) /\ x \notin gone
      /\ \A x, y : Ahead(tokens', x, y) => Ahead(tokens, x, y)
      /\ RegistrationKept /\ UnregisteredStaysOut /\ InOrder
  BY DEF PushInv
<1>2. \A x : x \in Listed(tokens) <=> Has(tokens, x)
  BY ListTokens DEF PushInv, Types
<1>3. \A x : x \in Listed(tokens') <=> Has(tokens', x)
  BY ListTokens
<1>4. RegistrationKept'
  <2> SUFFICES ASSUME NEW t \in wanted' \ reported'
               PROVE  t \in Listed(tokens') \/ Cardinality(after[t]) >= Limit
    BY DEF RegistrationKept
  <2>1. t \in wanted \ reported /\ t \notin gone
    OBVIOUS
  <2>2. t \in Listed(tokens) \/ Cardinality(after[t]) >= Limit
    BY <1>1, <2>1 DEF RegistrationKept
  <2>3. QED
    BY <1>1, <1>2, <1>3, <2>1, <2>2
<1>5. UnregisteredStaysOut'
  BY <1>1, <1>2, <1>3 DEF UnregisteredStaysOut
<1>6. InOrder'
  BY <1>1 DEF InOrder
<1>7. QED
  BY <1>4, <1>5, <1>6

LEMMA RegisterKeeps == ASSUME PushInv, NEW t \in Token, Register(t) PROVE PushInv'
<1> DEFINE n == Capped(Append(Without(tokens, {t}), t))
<1>0. Types /\ IsList(tokens)
  BY DEF PushInv, Types
<1>1. /\ IsList(n) /\ Has(n, t)
      /\ \A x : Has(n, x) => Has(tokens, x) \/ x = t
      /\ \A x, y : Ahead(n, x, y) => x # t /\ ((Ahead(tokens, x, y) /\ y # t) \/ y = t)
      /\ \A x, A : Has(tokens, x) /\ ~Has(n, x) /\ IsFiniteSet(A)
                       /\ t \in A /\ (\A y : Ahead(tokens, x, y) => y \in A) =>
            Cardinality(A) >= Limit
  BY <1>0, RegisterList
<1>2. /\ tokens' = n /\ wanted' = wanted \cup {t} /\ runtime' = runtime /\ pass' = pass
      /\ reported' = reported \ ({t} \ pass.stale)
      /\ after' = [x \in Token |-> IF x = t THEN {} ELSE after[x] \cup {t}]
      /\ raced' = (raced \/ Running)
  BY DEF Register
<1> HIDE DEF n
<1>3. after'[t] = {} /\ \A x \in Token \ {t} : after'[x] = after[x] \cup {t}
  BY <1>2
<1>4. Types'
  <2>1. raced' \in BOOLEAN
    BY <1>2
  <2>2. after' \in [Token -> SUBSET Token]
    BY <1>0, <1>2 DEF Types
  <2>3. ASSUME NEW x \in Token PROVE IsFiniteSet(after'[x])
    <3>1. IsFiniteSet(after[x]) /\ IsFiniteSet({})
      BY <1>0, FS_EmptySet DEF Types
    <3>2. IsFiniteSet(after[x] \cup {t})
      BY <3>1, FS_AddElement
    <3>3. QED
      BY <1>3, <3>1, <3>2
  <2>4. QED
    BY <1>0, <1>1, <1>2, <2>1, <2>2, <2>3 DEF Types
<1>5. SentIsCurrent'
  BY <1>2 DEF SentIsCurrent, Running
<1>6. ASSUME Undisturbed' PROVE RegistrationKept' /\ UnregisteredStaysOut' /\ InOrder'
  <2>1. RegistrationKept /\ UnregisteredStaysOut /\ InOrder
    BY <1>2, <1>6 DEF PushInv, Undisturbed
  <2>2. \A x : x \in Listed(tokens) <=> Has(tokens, x)
    BY <1>0, ListTokens
  <2>3. \A x : x \in Listed(tokens') <=> Has(tokens', x)
    BY <1>1, <1>2, ListTokens
  <2>4. RegistrationKept'
    <3> SUFFICES ASSUME NEW x \in wanted' \ reported', ~Has(tokens', x)
                 PROVE  Cardinality(after'[x]) >= Limit
      BY <2>3 DEF RegistrationKept
    <3>1. x # t /\ x \in wanted \ reported /\ x \in Token
      BY <1>0, <1>1, <1>2 DEF Types
    <3>2. after'[x] = after[x] \cup {t} /\ IsFiniteSet(after'[x]) /\ IsFiniteSet(after[x])
      BY <1>0, <1>3, <1>4, <3>1 DEF Types
    <3>3. CASE Has(tokens, x)
      <4>1. \A y : Ahead(tokens, x, y) => y \in after'[x]
        <5>1. \A y : Ahead(tokens, x, y) => y \in Token
          BY <1>0, ListTokens
        <5>2. QED
          BY <2>1, <3>1, <3>2, <5>1 DEF InOrder
      <4>2. QED
        BY <1>1, <1>2, <3>2, <3>3, <4>1
    <3>4. CASE Cardinality(after[x]) >= Limit
      <4>1. Cardinality(after[x]) <= Cardinality(after'[x])
        BY <3>2, FS_Subset
      <4>2. Cardinality(after[x]) \in Nat /\ Cardinality(after'[x]) \in Nat /\ Limit \in Nat
        BY <3>2, FS_CardinalityType, TokenAssumption
      <4>3. QED
        BY <3>4, <4>1, <4>2
    <3>5. QED
      BY <2>1, <2>2, <3>1, <3>3, <3>4 DEF RegistrationKept
  <2>5. UnregisteredStaysOut'
    BY <1>1, <1>2, <2>1, <2>2, <2>3 DEF UnregisteredStaysOut
  <2>6. InOrder'
    BY <1>1, <1>2, <1>3, <2>1 DEF InOrder
  <2>7. QED
    BY <2>4, <2>5, <2>6
<1>7. QED
  BY <1>4, <1>5, <1>6 DEF PushInv

LEMMA UnregisterKeeps == ASSUME PushInv, NEW t \in Token, Unregister(t) PROVE PushInv'
<1>0. Types /\ IsList(tokens)
  BY DEF PushInv, Types
<1>1. /\ tokens' = Without(tokens, {t}) /\ wanted' = wanted \ {t}
      /\ raced' = (raced \/ Running) /\ raced' \in BOOLEAN
      /\ runtime' = runtime /\ pass' = pass /\ reported' = reported /\ after' = after
  BY DEF Unregister
<1>2. /\ IsList(tokens')
      /\ \A x : Has(tokens', x) <=> Has(tokens, x) /\ x \notin {t}
      /\ \A x, y : Ahead(tokens', x, y) => Ahead(tokens, x, y)
  BY <1>0, <1>1, WithoutList
<1>3. Types'
  BY <1>0, <1>1, <1>2 DEF Types
<1>4. SentIsCurrent'
  BY <1>1 DEF SentIsCurrent, Running
<1>5. Undisturbed' => Undisturbed
  BY <1>1 DEF Undisturbed
<1>6. Undisturbed' => RegistrationKept' /\ UnregisteredStaysOut' /\ InOrder'
  <2> DEFINE gone == {t}
  <2>1. /\ \A x : Has(tokens', x) <=> Has(tokens, x) /\ x \notin gone
        /\ \A x \in wanted' : x \in gone => x \in reported'
        /\ \A x \in wanted \ wanted' : x \in gone
        /\ wanted' \subseteq wanted
        /\ reported \subseteq reported'
    BY <1>1, <1>2
  <2> HIDE DEF gone
  <2>2. QED
    BY <1>1, <1>2, <1>5, <2>1, LosingKeeps
<1>7. QED
  BY <1>3, <1>4, <1>6 DEF PushInv

\* The end of a pass drops what APNs called stale from the list there is, or
\* from the list it began with.
LEMMA AnswerKeeps ==
    ASSUME PushInv, NEW t \in Token, NEW outcome \in Outcome, Answer(t, outcome)
    PROVE  PushInv'
<1> DEFINE awaited == pass.awaited \ {t}
           stale == pass.stale \cup (IF outcome = "stale" THEN {t} ELSE {})
           ends == awaited = {} /\ stale # {}
           gone == IF ends THEN stale ELSE {}
<1>0. Types /\ IsList(tokens) /\ IsList(pass.sent) /\ pass \in Pass /\ runtime \in {"node", "worker"}
  BY RuntimeAssumption DEF PushInv, Types
<1>1. /\ t \in pass.awaited /\ reported' = reported \cup stale
      /\ pass' = IF awaited = {} THEN Idle ELSE [pass EXCEPT !.awaited = awaited, !.stale = stale]
      /\ tokens' = IF awaited = {} /\ stale # {} THEN Remaining(stale) ELSE tokens
      /\ runtime' = runtime /\ wanted' = wanted /\ after' = after /\ raced' = raced
  BY DEF Answer
<1>2. awaited \subseteq Token /\ stale \subseteq Token
  BY <1>0 DEF Pass
<1>3. Running
  BY <1>1 DEF Running
<1> HIDE DEF awaited, stale
<1>4. IsList(tokens')
  <2>1. CASE ends
    <3>1. IsList(Without(tokens, stale)) /\ IsList(Without(pass.sent, stale))
      BY <1>0, WithoutList
    <3>2. QED
      BY <1>0, <1>1, <2>1, <3>1 DEF Remaining
  <2>2. CASE ~ends
    BY <1>0, <1>1, <2>2
  <2>3. QED
    BY <2>1, <2>2
<1>5. ASSUME Undisturbed'
      PROVE  /\ Undisturbed
             /\ \A x : Has(tokens', x) <=> Has(tokens, x) /\ x \notin gone
             /\ \A x, y : Ahead(tokens', x, y) => Ahead(tokens, x, y)
  <2>1. Undisturbed
    BY <1>1, <1>5 DEF Undisturbed
  <2>2. CASE ends
    <3>1. tokens' = Without(tokens, stale)
      BY <1>1, <1>3, <2>1, <2>2 DEF Remaining, Undisturbed, PushInv, SentIsCurrent
    <3>2. /\ \A x : Has(tokens', x) <=> Has(tokens, x) /\ x \notin stale
          /\ \A x, y : Ahead(tokens', x, y) => Ahead(tokens, x, y)
      BY <1>0, <3>1, WithoutList
    <3>3. QED
      BY <2>1, <2>2, <3>2
  <2>3. CASE ~ends
    BY <1>1, <2>1, <2>3
  <2>4. QED
    BY <2>2, <2>3
<1>6. pass' \in Pass /\ IsList(pass'.sent)
  <2>1. CASE awaited = {}
    <3>1. pass' = Idle /\ IsList(<<>>)
      BY <1>1, <2>1, TokenAssumption DEF IsList, Ahead
    <3>2. QED
      BY <3>1 DEF Idle, Pass
  <2>2. CASE awaited # {}
    <3>1. pass' = [pass EXCEPT !.awaited = awaited, !.stale = stale]
      BY <1>1, <2>2
    <3>2. pass' \in Pass /\ pass'.sent = pass.sent
      BY <1>0, <1>2, <3>1 DEF Pass
    <3>3. QED
      BY <1>0, <3>2
  <2>3. QED
    BY <2>1, <2>2
<1>7. Types'
  BY <1>0, <1>1, <1>2, <1>4, <1>6 DEF Types
<1>8. SentIsCurrent'
  <2>1. SUFFICES ASSUME Running', ~raced' PROVE pass'.sent = tokens'
    BY DEF SentIsCurrent
  <2>2. awaited # {}
    BY <1>1, <2>1 DEF Running, Idle
  <2>3. pass' = [pass EXCEPT !.awaited = awaited, !.stale = stale] /\ tokens' = tokens
    BY <1>1, <2>2
  <2>4. pass'.sent = pass.sent
    BY <1>0, <2>3 DEF Pass
  <2>5. QED
    BY <1>1, <1>3, <2>1, <2>3, <2>4 DEF PushInv, SentIsCurrent
<1>9. gone \subseteq stale
  OBVIOUS
<1> HIDE DEF gone
<1>10. Undisturbed' => RegistrationKept' /\ UnregisteredStaysOut' /\ InOrder'
  <2>1. \A x \in wanted' : x \in gone => x \in reported'
    BY <1>1, <1>9
  <2>2. QED
    BY <1>1, <1>4, <1>5, <2>1, LosingKeeps
<1>11. QED
  BY <1>7, <1>8, <1>10 DEF PushInv

LEMMA PushStep == ASSUME PushInv, [TokenNext]_tokenVars PROVE PushInv'
<1>0. Types
  BY DEF PushInv
<1>1. ASSUME NEW t \in Token, Register(t) \/ Unregister(t) PROVE PushInv'
  BY <1>1, RegisterKeeps, UnregisterKeeps
<1>2. ASSUME NEW t \in Token, NEW outcome \in Outcome, Answer(t, outcome) PROVE PushInv'
  BY <1>2, AnswerKeeps
<1>3. ASSUME tokens' = tokens, pass' \in Pass, IsList(pass'.sent), SentIsCurrent',
             UNCHANGED <<runtime, wanted, reported, after, raced>>
      PROVE  PushInv'
  <2>1. Types'
    BY <1>0, <1>3 DEF Types
  <2>2. Undisturbed' => RegistrationKept' /\ UnregisteredStaysOut' /\ InOrder'
    BY <1>3 DEF PushInv, Undisturbed, RegistrationKept, UnregisteredStaysOut, InOrder
  <2>3. QED
    BY <1>3, <2>1, <2>2 DEF PushInv
<1>4. ASSUME BeginPass PROVE PushInv'
  <2>1. tokens \in Seq(Token) /\ Listed(tokens) \subseteq Token
    <3>1. \A x : x \in Listed(tokens) <=> Has(tokens, x)
      BY <1>0, ListTokens DEF Types
    <3>2. QED
      BY <1>0, <3>1, ListTokens DEF Types
  <2>2. pass' \in Pass /\ pass'.sent = tokens
    BY <1>4, <2>1 DEF BeginPass, Pass
  <2>3. QED
    BY <1>0, <1>3, <1>4, <2>2 DEF BeginPass, SentIsCurrent, Types
<1>5. ASSUME PassLost PROVE PushInv'
  <2>1. pass' = Idle /\ ~Running' /\ IsList(<<>>)
    BY <1>5, TokenAssumption DEF PassLost, Running, Idle, IsList, Ahead
  <2>2. pass' \in Pass /\ pass'.sent = <<>>
    BY <2>1 DEF Pass, Idle
  <2>3. QED
    BY <1>3, <1>5, <2>1, <2>2 DEF PassLost, SentIsCurrent
<1>6. ASSUME UNCHANGED tokenVars PROVE PushInv'
  <2>1. SentIsCurrent' /\ pass' = pass
    BY <1>6 DEF tokenVars, PushInv, SentIsCurrent, Running
  <2>2. QED
    BY <1>0, <1>3, <1>6, <2>1 DEF tokenVars, Types
<1>7. QED
  BY <1>1, <1>2, <1>4, <1>5, <1>6 DEF TokenNext

LEMMA PushInit == ASSUME TokenInit PROVE PushInv
<1>1. IsList(<<>>) /\ \A x, y : ~Has(<<>>, x) /\ ~Ahead(<<>>, x, y)
  BY TokenAssumption DEF IsList, Has, Ahead
<1>2. Listed(tokens) = {}
  BY DEF TokenInit, Listed
<1>3. pass \in Pass /\ pass.sent = <<>> /\ ~Running
  BY DEF TokenInit, Idle, Pass, Running
<1>4. Types
  BY <1>1, <1>3, FS_EmptySet DEF TokenInit, Types
<1>5. QED
  BY <1>1, <1>2, <1>3, <1>4
     DEF TokenInit, PushInv, SentIsCurrent, RegistrationKept, UnregisteredStaysOut, InOrder

LEMMA PushAlways == TokenSpec => []PushInv
  BY PushInit, PushStep, PTL DEF TokenSpec

\* Type correctness: the list repeats no token and is within PUSH_TOKEN_LIMIT,
\* also when a pass writes a list back (store.js updatePushToken and
\* removePushTokens, room.js handlePushRegistration and sendWakePush).
THEOREM TokensTyped == TokenSpec => []TokenTypeOK
<1>1. ASSUME PushInv PROVE TokenTypeOK
  <2>1. tokens \in Seq(Token) /\ Cardinality(Listed(tokens)) = Len(tokens)
    BY <1>1, ListCount DEF PushInv, Types, IsList
  <2>2. QED
    BY <1>1, <2>1 DEF PushInv, Types, IsList, TokenTypeOK
<1>2. QED
  BY <1>1, PushAlways, PTL

\* A registration is kept until it is withdrawn, called stale or pushed out by
\* Limit others: always in Node, in the Worker unless one changed during a pass
\* (sendWakePush, which drops stale tokens after APNs has answered).
THEOREM RegistrationsAreKept == TokenSpec => []RegistrationsHold
<1>1. PushInv => RegistrationsHold
  BY DEF PushInv, RegistrationsHold
<1>2. QED
  BY <1>1, PushAlways, PTL

\* An unregistered token does not come back, under the same condition
\* (handlePushRegistration and updatePushToken with DELETE, sendWakePush).
THEOREM UnregistrationsAreKept == TokenSpec => []UnregistrationsHold
<1>1. PushInv => UnregistrationsHold
  BY DEF PushInv, UnregistrationsHold
<1>2. QED
  BY <1>1, PushAlways, PTL
=============================================================================
