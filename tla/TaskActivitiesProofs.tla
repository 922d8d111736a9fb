------------------------ MODULE TaskActivitiesProofs ------------------------
(***************************************************************************)
(* Proofs about TaskActivities for any number of activities, tokens,       *)
(* deliveries and updates.  Every step changes an activity in three        *)
(* places: its row with its receipts, its chain of updates, and what the   *)
(* phone counts on.  ActivityInv relates the three: the row's receipt is   *)
(* the last send accepted, the one update on its way was admitted against  *)
(* that receipt, and the row that is alive is the one the phone made last. *)
(***************************************************************************)
EXTENDS TaskActivities, FiniteFacts, SequenceTheorems, TLAPS

\* The assumptions on the limits, one by one.
LEMMA Limits ==
    /\ Limit \in Nat /\ Limit > 0 /\ Gap \in Nat /\ Gap > 0 /\ Ttl \in Nat
    /\ BodyWait \in Nat /\ MaxTime \in Nat /\ MaxUpdates \in Nat
    /\ None \notin Deliveries /\ None \notin Tokens
<1>1. /\ Limit \in Nat \ {0} /\ Gap \in Nat \ {0} /\ Ttl \in Nat \ {0}
      /\ BodyWait \in Nat /\ MaxTime \in Nat /\ MaxUpdates \in Nat
  BY ActivityAssumption
<1>2. QED
  BY <1>1, ActivityAssumption

-----------------------------------------------------------------------------
(* Chains *)

\* Only the oldest update of a chain may be on its way.
ChainOK(c) == c \in Seq(Update) /\ \A i \in 2..Len(c) : c[i].stage = "waiting"

\* Nothing of a chain is on its way.
AllWaiting(c) == \A i \in 1..Len(c) : c[i].stage = "waiting"

\* Once the oldest update is answered, nothing of the chain is on its way.
LEMMA AnswerFirst ==
    ASSUME NEW c, ChainOK(c), c # <<>>
    PROVE  /\ RemoveAt(c, 1) \in Seq(Update)
           /\ AllWaiting(RemoveAt(c, 1))
<1> DEFINE t == SubSeq(c, 2, Len(c))
<1>1. c \in Seq(Update) /\ Len(c) \in Nat /\ Len(c) >= 1
  BY DEF ChainOK
<1>2. SubSeq(c, 1, 0) = <<>>
  BY <1>1
<1>a. 2 <= Len(c) \/ Len(c) = 1
  <2> DEFINE n == Len(c)
  <2> HIDE DEF n
  <2>1. n \in Nat /\ n >= 1
    BY <1>1 DEF n
  <2>2. 2 <= n \/ n = 1
    BY <2>1
  <2>3. QED
    BY <2>2 DEF n
<1>3. t \in Seq(Update) /\ Len(t) = Len(c) - 1 /\ \A i \in 1..Len(t) : t[i] = c[i + 1]
  <2>1. 2 \in Int /\ Len(c) \in Int /\ \A i \in 2..Len(c) : c[i] \in Update
    BY <1>1
  <2>2. /\ t \in Seq(Update)
        /\ Len(t) = IF 2 <= Len(c) THEN Len(c) - 2 + 1 ELSE 0
        /\ \A i \in 1..Len(c) - 2 + 1 : t[i] = c[2 + i - 1]
    BY <1>1, <2>1, SubSeqProperties
  <2> HIDE DEF t
  <2>3. Len(t) = Len(c) - 1
    <3>1. Len(t) = IF 2 <= Len(c) THEN Len(c) - 2 + 1 ELSE 0
      BY <2>2
    <3>2. CASE 2 <= Len(c)
      BY <1>1, <3>1, <3>2
    <3>3. CASE Len(c) = 1
      BY <3>1, <3>3
    <3>4. QED
      BY <1>a, <3>2, <3>3
  <2>4. \A i \in 1..Len(t) : i \in 1..Len(c) - 2 + 1 /\ 2 + i - 1 = i + 1
    BY <1>1, <2>3
  <2>5. QED
    BY <2>2, <2>3, <2>4
<1>4. RemoveAt(c, 1) = SubSeq(c, 1, 0) \o t
  BY DEF RemoveAt
<1> HIDE DEF t
<1>5. RemoveAt(c, 1) = t
  BY <1>2, <1>3, <1>4, ConcatEmptySeq
<1>6. \A i \in 1..Len(t) : i + 1 \in 2..Len(c)
  BY <1>1, <1>3
<1>7. QED
  BY <1>3, <1>5, <1>6 DEF ChainOK, AllWaiting

\* Only the oldest update of a typed chain is on its way.
LEMMA OnlyFirst ==
    ASSUME NEW c, ChainOK(c), NEW i \in DOMAIN c, c[i].stage # "waiting"
    PROVE  i = 1
<1>1. i \in 1..Len(c)
  BY DEF ChainOK
<1>2. QED
  BY <1>1 DEF ChainOK

\* The chains are typed.
ChainsOK == \A a \in Activities : ChainOK(chain[a])

\* Replacing the oldest update of a chain.
LEMMA ReplaceFirst ==
    ASSUME NEW c, ChainOK(c), c # <<>>, NEW u \in Update
    PROVE  /\ ChainOK([c EXCEPT ![1] = u])
           /\ Len([c EXCEPT ![1] = u]) = Len(c)
           /\ [c EXCEPT ![1] = u][1] = u
<1>1. c \in Seq(Update) /\ 1 \in 1..Len(c)
  BY DEF ChainOK
<1>2. /\ [c EXCEPT ![1] = u] \in Seq(Update)
      /\ Len([c EXCEPT ![1] = u]) = Len(c)
      /\ \A j \in 1..Len(c) : [c EXCEPT ![1] = u][j] = IF j = 1 THEN u ELSE c[j]
  BY <1>1, ExceptSeq
<1>3. QED
  BY <1>1, <1>2 DEF ChainOK

\* An update that arrives joins the end.
LEMMA AppendWaiting ==
    ASSUME NEW c, ChainOK(c), NEW u \in Update, u.stage = "waiting"
    PROVE  /\ ChainOK(Append(c, u))
           /\ \A i \in 1..Len(Append(c, u)) :
                Append(c, u)[i].stage # "waiting" => i \in 1..Len(c) /\ Append(c, u)[i] = c[i]
<1>1. c \in Seq(Update) /\ Len(c) \in Nat
  BY DEF ChainOK
<1>2. /\ Append(c, u) \in Seq(Update)
      /\ Len(Append(c, u)) = Len(c) + 1
      /\ \A i \in 1..Len(c) : Append(c, u)[i] = c[i]
      /\ Append(c, u)[Len(c) + 1] = u
  BY <1>1, AppendProperties
<1>3. \A i \in 1..Len(c) + 1 : i \in 1..Len(c) \/ i = Len(c) + 1
  BY <1>1
<1>4. QED
  BY <1>1, <1>2, <1>3 DEF ChainOK

\* What is on its way in d was already on its way in c.
SameFlight(c, d) ==
    \A i \in 1..Len(d) : d[i].stage # "waiting" =>
        /\ i \in 1..Len(c) /\ c[i].stage # "waiting"
        /\ d[i].id = c[i].id /\ d[i].event = c[i].event /\ d[i].at = c[i].at

\* d is the chain of a with its oldest update sent now, as the row admits.
NewFlight(a, d) ==
    LET u == chain[a][1] IN
        /\ chain[a] # <<>>
        /\ MustSend(Purged(now)[a], u, now)
        /\ d[1].id = u.id /\ d[1].event = u.event /\ d[1].at = now
        /\ rows'[a] = Purged(now)[a] /\ now' = now

\* Chains and what is on its way in them, before and after a step.
ChainMoves(a) ==
    /\ ChainOK(chain'[a])
    /\ SameFlight(chain[a], chain'[a]) \/ NewFlight(a, chain'[a])

\* What is not changed moves nowhere.
LEMMA ChainStays ==
    ASSUME ChainsOK, NEW a \in Activities, chain'[a] = chain[a]
    PROVE  ChainMoves(a)
  BY DEF ChainsOK, ChainMoves, SameFlight

\* An answered update leaves.
LEMMA AnsweredMoves ==
    ASSUME ChainsOK, chain \in [Activities -> Seq(Update)], NEW a \in Activities,
           NEW i \in DOMAIN chain[a], i = 1, Answered(a, i)
    PROVE  /\ chain' \in [Activities -> Seq(Update)] /\ AllWaiting(chain'[a])
           /\ \A b \in Activities : ChainMoves(b)
<1>1. ChainOK(chain[a]) /\ chain[a] # <<>>
  BY DEF ChainsOK
<1>2. chain' = [chain EXCEPT ![a] = RemoveAt(chain[a], 1)]
  BY DEF Answered
<1> DEFINE d == RemoveAt(chain[a], 1)
<1>3. d \in Seq(Update) /\ \A k \in 1..Len(d) : d[k].stage = "waiting"
  BY <1>1, AnswerFirst DEF AllWaiting
<1>4. ChainOK(d) /\ SameFlight(chain[a], d)
  <2> HIDE DEF d
  <2>1. \A k \in 2..Len(d) : k \in 1..Len(d)
    BY <1>3
  <2>2. QED
    BY <1>3, <2>1 DEF ChainOK, SameFlight
<1>5. chain'[a] = d /\ \A b \in Activities \ {a} : chain'[b] = chain[b]
  BY <1>2
<1> HIDE DEF d
<1>6. chain' \in [Activities -> Seq(Update)]
  BY <1>2, <1>3 DEF d
<1>7. QED
  BY <1>3, <1>4, <1>5, <1>6, ChainStays DEF ChainMoves, AllWaiting

\* A step of one activity's delivery, of a request or of a restart moves the
\* chains as described.
LEMMA ChainStep ==
    ASSUME ChainsOK, chain \in [Activities -> Seq(Update)], now \in Nat,
           \A a \in Activities : Purged(now)[a] # None => Purged(now)[a].token \in Tokens,
           [Next]_vars
    PROVE  chain' \in [Activities -> Seq(Update)] /\ \A b \in Activities : ChainMoves(b)
<1> DEFINE Goal == chain' \in [Activities -> Seq(Update)] /\ \A b \in Activities : ChainMoves(b)
<1>a. ASSUME chain' = chain PROVE Goal
  BY <1>a, ChainStays
<1>b. ASSUME NEW a \in Activities, NEW d, ChainOK(d), chain' = [chain EXCEPT ![a] = d],
             SameFlight(chain[a], d) \/ NewFlight(a, d)
      PROVE  Goal
  <2>1. chain'[a] = d /\ \A b \in Activities \ {a} : chain'[b] = chain[b]
    BY <1>b
  <2>2. chain' \in [Activities -> Seq(Update)]
    BY <1>b DEF ChainOK
  <2>3. QED
    BY <1>b, <2>1, <2>2, ChainStays DEF ChainMoves
<1>1. ASSUME NEW a \in Activities, NEW id \in Deliveries, NEW event \in Event, Enqueue(a, id, event)
      PROVE  Goal
  <2> DEFINE u == [id |-> id, event |-> event, stage |-> "waiting", token |-> None, at |-> 0]
  <2>1. u \in Update /\ u.stage = "waiting"
    BY DEF Update, Stage
  <2>2. chain' = [chain EXCEPT ![a] = Append(chain[a], u)]
    BY <1>1 DEF Enqueue
  <2> HIDE DEF u
  <2>3. ChainOK(Append(chain[a], u)) /\ SameFlight(chain[a], Append(chain[a], u))
    BY <2>1, AppendWaiting DEF ChainsOK, SameFlight
  <2>4. QED
    BY <1>b, <2>2, <2>3
<1>2. ASSUME NEW a \in Activities, DeliverNothing(a) PROVE Goal
  <2>1. PICK i \in Turn(a) : Answered(a, i)
    BY <1>2 DEF DeliverNothing
  <2>2. i = 1 /\ i \in DOMAIN chain[a]
    BY DEF Turn
  <2>3. QED
    BY <2>1, <2>2, AnsweredMoves
<1>3. ASSUME NEW a \in Activities, DeliverSend(a) PROVE Goal
  <2> DEFINE u == chain[a][1]
             v == [u EXCEPT !.stage = "sent", !.token = Purged(now)[a].token, !.at = now]
  <2>1. PICK i \in Turn(a) :
            /\ MustSend(Purged(now)[a], chain[a][i], now)
            /\ chain' = [chain EXCEPT ![a][i].stage = "sent",
                                      ![a][i].token = Purged(now)[a].token, ![a][i].at = now]
            /\ rows' = Purged(now) /\ now' = now
    BY <1>3 DEF DeliverSend, Write
  <2>2. i = 1 /\ 1 \in DOMAIN chain[a]
    BY DEF Turn
  <2>3. chain[a] # <<>> /\ u \in Update /\ ChainOK(chain[a])
    BY <2>2 DEF ChainsOK, ChainOK
  <2>4. Purged(now)[a].token \in Tokens
    BY <2>1 DEF MustSend
  <2>5. v \in Update /\ v.id = u.id /\ v.event = u.event /\ v.at = now
    BY <2>3, <2>4 DEF Update, Stage
  <2>6. chain' = [chain EXCEPT ![a] = [chain[a] EXCEPT ![1] = v]]
    BY <2>1, <2>2, <2>3
  <2> HIDE DEF v
  <2>7. /\ ChainOK([chain[a] EXCEPT ![1] = v])
        /\ [chain[a] EXCEPT ![1] = v][1] = v
    BY <2>3, <2>5, ReplaceFirst
  <2>8. NewFlight(a, [chain[a] EXCEPT ![1] = v])
    BY <2>1, <2>2, <2>3, <2>5, <2>7 DEF NewFlight
  <2>9. QED
    BY <1>b, <2>6, <2>7, <2>8
<1>4. ASSUME NEW a \in Activities, APNs(a) PROVE Goal
  <2>1. PICK i \in DOMAIN chain[a], outcome \in {"ok", "stale", "refused"} :
            chain[a][i].stage = "sent" /\ chain' = [chain EXCEPT ![a][i].stage = outcome]
    BY <1>4 DEF APNs
  <2>2. ChainOK(chain[a]) /\ i = 1 /\ chain[a] # <<>> /\ chain[a] \in Seq(Update)
    BY <2>1, OnlyFirst DEF ChainsOK, ChainOK
  <2> DEFINE u == chain[a][1]
             v == [u EXCEPT !.stage = outcome]
  <2>3. u \in Update /\ u.stage = "sent"
    BY <2>1, <2>2
  <2>4. v \in Update /\ v.id = u.id /\ v.event = u.event /\ v.at = u.at
    BY <2>3 DEF Update, Stage
  <2>5. chain' = [chain EXCEPT ![a] = [chain[a] EXCEPT ![1] = v]]
    BY <2>1, <2>2
  <2> HIDE DEF v
  <2>6. /\ ChainOK([chain[a] EXCEPT ![1] = v])
        /\ Len([chain[a] EXCEPT ![1] = v]) = Len(chain[a])
        /\ [chain[a] EXCEPT ![1] = v][1] = v
    BY <2>2, <2>4, ReplaceFirst
  <2> DEFINE d == [chain[a] EXCEPT ![1] = v]
  <2>7. \A k \in 1..Len(d) : d[k].stage # "waiting" => k = 1
    <3> HIDE DEF d
    <3>1. ChainOK(d) /\ d \in Seq(Update)
      BY <2>6 DEF d, ChainOK
    <3>2. QED
      BY <3>1, OnlyFirst
  <2>8. SameFlight(chain[a], d)
    BY <2>2, <2>3, <2>4, <2>6, <2>7 DEF SameFlight
  <2>9. QED
    BY <1>b, <2>5, <2>6, <2>8
<1>5. ASSUME NEW a \in Activities, Failed(a) \/ AnswerStale(a) \/ AnswerOk(a) PROVE Goal
  <2>1. PICK i \in DOMAIN chain[a] : chain[a][i].stage # "waiting" /\ Answered(a, i)
    BY <1>5 DEF Failed, Aborted, AnswerStale, AnswerOk
  <2>2. i = 1
    BY <2>1, OnlyFirst DEF ChainsOK
  <2>3. QED
    BY <2>1, <2>2, AnsweredMoves
<1>6. ASSUME Restart PROVE Goal
  <2>1. chain' \in [Activities -> Seq(Update)] /\ \A a \in Activities : chain'[a] = <<>>
    BY <1>6 DEF Restart
  <2>2. \A a \in Activities : ChainMoves(a)
    BY <2>1 DEF ChainMoves, ChainOK, SameFlight
  <2>3. QED
    BY <2>1, <2>2
<1> HIDE DEF Goal
<1>7. Goal
  BY <1>1, <1>2, <1>3, <1>4, <1>5, <1>6, <1>a
     DEF Next, Register, RegisterRefused, Unregister, List, Tick, vars
<1>8. QED
  BY <1>7 DEF Goal

-----------------------------------------------------------------------------
(* The registry *)

\* Typed registries, and the activities enrolled in one.
Registry == [Activities -> Row \cup {None}]
Enrolled(r) == {a \in Activities : r[a] # None}

\* The number of enrolments is a number, and within the limit.
RegistryOK(r) == r \in Registry /\ IsFiniteSet(Enrolled(r)) /\ Cardinality(Enrolled(r)) <= Limit

\* The type invariant, and that the enrolments are finitely many.
TypeInv == TypeOK /\ RegistryOK(rows)

\* Typed chains are those of ChainOK.
LEMMA TypedChains == ASSUME TypeOK PROVE ChainsOK /\ chain \in [Activities -> Seq(Update)]
  BY DEF TypeOK, ChainsOK, ChainOK

\* Fewer enrolments keep the registry within its limit.
LEMMA FewerEnrolled ==
    ASSUME NEW r, RegistryOK(r), NEW s \in Registry, Enrolled(s) \subseteq Enrolled(r)
    PROVE  RegistryOK(s)
<1>1. IsFiniteSet(Enrolled(r)) /\ Cardinality(Enrolled(r)) <= Limit
  BY DEF RegistryOK
<1>2. IsFiniteSet(Enrolled(s)) /\ Cardinality(Enrolled(s)) <= Cardinality(Enrolled(r))
  BY <1>1, FS_Subset
<1>3. Cardinality(Enrolled(s)) \in Nat /\ Cardinality(Enrolled(r)) \in Nat
  BY <1>1, <1>2, FS_CardinalityType
<1>4. QED
  BY <1>1, <1>2, <1>3, Limits DEF RegistryOK

\* An activity is enrolled only where there is room for it.
LEMMA EnrolOne ==
    ASSUME NEW r, RegistryOK(r), NEW a \in Activities, HasRoom(r, a), NEW row \in Row
    PROVE  RegistryOK([r EXCEPT ![a] = row])
<1> DEFINE s == [r EXCEPT ![a] = row]
<1>1. s \in Registry /\ Enrolled(s) = Enrolled(r) \cup {a}
  BY NoneAssumption DEF RegistryOK, Registry, Enrolled
<1>2. CASE a \in Enrolled(r)
  <2>1. Enrolled(s) \subseteq Enrolled(r)
    BY <1>1, <1>2
  <2>2. QED
    BY <1>1, <2>1, FewerEnrolled
<1>3. CASE a \notin Enrolled(r)
  <2>1. Cardinality(Enrolled(r)) < Limit
    BY <1>3 DEF HasRoom, Enrolled
  <2> HIDE DEF s
  <2>2. IsFiniteSet(Enrolled(s)) /\ Cardinality(Enrolled(s)) = Cardinality(Enrolled(r)) + 1
    BY <1>1, <1>3, FS_AddElement DEF RegistryOK
  <2>3. Cardinality(Enrolled(r)) \in Nat
    BY FS_CardinalityType DEF RegistryOK
  <2>4. Cardinality(Enrolled(s)) <= Limit
    BY <2>1, <2>2, <2>3, Limits
  <2>5. QED
    BY <1>1, <2>2, <2>4 DEF RegistryOK, s
<1>4. QED
  BY <1>2, <1>3

\* A purge keeps rows as they are or drops them.
LEMMA PurgedFacts ==
    ASSUME RegistryOK(rows), NEW t
    PROVE  /\ Purged(t) \in Registry /\ RegistryOK(Purged(t))
           /\ \A a \in Activities : Purged(t)[a] = None \/ Purged(t)[a] = rows[a]
<1>1. Purged(t) \in Registry /\ Enrolled(Purged(t)) \subseteq Enrolled(rows)
  BY DEF Purged, Registry, RegistryOK, Enrolled
<1>2. QED
  BY <1>1, FewerEnrolled DEF Purged

\* The row and receipts of an activity when no send of it was recorded: gone,
\* kept with their receipt, or enrolled anew without one.
Unsent(r, s, r2, s2) ==
    \/ r2 = None /\ s2 = <<>>
    \/ /\ r # None /\ r2 # None /\ s2 = s
       /\ r2.lastDeliveryId = r.lastDeliveryId /\ r2.lastDeliveredAt = r.lastDeliveredAt
    \/ r2 # None /\ s2 = <<>> /\ r2.lastDeliveryId = None /\ r2.lastDeliveredAt = 0

\* The send of a's oldest update, accepted by APNs, is recorded.
Recorded(a) ==
    LET u == chain[a][1] IN
        /\ chain[a] # <<>> /\ u.stage = "ok" /\ u.event = "update"
        /\ rows[a] # None /\ rows'[a] # None
        /\ rows'[a].lastDeliveryId = u.id /\ rows'[a].lastDeliveredAt = u.at
        /\ accepted'[a] = Append(accepted[a], [id |-> u.id, event |-> u.event, at |-> u.at])

RowMoves(a) ==
    \/ Unsent(rows[a], accepted[a], rows'[a], accepted'[a])
    \/ Recorded(a) /\ AllWaiting(chain'[a])

\* Typed rows and receipts, of which each activity's moved as described.
RowsMove ==
    /\ RegistryOK(rows')
    /\ accepted' \in [Activities -> Seq(Send)]
    /\ \A a \in Activities : RowMoves(a)

\* What rows must satisfy for that: receipts last as long as enrolments.
RowsOK ==
    /\ RegistryOK(rows)
    /\ accepted \in [Activities -> Seq(Send)]
    /\ \A a \in Activities : rows[a] = None => accepted[a] = <<>>

\* Untouched rows.
LEMMA RowsStay == ASSUME RowsOK, UNCHANGED <<rows, accepted>> PROVE RowsMove
  BY DEF RowsOK, RowsMove, RowMoves, Unsent

\* Dropping rows.
LEMMA DropWrite ==
    ASSUME RowsOK, NEW r \in Registry, \A a \in Activities : r[a] = None \/ r[a] = rows[a],
           Write(r, accepted)
    PROVE  RowsMove
<1>1. /\ rows' = r
      /\ accepted' = [a \in Activities |-> IF r[a] = None THEN <<>> ELSE accepted[a]]
  BY DEF Write
<1>2. Enrolled(r) \subseteq Enrolled(rows)
  BY DEF Enrolled
<1>3. RegistryOK(rows')
  BY <1>1, <1>2, FewerEnrolled DEF RowsOK
<1>4. accepted' \in [Activities -> Seq(Send)]
  BY <1>1 DEF RowsOK
<1>5. \A a \in Activities : RowMoves(a)
  BY <1>1 DEF RowMoves, Unsent
<1>6. QED
  BY <1>3, <1>4, <1>5 DEF RowsMove

\* A rotation keeps the receipt, an enrolment starts without one.
LEMMA RegisterRows ==
    ASSUME RowsOK, now \in Nat, NEW a \in Activities, NEW token \in Tokens, Register(a, token)
    PROVE  RowsMove
<1>0. PICK t \in RequestTimes : \E expiresAt \in (t + 1)..(t + Ttl) :
        /\ HasRoom(Purged(t), a)
        /\ Write([Purged(t) EXCEPT ![a] = RowOf(Purged(t)[a], token, expiresAt)],
                 [accepted EXCEPT ![a] = IF Purged(t)[a] = None THEN <<>> ELSE @])
  BY DEF Register
<1>1. PICK expiresAt \in (t + 1)..(t + Ttl) :
        /\ HasRoom(Purged(t), a)
        /\ Write([Purged(t) EXCEPT ![a] = RowOf(Purged(t)[a], token, expiresAt)],
                 [accepted EXCEPT ![a] = IF Purged(t)[a] = None THEN <<>> ELSE @])
  BY <1>0
<1> DEFINE live == Purged(t)
           row == RowOf(live[a], token, expiresAt)
           reg == [live EXCEPT ![a] = row]
           rec == [accepted EXCEPT ![a] = IF live[a] = None THEN <<>> ELSE @]
<1>2. live \in Registry /\ RegistryOK(live)
      /\ \A b \in Activities : live[b] = None \/ live[b] = rows[b]
  BY PurgedFacts DEF RowsOK
<1>3. expiresAt \in Nat
  BY Limits DEF RequestTimes
<1>4. /\ row \in Row
      /\ live[a] = None => row.lastDeliveryId = None /\ row.lastDeliveredAt = 0
      /\ live[a] # None => /\ row.lastDeliveryId = live[a].lastDeliveryId
                           /\ row.lastDeliveredAt = live[a].lastDeliveredAt
  <2> HIDE DEF live
  <2>1. live[a] # None => live[a] \in Row
    BY <1>2 DEF Registry
  <2>2. QED
    BY <1>3, <2>1 DEF RowOf, Row
<1>5. RegistryOK(reg)
  <2> HIDE DEF live, row
  <2>1. HasRoom(live, a)
    BY <1>1 DEF live
  <2>2. QED
    BY <1>2, <1>4, <2>1, EnrolOne
<1>6. /\ rows' = reg
      /\ accepted' = [b \in Activities |-> IF reg[b] = None THEN <<>> ELSE rec[b]]
  BY <1>1 DEF Write
<1> HIDE DEF live, row
<1>7. /\ reg[a] = row /\ \A b \in Activities \ {a} : reg[b] = live[b] /\ rec[b] = accepted[b]
      /\ rec[a] = IF live[a] = None THEN <<>> ELSE accepted[a]
      /\ rec \in [Activities -> Seq(Send)]
  BY <1>2 DEF Registry, RowsOK
<1> HIDE DEF reg, rec
<1>8. accepted' \in [Activities -> Seq(Send)]
  BY <1>6, <1>7
<1>9. row # None
  BY <1>4, NoneAssumption
<1>10. Unsent(rows[a], accepted[a], rows'[a], accepted'[a])
  BY <1>2, <1>4, <1>6, <1>7, <1>9 DEF Unsent
<1>11. \A b \in Activities \ {a} : Unsent(rows[b], accepted[b], rows'[b], accepted'[b])
  BY <1>2, <1>6, <1>7 DEF Unsent
<1>12. QED
  BY <1>5, <1>6, <1>8, <1>10, <1>11 DEF RowsMove, RowMoves

\* The receipt of an accepted send, or the end of the activity.
LEMMA OkRows ==
    ASSUME RowsOK, ChainsOK, chain \in [Activities -> Seq(Update)],
           NEW a \in Activities, AnswerOk(a)
    PROVE  RowsMove
<1> DEFINE u == chain[a][1]
           live == Purged(u.at)
           sent == [id |-> u.id, event |-> u.event, at |-> u.at]
           reg == [live EXCEPT ![a] = AfterOk(live[a], u)]
           rec == [accepted EXCEPT ![a] = Append(accepted[a], sent)]
<1>1. PICK i \in DOMAIN chain[a] :
          /\ chain[a][i].stage = "ok" /\ Answered(a, i)
          /\ Write([Purged(chain[a][i].at) EXCEPT ![a] = AfterOk(@, chain[a][i])],
                   [accepted EXCEPT ![a] = Append(@,
                       [id |-> chain[a][i].id, event |-> chain[a][i].event,
                        at |-> chain[a][i].at])])
  BY DEF AnswerOk
<1>2. i = 1 /\ u \in Update /\ chain[a] # <<>>
  <2>1. chain[a][i].stage # "waiting" /\ ChainOK(chain[a])
    BY <1>1 DEF ChainsOK
  <2>2. i = 1
    BY <2>1, OnlyFirst
  <2>3. QED
    BY <2>2
<1>3. AllWaiting(chain'[a])
  BY <1>1, <1>2, AnsweredMoves
<1>4. live \in Registry /\ RegistryOK(live)
      /\ \A b \in Activities : live[b] = None \/ live[b] = rows[b]
  BY PurgedFacts DEF RowsOK
<1>5. live[a] # None => live[a] \in Row
  BY <1>4 DEF Registry
<1>6. /\ rows' = reg
      /\ accepted' = [b \in Activities |-> IF reg[b] = None THEN <<>> ELSE rec[b]]
  <2>1. Write(reg, rec)
    <3>1. Purged(u.at) \in [Activities -> Row \cup {None}]
      BY <1>4 DEF Registry
    <3>2. QED
      BY <1>1, <1>2, <3>1 DEF RowsOK
  <2> HIDE DEF reg, rec
  <2>2. QED
    BY <2>1 DEF Write
<1>7. sent \in Send
  BY <1>2 DEF Update, Send
<1> HIDE DEF live, sent
<1>8. /\ reg[a] = AfterOk(live[a], u)
      /\ \A b \in Activities \ {a} : reg[b] = live[b] /\ rec[b] = accepted[b]
      /\ rec[a] = Append(accepted[a], sent)
      /\ rec \in [Activities -> Seq(Send)]
  BY <1>4, <1>7, AppendProperties DEF Registry, RowsOK
<1>9. \/ AfterOk(live[a], u) = None
      \/ /\ u.event # "end" /\ live[a] # None
         /\ AfterOk(live[a], u) \in Row
         /\ AfterOk(live[a], u).lastDeliveryId = u.id
         /\ AfterOk(live[a], u).lastDeliveredAt = u.at
  BY <1>2, <1>5 DEF AfterOk, Row, Update
<1>10. reg \in Registry /\ Enrolled(reg) \subseteq Enrolled(live)
  <2>1. AfterOk(live[a], u) \in Row \cup {None} /\ (live[a] = None => AfterOk(live[a], u) = None)
    BY <1>9
  <2>2. reg \in Registry
    BY <1>4, <2>1 DEF Registry
  <2> HIDE DEF reg
  <2>3. QED
    BY <1>8, <2>1, <2>2 DEF Enrolled
<1> HIDE DEF reg, rec
<1>11. RegistryOK(rows')
  BY <1>4, <1>6, <1>10, FewerEnrolled
<1>12. accepted' \in [Activities -> Seq(Send)]
  BY <1>6, <1>8
<1>13. \A b \in Activities \ {a} : Unsent(rows[b], accepted[b], rows'[b], accepted'[b])
  BY <1>4, <1>6, <1>8 DEF Unsent
<1>14. RowMoves(a)
  <2>1. CASE reg[a] = None
    BY <1>6, <2>1 DEF RowMoves, Unsent
  <2>2. CASE reg[a] # None
    <3>1. u.event = "update" /\ rows[a] # None /\ rows'[a] # None
          /\ rows'[a].lastDeliveryId = u.id /\ rows'[a].lastDeliveredAt = u.at
      BY <1>2, <1>4, <1>6, <1>8, <1>9, <2>2 DEF Update, Event
    <3>2. accepted'[a] = Append(accepted[a], [id |-> u.id, event |-> u.event, at |-> u.at])
      BY <1>6, <1>8, <2>2 DEF sent
    <3>3. Recorded(a)
      BY <1>1, <1>2, <3>1, <3>2 DEF Recorded
    <3>4. QED
      BY <1>3, <3>3 DEF RowMoves
  <2>3. QED
    BY <2>1, <2>2
<1>15. QED
  BY <1>11, <1>12, <1>13, <1>14 DEF RowsMove, RowMoves

\* Every step moves rows and receipts as described.
LEMMA RowsStep ==
    ASSUME RowsOK, ChainsOK, chain \in [Activities -> Seq(Update)], now \in Nat, [Next]_vars
    PROVE  RowsMove
<1>a. ASSUME NEW t, Write(Purged(t), accepted) PROVE RowsMove
  BY <1>a, PurgedFacts, DropWrite DEF RowsOK
<1>b. ASSUME NEW t, NEW a \in Activities, Write([Purged(t) EXCEPT ![a] = None], accepted)
      PROVE  RowsMove
  <2> DEFINE r == [Purged(t) EXCEPT ![a] = None]
  <2>1. /\ Purged(t) \in [Activities -> Row \cup {None}]
        /\ \A b \in Activities : Purged(t)[b] = None \/ Purged(t)[b] = rows[b]
    BY PurgedFacts DEF RowsOK, Registry
  <2>2. r \in Registry /\ \A b \in Activities : r[b] = None \/ r[b] = rows[b]
    BY <2>1 DEF Registry
  <2> HIDE DEF r
  <2>3. Write(r, accepted)
    BY <1>b DEF r
  <2>4. QED
    BY <2>2, <2>3, DropWrite
<1>1. ASSUME NEW a \in Activities, NEW token \in Tokens, Register(a, token) PROVE RowsMove
  BY <1>1, RegisterRows
<1>2. ASSUME NEW a \in Activities, RegisterRefused(a) PROVE RowsMove
  BY <1>2, <1>a DEF RegisterRefused
<1>3. ASSUME NEW a \in Activities, Unregister(a) PROVE RowsMove
  BY <1>3, <1>b DEF Unregister
<1>4. ASSUME List PROVE RowsMove
  BY <1>4, <1>a DEF List
<1>5. ASSUME NEW a \in Activities, DeliverNothing(a) \/ DeliverSend(a) PROVE RowsMove
  BY <1>5, <1>a DEF DeliverNothing, DeliverSend
<1>6. ASSUME NEW a \in Activities, AnswerStale(a) PROVE RowsMove
  <2>1. PICK i \in DOMAIN chain[a] :
          \/ Write([Purged(chain[a][i].at) EXCEPT ![a] = None], accepted)
          \/ Write(Purged(chain[a][i].at), accepted)
    BY <1>6 DEF AnswerStale
  <2>2. QED
    BY <2>1, <1>a, <1>b
<1>7. ASSUME NEW a \in Activities, AnswerOk(a) PROVE RowsMove
  BY <1>7, OkRows
<1>8. ASSUME UNCHANGED <<rows, accepted>> PROVE RowsMove
  BY <1>8, RowsStay
<1>9. QED
  BY <1>1, <1>2, <1>3, <1>4, <1>5, <1>6, <1>7, <1>8
     DEF Next, Enqueue, APNs, Failed, Restart, Tick, vars

-----------------------------------------------------------------------------
(* What the phone counts on *)

\* While either is alive at t, the row r and the enrolment w the phone made
\* last are one enrolment.
Agree(r, w, t) ==
    /\ w # None /\ w.expiresAt > t =>
           r # None /\ r.token = w.token /\ r.expiresAt = w.expiresAt
    /\ r # None /\ r.expiresAt > t => w # None /\ w.expiresAt > t

\* Typed enrolments that agree with the rows.
WantedOK ==
    /\ rows \in Registry
    /\ wanted \in [Activities -> Enrolment \cup {None}]
    /\ \A a \in Activities : Agree(rows[a], wanted[a], now)

\* Sends on their way were made in the past.
SentBefore ==
    \A a \in Activities : \A i \in DOMAIN chain[a] :
        chain[a][i].stage # "waiting" => chain[a][i].at \in 1..now

\* Purging at an instant not after now what nobody can use any more changes
\* nothing of what row and phone agree on.
LEMMA PurgedAgree ==
    ASSUME WantedOK, now \in Nat, NEW t \in 0..now, NEW a \in Activities
    PROVE  Agree(Purged(t)[a], StillWanted(now)[a], now)
<1> DEFINE r == rows[a]
           w == wanted[a]
           r2 == Purged(t)[a]
           w2 == StillWanted(now)[a]
<1>1. r2 = (IF Expired(r, t) THEN None ELSE r) /\ w2 = (IF Expired(w, now) THEN None ELSE w)
  BY DEF Purged, StillWanted
<1>2. /\ Agree(r, w, now)
      /\ r # None => r.expiresAt \in Nat
      /\ w # None => w.expiresAt \in Nat
  <2>1. (r = None \/ r \in Row) /\ (w = None \/ w \in Enrolment)
    BY DEF WantedOK, Registry
  <2>2. QED
    BY <2>1 DEF WantedOK, Row, Enrolment
<1>3. t \in Nat /\ t <= now
  OBVIOUS
<1> HIDE DEF r, w, r2, w2
<1>4. r2 # None => r2 = r
  BY <1>1
<1>5. w2 # None => w2 = w
  BY <1>1
<1>6. r # None /\ r.expiresAt > now => r2 = r
  BY <1>1, <1>2, <1>3 DEF Expired
<1>7. w # None /\ w.expiresAt > now => w2 = w
  BY <1>1, <1>2 DEF Expired
<1>8. QED
  BY <1>2, <1>4, <1>5, <1>6, <1>7 DEF Agree, r2, w2

\* The tables after such a purge.
LEMMA PurgedTypes ==
    ASSUME WantedOK, NEW t
    PROVE  /\ Purged(t) \in Registry
           /\ StillWanted(t) \in [Activities -> Enrolment \cup {None}]
  BY DEF WantedOK, Registry, Purged, StillWanted

\* Instants a request may have read.
LEMMA RequestInstants ==
    ASSUME now \in Nat, NEW t \in RequestTimes \cup {0}
    PROVE  t \in 0..now
  BY DEF RequestTimes

WantedMoves ==
    /\ wanted' \in [Activities -> Enrolment \cup {None}]
    /\ \A a \in Activities : Agree(rows'[a], wanted'[a], now')

\* A registration makes row and enrolment the same.
LEMMA RegisterAgrees ==
    ASSUME WantedOK, now \in Nat, NEW a \in Activities, NEW token \in Tokens, Register(a, token)
    PROVE  WantedMoves
<1> DEFINE Reg(t, e) == [Purged(t) EXCEPT ![a] = RowOf(Purged(t)[a], token, e)]
           Effect(t, e) == /\ rows' = Reg(t, e)
                           /\ wanted' = [StillWanted(now) EXCEPT ![a] =
                                            [token |-> token, expiresAt |-> e]]
                           /\ now' = now
<1>1. PICK t \in RequestTimes : \E e \in (t + 1)..(t + Ttl) : Effect(t, e)
  BY DEF Register, Write
<1>2. PICK e \in (t + 1)..(t + Ttl) : Effect(t, e)
  BY <1>1
<1>3. t \in 0..now /\ e \in Nat
  BY RequestInstants, Limits
<1>4. /\ Purged(t) \in Registry
      /\ StillWanted(now) \in [Activities -> Enrolment \cup {None}]
  BY PurgedTypes
<1>5. [token |-> token, expiresAt |-> e] \in Enrolment
  BY <1>3 DEF Enrolment
<1>6. /\ rows'[a] = RowOf(Purged(t)[a], token, e)
      /\ \A b \in Activities \ {a} : rows'[b] = Purged(t)[b]
  BY <1>2, <1>4 DEF Registry
<1>7. /\ wanted' \in [Activities -> Enrolment \cup {None}]
      /\ wanted'[a] = [token |-> token, expiresAt |-> e]
      /\ \A b \in Activities \ {a} : wanted'[b] = StillWanted(now)[b]
  BY <1>2, <1>4, <1>5
<1>8. rows'[a].token = token /\ rows'[a].expiresAt = e /\ rows'[a] # None
  <2>1. rows'[a].token = token /\ rows'[a].expiresAt = e
    BY <1>6 DEF RowOf
  <2>2. Purged(t)[a] = None \/ Purged(t)[a] \in Row
    BY <1>4 DEF Registry
  <2>3. RowOf(Purged(t)[a], token, e) \in Row
    BY <1>3, <2>2 DEF RowOf, Row
  <2>4. QED
    BY <1>6, <2>1, <2>3, NoneAssumption
<1>9. Agree(rows'[a], wanted'[a], now)
  BY <1>3, <1>5, <1>7, <1>8, NoneAssumption DEF Agree
<1>10. \A b \in Activities \ {a} : Agree(rows'[b], wanted'[b], now)
  BY <1>3, <1>6, <1>7, PurgedAgree
<1>11. now' = now
  BY <1>2
<1>12. QED
  BY <1>7, <1>9, <1>10, <1>11 DEF WantedMoves

\* A removal, or an end, leaves neither.
LEMMA NoneAgrees ==
    ASSUME WantedOK, now \in Nat, NEW t \in 0..now, NEW a \in Activities, now' = now,
           rows' = [Purged(t) EXCEPT ![a] = None],
           wanted' = [StillWanted(now) EXCEPT ![a] = None]
    PROVE  WantedMoves
<1>1. /\ Purged(t) \in [Activities -> Row \cup {None}]
      /\ StillWanted(now) \in [Activities -> Enrolment \cup {None}]
  BY PurgedTypes DEF Registry
<1>2. /\ wanted' \in [Activities -> Enrolment \cup {None}]
      /\ rows'[a] = None /\ wanted'[a] = None
      /\ \A b \in Activities \ {a} : rows'[b] = Purged(t)[b] /\ wanted'[b] = StillWanted(now)[b]
  BY <1>1
<1>3. \A b \in Activities : Agree(rows'[b], wanted'[b], now)
  BY <1>2, PurgedAgree DEF Agree
<1>4. QED
  BY <1>2, <1>3 DEF WantedMoves

\* A purge alone.
LEMMA PurgeAgrees ==
    ASSUME WantedOK, now \in Nat, NEW t \in 0..now, now' = now,
           rows' = Purged(t), wanted' = StillWanted(now)
    PROVE  WantedMoves
  BY PurgedTypes, PurgedAgree DEF WantedMoves

\* A stale answer closes the activity for both or for neither.
LEMMA StaleAgrees ==
    ASSUME WantedOK, now \in Nat, SentBefore, NEW a \in Activities, AnswerStale(a)
    PROVE  WantedMoves
<1>1. PICK i \in DOMAIN chain[a] :
        LET u == chain[a][i]
            live == Purged(u.at)
        IN  /\ u.stage = "stale"
            /\ rows' = IF Closed(live[a], u.token) THEN [live EXCEPT ![a] = None] ELSE live
            /\ wanted' = [StillWanted(now) EXCEPT ![a] =
                             IF @ # None /\ @.token = u.token THEN None ELSE @]
            /\ now' = now
  BY DEF AnswerStale, Write
<1> DEFINE u == chain[a][i]
           live == Purged(u.at)
           asked == StillWanted(now)
<1>2. u.at \in 0..now
  BY <1>1 DEF SentBefore
<1>3. /\ live \in [Activities -> Row \cup {None}]
      /\ asked \in [Activities -> Enrolment \cup {None}]
      /\ \A b \in Activities : Agree(live[b], asked[b], now)
  BY <1>2, PurgedTypes, PurgedAgree DEF Registry
<1>4. /\ rows' = IF Closed(live[a], u.token) THEN [live EXCEPT ![a] = None] ELSE live
      /\ wanted' = [asked EXCEPT ![a] =
                       IF asked[a] # None /\ asked[a].token = u.token THEN None ELSE asked[a]]
      /\ now' = now
  BY <1>1, <1>3
<1> HIDE DEF live, asked, u
<1>5. /\ wanted' \in [Activities -> Enrolment \cup {None}]
      /\ \A b \in Activities \ {a} : rows'[b] = live[b] /\ wanted'[b] = asked[b]
      /\ rows'[a] = IF Closed(live[a], u.token) THEN None ELSE live[a]
      /\ wanted'[a] = IF asked[a] # None /\ asked[a].token = u.token THEN None ELSE asked[a]
  BY <1>3, <1>4
<1>6. Agree(rows'[a], wanted'[a], now)
  BY <1>3, <1>5 DEF Agree, Closed
<1>7. QED
  BY <1>3, <1>4, <1>5, <1>6 DEF WantedMoves

\* An accepted send leaves token and expiry of the row alone, and an accepted
\* end closes the activity for both.
LEMMA OkAgrees ==
    ASSUME WantedOK, now \in Nat, SentBefore, chain \in [Activities -> Seq(Update)],
           NEW a \in Activities, AnswerOk(a)
    PROVE  WantedMoves
<1>1. PICK i \in DOMAIN chain[a] :
        LET u == chain[a][i]
        IN  /\ u.stage = "ok"
            /\ rows' = [Purged(u.at) EXCEPT ![a] = AfterOk(@, u)]
            /\ wanted' = [StillWanted(now) EXCEPT ![a] = IF u.event = "end" THEN None ELSE @]
            /\ now' = now
  BY DEF AnswerOk, Write
<1> DEFINE u == chain[a][i]
           live == Purged(u.at)
           asked == StillWanted(now)
<1>2. u.at \in 0..now
  BY <1>1 DEF SentBefore
<1>3. /\ live \in [Activities -> Row \cup {None}]
      /\ asked \in [Activities -> Enrolment \cup {None}]
      /\ \A b \in Activities : Agree(live[b], asked[b], now)
  BY <1>2, PurgedTypes, PurgedAgree DEF Registry
<1>4. /\ rows' = [live EXCEPT ![a] = AfterOk(live[a], u)]
      /\ wanted' = [asked EXCEPT ![a] = IF u.event = "end" THEN None ELSE asked[a]]
      /\ now' = now
  BY <1>1, <1>3
<1> HIDE DEF live, asked, u
<1>5. /\ wanted' \in [Activities -> Enrolment \cup {None}]
      /\ \A b \in Activities \ {a} : rows'[b] = live[b] /\ wanted'[b] = asked[b]
      /\ rows'[a] = AfterOk(live[a], u)
      /\ wanted'[a] = IF u.event = "end" THEN None ELSE asked[a]
  BY <1>3, <1>4
<1>6. CASE u.event = "end" \/ live[a] = None
  <2>1. rows'[a] = None
    BY <1>5, <1>6 DEF AfterOk
  <2>2. wanted'[a] = None \/ (wanted'[a] = asked[a] /\ live[a] = None)
    BY <1>5, <1>6
  <2>3. Agree(rows'[a], wanted'[a], now)
    BY <1>3, <2>1, <2>2 DEF Agree
  <2>4. QED
    BY <1>3, <1>4, <1>5, <2>3 DEF WantedMoves
<1>7. CASE u.event # "end" /\ live[a] # None
  <2>1. rows'[a] = [live[a] EXCEPT !.lastDeliveryId = u.id, !.lastDeliveredAt = u.at]
    BY <1>5, <1>7 DEF AfterOk
  <2>2. live[a] \in Row
    BY <1>3, <1>7
  <2>3. rows'[a].token = live[a].token /\ rows'[a].expiresAt = live[a].expiresAt
    BY <2>1, <2>2 DEF Row
  <2>4. wanted'[a] = asked[a]
    BY <1>5, <1>7
  <2>5. rows'[a] # None
    <3>1. u \in Update
      BY DEF u
    <3>2. rows'[a] \in Row
      BY <2>1, <2>2, <3>1 DEF Row, Update
    <3>3. QED
      BY <3>2, NoneAssumption
  <2>6. Agree(rows'[a], wanted'[a], now)
    BY <1>3, <1>7, <2>3, <2>4, <2>5 DEF Agree
  <2>7. QED
    BY <1>3, <1>4, <1>5, <2>6 DEF WantedMoves
<1>8. QED
  BY <1>6, <1>7

\* A tick may end the enrolment, and ends it for both.
LEMMA TickAgrees ==
    ASSUME WantedOK, now \in Nat, Tick
    PROVE  WantedMoves
<1>1. now' = now + 1 /\ UNCHANGED <<rows, wanted>>
  BY DEF Tick
<1>2. ASSUME NEW a \in Activities PROVE Agree(rows[a], wanted[a], now + 1)
  <2> DEFINE r == rows[a]
             w == wanted[a]
  <2>1. (r = None \/ r \in Row) /\ (w = None \/ w \in Enrolment) /\ Agree(r, w, now)
    BY <1>2 DEF WantedOK, Registry
  <2>2. (r # None => r.expiresAt \in Nat) /\ (w # None => w.expiresAt \in Nat)
    BY <2>1 DEF Row, Enrolment
  <2> HIDE DEF r, w
  <2>3. (r # None /\ r.expiresAt > now + 1 => r.expiresAt > now)
        /\ (w # None /\ w.expiresAt > now + 1 => w.expiresAt > now)
    BY <2>2
  <2>4. Agree(r, w, now + 1)
    BY <2>1, <2>3 DEF Agree
  <2>5. QED
    BY <2>4 DEF r, w
<1>3. QED
  BY <1>1, <1>2 DEF WantedOK, WantedMoves

\* Every step keeps the rows and what the phone counts on in agreement.
LEMMA WantedStep ==
    ASSUME WantedOK, now \in Nat, SentBefore, chain \in [Activities -> Seq(Update)], [Next]_vars
    PROVE  WantedMoves
<1>0. now \in 0..now
  OBVIOUS
<1>1. ASSUME NEW a \in Activities, NEW token \in Tokens, Register(a, token) PROVE WantedMoves
  BY <1>1, RegisterAgrees
<1>2. ASSUME NEW a \in Activities, RegisterRefused(a) PROVE WantedMoves
  <2>1. PICK t \in RequestTimes : rows' = Purged(t) /\ wanted' = StillWanted(now) /\ now' = now
    BY <1>2 DEF RegisterRefused, Write
  <2>2. t \in 0..now
    BY RequestInstants
  <2>3. QED
    BY <2>1, <2>2, PurgeAgrees
<1>3. ASSUME NEW a \in Activities, Unregister(a) PROVE WantedMoves
  <2>1. PICK t \in RequestTimes \cup {0} :
          /\ rows' = [Purged(t) EXCEPT ![a] = None]
          /\ wanted' = [StillWanted(now) EXCEPT ![a] = None]
          /\ now' = now
    BY <1>3 DEF Unregister, Write
  <2>2. t \in 0..now
    BY RequestInstants
  <2>3. QED
    BY <2>1, <2>2, NoneAgrees
<1>4. ASSUME rows' = Purged(now), wanted' = StillWanted(now), now' = now PROVE WantedMoves
  BY <1>0, <1>4, PurgeAgrees
<1>5. ASSUME NEW a \in Activities, AnswerStale(a) PROVE WantedMoves
  BY <1>5, StaleAgrees
<1>6. ASSUME NEW a \in Activities, AnswerOk(a) PROVE WantedMoves
  BY <1>6, OkAgrees
<1>7. ASSUME Tick PROVE WantedMoves
  BY <1>7, TickAgrees
<1>8. ASSUME UNCHANGED <<rows, wanted, now>> PROVE WantedMoves
  BY <1>8 DEF WantedOK, WantedMoves
<1>9. ASSUME NEW a \in Activities, DeliverNothing(a) \/ DeliverSend(a) PROVE WantedMoves
  BY <1>4, <1>9 DEF DeliverNothing, DeliverSend, Write
<1>10. ASSUME List PROVE WantedMoves
  BY <1>4, <1>10 DEF List, Write
<1>11. QED
  BY <1>1, <1>2, <1>3, <1>5, <1>6, <1>7, <1>8, <1>9, <1>10
     DEF Next, Enqueue, APNs, Failed, Restart, vars

-----------------------------------------------------------------------------
(* The inductive invariant *)

\* Row r carries the receipt of the last send of s; the sends are spaced and
\* no two in a row are the same delivery.
Receipts(r, s) ==
    /\ r = None => s = <<>>
    /\ r # None /\ s = <<>> => r.lastDeliveryId = None /\ r.lastDeliveredAt = 0
    /\ r # None /\ s # <<>> => /\ r.lastDeliveryId = s[Len(s)].id
                               /\ r.lastDeliveredAt = s[Len(s)].at
    /\ \A i \in 1..Len(s) : s[i].at >= 1
    /\ \A i, j \in 1..Len(s) : i < j => s[i].at + Gap <= s[j].at
    /\ \A i \in 1..(Len(s) - 1) : s[i].id # s[i + 1].id

\* An update on its way was sent by now, and the receipt that row r holds
\* still admits it.
InFlight(r, u, t) ==
    /\ u.at \in 1..t
    /\ r # None =>
          /\ r.lastDeliveryId # u.id
          /\ \/ u.event = "end"
             \/ r.lastDeliveredAt = 0
             \/ r.lastDeliveredAt + Gap <= u.at

FlightOK(r, c, t) ==
    \A i \in 1..Len(c) : c[i].stage # "waiting" => InFlight(r, c[i], t)

ActivityInv ==
    /\ TypeInv
    /\ \A a \in Activities :
          /\ Receipts(rows[a], accepted[a])
          /\ FlightOK(rows[a], chain[a], now)
          /\ Agree(rows[a], wanted[a], now)

\* The clock and the count of updates.
LEMMA CountersStep ==
    ASSUME TypeOK, [Next]_vars
    PROVE  now' \in 1..(MaxTime + 1) /\ arrived' \in 0..MaxUpdates /\ now' \in {now, now + 1}
<1>1. now \in 1..(MaxTime + 1) /\ arrived \in 0..MaxUpdates
  BY DEF TypeOK
<1>2. CASE Tick
  BY <1>1, <1>2, Limits DEF Tick
<1>3. CASE \E a \in Activities, id \in Deliveries, event \in Event : Enqueue(a, id, event)
  BY <1>1, <1>3, Limits DEF Enqueue
<1>4. CASE UNCHANGED <<now, arrived>>
  BY <1>1, <1>4
<1>5. QED
  BY <1>2, <1>3, <1>4
     DEF Next, Register, RegisterRefused, Unregister, List, DeliverNothing, DeliverSend,
         APNs, Failed, AnswerStale, AnswerOk, Restart, vars

\* The parts of the invariant that the lemmas on rows, chains and enrolments
\* start from.
LEMMA InvParts ==
    ASSUME ActivityInv
    PROVE  /\ now \in Nat /\ ChainsOK /\ chain \in [Activities -> Seq(Update)]
           /\ RowsOK /\ WantedOK /\ SentBefore
           /\ \A a \in Activities : Purged(now)[a] # None => Purged(now)[a].token \in Tokens
<1>1. TypeOK /\ RegistryOK(rows)
  BY DEF ActivityInv, TypeInv
<1>2. now \in Nat /\ ChainsOK /\ chain \in [Activities -> Seq(Update)]
  BY <1>1, TypedChains DEF TypeOK
<1>3. RowsOK
  BY <1>1 DEF RowsOK, TypeOK, ActivityInv, Receipts
<1>4. WantedOK
  BY <1>1 DEF WantedOK, TypeOK, ActivityInv, RegistryOK
<1>5. SentBefore
  BY <1>2 DEF SentBefore, ActivityInv, FlightOK, InFlight
<1>6. \A a \in Activities : Purged(now)[a] \in Row \cup {None}
  BY <1>1, PurgedFacts DEF Registry
<1>7. QED
  BY <1>2, <1>3, <1>4, <1>5, <1>6 DEF Row

\* Types are preserved.
LEMMA TypeStep == ASSUME ActivityInv, [Next]_vars PROVE TypeInv'
<1>1. TypeOK
  BY DEF ActivityInv, TypeInv
<1>2. RowsMove
  BY InvParts, RowsStep
<1>3. chain' \in [Activities -> Seq(Update)] /\ \A b \in Activities : ChainMoves(b)
  BY InvParts, ChainStep
<1>4. WantedMoves
  BY InvParts, WantedStep
<1>5. now' \in 1..(MaxTime + 1) /\ arrived' \in 0..MaxUpdates
  BY <1>1, CountersStep
<1>6. /\ rows' \in [Activities -> Row \cup {None}]
      /\ Cardinality({a \in Activities : rows'[a] # None}) <= Limit
      /\ RegistryOK(rows')
  BY <1>2 DEF RowsMove, RegistryOK, Registry, Enrolled
<1>7. \A a \in Activities : \A i \in 2..Len(chain'[a]) : chain'[a][i].stage = "waiting"
  BY <1>3 DEF ChainMoves, ChainOK
<1>8. QED
  BY <1>2, <1>3, <1>4, <1>5, <1>6, <1>7 DEF TypeInv, TypeOK, RowsMove, WantedMoves

\* Without a recorded send, receipts stay or go.
LEMMA UnsentReceipts ==
    ASSUME NEW r, NEW s, NEW r2, NEW s2, Receipts(r, s), Unsent(r, s, r2, s2)
    PROVE  Receipts(r2, s2)
<1>1. CASE s2 = <<>> /\ (r2 # None => r2.lastDeliveryId = None /\ r2.lastDeliveredAt = 0)
  BY <1>1 DEF Receipts
<1>2. CASE /\ r # None /\ r2 # None /\ s2 = s
           /\ r2.lastDeliveryId = r.lastDeliveryId /\ r2.lastDeliveredAt = r.lastDeliveredAt
  BY <1>2 DEF Receipts
<1>3. QED
  BY <1>1, <1>2 DEF Unsent

\* A recorded send extends them.
LEMMA RecordedReceipts ==
    ASSUME NEW r, NEW s \in Seq(Send), Receipts(r, s), r # None, NEW u \in Update, NEW t,
           u.event = "update", InFlight(r, u, t), t \in Nat,
           NEW r2, r2 # None, r2.lastDeliveryId = u.id, r2.lastDeliveredAt = u.at
    PROVE  Receipts(r2, Append(s, [id |-> u.id, event |-> u.event, at |-> u.at]))
<1> DEFINE e == [id |-> u.id, event |-> u.event, at |-> u.at]
           n == Len(s)
           z == Append(s, e)
<1>1. n \in Nat /\ \A i \in 1..n : s[i] \in Send
  OBVIOUS
<1>2. e \in Send /\ e.id = u.id /\ e.event = "update" /\ e.at = u.at
  BY DEF Update, Send
<1> HIDE DEF e
<1>3. Len(z) = n + 1 /\ z # <<>> /\ z[n + 1] = e /\ \A i \in 1..n : z[i] = s[i]
  BY <1>2, AppendProperties
<1>4. s # <<>> => n >= 1 /\ n \in 1..n
  BY <1>1
<1>a. s = <<>> => n = 0
  OBVIOUS
<1> HIDE DEF z, n
<1>5. e.at \in Nat /\ e.at >= 1
  BY <1>2 DEF InFlight
<1>6. \A i \in 1..(n + 1) : i \in 1..n \/ i = n + 1
  BY <1>1
<1>7. \A i \in 1..(n + 1) : z[i].at >= 1
  BY <1>3, <1>5, <1>6 DEF Receipts, n
<1>8. ASSUME NEW i \in 1..n PROVE s[i].at + Gap <= e.at
  <2>1. s # <<>>
    BY <1>8, <1>1, <1>a
  <2>2. n \in 1..n /\ r.lastDeliveredAt = s[n].at /\ s[n].at >= 1
    BY <1>4, <2>1 DEF Receipts, n
  <2>3. s[n].at \in Nat /\ s[i].at \in Nat
    BY <1>1, <1>8, <2>2 DEF Send
  <2>4. s[n].at + Gap <= e.at
    BY <1>2, <2>2, <2>3 DEF InFlight
  <2>5. i = n \/ i < n
    BY <1>1
  <2>6. i < n => s[i].at + Gap <= s[n].at
    BY <2>2 DEF Receipts, n
  <2>7. QED
    BY <2>3, <2>4, <2>5, <2>6, <1>5, Limits
<1>9. ASSUME NEW i \in 1..(n + 1), NEW j \in 1..(n + 1), i < j
      PROVE  z[i].at + Gap <= z[j].at
  <2>1. i \in 1..n
    BY <1>1, <1>9
  <2>2. CASE j = n + 1
    BY <1>3, <1>8, <2>1, <2>2
  <2>3. CASE j \in 1..n
    BY <1>3, <1>9, <2>1, <2>3 DEF Receipts, n
  <2>4. QED
    BY <1>6, <2>2, <2>3
<1>10. ASSUME NEW i \in 1..n PROVE z[i].id # z[i + 1].id
  <2>1. CASE i = n
    <3>1. s # <<>>
      BY <1>1, <1>10, <1>a
    <3>2. s[n].id # e.id
      BY <1>2, <3>1 DEF Receipts, InFlight, n
    <3>3. QED
      BY <1>3, <2>1, <3>2
  <2>2. CASE i # n
    <3>1. i \in 1..(n - 1) /\ i + 1 \in 1..n
      BY <1>1, <2>2
    <3>2. s[i].id # s[i + 1].id
      BY <3>1 DEF Receipts, n
    <3>3. QED
      BY <1>3, <3>1, <3>2
  <2>3. QED
    BY <2>1, <2>2
<1>11. (n + 1) - 1 = n
  BY <1>1
<1>12. Receipts(r2, z)
  BY <1>2, <1>3, <1>7, <1>9, <1>10, <1>11 DEF Receipts
<1>13. QED
  BY <1>12 DEF z, e

\* What is on its way stays admitted while nothing is recorded.
LEMMA UnsentFlight ==
    ASSUME NEW r, NEW s, NEW r2, NEW s2, Unsent(r, s, r2, s2),
           NEW u \in Update, NEW t \in Nat, NEW t2 \in {t, t + 1}, InFlight(r, u, t)
    PROVE  InFlight(r2, u, t2)
<1>1. u.at \in 1..t2
  BY DEF InFlight
<1>2. u.id # None
  BY Limits DEF Update
<1>3. QED
  BY <1>1, <1>2 DEF InFlight, Unsent

\* A send that deliver() makes is admitted by the row it read.
LEMMA SentFlight ==
    ASSUME RegistryOK(rows), NEW a \in Activities, NEW u \in Update, NEW v, now \in Nat, now >= 1,
           MustSend(Purged(now)[a], u, now),
           v.id = u.id, v.event = u.event, v.at = now
    PROVE  InFlight(Purged(now)[a], v, now)
<1> DEFINE r == Purged(now)[a]
<1>1. r \in Row
  BY PurgedFacts DEF MustSend, Registry
<1>2. r.lastDeliveredAt \in Nat
  BY <1>1 DEF Row
<1> HIDE DEF r
<1>3. r.lastDeliveryId # u.id /\ (u.event = "end" \/ r.lastDeliveredAt = 0
                                  \/ now - r.lastDeliveredAt >= Gap)
  BY <1>2, Limits DEF MustSend, TooSoon, r
<1>4. u.event = "end" \/ r.lastDeliveredAt = 0 \/ r.lastDeliveredAt + Gap <= now
  BY <1>2, <1>3, Limits
<1>5. InFlight(r, v, now)
  BY <1>3, <1>4 DEF InFlight
<1>6. QED
  BY <1>5 DEF r

\* What is on its way after a step is admitted by the row of then.
LEMMA FlightStep ==
    ASSUME ActivityInv, [Next]_vars, NEW a \in Activities
    PROVE  FlightOK(rows'[a], chain'[a], now')
<1>1. /\ TypeOK /\ RegistryOK(rows) /\ now \in Nat /\ now >= 1 /\ now' \in {now, now + 1}
      /\ FlightOK(rows[a], chain[a], now)
      /\ chain[a] \in Seq(Update)
  <2>1. TypeOK /\ RegistryOK(rows) /\ FlightOK(rows[a], chain[a], now)
    BY DEF ActivityInv, TypeInv
  <2>2. now' \in {now, now + 1}
    BY <2>1, CountersStep
  <2>3. QED
    BY <2>1, <2>2, Limits DEF TypeOK
<1>2. RowMoves(a)
  BY InvParts, RowsStep DEF RowsMove
<1>3. ChainMoves(a)
  BY InvParts, ChainStep
<1> DEFINE c == chain[a]
           d == chain'[a]
<1>4. CASE NewFlight(a, d)
  <2>1. ASSUME NEW i \in 1..Len(d), d[i].stage # "waiting" PROVE InFlight(rows'[a], d[i], now')
    <3>1. ChainOK(d) /\ i \in DOMAIN d
      BY <1>3, <2>1 DEF ChainMoves, ChainOK
    <3>2. i = 1
      BY <2>1, <3>1, OnlyFirst
    <3>3. c[1] \in Update
      BY <1>1, <1>4 DEF NewFlight
    <3>4. /\ MustSend(Purged(now)[a], c[1], now)
          /\ d[1].id = c[1].id /\ d[1].event = c[1].event /\ d[1].at = now
          /\ rows'[a] = Purged(now)[a] /\ now' = now
      BY <1>4 DEF NewFlight
    <3> HIDE DEF c, d
    <3>5. InFlight(Purged(now)[a], d[1], now)
      BY <1>1, <3>3, <3>4, SentFlight
    <3>6. QED
      BY <3>2, <3>4, <3>5
  <2>2. QED
    BY <2>1 DEF FlightOK
<1>5. CASE AllWaiting(d)
  BY <1>5 DEF FlightOK, AllWaiting
<1>6. CASE SameFlight(c, d) /\ Unsent(rows[a], accepted[a], rows'[a], accepted'[a])
  <2>1. ASSUME NEW i \in 1..Len(d), d[i].stage # "waiting" PROVE InFlight(rows'[a], d[i], now')
    <3>1. /\ i \in 1..Len(c) /\ c[i].stage # "waiting"
          /\ d[i].id = c[i].id /\ d[i].event = c[i].event /\ d[i].at = c[i].at
      BY <1>6, <2>1 DEF SameFlight
    <3>2. InFlight(rows[a], c[i], now) /\ c[i] \in Update
      BY <1>1, <3>1 DEF FlightOK
    <3> HIDE DEF c, d
    <3>3. InFlight(rows'[a], c[i], now')
      BY <1>1, <1>6, <3>2, UnsentFlight
    <3>4. QED
      BY <3>1, <3>3 DEF InFlight
  <2>2. QED
    BY <2>1 DEF FlightOK
<1>7. QED
  BY <1>2, <1>3, <1>4, <1>5, <1>6 DEF ChainMoves, RowMoves

\* Receipts after a step.
LEMMA ReceiptsStep ==
    ASSUME ActivityInv, [Next]_vars, NEW a \in Activities
    PROVE  Receipts(rows'[a], accepted'[a])
<1>1. RowMoves(a)
  BY InvParts, RowsStep DEF RowsMove
<1>2. Receipts(rows[a], accepted[a]) /\ accepted[a] \in Seq(Send)
  BY DEF ActivityInv, TypeInv, TypeOK
<1>3. CASE Unsent(rows[a], accepted[a], rows'[a], accepted'[a])
  BY <1>2, <1>3, UnsentReceipts
<1>4. CASE Recorded(a)
  <2> DEFINE u == chain[a][1]
  <2>1. /\ chain[a] # <<>> /\ u.stage = "ok" /\ u.event = "update"
        /\ rows[a] # None /\ rows'[a] # None
        /\ rows'[a].lastDeliveryId = u.id /\ rows'[a].lastDeliveredAt = u.at
        /\ accepted'[a] = Append(accepted[a], [id |-> u.id, event |-> u.event, at |-> u.at])
    BY <1>4 DEF Recorded
  <2>2. u \in Update /\ InFlight(rows[a], u, now) /\ now \in Nat
    <3>1. chain[a] \in Seq(Update) /\ now \in Nat /\ FlightOK(rows[a], chain[a], now)
      BY InvParts DEF ActivityInv
    <3>2. 1 \in 1..Len(chain[a])
      BY <2>1, <3>1
    <3>3. QED
      BY <2>1, <3>1, <3>2 DEF FlightOK
  <2> HIDE DEF u
  <2>3. QED
    BY <1>2, <2>1, <2>2, RecordedReceipts
<1>5. QED
  BY <1>1, <1>3, <1>4 DEF RowMoves

\* The invariant holds at first.
LEMMA InvInit == ASSUME Init PROVE ActivityInv
<1>1. Enrolled(rows) = {} /\ {a \in Activities : rows[a] # None} = {}
  BY DEF Init, Enrolled
<1>2. IsFiniteSet({}) /\ Cardinality({}) = 0
  BY FS_EmptySet
<1>a. now \in 1..(MaxTime + 1) /\ arrived \in 0..MaxUpdates
  BY Limits DEF Init
<1>b. /\ rows \in [Activities -> Row \cup {None}]
      /\ wanted \in [Activities -> Enrolment \cup {None}]
      /\ chain \in [Activities -> Seq(Update)] /\ accepted \in [Activities -> Seq(Send)]
      /\ \A a \in Activities : Len(chain[a]) = 0
  BY DEF Init
<1>3. TypeOK
  <2>1. \A a \in Activities : \A i \in 2..Len(chain[a]) : chain[a][i].stage = "waiting"
    BY <1>b
  <2>2. Cardinality({a \in Activities : rows[a] # None}) <= Limit
    BY <1>1, <1>2, Limits
  <2>3. QED
    BY <1>a, <1>b, <2>1, <2>2 DEF TypeOK
<1>4. RegistryOK(rows)
  BY <1>1, <1>2, <1>3, Limits DEF TypeOK, RegistryOK, Registry
<1>5. \A a \in Activities : /\ Receipts(rows[a], accepted[a])
                            /\ FlightOK(rows[a], chain[a], now)
                            /\ Agree(rows[a], wanted[a], now)
  BY DEF Init, Receipts, FlightOK, Agree
<1>6. QED
  BY <1>3, <1>4, <1>5 DEF ActivityInv, TypeInv

\* And is inductive.
LEMMA InvStep == ASSUME ActivityInv, [Next]_vars PROVE ActivityInv'
<1>1. TypeInv'
  BY TypeStep
<1>2. ASSUME NEW a \in Activities PROVE Receipts(rows'[a], accepted'[a])
  BY <1>2, ReceiptsStep
<1>3. ASSUME NEW a \in Activities PROVE FlightOK(rows'[a], chain'[a], now')
  BY <1>3, FlightStep
<1>4. ASSUME NEW a \in Activities PROVE Agree(rows'[a], wanted'[a], now')
  BY <1>4, InvParts, WantedStep DEF WantedMoves
<1>5. QED
  BY <1>1, <1>2, <1>3, <1>4 DEF ActivityInv, Receipts, FlightOK, InFlight, Agree

\* What the invariant implies of the row that is alive.
LEMMA AgreementIsLive == ASSUME ActivityInv PROVE RegistryAgrees
<1>1. ASSUME NEW a \in Activities
      PROVE  IF StillWanted(now)[a] = None THEN Purged(now)[a] = None
             ELSE Purged(now)[a] # None /\ Purged(now)[a].token = StillWanted(now)[a].token
  <2> DEFINE r == Purged(now)[a]
             w == StillWanted(now)[a]
  <2>1. WantedOK /\ now \in Nat /\ now \in 0..now
    BY InvParts
  <2>2. Agree(r, w, now)
    BY <1>1, <2>1, PurgedAgree
  <2>3. r # None => r \in Row /\ r.expiresAt > now
    <3>1. rows[a] = None \/ rows[a] \in Row
      BY <1>1, <2>1 DEF WantedOK, Registry
    <3>2. rows[a] \in Row => rows[a].expiresAt \in Nat
      BY DEF Row
    <3>3. r = IF Expired(rows[a], now) THEN None ELSE rows[a]
      BY <1>1 DEF Purged
    <3> HIDE DEF r
    <3>4. QED
      BY <2>1, <3>1, <3>2, <3>3 DEF Expired
  <2>4. w # None => w.expiresAt > now
    <3>1. wanted[a] = None \/ wanted[a] \in Enrolment
      BY <1>1, <2>1 DEF WantedOK
    <3>2. wanted[a] \in Enrolment => wanted[a].expiresAt \in Nat
      BY DEF Enrolment
    <3>3. w = IF Expired(wanted[a], now) THEN None ELSE wanted[a]
      BY <1>1 DEF StillWanted
    <3> HIDE DEF w
    <3>4. QED
      BY <2>1, <3>1, <3>2, <3>3 DEF Expired
  <2> HIDE DEF r, w
  <2>5. IF w = None THEN r = None ELSE r # None /\ r.token = w.token
    BY <2>2, <2>3, <2>4 DEF Agree
  <2>6. QED
    BY <2>5 DEF r, w
<1>2. QED
  BY <1>1 DEF RegistryAgrees

-----------------------------------------------------------------------------

\* ActivityInv holds throughout.
LEMMA InvAlways == Spec => []ActivityInv
  BY InvInit, InvStep, PTL DEF Spec

\* The registry keeps at most Limit enrolments and every chain at most one
\* update on its way, whatever the number of activities (registry register(),
\* endpoint.js enqueue()).
THEOREM TypeCorrect == Spec => []TypeOK
<1>1. ActivityInv => TypeOK
  BY DEF ActivityInv, TypeInv
<1>2. QED
  BY <1>1, InvAlways, PTL

\* The registry holds the enrolment the phone last made while that is alive,
\* and no other: an answer about a rotated token never undoes the rotation,
\* and an answer that comes after a removal never brings the row back
\* (endpoint.js deliver(), the registry's register and remove).
THEOREM PhoneAndRegistryAgree == Spec => []RegistryAgrees
  BY InvAlways, AgreementIsLive, PTL

\* Accepted updates of one enrolment are Gap apart, also when the token was
\* rotated or the row read anew between a send and its answer
\* (endpoint.js:63-66).
THEOREM AcceptedUpdatesAreSpaced == Spec => []UpdatesSpaced
<1>1. ASSUME ActivityInv PROVE UpdatesSpaced
  <2>1. \A a \in Activities : /\ DOMAIN accepted[a] = 1..Len(accepted[a])
                              /\ Receipts(rows[a], accepted[a])
    BY <1>1 DEF ActivityInv, TypeInv, TypeOK
  <2>2. QED
    BY <2>1 DEF UpdatesSpaced, Receipts
<1>2. QED
  BY <1>1, InvAlways, PTL

\* No accepted update of an enrolment repeats the one accepted before it: a
\* retry is answered from the receipt (endpoint.js:61).
THEOREM RetriesAreNotResent == Spec => []RetryNotResent
<1>1. ASSUME ActivityInv PROVE RetryNotResent
  BY <1>1 DEF ActivityInv, Receipts, RetryNotResent
<1>2. QED
  BY <1>1, InvAlways, PTL
=============================================================================
