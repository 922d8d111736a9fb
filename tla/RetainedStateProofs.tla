------------------------ MODULE RetainedStateProofs -------------------------
(***************************************************************************)
(* Proofs about RetainedState, for any frames, slots and limits and any    *)
(* number of faults.                                                       *)
(***************************************************************************)
EXTENDS RetainedState, FiniteFacts, TLAPS

-----------------------------------------------------------------------------
(* Rows *)

\* The limits, one by one.
LEMMA Limits ==
    /\ RoomSlots \in Nat \ {0} /\ RoomBytes \in Nat \ {0} /\ FrameBytes \in Nat \ {0}
    /\ Ttl \in Nat \ {0} /\ PresenceLimit \in Nat \ {0}
    /\ MaxTime \in Nat /\ MaxFaults \in Nat
  BY StateAssumption

\* Stored rows: slot, size and expiry, one by one.
LEMMA RowFacts ==
    /\ Row \subseteq Received
    /\ \A r \in Received : /\ r # None /\ r.frame \in Frame /\ r.frame # None
                           /\ SlotOf(r) \in Slot /\ SizeOf(r) \in Nat \ {0}
                           /\ r.frame.revision \in Nat /\ r.expiresAt \in Nat
    /\ \A r \in Row : SizeOf(r) <= FrameBytes /\ Parts(r) \subseteq Chunk
<1>1. Row \subseteq Received
  BY DEF Row
<1>2. \A r \in Received : /\ r # None /\ r.frame \in Frame /\ r.frame # None
                          /\ SlotOf(r) \in Slot /\ SizeOf(r) \in Nat \ {0}
                          /\ r.frame.revision \in Nat /\ r.expiresAt \in Nat
  BY StateAssumption, NoneAssumption DEF Received, SlotOf, SizeOf
<1>3. \A r \in Row : SizeOf(r) <= FrameBytes
  BY DEF Row, SizeOf
<1>4. \A r \in Row : Parts(r) \subseteq Chunk
  BY <1>1, <1>2, <1>3, Limits DEF Parts, Chunk
<1>5. QED
  BY <1>1, <1>2, <1>3, <1>4

\* Bytes is the sum of the rows' sizes, in whatever order they are taken.
LEMMA BytesIsSum ==
    ASSUME NEW S \in SUBSET Row, IsFiniteSet(S)
    PROVE  \E g : IsSum(g, S, [r \in S |-> SizeOf(r)]) /\ Bytes(S) = g[S]
<1> DEFINE w == [r \in S |-> SizeOf(r)]
           c(s) == CHOOSE x \in s : TRUE
           Rec(h) == h = [s \in SUBSET S |->
                             IF s = {} THEN 0 ELSE SizeOf(c(s)) + h[s \ {c(s)}]]
           g == CHOOSE h : Rec(h)
<1>1. Bytes(S) = g[S]
  BY DEF Bytes, MapThenSumSet, MapThenFoldSet
<1>2. \A h : Iterates(h, S, w) <=> Rec(h)
  BY DEF Iterates
<1>3. w \in [S -> Nat]
  BY RowFacts
<1> HIDE DEF w, Rec
<1>4. \E h : h \in [SUBSET S -> Nat] /\ Rec(h)
  BY <1>2, <1>3, IterationExists
<1>5. Rec(g)
  BY <1>4, Zenon
<1>6. IsSum(g, S, w)
  BY <1>2, <1>3, <1>5, IterationIsSum
<1>7. QED
  BY <1>1, <1>6 DEF w

\* Fewer rows have no more bytes.
LEMMA FewerFit ==
    ASSUME NEW S \in SUBSET Row, IsFiniteSet(S), NEW T \in SUBSET S, Fits(S)
    PROVE  Fits(T)
<1> DEFINE w(U) == [r \in U |-> SizeOf(r)]
<1>1. IsFiniteSet(T) /\ Cardinality(T) <= Cardinality(S)
  BY FS_Subset
<1>2. PICK g : IsSum(g, S, w(S)) /\ Bytes(S) = g[S]
  BY BytesIsSum
<1>3. PICK h : IsSum(h, T, w(T)) /\ Bytes(T) = h[T]
  BY <1>1, BytesIsSum
<1>4. w(S) \in [S -> Nat] /\ \A x \in T : w(S)[x] = w(T)[x]
  BY RowFacts
<1>5. Bytes(T) \in Nat /\ Bytes(S) \in Nat
  BY <1>2, <1>3 DEF IsSum
<1> HIDE DEF w
<1>6. g[T] = h[T]
  BY <1>1, <1>2, <1>3, <1>4, SumAgrees
<1>7. g[T] <= g[S]
  BY <1>2, <1>4, SumMonotone
<1>8. Cardinality(T) \in Nat /\ Cardinality(S) \in Nat
  BY <1>1, FS_CardinalityType
<1>9. QED
  BY <1>1, <1>2, <1>3, <1>5, <1>6, <1>7, <1>8, Limits DEF Fits

\* A row gives way to another one of its size.
LEMMA ExchangeFits ==
    ASSUME NEW S \in SUBSET Row, IsFiniteSet(S), NEW r \in S, Fits(S),
           NEW x \in Row, SizeOf(x) = SizeOf(r)
    PROVE  Fits((S \ {r}) \cup {x})
<1> DEFINE K == S \ {r}
           T == K \cup {x}
           w(U) == [q \in U |-> SizeOf(q)]
<1>0. K \in SUBSET Row /\ T \in SUBSET Row /\ IsFiniteSet(K) /\ IsFiniteSet(T)
  BY FS_Subset, FS_AddElement
<1>1. CASE x \in K
  <2>1. T \in SUBSET S
    BY <1>1
  <2>2. QED
    BY <2>1, FewerFit
<1>2. CASE x \notin K
  <2>1. Cardinality(S) \in Nat /\ Cardinality(K) \in Nat /\ Cardinality(T) \in Nat
    BY <1>0, FS_CardinalityType
  <2>2. Cardinality(T) = Cardinality(K) + 1
    BY <1>0, <1>2, FS_AddElement
  <2>3. Cardinality(K) = Cardinality(S) - 1
    BY FS_RemoveElement
  <2>4. PICK g : IsSum(g, S, w(S)) /\ Bytes(S) = g[S]
    BY BytesIsSum
  <2>5. PICK h : IsSum(h, T, w(T)) /\ Bytes(T) = h[T]
    BY <1>0, BytesIsSum
  <2>6. w(S)[r] = SizeOf(r) /\ w(T)[x] = SizeOf(x) /\ \A q \in K : w(S)[q] = w(T)[q]
    OBVIOUS
  <2>7. K \in SUBSET S /\ K \in SUBSET T /\ S \ {r} = K /\ T \ {x} = K /\ x \in T
    BY <1>2
  <2> HIDE DEF K, w, T
  <2>8. g[S] = w(S)[r] + g[K]
    BY <2>4, <2>7 DEF IsSum
  <2>9. h[T] = w(T)[x] + h[K]
    BY <2>5, <2>7 DEF IsSum
  <2>10. g[K] = h[K]
    BY <1>0, <2>4, <2>5, <2>6, <2>7, SumAgrees
  <2>11. Bytes(T) = Bytes(S)
    BY <2>4, <2>5, <2>6, <2>8, <2>9, <2>10
  <2>12. Cardinality(T) = Cardinality(S)
    BY <2>1, <2>2, <2>3
  <2>13. Fits(T)
    BY <2>11, <2>12 DEF Fits
  <2>14. QED
    BY <2>13 DEF T, K
<1>3. QED
  BY <1>1, <1>2

-----------------------------------------------------------------------------
(* Evictions *)

\* No two of the rows have the same slot.
OneEach(rows) == \A r, x \in rows : SlotOf(r) = SlotOf(x) => r = x

\* The values of a function on a finite set are finitely many.
LEMMA FiniteRange ==
    ASSUME NEW S, IsFiniteSet(S), NEW f
    PROVE  IsFiniteSet({f[x] : x \in S})
<1> DEFINE T == {f[x] : x \in S}
           g == [x \in S |-> f[x]]
<1>1. g \in Surjection(S, T)
  BY DEF Surjection
<1>2. QED
  BY <1>1, FS_Surjection

\* The maximum of a finite set of numbers is its greatest member.
LEMMA MaxFacts ==
    ASSUME NEW S \in SUBSET Nat, IsFiniteSet(S), S # {}
    PROVE  Max(S) \in S /\ \A t \in S : Max(S) >= t
<1> DEFINE f == [x \in S |-> -x]
           N == {f[x] : x \in S}
<1>1. IsFiniteSet(N)
  BY FiniteRange
<1>2. N \in SUBSET Int /\ N # {}
  <2>1. \A x \in S : f[x] \in Int
    OBVIOUS
  <2> HIDE DEF f
  <2>2. QED
    BY <2>1
<1>3. PICK n \in N : \A y \in N : n <= y
  BY <1>1, <1>2, LeastInteger
<1>4. PICK x \in S : n = f[x]
  OBVIOUS
<1>5. \A y \in S : x >= y
  <2> TAKE y \in S
  <2>1. f[x] <= f[y]
    BY <1>3, <1>4
  <2>2. QED
    BY <2>1
<1>6. QED
  BY <1>4, <1>5 DEF Max

\* The time a phone was seen is a number, whatever presence holds.
LEMMA LastSeenType ==
    ASSUME TypeOK, NEW phone
    PROVE  LastSeen(phone) \in Nat
<1> DEFINE J == {j \in DOMAIN presence : presence[j].id = phone
                                         /\ now < presence[j].lastSeenAt + Ttl}
           T == {presence[i].lastSeenAt : i \in J}
<1>1. presence \in Seq(Seen) /\ DOMAIN presence = 1..Len(presence) /\ Len(presence) \in Nat
  BY DEF TypeOK
<1>2. IsFiniteSet(J)
  <2>1. J \in SUBSET (1..Len(presence))
    BY <1>1
  <2>2. IsFiniteSet(1..Len(presence))
    BY <1>1, FS_Interval
  <2>3. QED
    BY <2>1, <2>2, FS_Subset
<1>3. IsFiniteSet(T)
  <2> DEFINE f == [i \in J |-> presence[i].lastSeenAt]
  <2>1. T = {f[i] : i \in J}
    OBVIOUS
  <2> HIDE DEF J, T, f
  <2>2. QED
    BY <1>2, <2>1, FiniteRange
<1>4. \A i \in DOMAIN presence : presence[i] \in Seen
  BY <1>1
<1>5. T \in SUBSET Nat
  BY <1>4 DEF Seen
<1>6. {0} \cup T \in SUBSET Nat /\ IsFiniteSet({0} \cup T) /\ {0} \cup T # {}
  <2>1. IsFiniteSet(T \cup {0})
    BY <1>3, FS_AddElement
  <2>2. T \cup {0} = {0} \cup T
    OBVIOUS
  <2> HIDE DEF T
  <2>3. QED
    BY <1>5, <2>1, <2>2
<1>7. Max({0} \cup T) \in Nat
  BY <1>6, MaxFacts
<1>8. QED
  BY <1>7 DEF LastSeen

\* The rows of all that go or stay with r.
GroupIn(all, r) == {q \in all : GroupOf(q) = GroupOf(r)}

\* A group that is not evicted is not before one that is: it is a catalog if
\* the other one is, and else its phone was not seen earlier.
LEMMA StaysLonger ==
    ASSUME TypeOK, NEW all, NEW r \in all, NEW q \in all,
           ~Before(GroupIn(all, q), GroupIn(all, r))
    PROVE  LET isCatalog(x) == Priority(GroupIn(all, x)) = 1
           IN  /\ isCatalog(r) => isCatalog(q)
               /\ isCatalog(r) = isCatalog(q) => LastSeen(Phone(r)) <= LastSeen(Phone(q))
<1> DEFINE g == GroupIn(all, r)
           h == GroupIn(all, q)
           One(x) == IF Priority(x) = 1 THEN 1 ELSE 0
           Two(x) == LastSeen(Phone(CHOOSE y \in x : TRUE))
<1>1. \A x : Rank(x)[1] = One(x) /\ Rank(x)[2] = Two(x)
  BY DEF Rank
<1>2. \A x \in all : Two(GroupIn(all, x)) = LastSeen(Phone(x))
  <2> TAKE x \in all
  <2>1. x \in GroupIn(all, x)
    BY DEF GroupIn
  <2> DEFINE y == CHOOSE z \in GroupIn(all, x) : TRUE
  <2>2. y \in GroupIn(all, x)
    BY <2>1
  <2>3. GroupOf(y) = GroupOf(x)
    BY <2>2 DEF GroupIn
  <2>4. GroupOf(y)[1] = Phone(y) /\ GroupOf(x)[1] = Phone(x)
    BY DEF GroupOf
  <2>5. QED
    BY <2>3, <2>4
<1>3. \A x : Two(x) \in Nat
  BY LastSeenType
<1> HIDE DEF One, Two, g, h
<1>4. ~(Rank(h)[1] < Rank(g)[1])
  BY DEF Before, g, h
<1>5. Rank(h)[1] = Rank(g)[1] => ~(Rank(h)[2] < Rank(g)[2])
  BY DEF Before, g, h
<1>6. One(g) <= One(h)
  BY <1>1, <1>4 DEF One
<1>7. One(g) = One(h) => Two(g) <= Two(h)
  BY <1>1, <1>3, <1>5
<1>8. Two(g) = LastSeen(Phone(r)) /\ Two(h) = LastSeen(Phone(q))
  BY <1>2 DEF g, h
<1>9. QED
  BY <1>6, <1>7, <1>8 DEF One, g, h

\* What an eviction leaves is in order.
LEMMA EvictionOrdered ==
    ASSUME TypeOK, NEW all, NEW gone \in Evictions(all)
    PROVE  Ordered(all, all \ UNION gone)
<1> DEFINE left == all \ UNION gone
           isCatalog(x) == Priority(GroupIn(all, x)) = 1
<1>1. /\ gone \subseteq GroupsOf(all)
      /\ \A g \in gone, h \in GroupsOf(all) \ gone : ~Before(h, g)
  BY DEF Evictions
<1>2. ASSUME NEW r \in all \ left, NEW q \in left
      PROVE  /\ GroupOf(q) # GroupOf(r)
             /\ isCatalog(r) => isCatalog(q)
             /\ isCatalog(r) = isCatalog(q) => LastSeen(Phone(r)) <= LastSeen(Phone(q))
  <2>1. PICK g \in gone : r \in g
    OBVIOUS
  <2>2. g = GroupIn(all, r)
    BY <1>1, <2>1 DEF GroupsOf, GroupIn
  <2>3. q \in GroupIn(all, q) /\ GroupIn(all, q) \in GroupsOf(all)
    BY DEF GroupsOf, GroupIn
  <2>4. GroupIn(all, q) \notin gone
    BY <2>3
  <2>5. ~Before(GroupIn(all, q), GroupIn(all, r))
    BY <1>1, <2>1, <2>2, <2>3, <2>4
  <2>6. GroupIn(all, q) # GroupIn(all, r)
    BY <2>1, <2>2, <2>4
  <2>7. GroupOf(q) # GroupOf(r)
    BY <2>6 DEF GroupIn
  <2>8. q \in all /\ r \in all
    OBVIOUS
  <2>9. QED
    BY <2>5, <2>7, <2>8, StaysLonger
<1>3. QED
  <2>1. left \subseteq all
    OBVIOUS
  <2> HIDE DEF left
  <2>2. Ordered(all, left)
    BY <1>2, <2>1 DEF Ordered, GroupIn
  <2>3. QED
    BY <2>2 DEF left

\* What retainState() returns.
LEMMA RetainFacts ==
    ASSUME TypeOK, NEW rows \in SUBSET Row, IsFiniteSet(rows), OneEach(rows),
           NEW row \in Received, NEW after \in RetainState(rows, row)
    PROVE  /\ after \in SUBSET Row /\ IsFiniteSet(after) /\ OneEach(after)
           /\ after \subseteq rows \cup {row}
           /\ \A r \in after : r.expiresAt > now
           /\ Refused(Live(rows), row) => after = Live(rows)
           /\ ~Refused(Live(rows), row) => /\ Fits(after)
                                           /\ Ordered(Contenders(rows, row), after)
<1> DEFINE C == Contenders(rows, row)
<1>1. Live(rows) \subseteq rows /\ \A r \in Live(rows) : r.expiresAt > now
  BY DEF Live
<1>2. Live(rows) \in SUBSET Row /\ IsFiniteSet(Live(rows)) /\ OneEach(Live(rows))
  BY <1>1, FS_Subset DEF OneEach
<1>3. CASE Refused(Live(rows), row)
  <2>1. after = Live(rows)
    BY <1>3 DEF RetainState
  <2>2. QED
    BY <1>1, <1>2, <1>3, <2>1
<1>4. CASE ~Refused(Live(rows), row)
  <2>1. PICK gone \in Evictions(C) : after = C \ UNION gone
    BY <1>4 DEF RetainState
  <2>2. row.expiresAt > now /\ row \in Row
    <3>1. ~(row.expiresAt <= now) /\ ~(row.frame.size > FrameBytes)
      BY <1>4 DEF Refused
    <3>2. row.expiresAt \in Nat /\ row.frame.size \in Nat /\ now \in Nat
      BY RowFacts, Limits DEF SizeOf, TypeOK
    <3>3. QED
      BY <3>1, <3>2, Limits DEF Row
  <2>3. C \subseteq Live(rows) \cup {row}
    BY DEF Contenders
  <2>4. C \in SUBSET Row /\ IsFiniteSet(C)
    <3>1. IsFiniteSet(Live(rows) \cup {row})
      BY <1>2, FS_AddElement
    <3>2. QED
      BY <1>2, <2>2, <2>3, <3>1, FS_Subset
  <2>5. OneEach(C)
    BY <1>2 DEF OneEach, Contenders
  <2>6. after \subseteq C
    BY <2>1
  <2>7. Fits(after)
    BY <2>1 DEF Evictions
  <2>8. Ordered(C, after)
    BY <2>1, EvictionOrdered
  <2> HIDE DEF C
  <2>9. IsFiniteSet(after)
    BY <2>4, <2>6, FS_Subset
  <2>10. \A r \in after : r.expiresAt > now
    BY <1>1, <2>2, <2>3, <2>6
  <2>11. QED
    BY <1>1, <1>4, <2>3, <2>4, <2>5, <2>6, <2>7, <2>8, <2>9, <2>10 DEF OneEach, C
<1>5. QED
  BY <1>3, <1>4

-----------------------------------------------------------------------------
(* The inductive invariant *)

Slots(rows) == {SlotOf(r) : r \in rows}

\* The chunks under the metadata of slot s are all of its frame, or some of
\* them are and the others are missing.
Joined(s) == meta[s] # None => \A i \in Parts(meta[s]) : chunk[s][i] = meta[s].frame
Partial(s) == meta[s] # None => \A i \in Parts(meta[s]) : chunk[s][i] \in {None, meta[s].frame}

\* What the number of puts that were cut short says of a slot.
Sound(s) == (cuts[s] = 0 => Joined(s)) /\ (cuts[s] = 1 => Partial(s))

FiledBySlot == \A s \in Slot : meta[s] # None => SlotOf(meta[s]) = s

\* Numbers: what the bounds of the types rest on.
Counted ==
    /\ IsFiniteSet(index)
    /\ \A s \in Slot : cuts[s] <= faults
    /\ runtime = "node" => \A s \in Slot : cuts[s] = 0

\* The put brings a row that stays.
Accepting == put.row \in put.after \ put.before

\* The plan of the put that runs: removals first, then the new row.
Plan ==
    /\ IsFiniteSet(put.before) /\ OneEach(put.before)
    /\ put.after \in RetainState(put.before, put.row)
    /\ put.gone \subseteq put.before \ put.after
    /\ put.fresh \subseteq put.after \ put.before
    /\ put.gone # {} => put.fresh = put.after \ put.before

\* How far it has got with one row.
Progress ==
    /\ put.work \in {None} \cup put.gone \cup put.fresh
    /\ put.work = None => put.done = 0
    /\ put.work # None => put.done \in 1..SizeOf(put.work)
    /\ put.work \in put.fresh => put.gone = {}

\* A row that has still to go is where it was, some of its chunks missing.
Removing ==
    \A r \in put.gone :
        /\ SlotOf(r) \in index /\ meta[SlotOf(r)] = r
        /\ cuts[SlotOf(r)] <= 1 => Partial(SlotOf(r))
        /\ put.work = r => \A i \in 1..put.done : chunk[SlotOf(r)][i] = None

\* A row that has still to come finds its slot empty once the removals are
\* done, unless an earlier put was cut short there.
Adding ==
    \A r \in put.fresh :
        /\ SlotOf(r) \notin Slots(put.gone) /\ SlotOf(r) \in index /\ cuts[SlotOf(r)] = 0 =>
              meta[SlotOf(r)] = None
        /\ put.work = r => \A i \in 1..put.done : chunk[SlotOf(r)][i] = r.frame

\* A row that stays, or that has come, is complete.
Kept ==
    \A r \in put.after \ put.fresh :
        /\ meta[SlotOf(r)] = r
        /\ \A i \in Parts(r) : chunk[SlotOf(r)][i] # None
        /\ r \in put.before => SlotOf(r) \in index
        /\ r \notin put.before => Joined(SlotOf(r))

\* What can be read is what there was, or the new row under way.
Readable ==
    \A s \in Complete :
        \/ meta[s] \in put.gone \cup (put.before \cap put.after)
        \/ s = SlotOf(put.row) /\ Accepting /\ put.gone = {}

\* What phones would read is what they were shown before the put, nothing, or
\* its own frame, which is newer.
Showing ==
    /\ \A s \in Slot :
          \/ Listed[s] \in {None, put.shown[s]}
          \/ s = SlotOf(put.row) /\ Accepting /\ Listed[s] = put.row.frame
    /\ Accepting => \/ put.shown[SlotOf(put.row)] = None
                    \/ put.shown[SlotOf(put.row)].revision < put.row.frame.revision

\* The slots the put has not to change any more.
Settled ==
    IF Running THEN (index \cup Slots(put.after)) \ Slots(put.gone \cup put.fresh) ELSE index

PutInv == Plan /\ Progress /\ Removing /\ Adding /\ Kept /\ Readable /\ Showing

IInv ==
    /\ TypeOK /\ FiledBySlot /\ Counted
    /\ \A s \in Settled : Sound(s)
    /\ RoomLimits
    /\ Running => PutInv

-----------------------------------------------------------------------------
(* Consequences *)

\* A slot that can be read is whole, but after two cuts or while a put runs.
LEMMA IdleTorn ==
    ASSUME IInv
    PROVE  TornOnlyAfterTwoCuts
<1> SUFFICES ASSUME NEW s \in Complete, ~Running, ~(cuts[s] >= 2)
             PROVE  s \in Whole
  BY DEF TornOnlyAfterTwoCuts
<1>1. Sound(s)
  BY DEF IInv, Settled, Complete
<1>2. cuts[s] \in {0, 1}
  <2>1. s \in Slot /\ cuts \in [Slot -> 0..MaxFaults]
    BY DEF IInv, TypeOK, Complete
  <2>2. cuts[s] \in 0..MaxFaults
    BY <2>1
  <2>3. QED
    BY <2>2, Limits
<1>3. QED
  BY <1>1, <1>2 DEF Sound, Joined, Partial, Whole, Complete

\* The rows that can be read: typed, finitely many, one in each slot.
LEMMA RowsFacts ==
    ASSUME TypeOK, FiledBySlot, Counted
    PROVE  /\ Rows \in SUBSET Row /\ IsFiniteSet(Rows) /\ OneEach(Rows)
           /\ \A s \in Complete : /\ s \in Slot /\ s \in index
                                  /\ meta[s] \in Rows /\ meta[s] \in Row
                                  /\ SlotOf(meta[s]) = s
           /\ \A r \in Rows : SlotOf(r) \in Complete /\ meta[SlotOf(r)] = r
<1>1. \A s \in Complete : /\ s \in Slot /\ s \in index
                          /\ meta[s] \in Rows /\ meta[s] \in Row
                          /\ SlotOf(meta[s]) = s
  BY DEF TypeOK, Complete, Rows, FiledBySlot
<1>2. IsFiniteSet(Rows)
  <2>1. IsFiniteSet(Complete)
    <3>1. Complete \in SUBSET index
      BY DEF Complete
    <3>2. QED
      BY <3>1, FS_Subset DEF Counted
  <2>2. QED
    BY <2>1, FiniteRange DEF Rows
<1>3. \A r \in Rows : SlotOf(r) \in Complete /\ meta[SlotOf(r)] = r
  BY <1>1 DEF Rows
<1>4. QED
  BY <1>1, <1>2, <1>3 DEF Rows, OneEach

\* The same time and the same presence give the same choice.
LEMMA SameChoice ==
    ASSUME now' = now, presence' = presence, NEW rows, NEW row
    PROVE  RetainState(rows, row)' = RetainState(rows, row)
<1>1. \A S : Live(S)' = Live(S)
  BY DEF Live
<1>2. \A phone : LastSeen(phone)' = LastSeen(phone)
  BY DEF LastSeen
<1>3. \A g : Rank(g)' = Rank(g)
  BY <1>2 DEF Rank
<1>4. \A g, h : Before(g, h)' = Before(g, h)
  BY <1>3 DEF Before
<1>5. \A S : Evictions(S)' = Evictions(S)
  BY <1>4 DEF Evictions
<1>6. \A S : Refused(S, row)' = Refused(S, row)
  BY DEF Refused, Outdated
<1>7. Contenders(rows, row)' = Contenders(rows, row)
  BY <1>1 DEF Contenders
<1>8. QED
  BY <1>1, <1>5, <1>6, <1>7 DEF RetainState

-----------------------------------------------------------------------------
(* The put that runs *)

\* Its fields, and what retainState() promises of them.
LEMMA PutFacts ==
    ASSUME IInv, Running
    PROVE  /\ put \in Put /\ runtime = "worker"
           /\ put.row \in Received
           /\ put.before \in SUBSET Row /\ put.after \in SUBSET Row
           /\ put.gone \in SUBSET Row /\ put.fresh \in SUBSET Row
           /\ put.done \in Nat /\ put.work \in Row \cup {None}
           /\ IsFiniteSet(put.after) /\ OneEach(put.before) /\ OneEach(put.after)
           /\ put.after \ put.before \subseteq {put.row}
           /\ Accepting => Fits(put.after)
           /\ put.fresh # {} => put.fresh = {put.row} /\ Accepting
           /\ PutInv
<1>1. put \in Put /\ runtime = "worker"
  BY RuntimeAssumption DEF IInv, TypeOK, Running
<1>2. /\ put.row \in Received
      /\ put.before \in SUBSET Row /\ put.after \in SUBSET Row
      /\ put.gone \in SUBSET Row /\ put.fresh \in SUBSET Row
      /\ put.done \in 0..FrameBytes /\ put.work \in Row \cup {None}
  BY <1>1 DEF Put
<1>3. PutInv /\ TypeOK
  BY DEF IInv
<1>4. /\ IsFiniteSet(put.before) /\ OneEach(put.before)
      /\ put.after \in RetainState(put.before, put.row)
      /\ put.fresh \subseteq put.after \ put.before
  BY <1>3 DEF PutInv, Plan
<1>5. /\ IsFiniteSet(put.after) /\ OneEach(put.after)
      /\ put.after \subseteq put.before \cup {put.row}
      /\ Refused(Live(put.before), put.row) => put.after = Live(put.before)
      /\ ~Refused(Live(put.before), put.row) => Fits(put.after)
  BY <1>2, <1>3, <1>4, RetainFacts
<1>6. Live(put.before) \subseteq put.before
  BY DEF Live
<1>7. Accepting => Fits(put.after)
  BY <1>5, <1>6 DEF Accepting
<1>8. put.done \in Nat
  BY <1>2, Limits
<1>9. put.fresh # {} => put.fresh = {put.row} /\ Accepting
  BY <1>4, <1>5 DEF Accepting
<1>10. QED
  BY <1>1, <1>2, <1>3, <1>4, <1>5, <1>7, <1>8, <1>9

\* The slots a write does not concern.
LEMMA OtherSlots ==
    ASSUME TypeOK, now' = now, index' = index, NEW s \in Slot,
           \A q \in Slot \ {s} : /\ meta'[q] = meta[q] /\ chunk'[q] = chunk[q]
    PROVE  \A q \in Slot \ {s} :
              /\ q \in Complete' <=> q \in Complete
              /\ q \in Whole' <=> q \in Whole
              /\ Listed'[q] = Listed[q]
              /\ Partial(q)' <=> Partial(q)
              /\ Joined(q)' <=> Joined(q)
<1> TAKE q \in Slot \ {s}
<1>1. meta'[q] = meta[q] /\ chunk'[q] = chunk[q]
  OBVIOUS
<1>2. q \in Complete' <=> q \in Complete
  BY <1>1 DEF Complete
<1>3. q \in Whole' <=> q \in Whole
  BY <1>1, <1>2 DEF Whole
<1>4. Listed'[q] = Listed[q]
  BY <1>1, <1>3 DEF Listed
<1>5. (Partial(q)' <=> Partial(q)) /\ (Joined(q)' <=> Joined(q))
  BY <1>1 DEF Partial, Joined
<1>6. QED
  BY <1>2, <1>3, <1>4, <1>5

\* The whole rows: typed and finitely many; fewer of them are within limits.
LEMMA WholeFacts ==
    ASSUME TypeOK, FiledBySlot, Counted
    PROVE  /\ {meta[s] : s \in Whole} \subseteq Rows
           /\ {meta[s] : s \in Whole} \in SUBSET Row
           /\ IsFiniteSet({meta[s] : s \in Whole})
           /\ RoomLimits <=> Fits({meta[s] : s \in Whole})
<1>1. {meta[s] : s \in Whole} \subseteq Rows
  BY DEF Whole, Rows
<1>2. Rows \in SUBSET Row /\ IsFiniteSet(Rows)
  BY RowsFacts
<1>3. RoomLimits <=> Fits({meta[s] : s \in Whole})
  BY DEF RoomLimits, Fits
<1>4. QED
  BY <1>1, <1>2, <1>3, FS_Subset

\* Rows that were whole, or some of those that fit, are within the limits.
LEMMA LimitsOf ==
    ASSUME NEW S \in SUBSET Row, IsFiniteSet(S), Fits(S), {meta[s] : s \in Whole}' \subseteq S
    PROVE  RoomLimits'
<1> DEFINE W == {meta[s] : s \in Whole}
<1>1. W' \in SUBSET S
  OBVIOUS
<1>2. Fits(W')
  BY <1>1, FewerFit
<1>3. QED
  BY <1>2 DEF RoomLimits, Fits

\* Fewer whole rows stay within the limits.
LEMMA LimitsKept ==
    ASSUME IInv, {meta[s] : s \in Whole}' \subseteq {meta[s] : s \in Whole}
    PROVE  RoomLimits'
<1> DEFINE W == {meta[s] : s \in Whole}
<1>1. W \in SUBSET Row /\ IsFiniteSet(W) /\ Fits(W)
  BY WholeFacts DEF IInv
<1>2. QED
  BY <1>1, LimitsOf

\* One more chunk is written.
LEMMA ChunkWritten ==
    ASSUME IInv, Running, NEW r \in put.gone \cup put.fresh,
           NEW value \in {None, r.frame}, WriteChunk(r, value)
    PROVE  LET s == SlotOf(r)
           IN  /\ put' \in Put /\ Running'
               /\ put'.row = put.row /\ put'.before = put.before /\ put'.after = put.after
               /\ put'.gone = put.gone /\ put'.fresh = put.fresh /\ put'.shown = put.shown
               /\ put'.work = r /\ put'.done = put.done + 1
               /\ put'.done \in 1..SizeOf(r) /\ put'.done \in Parts(r) /\ put'.done \in Chunk
               /\ put.work \in {None, r}
               /\ chunk' \in [Slot -> [Chunk -> Frame \cup {None}]]
               /\ \A q \in Slot \ {s} : chunk'[q] = chunk[q]
               /\ \A i \in Chunk : chunk'[s][i] = IF i = put'.done THEN value ELSE chunk[s][i]
               /\ index' = index /\ meta' = meta /\ cuts' = cuts
               /\ s \in Slot /\ r \in Row
<1> DEFINE s == SlotOf(r)
<1>1. put \in Put /\ r \in Row /\ put.done \in Nat
  BY PutFacts
<1>2. s \in Slot /\ SizeOf(r) \in Nat /\ SizeOf(r) <= FrameBytes /\ r.frame \in Frame
      /\ Parts(r) \subseteq Chunk
  BY <1>1, RowFacts
<1>3. put.done < SizeOf(r) /\ put.work \in {None, r}
  BY DEF WriteChunk, NextChunk
<1>4. put.done + 1 \in 1..SizeOf(r) /\ put.done + 1 \in 0..FrameBytes
  BY <1>1, <1>2, <1>3, Limits
<1>5. put' = [put EXCEPT !.work = r, !.done = put.done + 1]
  BY DEF WriteChunk
<1>6. /\ put' \in Put
      /\ put'.row = put.row /\ put'.before = put.before /\ put'.after = put.after
      /\ put'.gone = put.gone /\ put'.fresh = put.fresh /\ put'.shown = put.shown
      /\ put'.work = r /\ put'.done = put.done + 1
  BY <1>1, <1>4, <1>5 DEF Put
<1>7. Running'
  BY <1>6, NoneAssumption DEF Running
<1>8. chunk \in [Slot -> [Chunk -> Frame \cup {None}]]
  BY DEF IInv, TypeOK
<1>9. put.done + 1 \in Parts(r) /\ put.done + 1 \in Chunk
  BY <1>2, <1>4 DEF Parts
<1>10. chunk' = [chunk EXCEPT ![s] = [chunk[s] EXCEPT ![put.done + 1] = value]]
  BY <1>2, <1>8 DEF WriteChunk
<1>11. [chunk[s] EXCEPT ![put.done + 1] = value] \in [Chunk -> Frame \cup {None}]
  BY <1>2, <1>8
<1>12. chunk' \in [Slot -> [Chunk -> Frame \cup {None}]]
  BY <1>8, <1>10, <1>11
<1>13. /\ \A q \in Slot \ {s} : chunk'[q] = chunk[q]
       /\ \A i \in Chunk : chunk'[s][i] = IF i = put.done + 1 THEN value ELSE chunk[s][i]
  BY <1>2, <1>8, <1>10
<1>14. index' = index /\ meta' = meta /\ cuts' = cuts
  BY DEF WriteChunk
<1>15. QED
  BY <1>1, <1>2, <1>3, <1>4, <1>6, <1>7, <1>9, <1>12, <1>13, <1>14

-----------------------------------------------------------------------------
(* The writes of a put *)

\* What every write of the put leaves alone.
Quiet == UNCHANGED <<runtime, now, presence, faults>>

\* The plan stays what it is.
LEMMA PlanKept ==
    ASSUME IInv, Running, Quiet,
           put'.row = put.row, put'.before = put.before, put'.after = put.after,
           put'.gone \subseteq put.gone, put'.fresh \subseteq put.fresh,
           put'.gone # {} => put'.fresh = put.fresh
    PROVE  Plan'
<1>1. \A rows, row : RetainState(rows, row)' = RetainState(rows, row)
  BY SameChoice DEF Quiet
<1>2. Plan
  BY PutFacts DEF PutInv
<1>3. OneEach(put.before)' /\ IsFiniteSet(put.before)'
  BY <1>2 DEF Plan, OneEach
<1>4. put'.after \in RetainState(put.before, put.row)'
  BY <1>1, <1>2 DEF Plan
<1>5. QED
  BY <1>2, <1>3, <1>4 DEF Plan

\* A chunk that is written keeps types, numbers and the plan.
LEMMA ChunkKeeps ==
    ASSUME IInv, Running, Quiet, NEW r \in put.gone \cup put.fresh,
           NEW value \in {None, r.frame}, WriteChunk(r, value),
           r \in put.fresh => put.gone = {}
    PROVE  TypeOK' /\ FiledBySlot' /\ Counted' /\ Plan' /\ Progress'
<1>1. /\ put' \in Put /\ Running'
      /\ put'.row = put.row /\ put'.before = put.before /\ put'.after = put.after
      /\ put'.gone = put.gone /\ put'.fresh = put.fresh
      /\ put'.work = r /\ put'.done \in 1..SizeOf(r)
      /\ chunk' \in [Slot -> [Chunk -> Frame \cup {None}]]
      /\ index' = index /\ meta' = meta /\ cuts' = cuts /\ r \in Row
  BY ChunkWritten
<1>2. TypeOK /\ FiledBySlot /\ Counted /\ runtime = "worker"
  BY PutFacts DEF IInv
<1>3. TypeOK'
  BY <1>1, <1>2 DEF TypeOK, Quiet
<1>4. FiledBySlot' /\ Counted'
  BY <1>1, <1>2 DEF FiledBySlot, Counted, Quiet
<1>5. Plan'
  BY <1>1, PlanKept
<1>6. Progress'
  <2>1. r # None
    BY <1>1, RowFacts
  <2>2. QED
    BY <1>1, <2>1 DEF Progress
<1>7. QED
  BY <1>3, <1>4, <1>5, <1>6

\* A chunk of a row that goes is deleted: the row cannot be read any more.
LEMMA RemoveChunkStep ==
    ASSUME IInv, Running, Quiet, NEW r \in put.gone, RemoveChunk(r)
    PROVE  IInv'
<1> DEFINE s == SlotOf(r)
<1>1. WriteChunk(r, None)
  BY DEF RemoveChunk
<1>2. /\ Running'
      /\ put'.row = put.row /\ put'.before = put.before /\ put'.after = put.after
      /\ put'.gone = put.gone /\ put'.fresh = put.fresh /\ put'.shown = put.shown
      /\ put'.work = r /\ put'.done = put.done + 1
      /\ put'.done \in Parts(r) /\ put'.done \in Chunk
      /\ put.work \in {None, r}
      /\ \A q \in Slot \ {s} : chunk'[q] = chunk[q]
      /\ \A i \in Chunk : chunk'[s][i] = IF i = put'.done THEN None ELSE chunk[s][i]
      /\ index' = index /\ meta' = meta /\ cuts' = cuts
      /\ s \in Slot /\ r \in Row
  BY <1>1, ChunkWritten
<1>3. /\ Plan /\ Progress /\ Removing /\ Adding /\ Kept /\ Readable /\ Showing
      /\ OneEach(put.before) /\ OneEach(put.after) /\ put.done \in Nat
      /\ put.before \in SUBSET Row /\ put.after \in SUBSET Row
      /\ put.gone \in SUBSET Row /\ put.fresh \in SUBSET Row
  BY PutFacts DEF PutInv
<1>4. /\ put.gone \subseteq put.before \ put.after
      /\ put.fresh = put.after \ put.before
  BY <1>3 DEF Plan
<1>5. s \in index /\ meta[s] = r
  BY <1>3 DEF Removing
<1>6. TypeOK' /\ FiledBySlot' /\ Counted' /\ Plan' /\ Progress'
  BY <1>1, <1>4, ChunkKeeps
<1>7. \A q \in Slot \ {s} :
         /\ q \in Complete' <=> q \in Complete
         /\ q \in Whole' <=> q \in Whole
         /\ Listed'[q] = Listed[q]
         /\ Partial(q)' <=> Partial(q)
         /\ Joined(q)' <=> Joined(q)
  BY <1>2, OtherSlots DEF IInv, Quiet
<1>8. s \notin Complete' /\ s \notin Whole'
  BY <1>2, <1>5 DEF Complete, Whole
<1>9. \A x \in put.gone : x # r => SlotOf(x) # s
  BY <1>3, <1>4 DEF OneEach
<1>10. \A x \in Row : SlotOf(x) \in Slot /\ Parts(x) \subseteq Chunk
  BY RowFacts
<1>11. Removing'
  <2> SUFFICES ASSUME NEW x \in put.gone
               PROVE  /\ SlotOf(x) \in index /\ meta[SlotOf(x)] = x
                      /\ cuts[SlotOf(x)] <= 1 => Partial(SlotOf(x))'
                      /\ r = x => \A i \in 1..put'.done : chunk'[SlotOf(x)][i] = None
    BY <1>2 DEF Removing
  <2>1. /\ SlotOf(x) \in index /\ meta[SlotOf(x)] = x
        /\ cuts[SlotOf(x)] <= 1 => Partial(SlotOf(x))
        /\ put.work = x => \A i \in 1..put.done : chunk[SlotOf(x)][i] = None
    BY <1>3 DEF Removing
  <2>2. CASE x # r
    BY <1>3, <1>7, <1>9, <1>10, <2>1, <2>2
  <2>3. CASE x = r
    <3>1. Partial(s) => Partial(s)'
      BY <1>2, <1>5, <1>10 DEF Partial
    <3>2. ASSUME NEW i \in 1..put'.done PROVE chunk'[s][i] = None
      <4>1. i \in Parts(r) /\ i \in Chunk
        BY <1>2, <1>3, <1>10, RowFacts DEF Parts
      <4>2. CASE i = put'.done
        BY <1>2, <4>1, <4>2
      <4>3. CASE i # put'.done
        <5>1. i \in 1..put.done
          BY <1>2, <1>3, <4>3
        <5>2. put.work = r
          BY <1>2, <1>3, <5>1 DEF Progress
        <5>3. QED
          BY <1>2, <2>1, <2>3, <4>1, <4>3, <5>1, <5>2
      <4>4. QED
        BY <4>2, <4>3
    <3>3. QED
      BY <2>1, <2>3, <3>1, <3>2
  <2>4. QED
    BY <2>2, <2>3
<1>12. Adding'
  BY <1>2, <1>3, <1>4 DEF Adding, Slots
<1>13. Kept'
  <2> SUFFICES ASSUME NEW x \in put.after \ put.fresh
               PROVE  /\ meta[SlotOf(x)] = x
                      /\ \A i \in Parts(x) : chunk'[SlotOf(x)][i] # None
                      /\ x \in put.before => SlotOf(x) \in index
                      /\ x \notin put.before => Joined(SlotOf(x))'
    BY <1>2 DEF Kept
  <2>1. x \in put.before /\ x # r
    BY <1>4
  <2>2. SlotOf(x) \in Slot \ {s}
    BY <1>3, <1>4, <1>10, <2>1 DEF OneEach
  <2>3. QED
    BY <1>2, <1>3, <2>1, <2>2 DEF Kept
<1>14. Accepting' <=> Accepting
  BY <1>2 DEF Accepting
<1>15. Readable'
  BY <1>2, <1>3, <1>6, <1>7, <1>8, <1>14 DEF Readable, Complete, TypeOK
<1>16. Showing'
  <2>1. Listed'[s] = None
    BY <1>2, <1>8 DEF Listed
  <2>2. \A q \in Slot : \/ Listed'[q] \in {None, put'.shown[q]}
                        \/ q = SlotOf(put'.row) /\ Accepting' /\ Listed'[q] = put'.row.frame
    BY <1>2, <1>3, <1>7, <1>14, <2>1 DEF Showing
  <2>3. QED
    BY <1>2, <1>3, <1>14, <2>2 DEF Showing
<1>17. \A q \in Settled' : Sound(q)'
  <2>1. Settled' = Settled
    BY <1>2 DEF Settled
  <2>2. s \notin Settled /\ Settled \subseteq Slot
    BY <1>3, <1>10 DEF Settled, Slots, IInv, TypeOK
  <2>3. QED
    BY <1>2, <1>7, <2>1, <2>2 DEF IInv, Sound
<1>18. RoomLimits'
  <2>1. {meta[q] : q \in Whole}' \subseteq {meta[q] : q \in Whole}
    BY <1>2, <1>7, <1>8 DEF Whole, Complete, IInv, TypeOK
  <2>2. QED
    BY <2>1, LimitsKept
<1>19. QED
  BY <1>6, <1>11, <1>12, <1>13, <1>15, <1>16, <1>17, <1>18 DEF IInv, PutInv

\* Its metadata goes: the slot is empty.
LEMMA RemoveMetaStep ==
    ASSUME IInv, Running, Quiet, NEW r \in put.gone, RemoveMeta(r)
    PROVE  IInv'
<1> DEFINE s == SlotOf(r)
<1>1. /\ Plan /\ Progress /\ Removing /\ Adding /\ Kept /\ Readable /\ Showing
      /\ OneEach(put.before) /\ OneEach(put.after) /\ put \in Put /\ runtime = "worker"
      /\ put.before \in SUBSET Row /\ put.after \in SUBSET Row
      /\ put.gone \in SUBSET Row /\ put.fresh \in SUBSET Row
  BY PutFacts DEF PutInv
<1>2. /\ put' = [put EXCEPT !.gone = put.gone \ {r}, !.work = None, !.done = 0]
      /\ meta' = [meta EXCEPT ![s] = None]
      /\ index' = index /\ chunk' = chunk /\ cuts' = cuts
  BY DEF RemoveMeta
<1>3. /\ put' \in Put /\ Running'
      /\ put'.row = put.row /\ put'.before = put.before /\ put'.after = put.after
      /\ put'.gone = put.gone \ {r} /\ put'.fresh = put.fresh /\ put'.shown = put.shown
      /\ put'.work = None /\ put'.done = 0
  <2>1. /\ put' \in Put
        /\ put'.row = put.row /\ put'.before = put.before /\ put'.after = put.after
        /\ put'.gone = put.gone \ {r} /\ put'.fresh = put.fresh /\ put'.shown = put.shown
        /\ put'.work = None /\ put'.done = 0
    <3>1. put.gone \ {r} \in SUBSET Row /\ 0 \in 0..FrameBytes
      BY <1>1, Limits
    <3>2. QED
      BY <1>1, <1>2, <3>1 DEF Put
  <2>2. QED
    BY <2>1, NoneAssumption DEF Running
<1>4. \A x \in Row : SlotOf(x) \in Slot /\ Parts(x) \subseteq Chunk
  BY RowFacts
<1>5. s \in Slot /\ TypeOK /\ FiledBySlot /\ Counted
  BY <1>1, <1>4 DEF IInv
<1>6. /\ meta' \in [Slot -> Row \cup {None}] /\ meta'[s] = None
      /\ \A q \in Slot \ {s} : meta'[q] = meta[q]
  BY <1>2, <1>5 DEF TypeOK
<1>7. TypeOK' /\ FiledBySlot' /\ Counted'
  <2>1. TypeOK'
    BY <1>1, <1>2, <1>3, <1>5, <1>6 DEF TypeOK, Quiet
  <2>2. FiledBySlot'
    BY <1>5, <1>6 DEF FiledBySlot
  <2>3. Counted'
    BY <1>2, <1>5 DEF Counted, Quiet
  <2>4. QED
    BY <2>1, <2>2, <2>3
<1>8. Plan'
  BY <1>3, PlanKept
<1>9. Progress'
  <2>1. \A x \in put.fresh : x # None
    BY <1>1, RowFacts
  <2>2. QED
    BY <1>3, <2>1 DEF Progress
<1>10. \A q \in Slot \ {s} :
          /\ q \in Complete' <=> q \in Complete
          /\ q \in Whole' <=> q \in Whole
          /\ Listed'[q] = Listed[q]
          /\ Partial(q)' <=> Partial(q)
          /\ Joined(q)' <=> Joined(q)
  BY <1>2, <1>5, <1>6, OtherSlots DEF Quiet
<1>11. s \notin Complete' /\ s \notin Whole' /\ Joined(s)' /\ Partial(s)'
  BY <1>6 DEF Complete, Whole, Joined, Partial
<1>12. /\ put.gone \subseteq put.before \ put.after
       /\ put.fresh = put.after \ put.before
  BY <1>1 DEF Plan
<1>13. \A x \in put.gone \ {r} : SlotOf(x) \in Slot \ {s}
  BY <1>1, <1>4, <1>12 DEF OneEach
<1>14. Removing'
  <2> SUFFICES ASSUME NEW x \in put.gone \ {r}
               PROVE  /\ SlotOf(x) \in index /\ meta'[SlotOf(x)] = x
                      /\ cuts[SlotOf(x)] <= 1 => Partial(SlotOf(x))'
                      /\ None = x => \A i \in 1..put'.done : chunk'[SlotOf(x)][i] = None
    BY <1>2, <1>3 DEF Removing
  <2>1. x # None
    BY <1>1, RowFacts
  <2>2. QED
    BY <1>1, <1>6, <1>10, <1>13, <2>1 DEF Removing
<1>15. Adding'
  <2> SUFFICES ASSUME NEW x \in put.fresh
               PROVE  /\ /\ SlotOf(x) \notin Slots(put.gone \ {r})
                         /\ SlotOf(x) \in index /\ cuts[SlotOf(x)] = 0
                         => meta'[SlotOf(x)] = None
                      /\ None = x => \A i \in 1..put'.done : chunk'[SlotOf(x)][i] = x.frame
    BY <1>2, <1>3 DEF Adding, Slots
  <2>1. x # None /\ SlotOf(x) \in Slot
    BY <1>1, <1>4, RowFacts
  <2>2. CASE SlotOf(x) = s
    BY <1>6, <2>1, <2>2
  <2>3. CASE SlotOf(x) # s
    <3>1. SlotOf(x) \in Slots(put.gone) => SlotOf(x) \in Slots(put.gone \ {r})
      BY <2>3 DEF Slots
    <3>2. QED
      BY <1>1, <1>6, <2>1, <2>3, <3>1 DEF Adding
  <2>4. QED
    BY <2>2, <2>3
<1>16. Kept'
  <2> SUFFICES ASSUME NEW x \in put.after \ put.fresh
               PROVE  /\ meta'[SlotOf(x)] = x
                      /\ \A i \in Parts(x) : chunk'[SlotOf(x)][i] # None
                      /\ x \in put.before => SlotOf(x) \in index
                      /\ x \notin put.before => Joined(SlotOf(x))'
    BY <1>2, <1>3 DEF Kept
  <2>1. x \in put.before /\ x # r
    BY <1>12
  <2>2. SlotOf(x) \in Slot \ {s}
    BY <1>1, <1>4, <1>12, <2>1 DEF OneEach
  <2>3. QED
    BY <1>1, <1>2, <1>6, <2>1, <2>2 DEF Kept
<1>17. Accepting' <=> Accepting
  BY <1>3 DEF Accepting
<1>18. Readable'
  <2> SUFFICES ASSUME NEW q \in Complete'
               PROVE  meta'[q] \in (put.gone \ {r}) \cup (put.before \cap put.after)
    BY <1>3 DEF Readable
  <2>1. q \in Slot /\ q # s
    BY <1>7, <1>11 DEF Complete, TypeOK
  <2>2. q \in Complete /\ meta'[q] = meta[q]
    BY <1>6, <1>10, <2>1
  <2>3. meta[q] \in put.gone \cup (put.before \cap put.after)
    BY <1>1, <2>2 DEF Readable
  <2>4. meta[q] # r
    BY <1>5, <2>1, <2>2 DEF FiledBySlot, Complete
  <2>5. QED
    BY <2>2, <2>3, <2>4
<1>19. Showing'
  <2>1. Listed'[s] = None
    BY <1>5, <1>11 DEF Listed
  <2>2. \A q \in Slot : \/ Listed'[q] \in {None, put'.shown[q]}
                        \/ q = SlotOf(put'.row) /\ Accepting' /\ Listed'[q] = put'.row.frame
    BY <1>1, <1>3, <1>10, <1>17, <2>1 DEF Showing
  <2>3. QED
    BY <1>1, <1>3, <1>17, <2>2 DEF Showing
<1>20. \A q \in Settled' : Sound(q)'
  <2>1. Settled' \subseteq Settled \cup {s} /\ Settled' \subseteq Slot
    BY <1>1, <1>2, <1>3, <1>4, <1>5 DEF Settled, Slots, TypeOK
  <2>2. \A q \in Settled : Sound(q)
    BY DEF IInv
  <2>3. QED
    BY <1>2, <1>10, <1>11, <2>1, <2>2 DEF Sound
<1>21. RoomLimits'
  <2>0. \A q \in Whole' : q \in Whole /\ meta'[q] = meta[q]
    BY <1>6, <1>7, <1>10, <1>11 DEF Whole, Complete, TypeOK
  <2>1. {meta[q] : q \in Whole}' \subseteq {meta[q] : q \in Whole}
    BY <2>0
  <2>2. QED
    BY <2>1, LimitsKept
<1>22. QED
  BY <1>7, <1>8, <1>9, <1>14, <1>15, <1>16, <1>18, <1>19, <1>20, <1>21 DEF IInv, PutInv

\* A chunk of the row that comes is written.  Under metadata that a fault left
\* it can complete a frame only if it is the same frame.
LEMMA AddChunkStep ==
    ASSUME IInv, Running, Quiet, NEW r \in put.fresh, AddChunk(r)
    PROVE  IInv'
<1> DEFINE s == SlotOf(r)
<1>1. WriteChunk(r, r.frame) /\ put.gone = {}
  BY DEF AddChunk
<1>2. /\ Running'
      /\ put'.row = put.row /\ put'.before = put.before /\ put'.after = put.after
      /\ put'.gone = put.gone /\ put'.fresh = put.fresh /\ put'.shown = put.shown
      /\ put'.work = r /\ put'.done = put.done + 1
      /\ put'.done \in Parts(r) /\ put'.done \in Chunk
      /\ put.work \in {None, r}
      /\ \A q \in Slot \ {s} : chunk'[q] = chunk[q]
      /\ \A i \in Chunk : chunk'[s][i] = IF i = put'.done THEN r.frame ELSE chunk[s][i]
      /\ index' = index /\ meta' = meta /\ cuts' = cuts
      /\ s \in Slot /\ r \in Row
  BY <1>1, ChunkWritten
<1>3. /\ Plan /\ Progress /\ Adding /\ Kept /\ Readable /\ Showing
      /\ OneEach(put.after) /\ put.done \in Nat /\ IsFiniteSet(put.after)
      /\ put.before \in SUBSET Row /\ put.after \in SUBSET Row
      /\ put.fresh = {put.row} /\ Accepting /\ Fits(put.after)
  BY PutFacts DEF PutInv
<1>4. r = put.row /\ r \in put.after /\ r \notin put.before
  BY <1>3 DEF Accepting
<1>5. TypeOK' /\ FiledBySlot' /\ Counted' /\ Plan' /\ Progress'
  BY <1>1, ChunkKeeps
<1>6. TypeOK
  BY DEF IInv
<1>7. \A q \in Slot \ {s} :
         /\ q \in Complete' <=> q \in Complete
         /\ q \in Whole' <=> q \in Whole
         /\ Listed'[q] = Listed[q]
         /\ Partial(q)' <=> Partial(q)
         /\ Joined(q)' <=> Joined(q)
  BY <1>2, <1>6, OtherSlots DEF Quiet
<1>8. \A x \in Row : SlotOf(x) \in Slot /\ Parts(x) \subseteq Chunk /\ 1 \in Parts(x)
  BY RowFacts DEF Parts
<1>9. \A i \in 1..put'.done : chunk'[s][i] = r.frame
  <2> TAKE i \in 1..put'.done
  <2>1. i \in Chunk
    BY <1>2, <1>3, <1>8, RowFacts DEF Parts
  <2>2. CASE i = put'.done
    BY <1>2, <2>1, <2>2
  <2>3. CASE i # put'.done
    <3>1. i \in 1..put.done
      BY <1>2, <1>3, <2>3
    <3>2. put.work = r
      BY <1>2, <1>3, <3>1 DEF Progress
    <3>3. QED
      BY <1>2, <1>3, <2>1, <2>3, <3>1, <3>2 DEF Adding
  <2>4. QED
    BY <2>2, <2>3
<1>10. s \in Whole' => meta[s] \in Row /\ meta[s].frame = r.frame
  <2> SUFFICES ASSUME s \in Whole' PROVE meta[s] \in Row /\ meta[s].frame = r.frame
    OBVIOUS
  <2>1. meta[s] \in Row /\ \A i \in Parts(meta[s]) : chunk'[s][i] = meta[s].frame
    BY <1>2, <1>6 DEF Whole, Complete, TypeOK
  <2>2. 1 \in Parts(meta[s]) /\ 1 \in 1..put'.done
    BY <1>2, <1>3, <1>8, <2>1
  <2>3. QED
    BY <1>9, <2>1, <2>2
<1>11. Removing'
  BY <1>1, <1>2 DEF Removing
<1>12. Adding'
  BY <1>2, <1>3, <1>4, <1>9 DEF Adding, Slots
<1>13. Kept'
  <2> SUFFICES ASSUME NEW x \in put.after \ put.fresh
               PROVE  /\ meta[SlotOf(x)] = x
                      /\ \A i \in Parts(x) : chunk'[SlotOf(x)][i] # None
                      /\ x \in put.before => SlotOf(x) \in index
                      /\ x \notin put.before => Joined(SlotOf(x))'
    BY <1>2 DEF Kept
  <2>1. SlotOf(x) \in Slot \ {s}
    BY <1>3, <1>4, <1>8 DEF OneEach
  <2>2. QED
    BY <1>2, <1>3, <1>7, <2>1 DEF Kept
<1>14. Accepting'
  BY <1>2, <1>3 DEF Accepting
<1>15. Readable'
  BY <1>1, <1>2, <1>3, <1>4, <1>5, <1>7, <1>14 DEF Readable, Complete, TypeOK
<1>16. Showing'
  <2>1. Listed'[s] \in {None, r.frame}
    BY <1>2, <1>10 DEF Listed
  <2>2. \A q \in Slot : \/ Listed'[q] \in {None, put'.shown[q]}
                        \/ q = SlotOf(put'.row) /\ Accepting' /\ Listed'[q] = put'.row.frame
    BY <1>2, <1>3, <1>4, <1>7, <1>14, <2>1 DEF Showing
  <2>3. QED
    BY <1>2, <1>3, <1>14, <2>2 DEF Showing
<1>17. \A q \in Settled' : Sound(q)'
  <2>1. Settled' = Settled
    BY <1>2 DEF Settled
  <2>2. s \notin Settled /\ Settled \subseteq Slot
    BY <1>3, <1>6, <1>8 DEF Settled, Slots, TypeOK
  <2>3. QED
    BY <1>2, <1>7, <2>1, <2>2 DEF IInv, Sound
<1>18. RoomLimits'
  <2>1. \A q \in Whole' : q # s => meta'[q] \in put.after \ {r}
    <3> SUFFICES ASSUME NEW q \in Whole', q # s PROVE meta[q] \in put.after \ {r}
      BY <1>2
    <3>1. q \in Complete
      BY <1>5, <1>7 DEF Whole, Complete, TypeOK
    <3>2. QED
      BY <1>1, <1>3, <1>4, <3>1 DEF Readable
  <2>2. CASE s \in Whole'
    <3>1. SizeOf(meta[s]) = SizeOf(r) /\ meta[s] \in Row
      BY <1>10, <2>2 DEF SizeOf
    <3>2. Fits((put.after \ {r}) \cup {meta[s]})
      BY <1>3, <1>4, <3>1, ExchangeFits
    <3>3. IsFiniteSet((put.after \ {r}) \cup {meta[s]}) /\ (put.after \ {r}) \cup {meta[s]} \in SUBSET Row
      <4>1. IsFiniteSet(put.after \ {r})
        BY <1>3, FS_Subset
      <4>2. IsFiniteSet((put.after \ {r}) \cup {meta[s]})
        BY <4>1, FS_AddElement
      <4>3. QED
        BY <1>3, <3>1, <4>2
    <3>4. {meta[q] : q \in Whole}' \subseteq (put.after \ {r}) \cup {meta[s]}
      BY <1>2, <2>1
    <3>5. QED
      BY <3>2, <3>3, <3>4, LimitsOf
  <2>3. CASE s \notin Whole'
    <3>1. {meta[q] : q \in Whole}' \subseteq put.after
      BY <2>1, <2>3
    <3>2. QED
      BY <1>3, <3>1, LimitsOf
  <2>4. QED
    BY <2>2, <2>3
<1>19. QED
  BY <1>5, <1>11, <1>12, <1>13, <1>15, <1>16, <1>17, <1>18 DEF IInv, PutInv

\* The metadata of the row that comes follows its last chunk: it is whole.
LEMMA AddMetaStep ==
    ASSUME IInv, Running, Quiet, NEW r \in put.fresh, AddMeta(r)
    PROVE  IInv'
<1> DEFINE s == SlotOf(r)
<1>1. /\ Plan /\ Progress /\ Adding /\ Kept /\ Readable /\ Showing
      /\ OneEach(put.after) /\ IsFiniteSet(put.after)
      /\ put \in Put /\ runtime = "worker"
      /\ put.before \in SUBSET Row /\ put.after \in SUBSET Row
      /\ put.fresh = {put.row} /\ Accepting /\ Fits(put.after)
  BY PutFacts DEF PutInv
<1>2. /\ put' = [put EXCEPT !.fresh = put.fresh \ {r}, !.work = None, !.done = 0]
      /\ meta' = [meta EXCEPT ![s] = r] /\ cuts' = [cuts EXCEPT ![s] = 0]
      /\ index' = index /\ chunk' = chunk
      /\ put.gone = {} /\ put.work = r /\ put.done = SizeOf(r)
  BY DEF AddMeta, ChunksDone
<1>3. r = put.row /\ r \in put.after /\ r \notin put.before /\ r \in Row
  BY <1>1 DEF Accepting
<1>4. /\ put' \in Put /\ Running'
      /\ put'.row = put.row /\ put'.before = put.before /\ put'.after = put.after
      /\ put'.gone = {} /\ put'.fresh = {} /\ put'.shown = put.shown
      /\ put'.work = None /\ put'.done = 0
  <2>1. put.fresh \ {r} = {} /\ {} \in SUBSET Row /\ 0 \in 0..FrameBytes
    BY <1>1, <1>3, Limits
  <2>2. /\ put' \in Put
        /\ put'.row = put.row /\ put'.before = put.before /\ put'.after = put.after
        /\ put'.gone = put.gone /\ put'.fresh = {} /\ put'.shown = put.shown
        /\ put'.work = None /\ put'.done = 0
    BY <1>1, <1>2, <2>1 DEF Put
  <2>3. QED
    BY <1>2, <2>2, NoneAssumption DEF Running
<1>5. \A x \in Row : SlotOf(x) \in Slot /\ Parts(x) \subseteq Chunk
  BY RowFacts
<1>6. s \in Slot /\ TypeOK /\ FiledBySlot /\ Counted
  BY <1>3, <1>5 DEF IInv
<1>7. /\ meta' \in [Slot -> Row \cup {None}] /\ meta'[s] = r
      /\ \A q \in Slot \ {s} : meta'[q] = meta[q]
  BY <1>2, <1>3, <1>6 DEF TypeOK
<1>8. /\ cuts' \in [Slot -> 0..MaxFaults] /\ cuts'[s] = 0
      /\ \A q \in Slot \ {s} : cuts'[q] = cuts[q]
  BY <1>2, <1>6, Limits DEF TypeOK
<1>9. TypeOK' /\ FiledBySlot' /\ Counted'
  <2>1. TypeOK'
    BY <1>1, <1>2, <1>4, <1>6, <1>7, <1>8 DEF TypeOK, Quiet
  <2>2. FiledBySlot'
    BY <1>6, <1>7 DEF FiledBySlot
  <2>3. faults \in Nat
    BY <1>6, Limits DEF TypeOK
  <2>4. Counted'
    BY <1>1, <1>2, <1>6, <1>8, <2>3 DEF Counted, Quiet
  <2>5. QED
    BY <2>1, <2>2, <2>4
<1>10. Plan'
  BY <1>2, <1>4, PlanKept
<1>11. Progress'
  BY <1>4 DEF Progress
<1>12. \A q \in Slot \ {s} :
          /\ q \in Complete' <=> q \in Complete
          /\ q \in Whole' <=> q \in Whole
          /\ Listed'[q] = Listed[q]
          /\ Partial(q)' <=> Partial(q)
          /\ Joined(q)' <=> Joined(q)
  BY <1>2, <1>6, <1>7, OtherSlots DEF Quiet
<1>13. \A i \in Parts(r) : chunk'[s][i] = r.frame
  BY <1>1, <1>2 DEF Adding, Parts
<1>14. Joined(s)'
  BY <1>7, <1>13 DEF Joined
<1>15. Removing' /\ Adding'
  BY <1>4 DEF Removing, Adding
<1>16. Kept'
  <2> SUFFICES ASSUME NEW x \in put.after
               PROVE  /\ meta'[SlotOf(x)] = x
                      /\ \A i \in Parts(x) : chunk'[SlotOf(x)][i] # None
                      /\ x \in put.before => SlotOf(x) \in index
                      /\ x \notin put.before => Joined(SlotOf(x))'
    BY <1>2, <1>4 DEF Kept
  <2>1. CASE x = r
    <3>1. r.frame # None
      BY <1>3, RowFacts
    <3>2. QED
      BY <1>3, <1>7, <1>13, <1>14, <2>1, <3>1
  <2>2. CASE x # r
    <3>1. SlotOf(x) \in Slot \ {s} /\ x \notin put.fresh
      BY <1>1, <1>3, <1>5, <2>2 DEF OneEach
    <3>2. QED
      BY <1>1, <1>2, <1>7, <1>12, <3>1 DEF Kept
  <2>3. QED
    BY <2>1, <2>2
<1>17. Accepting'
  BY <1>1, <1>4 DEF Accepting
<1>18. \A q \in Complete' : q # s => meta'[q] \in put.before \cap put.after
  <2> SUFFICES ASSUME NEW q \in Complete', q # s PROVE meta'[q] \in put.before \cap put.after
    OBVIOUS
  <2>1. q \in Slot \ {s}
    BY <1>9 DEF Complete, TypeOK
  <2>2. q \in Complete /\ meta'[q] = meta[q]
    BY <1>7, <1>12, <2>1
  <2>3. QED
    BY <1>1, <1>2, <1>3, <2>2 DEF Readable
<1>19. Readable'
  BY <1>3, <1>4, <1>17, <1>18 DEF Readable
<1>20. Showing'
  <2>1. Listed'[s] \in {None, r.frame}
    BY <1>6, <1>7 DEF Listed
  <2>2. \A q \in Slot : \/ Listed'[q] \in {None, put'.shown[q]}
                        \/ q = SlotOf(put'.row) /\ Accepting' /\ Listed'[q] = put'.row.frame
    BY <1>1, <1>3, <1>4, <1>12, <1>17, <2>1 DEF Showing
  <2>3. QED
    BY <1>1, <1>4, <1>17, <2>2 DEF Showing
<1>21. \A q \in Settled' : Sound(q)'
  <2>1. Settled' \subseteq Settled \cup {s} /\ Settled' \subseteq Slot
    BY <1>1, <1>2, <1>3, <1>4, <1>5, <1>6 DEF Settled, Slots, TypeOK
  <2>2. \A q \in Settled : Sound(q)
    BY DEF IInv
  <2>3. Sound(s)'
    BY <1>8, <1>14 DEF Sound
  <2>4. QED
    BY <1>8, <1>12, <2>1, <2>2, <2>3 DEF Sound
<1>22. RoomLimits'
  <2>1. \A q \in Whole' : meta'[q] \in put.after
    BY <1>3, <1>7, <1>18 DEF Whole
  <2>2. {meta[q] : q \in Whole}' \subseteq put.after
    BY <2>1
  <2>3. QED
    BY <1>1, <2>2, LimitsOf
<1>23. QED
  BY <1>9, <1>10, <1>11, <1>15, <1>16, <1>19, <1>20, <1>21, <1>22 DEF IInv, PutInv

\* What can be read when the index is written: what the put was to leave.
LEMMA IndexWritten ==
    ASSUME IInv, Running, Quiet, WriteIndex
    PROVE  /\ Complete' = Slots(put.after) /\ Rows' = put.after /\ index' = Slots(put.after)
           /\ \A s \in index' : \E r \in put.after :
                 /\ SlotOf(r) = s /\ meta'[s] = r /\ s \in Slot
                 /\ r \in put.before => s \in index
                 /\ r \notin put.before => r = put.row /\ Accepting
<1>1. /\ index' = Slots(put.after) /\ meta' = meta /\ chunk' = chunk
      /\ put.fresh = {}
  BY DEF WriteIndex, Slots
<1>2. Kept /\ put.after \in SUBSET Row /\ put.after \ put.before \subseteq {put.row}
  BY PutFacts DEF PutInv
<1>3. \A r \in put.after : /\ meta'[SlotOf(r)] = r
                           /\ \A i \in Parts(r) : chunk'[SlotOf(r)][i] # None
                           /\ r # None /\ SlotOf(r) \in Slot
                           /\ r \in put.before => SlotOf(r) \in index
                           /\ r \notin put.before => r = put.row /\ Accepting
  BY <1>1, <1>2, RowFacts DEF Kept, Accepting
<1>4. Complete' = Slots(put.after)
  BY <1>1, <1>3 DEF Complete, Slots
<1>5. Rows' = put.after
  BY <1>3, <1>4 DEF Rows, Slots
<1>6. QED
  BY <1>1, <1>3, <1>4, <1>5 DEF Slots

\* The last write of a put keeps the invariant.
LEMMA WriteIndexStep ==
    ASSUME IInv, Running, Quiet, WriteIndex
    PROVE  IInv'
<1>1. /\ meta' = meta /\ chunk' = chunk /\ cuts' = cuts /\ put' = None
      /\ put.gone = {} /\ put.fresh = {}
  BY DEF WriteIndex
<1>2. /\ Complete' = Slots(put.after) /\ Rows' = put.after /\ index' = Slots(put.after)
      /\ \A s \in index' : \E r \in put.after :
            /\ SlotOf(r) = s /\ meta'[s] = r /\ s \in Slot
            /\ r \in put.before => s \in index
            /\ r \notin put.before => r = put.row /\ Accepting
  BY IndexWritten
<1>3. /\ put.after \in SUBSET Row /\ IsFiniteSet(put.after)
      /\ Accepting => Fits(put.after)
  BY PutFacts
<1>4. TypeOK /\ FiledBySlot /\ Counted
  BY DEF IInv
<1>5. TypeOK' /\ FiledBySlot'
  BY <1>1, <1>2, <1>4 DEF TypeOK, FiledBySlot, Running, Quiet
<1>6. Counted'
  <2>1. IsFiniteSet(Slots(put.after))
    <3> DEFINE f == [r \in put.after |-> SlotOf(r)]
    <3>1. {f[r] : r \in put.after} = Slots(put.after)
      BY DEF Slots
    <3> HIDE DEF f
    <3>2. QED
      BY <1>3, <3>1, FiniteRange
  <2>2. QED
    BY <1>1, <1>2, <1>4, <2>1 DEF Counted, Quiet
<1>7. \A q \in Settled' : Sound(q)'
  <2>1. Settled' \subseteq Settled
    BY <1>1, <1>2 DEF Settled, Slots, Running
  <2>2. QED
    BY <1>1, <2>1 DEF IInv, Sound, Joined, Partial
<1>8. RoomLimits'
  <2>1. CASE Accepting
    <3>1. {meta[q] : q \in Whole}' \subseteq put.after
      BY <1>2 DEF Whole, Rows
    <3>2. QED
      BY <1>3, <2>1, <3>1, LimitsOf
  <2>2. CASE ~Accepting
    <3>1. index' \subseteq index
      BY <1>2, <2>2
    <3>2. Whole' \subseteq Whole
      BY <1>1, <3>1 DEF Whole, Complete
    <3>3. {meta[q] : q \in Whole}' \subseteq {meta[q] : q \in Whole}
      BY <1>1, <3>2
    <3>4. QED
      BY <3>3, LimitsKept
  <2>3. QED
    BY <2>1, <2>2
<1>9. ~Running'
  BY <1>1 DEF Running
<1>10. QED
  BY <1>5, <1>6, <1>7, <1>8, <1>9 DEF IInv

\* A fault: the slots that were not dealt with have one more cut, under which
\* chunks may be missing but are not another frame's, if it is the first.
LEMMA FaultStep ==
    ASSUME IInv, Fault
    PROVE  IInv'
<1>1. /\ Running /\ put' = None /\ faults' = faults + 1 /\ faults < MaxFaults
      /\ cuts' = [s \in Slot |-> IF s \in Slots(put.gone \cup put.fresh)
                                 THEN cuts[s] + 1 ELSE cuts[s]]
      /\ index' = index /\ meta' = meta /\ chunk' = chunk
      /\ runtime' = runtime /\ now' = now /\ presence' = presence
  <2>1. \A s : s \in Slots(put.gone \cup put.fresh) <=>
               \E r \in put.gone \cup put.fresh : SlotOf(r) = s
    BY DEF Slots
  <2>2. QED
    BY <2>1 DEF Fault, store
<1>2. TypeOK /\ FiledBySlot /\ Counted /\ runtime = "worker" /\ Removing /\ Adding
  BY <1>1, PutFacts DEF IInv, PutInv
<1>3. \A s \in Slot : cuts[s] \in Nat /\ cuts[s] <= faults /\ faults \in Nat
  BY <1>2, Limits DEF TypeOK, Counted
<1>4. cuts' \in [Slot -> 0..MaxFaults] /\ faults' \in 0..MaxFaults
  <2>1. \A s \in Slot : cuts[s] + 1 \in 0..MaxFaults /\ cuts[s] \in 0..MaxFaults
    BY <1>1, <1>3, Limits
  <2>2. cuts' \in [Slot -> 0..MaxFaults]
    BY <1>1, <2>1
  <2>3. faults' \in 0..MaxFaults
    BY <1>1, <1>2, Limits DEF TypeOK
  <2>4. QED
    BY <2>2, <2>3
<1>5. TypeOK' /\ FiledBySlot'
  BY <1>1, <1>2, <1>4 DEF TypeOK, FiledBySlot, Running
<1>6. Counted'
  <2>1. \A s \in Slot : cuts'[s] <= faults'
    BY <1>1, <1>3
  <2>2. QED
    BY <1>1, <1>2, <2>1 DEF Counted
<1>7. ~Running'
  BY <1>1 DEF Running
<1>8. ASSUME NEW s \in index PROVE Sound(s)'
  <2>1. s \in Slot /\ cuts[s] \in Nat
    BY <1>2, <1>3 DEF TypeOK
  <2>2. (Joined(s)' <=> Joined(s)) /\ (Partial(s)' <=> Partial(s))
    BY <1>1 DEF Joined, Partial
  <2>3. CASE s \in Slots(put.gone)
    <3>1. cuts'[s] = cuts[s] + 1
      BY <1>1, <2>1, <2>3 DEF Slots
    <3>2. cuts[s] <= 1 => Partial(s)
      BY <1>2, <2>3 DEF Removing, Slots
    <3>3. QED
      BY <2>1, <2>2, <3>1, <3>2 DEF Sound
  <2>4. CASE s \notin Slots(put.gone) /\ s \in Slots(put.fresh)
    <3>1. cuts'[s] = cuts[s] + 1
      BY <1>1, <2>1, <2>4 DEF Slots
    <3>2. cuts[s] = 0 => Partial(s)
      BY <1>2, <2>4 DEF Adding, Slots, Partial
    <3>3. QED
      BY <2>1, <2>2, <3>1, <3>2 DEF Sound
  <2>5. CASE s \notin Slots(put.gone) /\ s \notin Slots(put.fresh)
    <3>1. s \notin Slots(put.gone \cup put.fresh)
      BY <2>5 DEF Slots
    <3>2. cuts'[s] = cuts[s] /\ s \in Settled
      BY <1>1, <2>1, <3>1 DEF Settled
    <3>3. QED
      BY <2>2, <3>2 DEF IInv, Sound
  <2>6. QED
    BY <2>3, <2>4, <2>5
<1>9. \A s \in Settled' : Sound(s)'
  BY <1>1, <1>7, <1>8 DEF Settled
<1>10. RoomLimits'
  BY <1>1, LimitsKept DEF Whole, Complete
<1>11. QED
  BY <1>5, <1>6, <1>7, <1>9, <1>10 DEF IInv

-----------------------------------------------------------------------------
(* Beginning a put, and the store of Node *)

\* What computers may send is typed.
LEMMA ArrivingType ==
    ASSUME TypeOK
    PROVE  Arriving \subseteq Received
<1>1. now \in Nat /\ runtime \in Runtime
  BY Limits DEF TypeOK
<1>2. \A life \in Lives : now + life \in Nat
  BY <1>1, StateAssumption, Limits
<1>3. Frames[runtime] \subseteq Frame
  BY <1>1 DEF Frame
<1>4. QED
  BY <1>1, <1>2, <1>3 DEF Arriving, Received

\* What phones read in a slot, as a row.
LEMMA ListedRows ==
    ASSUME TypeOK, FiledBySlot, Counted, NEW s \in Slot, Listed[s] # None
    PROVE  /\ s \in Whole /\ meta[s] \in Live(Rows) /\ SlotOf(meta[s]) = s
           /\ Listed[s] = meta[s].frame
<1>1. s \in Whole /\ meta[s].expiresAt > now /\ Listed[s] = meta[s].frame
  BY DEF Listed
<1>2. s \in Complete
  BY <1>1 DEF Whole
<1>3. QED
  BY <1>1, <1>2, RowsFacts DEF Live

\* A row that is not refused is newer than what phones read in its slot.
LEMMA NewerThanListed ==
    ASSUME TypeOK, FiledBySlot, Counted, NEW row \in Received, ~Refused(Live(Rows), row)
    PROVE  \/ Listed[SlotOf(row)] = None
           \/ Listed[SlotOf(row)].revision < row.frame.revision
<1> DEFINE s == SlotOf(row)
<1> SUFFICES ASSUME Listed[s] # None PROVE Listed[s].revision < row.frame.revision
  OBVIOUS
<1>1. s \in Slot
  BY RowFacts
<1>2. meta[s] \in Live(Rows) /\ SlotOf(meta[s]) = s /\ Listed[s] = meta[s].frame /\ meta[s] \in Row
  BY <1>1, ListedRows, RowsFacts DEF Live
<1>3. ~(meta[s].frame.revision >= row.frame.revision)
  BY <1>2 DEF Refused, Outdated, SlotOf
<1>4. meta[s].frame.revision \in Nat /\ row.frame.revision \in Nat
  BY <1>2, RowFacts
<1>5. QED
  BY <1>2, <1>3, <1>4

\* What phones read in a slot is a frame or nothing.
LEMMA ListedType ==
    ASSUME TypeOK
    PROVE  Listed \in [Slot -> Frame \cup {None}]
<1>1. \A s \in Whole : meta[s].frame \in Frame
  BY RowFacts DEF Whole, Complete, TypeOK
<1>2. QED
  BY <1>1 DEF Listed

\* A put of the Worker has read the rows and decided what to do.
LEMMA WorkerPutPlan ==
    ASSUME IInv, NEW row \in Arriving, WorkerPut(row)
    PROVE  \E after \in RetainState(Rows, row) :
              /\ after \in SUBSET Row /\ OneEach(after)
              /\ after \subseteq Rows \cup {row}
              /\ Refused(Live(Rows), row) => after = Live(Rows)
              /\ put' \in Put /\ Running'
              /\ put'.row = row /\ put'.before = Rows /\ put'.after = after
              /\ put'.gone = Rows \ after /\ put'.fresh = after \ Rows
              /\ put'.work = None /\ put'.done = 0 /\ put'.shown = Listed
<1>1. TypeOK /\ FiledBySlot /\ Counted
  BY DEF IInv
<1>2. row \in Received
  BY <1>1, ArrivingType
<1>3. PICK after \in RetainState(Rows, row) :
         put' = [row |-> row, before |-> Rows, after |-> after,
                 gone |-> Rows \ after, fresh |-> after \ Rows,
                 work |-> None, done |-> 0, shown |-> Listed]
  BY DEF WorkerPut, Replaced
<1>4. Rows \in SUBSET Row /\ IsFiniteSet(Rows) /\ OneEach(Rows)
  BY <1>1, RowsFacts
<1>5. /\ after \in SUBSET Row /\ OneEach(after)
      /\ after \subseteq Rows \cup {row}
      /\ Refused(Live(Rows), row) => after = Live(Rows)
  BY <1>1, <1>2, <1>4, RetainFacts
<1>6. Listed \in [Slot -> Frame \cup {None}]
  BY <1>1, ListedType
<1>7. /\ put' \in Put
      /\ put'.row = row /\ put'.before = Rows /\ put'.after = after
      /\ put'.gone = Rows \ after /\ put'.fresh = after \ Rows
      /\ put'.work = None /\ put'.done = 0 /\ put'.shown = Listed
  <2>1. Rows \ after \in SUBSET Row /\ after \ Rows \in SUBSET Row /\ 0 \in 0..FrameBytes
    BY <1>4, <1>5, Limits
  <2>2. QED
    BY <1>2, <1>3, <1>4, <1>5, <1>6, <2>1 DEF Put
<1>8. Running'
  BY <1>7, NoneAssumption DEF Running
<1>9. QED
  BY <1>5, <1>7, <1>8

\* Beginning a put keeps the invariant: its plan is what was read.
LEMMA WorkerPutStep ==
    ASSUME IInv, NEW row \in Arriving, WorkerPut(row)
    PROVE  IInv'
<1>1. TypeOK /\ FiledBySlot /\ Counted /\ \A s \in Settled : Sound(s)
  BY DEF IInv
<1>2. row \in Received
  BY <1>1, ArrivingType
<1>3. PICK after \in RetainState(Rows, row) :
         /\ after \in SUBSET Row /\ OneEach(after)
         /\ after \subseteq Rows \cup {row}
         /\ Refused(Live(Rows), row) => after = Live(Rows)
         /\ put' \in Put /\ Running'
         /\ put'.row = row /\ put'.before = Rows /\ put'.after = after
         /\ put'.gone = Rows \ after /\ put'.fresh = after \ Rows
         /\ put'.work = None /\ put'.done = 0 /\ put'.shown = Listed
  BY WorkerPutPlan
<1>4. /\ runtime = "worker" /\ ~Running
      /\ runtime' = runtime /\ now' = now /\ presence' = presence
      /\ faults' = faults /\ cuts' = cuts
      /\ index' = index /\ meta' = meta /\ chunk' = chunk
  BY DEF WorkerPut, store
<1>5. /\ Rows \in SUBSET Row /\ IsFiniteSet(Rows) /\ OneEach(Rows)
      /\ \A s \in Complete : /\ s \in Slot /\ s \in index
                             /\ meta[s] \in Rows /\ meta[s] \in Row
                             /\ SlotOf(meta[s]) = s
      /\ \A r \in Rows : SlotOf(r) \in Complete /\ meta[SlotOf(r)] = r
  BY <1>1, RowsFacts
<1>6. TypeOK' /\ FiledBySlot' /\ Counted'
  BY <1>1, <1>3, <1>4 DEF TypeOK, FiledBySlot, Counted
<1>7. \A s \in Slot : Sound(s)' <=> Sound(s)
  BY <1>4 DEF Sound, Joined, Partial
<1>8. \A s \in index : Sound(s)
  BY <1>1, <1>4 DEF Settled
<1>9. Complete' = Complete /\ Whole' = Whole /\ Listed' = Listed
  BY <1>4 DEF Complete, Whole, Listed
<1>10. \A s \in Settled' : Sound(s)'
  <2>1. Settled' \subseteq index
    BY <1>3, <1>4, <1>5 DEF Settled, Slots
  <2>2. index \subseteq Slot
    BY <1>1 DEF TypeOK
  <2>3. QED
    BY <1>7, <1>8, <2>1, <2>2
<1>11. RoomLimits'
  BY <1>4, <1>9, LimitsKept
<1>12. Plan'
  <2>1. \A rows, x : RetainState(rows, x)' = RetainState(rows, x)
    BY <1>4, SameChoice
  <2>2. put'.after \in RetainState(put.before, put.row)'
    BY <1>3, <2>1
  <2>3. OneEach(put.before)' /\ IsFiniteSet(put.before)'
    BY <1>3, <1>5 DEF OneEach
  <2>4. QED
    BY <1>3, <2>2, <2>3 DEF Plan
<1>13. \A r \in Rows \cup after : r # None /\ SlotOf(r) \in Slot
  BY <1>3, <1>5, RowFacts
<1>14. Progress'
  BY <1>3, <1>13 DEF Progress
<1>15. \A s \in index : cuts[s] <= 1 => Partial(s)
  <2> SUFFICES ASSUME NEW s \in index, cuts[s] <= 1 PROVE Partial(s)
    OBVIOUS
  <2>1. cuts[s] \in 0..MaxFaults
    BY <1>1 DEF TypeOK
  <2>2. cuts[s] = 0 \/ cuts[s] = 1
    BY <2>1, Limits
  <2>3. QED
    BY <1>8, <2>2 DEF Sound, Joined, Partial
<1>16. Removing'
  <2> SUFFICES ASSUME NEW r \in Rows \ after
               PROVE  /\ SlotOf(r) \in index /\ meta[SlotOf(r)] = r
                      /\ cuts[SlotOf(r)] <= 1 => Partial(SlotOf(r))
    BY <1>3, <1>4, <1>13 DEF Removing, Partial
  <2>1. QED
    BY <1>5, <1>15
<1>17. Adding'
  <2> SUFFICES ASSUME NEW r \in after \ Rows, SlotOf(r) \notin Slots(Rows \ after),
                      SlotOf(r) \in index, cuts[SlotOf(r)] = 0, meta[SlotOf(r)] # None
               PROVE  FALSE
    BY <1>3, <1>4, <1>13 DEF Adding, Slots
  <2> DEFINE x == meta[SlotOf(r)]
  <2>1. Joined(SlotOf(r)) /\ x \in Row
    BY <1>1, <1>8, <1>13 DEF Sound, TypeOK
  <2>2. SlotOf(r) \in Complete
    BY <2>1, RowFacts DEF Complete, Joined
  <2>3. x \in Rows /\ SlotOf(x) = SlotOf(r)
    BY <1>5, <2>2
  <2>4. x \in after
    BY <2>3 DEF Slots
  <2>5. QED
    BY <1>3, <2>3, <2>4 DEF OneEach
<1>18. Kept'
  <2> SUFFICES ASSUME NEW r \in after, r \in Rows
               PROVE  /\ meta[SlotOf(r)] = r
                      /\ \A i \in Parts(r) : chunk[SlotOf(r)][i] # None
                      /\ SlotOf(r) \in index
    BY <1>3, <1>4 DEF Kept
  <2>1. QED
    BY <1>5 DEF Complete
<1>19. Readable'
  BY <1>3, <1>4, <1>5, <1>9 DEF Readable
<1>20. Showing'
  <2>1. Accepting' => \/ Listed[SlotOf(row)] = None
                      \/ Listed[SlotOf(row)].revision < row.frame.revision
    <3> SUFFICES ASSUME row \in after, row \notin Rows
                 PROVE  \/ Listed[SlotOf(row)] = None
                        \/ Listed[SlotOf(row)].revision < row.frame.revision
      BY <1>3 DEF Accepting
    <3>1. ~Refused(Live(Rows), row)
      BY <1>3 DEF Live
    <3>2. QED
      BY <1>1, <1>2, <3>1, NewerThanListed
  <2>2. QED
    BY <1>3, <1>9, <2>1 DEF Showing
<1>21. QED
  BY <1>6, <1>10, <1>11, <1>12, <1>14, <1>16, <1>17, <1>18, <1>19, <1>20 DEF IInv, PutInv

\* On Node every row that can be read is whole.
LEMMA NodeWhole ==
    ASSUME IInv, runtime = "node"
    PROVE  ~Running /\ Whole = Complete
<1>1. ~Running
  BY DEF IInv, TypeOK
<1>2. \A s \in Complete : s \in Slot /\ cuts[s] = 0 /\ Sound(s)
  BY <1>1 DEF IInv, TypeOK, Counted, Complete, Settled
<1>3. QED
  BY <1>1, <1>2 DEF Sound, Joined, Whole, Complete

\* What Node's transaction leaves.
LEMMA NodePutRows ==
    ASSUME IInv, NEW row \in Arriving, NodePut(row)
    PROVE  \E after \in RetainState(Rows, row) :
              /\ index' = Slots(after) /\ Complete' = Slots(after) /\ Whole' = Slots(after)
              /\ Rows' = after
              /\ \A r \in after : SlotOf(r) \in Slot /\ meta'[SlotOf(r)] = r
              /\ meta' \in [Slot -> Row \cup {None}]
              /\ chunk' \in [Slot -> [Chunk -> Frame \cup {None}]]
              /\ \A s \in Slot : Joined(s)' /\ (meta'[s] # None => SlotOf(meta'[s]) = s)
<1>1. TypeOK /\ FiledBySlot /\ Counted
  BY DEF IInv
<1>2. row \in Received
  BY <1>1, ArrivingType
<1> DEFINE RowIn(a, s) == CHOOSE r \in a : SlotOf(r) = s
<1>3. PICK after \in RetainState(Rows, row) :
         /\ index' = Slots(after)
         /\ meta' = [s \in Slot |-> IF s \in Slots(after) THEN RowIn(after, s) ELSE None]
         /\ chunk' = [s \in Slot |-> [i \in Chunk |->
               IF s \in Slots(after) /\ i \in Parts(RowIn(after, s))
               THEN RowIn(after, s).frame ELSE None]]
  BY DEF NodePut, Slots
<1>4. after \in SUBSET Row /\ OneEach(after)
  BY <1>1, <1>2, RowsFacts, RetainFacts
<1>5. \A s \in Slots(after) : RowIn(after, s) \in after /\ SlotOf(RowIn(after, s)) = s
  BY DEF Slots
<1>6. \A r \in after : RowIn(after, SlotOf(r)) = r
  BY <1>4, <1>5 DEF OneEach, Slots
<1> HIDE DEF RowIn
<1>7. \A r \in after : /\ SlotOf(r) \in Slot /\ r # None /\ r.frame \in Frame /\ r.frame # None
                       /\ Parts(r) \subseteq Chunk
  BY <1>4, RowFacts
<1>8. \A r \in after : /\ meta'[SlotOf(r)] = r /\ SlotOf(r) \in Slots(after)
                       /\ \A i \in Parts(r) : chunk'[SlotOf(r)][i] = r.frame
  BY <1>3, <1>6, <1>7 DEF Slots
<1>9. \A s \in Slot : \/ meta'[s] = None
                      \/ meta'[s] \in after /\ SlotOf(meta'[s]) = s
  BY <1>3, <1>5
<1>10. meta' \in [Slot -> Row \cup {None}]
  <2>1. \A s \in Slot : (IF s \in Slots(after) THEN RowIn(after, s) ELSE None) \in Row \cup {None}
    BY <1>4, <1>5
  <2>2. QED
    BY <1>3, <2>1
<1>11. chunk' \in [Slot -> [Chunk -> Frame \cup {None}]]
  <2>1. \A s \in Slots(after) : RowIn(after, s).frame \in Frame
    BY <1>5, <1>7
  <2>2. QED
    BY <1>3, <2>1
<1>12. \A s \in Slot : Joined(s)' /\ (meta'[s] # None => SlotOf(meta'[s]) = s)
  BY <1>8, <1>9 DEF Joined
<1>13. Complete' = Slots(after)
  <2>1. \A r \in after : SlotOf(r) \in Complete'
    BY <1>3, <1>7, <1>8 DEF Complete
  <2>2. Complete' \subseteq Slots(after)
    BY <1>3 DEF Complete
  <2>3. QED
    BY <2>1, <2>2 DEF Slots
<1>14. Whole' = Slots(after)
  BY <1>8, <1>13 DEF Whole, Slots
<1>15. Rows' = after
  BY <1>8, <1>13 DEF Rows, Slots
<1>16. QED
  BY <1>3, <1>7, <1>8, <1>10, <1>11, <1>12, <1>13, <1>14, <1>15

\* Node's transaction keeps the invariant.
LEMMA NodePutStep ==
    ASSUME IInv, NEW row \in Arriving, NodePut(row)
    PROVE  IInv'
<1>1. TypeOK /\ FiledBySlot /\ Counted
  BY DEF IInv
<1>2. row \in Received
  BY <1>1, ArrivingType
<1>3. PICK after \in RetainState(Rows, row) :
         /\ index' = Slots(after) /\ Complete' = Slots(after) /\ Whole' = Slots(after)
         /\ Rows' = after
         /\ \A r \in after : SlotOf(r) \in Slot /\ meta'[SlotOf(r)] = r
         /\ meta' \in [Slot -> Row \cup {None}]
         /\ chunk' \in [Slot -> [Chunk -> Frame \cup {None}]]
         /\ \A s \in Slot : Joined(s)' /\ (meta'[s] # None => SlotOf(meta'[s]) = s)
  BY NodePutRows
<1>4. /\ runtime = "node" /\ runtime' = runtime /\ now' = now /\ presence' = presence
      /\ put' = put /\ faults' = faults /\ cuts' = cuts
  BY DEF NodePut
<1>5. ~Running /\ ~Running' /\ Whole = Complete
  BY <1>4, NodeWhole DEF Running
<1>6. Rows \in SUBSET Row /\ IsFiniteSet(Rows) /\ OneEach(Rows)
  BY <1>1, RowsFacts
<1>7. /\ after \in SUBSET Row /\ IsFiniteSet(after)
      /\ Refused(Live(Rows), row) => after = Live(Rows)
      /\ ~Refused(Live(Rows), row) => Fits(after)
  BY <1>1, <1>2, <1>6, RetainFacts
<1>8. TypeOK'
  <2>1. index' \in SUBSET Slot
    BY <1>3 DEF Slots
  <2>2. QED
    BY <1>1, <1>3, <1>4, <2>1 DEF TypeOK, Running
<1>9. FiledBySlot'
  BY <1>3 DEF FiledBySlot
<1>10. Counted'
  <2>1. IsFiniteSet(Slots(after))
    <3> DEFINE f == [r \in after |-> SlotOf(r)]
    <3>1. {f[r] : r \in after} = Slots(after)
      BY DEF Slots
    <3> HIDE DEF f
    <3>2. QED
      BY <1>7, <3>1, FiniteRange
  <2>2. QED
    BY <1>1, <1>3, <1>4, <2>1 DEF Counted
<1>11. \A s \in Settled' : Sound(s)'
  <2>1. Settled' \subseteq Slot
    BY <1>5, <1>8 DEF Settled, TypeOK
  <2>2. \A s \in Slot : cuts'[s] = 0
    BY <1>1, <1>4 DEF Counted
  <2>3. QED
    BY <1>3, <2>1, <2>2 DEF Sound
<1>12. RoomLimits'
  <2>1. {meta[s] : s \in Whole}' = after
    BY <1>3 DEF Rows
  <2>2. CASE Refused(Live(Rows), row)
    <3>1. after \subseteq {meta[s] : s \in Whole}
      BY <1>5, <1>7, <2>2 DEF Live, Rows
    <3>2. QED
      BY <2>1, <3>1, LimitsKept
  <2>3. CASE ~Refused(Live(Rows), row)
    BY <1>7, <2>1, <2>3, LimitsOf
  <2>4. QED
    BY <2>2, <2>3
<1>13. QED
  BY <1>5, <1>8, <1>9, <1>10, <1>11, <1>12 DEF IInv

\* What a purge leaves of each slot.
LEMMA NodePurgeSlots ==
    ASSUME IInv, NodePurge
    PROVE  /\ index' \subseteq Complete
           /\ \A s \in Slot : IF s \in index' THEN meta'[s] = meta[s] /\ chunk'[s] = chunk[s]
                                              ELSE meta'[s] = None
           /\ \A s \in Complete : meta[s].expiresAt > now => s \in index'
<1>1. chunk \in [Slot -> [Chunk -> Frame \cup {None}]]
  BY DEF IInv, TypeOK
<1>2. \A s \in Slot : s \in index' => chunk'[s] = chunk[s]
  BY <1>1 DEF NodePurge
<1>3. QED
  BY <1>2 DEF NodePurge

\* A purge keeps the invariant.
LEMMA NodePurgeStep ==
    ASSUME IInv, NodePurge
    PROVE  IInv'
<1>1. TypeOK /\ FiledBySlot /\ Counted
  BY DEF IInv
<1>2. /\ index' \subseteq Complete
      /\ \A s \in Slot : IF s \in index' THEN meta'[s] = meta[s] /\ chunk'[s] = chunk[s]
                                         ELSE meta'[s] = None
  BY NodePurgeSlots
<1>3. /\ runtime = "node" /\ runtime' = runtime /\ now' = now /\ presence' = presence
      /\ put' = put /\ faults' = faults /\ cuts' = cuts
  BY DEF NodePurge
<1>4. ~Running /\ ~Running' /\ Whole = Complete
  BY <1>3, NodeWhole DEF Running
<1>5. index' \subseteq index /\ index' \subseteq Slot
  BY <1>1, <1>2 DEF Complete, TypeOK
<1>6. TypeOK'
  <2>1. meta' \in [Slot -> Row \cup {None}]
    BY <1>1 DEF NodePurge, TypeOK
  <2>2. chunk' \in [Slot -> [Chunk -> Frame \cup {None}]]
    BY <1>1 DEF NodePurge, TypeOK
  <2>3. QED
    BY <1>1, <1>3, <1>5, <2>1, <2>2 DEF TypeOK, Running
<1>7. FiledBySlot'
  BY <1>1, <1>2 DEF FiledBySlot
<1>8. Counted'
  BY <1>1, <1>3, <1>5, FS_Subset DEF Counted
<1>9. \A s \in Settled' : Sound(s)'
  BY <1>2, <1>3, <1>4, <1>5 DEF IInv, Settled, Sound, Joined, Partial
<1>10. RoomLimits'
  <2>1. \A s \in Whole' : s \in Whole /\ meta'[s] = meta[s]
    BY <1>2, <1>4, <1>5 DEF Whole, Complete
  <2>2. {meta[s] : s \in Whole}' \subseteq {meta[s] : s \in Whole}
    BY <2>1
  <2>3. QED
    BY <2>2, LimitsKept
<1>11. QED
  BY <1>4, <1>6, <1>7, <1>8, <1>9, <1>10 DEF IInv

-----------------------------------------------------------------------------
(* Presence and time *)

\* The presence record keeps its type and its limit; nothing else changes.
LEMMA NotePresenceStep ==
    ASSUME IInv, NEW device \in Device, NotePresence(device)
    PROVE  IInv'
<1> DEFINE keep == {x \in Seen : x.id # device /\ now < x.lastSeenAt + Ttl}
           others == Filter(presence, keep)
           rows == Append(others, [id |-> device, lastSeenAt |-> now])
<1>1. TypeOK /\ ~Running
  BY DEF IInv, NotePresence
<1>2. presence \in Seq(Seen) /\ now \in Nat
  BY <1>1, Limits DEF TypeOK
<1> HIDE DEF keep
<1>3. others \in Seq(Seen)
  BY <1>2, FilterKeeps
<1>4. [id |-> device, lastSeenAt |-> now] \in Seen
  BY <1>2 DEF Seen
<1> HIDE DEF others
<1>5. rows \in Seq(Seen) /\ Len(rows) \in Nat
  BY <1>3, <1>4
<1>6. presence' = IF Len(rows) <= PresenceLimit THEN rows
                  ELSE SubSeq(rows, Len(rows) - PresenceLimit + 1, Len(rows))
  BY DEF NotePresence, keep, others
<1> HIDE DEF rows
<1>7. presence' \in Seq(Seen) /\ Len(presence') <= PresenceLimit
  <2>1. CASE Len(rows) <= PresenceLimit
    BY <1>5, <1>6, <2>1
  <2>2. CASE ~(Len(rows) <= PresenceLimit)
    <3> DEFINE m == Len(rows) - PresenceLimit + 1
    <3>1. m \in 1..Len(rows) /\ Len(rows) \in 1..Len(rows)
      BY <1>5, <2>2, Limits
    <3>2. /\ SubSeq(rows, m, Len(rows)) \in Seq(Seen)
          /\ Len(SubSeq(rows, m, Len(rows))) = Len(rows) - m + 1
      BY <1>5, <3>1
    <3>3. Len(rows) - m + 1 = PresenceLimit
      BY <1>5, Limits
    <3>4. QED
      BY <1>6, <2>2, <3>2, <3>3, Limits
  <2>3. QED
    BY <2>1, <2>2
<1>8. /\ runtime' = runtime /\ now' = now /\ put' = put /\ faults' = faults /\ cuts' = cuts
      /\ index' = index /\ meta' = meta /\ chunk' = chunk
  BY DEF NotePresence, store
<1>9. TypeOK'
  BY <1>1, <1>7, <1>8 DEF TypeOK, Running
<1>10. FiledBySlot' /\ Counted' /\ ~Running'
  BY <1>1, <1>8 DEF IInv, FiledBySlot, Counted, Running
<1>11. \A s \in Settled' : Sound(s)'
  BY <1>1, <1>8 DEF IInv, Settled, Sound, Joined, Partial, Running
<1>12. RoomLimits'
  BY <1>8, LimitsKept DEF Whole, Complete
<1>13. QED
  BY <1>9, <1>10, <1>11, <1>12 DEF IInv

\* Time passes between puts only, so no plan is affected.
LEMMA TickStep ==
    ASSUME IInv, Tick
    PROVE  IInv'
<1>1. /\ ~Running /\ runtime' = runtime /\ now' = now + 1 /\ now <= MaxTime
      /\ presence' = presence /\ put' = put /\ faults' = faults /\ cuts' = cuts
      /\ index' = index /\ meta' = meta /\ chunk' = chunk
  BY DEF Tick, store
<1>2. TypeOK'
  <2>1. now' \in 1..(MaxTime + 1)
    BY <1>1, Limits DEF IInv, TypeOK
  <2>2. QED
    BY <1>1, <2>1 DEF IInv, TypeOK, Running
<1>3. FiledBySlot' /\ Counted' /\ ~Running'
  BY <1>1 DEF IInv, FiledBySlot, Counted, Running
<1>4. \A s \in Settled' : Sound(s)'
  BY <1>1 DEF IInv, Settled, Sound, Joined, Partial, Running
<1>5. RoomLimits'
  BY <1>1, LimitsKept DEF Whole, Complete
<1>6. QED
  BY <1>2, <1>3, <1>4, <1>5 DEF IInv

\* A step that changes nothing.
LEMMA StutterStep ==
    ASSUME IInv, UNCHANGED vars
    PROVE  IInv'
<1>1. /\ runtime' = runtime /\ now' = now
      /\ presence' = presence /\ put' = put /\ faults' = faults /\ cuts' = cuts
      /\ index' = index /\ meta' = meta /\ chunk' = chunk
  BY DEF vars, store
<1>2. TypeOK' /\ FiledBySlot' /\ Counted'
  BY <1>1 DEF IInv, TypeOK, FiledBySlot, Counted, Running
<1>3. Complete' = Complete /\ Whole' = Whole /\ Listed' = Listed /\ Settled' = Settled
  BY <1>1 DEF Complete, Whole, Listed, Settled, Running
<1>4. \A s \in Settled' : Sound(s)'
  BY <1>1, <1>3 DEF IInv, Sound, Joined, Partial
<1>5. RoomLimits'
  BY <1>1, <1>3, LimitsKept
<1>6. ASSUME Running PROVE PutInv'
  <2>1. PutInv
    BY <1>6 DEF IInv
  <2>2. Plan'
    BY <1>1, <1>6, PlanKept DEF Quiet
  <2>3. Progress' /\ Removing' /\ Adding' /\ Kept' /\ Readable' /\ Showing'
    BY <1>1, <1>3, <2>1
       DEF PutInv, Progress, Removing, Adding, Kept, Readable, Showing, Slots, Partial, Joined,
           Accepting
  <2>4. QED
    BY <2>2, <2>3 DEF PutInv
<1>7. QED
  BY <1>1, <1>2, <1>4, <1>5, <1>6 DEF IInv, Running

-----------------------------------------------------------------------------
(* Invariants *)

\* An empty room.
LEMMA InitInv ==
    ASSUME Init
    PROVE  IInv
<1>1. TypeOK
  <2>1. <<>> \in Seq(Seen) /\ Len(<<>>) = 0 /\ 1 \in 1..(MaxTime + 1)
    BY Limits
  <2>2. QED
    BY <2>1, Limits DEF Init, TypeOK, Running
<1>2. FiledBySlot /\ ~Running /\ Settled = {} /\ Whole = {}
  BY DEF Init, FiledBySlot, Running, Settled, Whole, Complete
<1>3. Counted
  BY FS_EmptySet DEF Init, Counted
<1>4. RoomLimits
  <2>1. {meta[s] : s \in Whole} = {}
    BY <1>2
  <2>2. {} \in SUBSET Row /\ IsFiniteSet({}) /\ Cardinality({}) = 0
    BY FS_EmptySet
  <2>3. Bytes({}) = 0
    <3>1. PICK g : IsSum(g, {}, [r \in {} |-> SizeOf(r)]) /\ Bytes({}) = g[{}]
      BY <2>2, BytesIsSum
    <3>2. QED
      BY <3>1 DEF IsSum
  <2>4. QED
    BY <2>1, <2>2, <2>3, Limits DEF RoomLimits
<1>5. QED
  BY <1>1, <1>2, <1>3, <1>4 DEF IInv

\* Every write of a put keeps the invariant.
LEMMA WriteStep ==
    ASSUME IInv, WorkerWrite
    PROVE  IInv'
<1>1. Running /\ Quiet
  BY DEF WorkerWrite, Quiet
<1>2. CASE \E r \in put.gone : RemoveChunk(r) \/ RemoveMeta(r)
  BY <1>1, <1>2, RemoveChunkStep, RemoveMetaStep
<1>3. CASE \E r \in put.fresh : AddChunk(r) \/ AddMeta(r)
  BY <1>1, <1>3, AddChunkStep, AddMetaStep
<1>4. CASE WriteIndex
  BY <1>1, <1>4, WriteIndexStep
<1>5. QED
  BY <1>2, <1>3, <1>4 DEF WorkerWrite

\* Every step does.
LEMMA NextStep ==
    ASSUME IInv, [Next]_vars
    PROVE  IInv'
<1>1. CASE \E row \in Arriving : NodePut(row)
  BY <1>1, NodePutStep
<1>2. CASE NodePurge
  BY <1>2, NodePurgeStep
<1>3. CASE \E row \in Arriving : WorkerPut(row)
  BY <1>3, WorkerPutStep
<1>4. CASE WorkerWrite
  BY <1>4, WriteStep
<1>5. CASE Fault
  BY <1>5, FaultStep
<1>6. CASE \E device \in Device : NotePresence(device)
  BY <1>6, NotePresenceStep
<1>7. CASE Tick
  BY <1>7, TickStep
<1>8. CASE UNCHANGED vars
  BY <1>8, StutterStep
<1>9. QED
  BY <1>1, <1>2, <1>3, <1>4, <1>5, <1>6, <1>7, <1>8 DEF Next

\* The invariant holds in every reachable state.
LEMMA Invariance == Spec => []IInv
<1>1. Init => IInv
  BY InitInv
<1>2. IInv /\ [Next]_vars => IInv'
  BY NextStep
<1>3. QED
  BY <1>1, <1>2, PTL DEF Spec

\* The stored rows, the presence record and the put that runs have their types
\* in every reachable state of both deployments (node.js, worker.js put).
THEOREM TypeCorrect == Spec => []TypeOK
<1>1. IInv => TypeOK
  BY DEF IInv
<1>2. QED
  BY <1>1, Invariance, PTL

\* The Worker's rows() joins chunks of two frames, or shows a frame under the
\* metadata of another, only after two puts of that slot in a row were cut
\* short (worker.js put, remove, rows).
THEOREM TornAfterTwoCuts == Spec => []TornOnlyAfterTwoCuts
<1>1. IInv => TornOnlyAfterTwoCuts
  BY IdleTorn
<1>2. QED
  BY <1>1, Invariance, PTL

\* The whole frames of a room stay within STATE_ROOM_SLOTS and
\* STATE_ROOM_BYTES through every write of a put and every fault
\* (policy.js retainState, worker.js put, node.js put).
THEOREM WholeWithinLimits == Spec => []RoomLimits
<1>1. IInv => RoomLimits
  BY DEF IInv
<1>2. QED
  BY <1>1, Invariance, PTL

-----------------------------------------------------------------------------
(* Evictions *)

\* Only its last write ends a put, if no fault does.
LEMMA PutEnds ==
    ASSUME IInv, [Next]_vars, Running, ~Running', faults' = faults
    PROVE  Quiet /\ WriteIndex
<1>1. put \in Put /\ runtime = "worker" /\ put' = None
  BY PutFacts DEF Running
<1>2. ~Fault
  <2>1. faults \in Nat
    BY Limits DEF IInv, TypeOK
  <2>2. QED
    BY <2>1 DEF Fault
<1>3. ~UNCHANGED vars
  BY DEF vars, Running
<1>4. WorkerWrite
  BY <1>1, <1>2, <1>3 DEF Next, NodePut, NodePurge, WorkerPut, NotePresence, Tick
<1>5. Quiet
  BY <1>4 DEF WorkerWrite, Quiet
<1>6. \A r \in put.gone \cup put.fresh : ~WriteChunk(r, None) /\ ~WriteChunk(r, r.frame)
  BY ChunkWritten
<1>7. ~\E r \in put.gone : RemoveChunk(r) \/ RemoveMeta(r)
  <2>1. ASSUME NEW r \in put.gone, RemoveMeta(r) PROVE FALSE
    <3>1. put' = [put EXCEPT !.gone = put.gone \ {r}, !.work = None, !.done = 0]
      BY <2>1 DEF RemoveMeta
    <3>2. put.gone \ {r} \in SUBSET Row /\ 0 \in 0..FrameBytes
      BY PutFacts, Limits
    <3>3. put' \in Put
      BY <1>1, <3>1, <3>2 DEF Put
    <3>4. QED
      BY <1>1, <3>3, NoneAssumption
  <2>2. QED
    BY <1>6, <2>1 DEF RemoveChunk
<1>8. ~\E r \in put.fresh : AddChunk(r) \/ AddMeta(r)
  <2>1. ASSUME NEW r \in put.fresh, AddMeta(r) PROVE FALSE
    <3>1. put' = [put EXCEPT !.fresh = put.fresh \ {r}, !.work = None, !.done = 0]
      BY <2>1 DEF AddMeta
    <3>2. put.fresh \ {r} \in SUBSET Row /\ 0 \in 0..FrameBytes
      BY PutFacts, Limits
    <3>3. put' \in Put
      BY <1>1, <3>1, <3>2 DEF Put
    <3>4. QED
      BY <1>1, <3>3, NoneAssumption
  <2>2. QED
    BY <1>6, <2>1 DEF AddChunk
<1>9. QED
  BY <1>4, <1>5, <1>7, <1>8 DEF WorkerWrite

\* A put that ends leaves its rows in order.
LEMMA EvictsStep ==
    ASSUME IInv, [Next]_vars
    PROVE  Evicts
<1>1. TypeOK /\ FiledBySlot /\ Counted
  BY DEF IInv
<1>2. ASSUME NEW row \in Arriving, NodePut(row), ~Refused(Live(Rows), row)
      PROVE  Ordered(Contenders(Rows, row), Rows')
  <2>1. row \in Received /\ Rows \in SUBSET Row /\ IsFiniteSet(Rows) /\ OneEach(Rows)
    BY <1>1, ArrivingType, RowsFacts
  <2>2. PICK after \in RetainState(Rows, row) : Rows' = after
    BY <1>2, NodePutRows
  <2>3. Ordered(Contenders(Rows, row), after)
    BY <1>1, <1>2, <2>1, RetainFacts
  <2>4. QED
    BY <2>2, <2>3
<1>3. ASSUME Running, ~Running', faults' = faults, ~Refused(Live(put.before), put.row)
      PROVE  Ordered(Contenders(put.before, put.row), Rows')
  <2>1. Quiet /\ WriteIndex
    BY <1>3, PutEnds
  <2>2. Rows' = put.after
    BY <1>3, <2>1, IndexWritten
  <2>3. /\ put.before \in SUBSET Row /\ IsFiniteSet(put.before) /\ OneEach(put.before)
        /\ put.row \in Received /\ put.after \in RetainState(put.before, put.row)
    BY <1>3, PutFacts DEF PutInv, Plan
  <2>4. Ordered(Contenders(put.before, put.row), put.after)
    BY <1>1, <1>3, <2>3, RetainFacts
  <2>5. QED
    BY <2>2, <2>4
<1>4. QED
  BY <1>2, <1>3 DEF Evicts

\* Whatever the rows, sizes and phones, a put that is not refused leaves whole
\* groups, catalogs before all others and of the rest those of the phones seen
\* last, whether it is Node's transaction or the Worker's row of writes
\* (policy.js retainState, evictionGroups).
THEOREM EvictsInOrder == Spec => EvictionOrder
<1>1. IInv /\ [Next]_vars => [Evicts]_vars
  BY EvictsStep
<1>2. QED
  BY <1>1, Invariance, PTL DEF Spec, EvictionOrder

-----------------------------------------------------------------------------
(* The abstract cache *)

\* What phones read, also while a put runs.
LEMMA ShownType == IInv => Shown \in [Slot -> Frame \cup {None}]
<1> SUFFICES ASSUME IInv PROVE Shown \in [Slot -> Frame \cup {None}]
  OBVIOUS
<1>1. CASE Running
  <2>1. put.shown \in [Slot -> Frame \cup {None}]
    BY <1>1, PutFacts DEF Put
  <2>2. QED
    BY <1>1, <2>1 DEF Shown
<1>2. CASE ~Running
  BY <1>2, ListedType DEF Shown, IInv
<1>3. QED
  BY <1>1, <1>2

\* Slots that only lose frames are a step of the cache.
LEMMA LoseStep ==
    ASSUME IInv, IInv', \A s \in Slot : Shown'[s] \in {None, Shown[s]}
    PROVE  Cache!Next
<1> DEFINE lost == {s \in Slot : Shown'[s] = None}
<1>1. (Shown \in [Slot -> Frame \cup {None}])'
  BY ShownType, PTL
<1>2. Shown' = [s \in Slot |-> IF s \in lost THEN None ELSE Shown[s]]
  BY <1>1
<1>3. lost \in SUBSET Slot
  OBVIOUS
<1> HIDE DEF lost
<1>4. Cache!Lose
  BY <1>2, <1>3 DEF Cache!Lose
<1>5. QED
  BY <1>4 DEF Cache!Next

\* So is a newer frame in one slot.
LEMMA ReplaceStep ==
    ASSUME IInv, IInv', NEW row \in Received,
           \A s \in Slot : \/ Shown'[s] \in {None, Shown[s]}
                           \/ s = SlotOf(row) /\ Shown'[s] = row.frame,
           Shown[SlotOf(row)] = None \/ Shown[SlotOf(row)].revision < row.frame.revision
    PROVE  Cache!Next
<1> DEFINE t == SlotOf(row)
           lost == {s \in Slot \ {t} : Shown'[s] = None}
<1>1. (Shown \in [Slot -> Frame \cup {None}])'
  BY ShownType, PTL
<1>2. t \in Slot /\ row.frame # None /\ row.frame.slot = t
  BY RowFacts DEF SlotOf
<1>3. CASE Shown'[t] \in {None, Shown[t]}
  BY <1>3, LoseStep
<1>4. CASE Shown'[t] = row.frame
  <2>1. Shown' = [r \in Slot |-> IF r = t THEN Shown'[t]
                                 ELSE IF r \in lost THEN None ELSE Shown[r]]
    BY <1>1
  <2>2. lost \in SUBSET (Slot \ {t})
    OBVIOUS
  <2> HIDE DEF lost
  <2>3. Cache!Newer(t, Shown'[t])
    BY <1>4 DEF Cache!Newer
  <2>4. Cache!Replace
    BY <1>2, <1>4, <2>1, <2>2, <2>3 DEF Cache!Replace
  <2>5. QED
    BY <2>4 DEF Cache!Next
<1>5. QED
  BY <1>2, <1>3, <1>4

\* A fault, or the last write, shows what the put has done so far.
LEMMA PutShown ==
    ASSUME IInv, IInv', Running, ~Running',
           \A s \in Slot : \/ Listed'[s] \in {None, put.shown[s]}
                           \/ s = SlotOf(put.row) /\ Accepting /\ Listed'[s] = put.row.frame
    PROVE  Cache!Next
<1>1. Shown = put.shown /\ Shown' = Listed'
  BY DEF Shown
<1>2. put.row \in Received /\ Showing
  BY PutFacts DEF PutInv
<1>3. CASE Accepting
  BY <1>1, <1>2, <1>3, ReplaceStep DEF Showing
<1>4. CASE ~Accepting
  BY <1>1, <1>4, LoseStep
<1>5. QED
  BY <1>3, <1>4

\* A write of a put is a step of the cache, or hidden from phones.
LEMMA WriteShown ==
    ASSUME IInv, IInv', WorkerWrite
    PROVE  [Cache!Next]_Shown
<1>1. Running /\ Quiet
  BY DEF WorkerWrite, Quiet
<1>2. CASE ~Running'
  <2>1. WriteIndex
    <3>1. faults' = faults
      BY <1>1 DEF Quiet
    <3>2. [Next]_vars
      BY DEF Next
    <3>3. QED
      BY <1>1, <1>2, <3>1, <3>2, PutEnds
  <2>2. ASSUME NEW s \in Slot
        PROVE  \/ Listed'[s] \in {None, put.shown[s]}
               \/ s = SlotOf(put.row) /\ Accepting /\ Listed'[s] = put.row.frame
    <3>1. CASE s \notin Whole'
      BY <3>1 DEF Listed
    <3>2. CASE s \in Whole'
      <4>1. s \in index'
        BY <3>2 DEF Whole, Complete
      <4>2. PICK r \in put.after :
               /\ SlotOf(r) = s /\ meta'[s] = r
               /\ r \in put.before => s \in index
               /\ r \notin put.before => r = put.row /\ Accepting
        BY <1>1, <2>1, <4>1, IndexWritten
      <4>3. CASE r \in put.before
        <5>1. meta' = meta /\ chunk' = chunk /\ now' = now
          BY <1>1, <2>1 DEF WriteIndex, Quiet
        <5>2. s \in Whole
          BY <3>2, <4>2, <4>3, <5>1 DEF Whole, Complete
        <5>3. Listed'[s] = Listed[s]
          BY <3>2, <5>1, <5>2 DEF Listed
        <5>4. QED
          BY <1>1, <5>3, PutFacts DEF PutInv, Showing
      <4>4. CASE r \notin put.before
        BY <4>2, <4>4 DEF Listed
      <4>5. QED
        BY <4>3, <4>4
    <3>3. QED
      BY <3>1, <3>2
  <2>3. QED
    BY <1>1, <1>2, <2>2, PutShown
<1>3. CASE Running'
  <2>1. put'.shown = put.shown
    <3>1. put \in Put
      BY <1>1, PutFacts
    <3>2. ~WriteIndex
      BY <1>3 DEF WriteIndex, Running
    <3>3. \A r, value : WriteChunk(r, value) => put'.shown = put.shown
      BY <3>1 DEF WriteChunk, Put
    <3>4. \A r : RemoveMeta(r) \/ AddMeta(r) => put'.shown = put.shown
      BY <3>1 DEF RemoveMeta, AddMeta, Put
    <3>5. QED
      BY <3>2, <3>3, <3>4 DEF WorkerWrite, RemoveChunk, AddChunk
  <2>2. Shown' = Shown
    BY <1>1, <1>3, <2>1 DEF Shown
  <2>3. QED
    BY <2>2
<1>4. QED
  BY <1>2, <1>3

\* So is Node's transaction.
LEMMA NodePutShown ==
    ASSUME IInv, IInv', NEW row \in Arriving, NodePut(row)
    PROVE  Cache!Next
<1>1. TypeOK /\ FiledBySlot /\ Counted
  BY DEF IInv
<1>2. row \in Received
  BY <1>1, ArrivingType
<1>3. PICK after \in RetainState(Rows, row) :
         /\ Whole' = Slots(after) /\ Rows' = after
         /\ \A r \in after : SlotOf(r) \in Slot /\ meta'[SlotOf(r)] = r
  BY NodePutRows
<1>4. runtime = "node" /\ now' = now /\ put' = put
  BY DEF NodePut
<1>5. Whole = Complete /\ Shown = Listed /\ Shown' = Listed'
  BY <1>4, NodeWhole DEF Shown, Running
<1>6. /\ Rows \in SUBSET Row /\ IsFiniteSet(Rows) /\ OneEach(Rows)
      /\ \A r \in Rows : SlotOf(r) \in Complete /\ meta[SlotOf(r)] = r
  BY <1>1, RowsFacts
<1>7. /\ after \subseteq Rows \cup {row}
      /\ \A r \in after : r.expiresAt > now
      /\ Refused(Live(Rows), row) => after = Live(Rows)
  BY <1>1, <1>2, <1>6, RetainFacts
<1>8. ASSUME NEW s \in Slot
      PROVE  \/ Listed'[s] \in {None, Listed[s]}
             \/ s = SlotOf(row) /\ row \in after /\ Listed'[s] = row.frame
  <2>1. CASE s \notin Slots(after)
    BY <1>3, <2>1 DEF Listed
  <2>2. CASE s \in Slots(after)
    <3>1. PICK r \in after : SlotOf(r) = s
      BY <2>2 DEF Slots
    <3>2. Listed'[s] = r.frame
      BY <1>3, <1>4, <1>7, <2>2, <3>1 DEF Listed
    <3>3. CASE r = row
      BY <3>1, <3>2, <3>3
    <3>4. CASE r \in Rows
      <4>1. s \in Whole /\ meta[s] = r
        BY <1>5, <1>6, <3>1, <3>4
      <4>2. Listed[s] = r.frame
        BY <1>7, <4>1 DEF Listed
      <4>3. QED
        BY <3>2, <4>2
    <3>5. QED
      BY <1>7, <3>3, <3>4
  <2>3. QED
    BY <2>1, <2>2
<1>9. CASE Refused(Live(Rows), row)
  <2>1. ASSUME NEW s \in Slot PROVE Listed'[s] \in {None, Listed[s]}
    <3>1. CASE s \notin Slots(after)
      BY <1>3, <3>1 DEF Listed
    <3>2. CASE s \in Slots(after)
      <4>1. PICK r \in after : SlotOf(r) = s
        BY <3>2 DEF Slots
      <4>2. Listed'[s] = r.frame /\ r \in Rows
        BY <1>3, <1>4, <1>7, <1>9, <3>2, <4>1 DEF Listed, Live
      <4>3. s \in Whole /\ meta[s] = r
        BY <1>5, <1>6, <4>1, <4>2
      <4>4. Listed[s] = r.frame
        BY <1>7, <4>3 DEF Listed
      <4>5. QED
        BY <4>2, <4>4
    <3>3. QED
      BY <3>1, <3>2
  <2>2. QED
    BY <1>5, <2>1, LoseStep
<1>10. CASE ~Refused(Live(Rows), row)
  <2>1. Listed[SlotOf(row)] = None \/ Listed[SlotOf(row)].revision < row.frame.revision
    BY <1>1, <1>2, <1>10, NewerThanListed
  <2>2. QED
    BY <1>2, <1>5, <1>8, <2>1, ReplaceStep
<1>11. QED
  BY <1>9, <1>10

\* Both stores, with the faults of the Worker's, implement the abstract cache:
\* what a phone can read in a slot passes only to a newer whole frame of that
\* slot or to nothing, and a put changes other slots only by evicting them
\* (node.js put and purge, worker.js put, remove and rows).
THEOREM ImplementsCache == Spec => ImplementsStateCache
<1>1. ASSUME Init PROVE Cache!Init
  <2>1. ~Running /\ Whole = {}
    BY <1>1 DEF Init, Running, Whole, Complete
  <2>2. QED
    BY <2>1 DEF Cache!Init, Shown, Listed
<1>2. ASSUME IInv, IInv', [Next]_vars PROVE [Cache!Next]_Shown
  <2>1. CASE \E row \in Arriving : NodePut(row)
    BY <1>2, <2>1, NodePutShown
  <2>2. CASE NodePurge
    <3>1. /\ index' \subseteq Complete
          /\ \A s \in Slot : IF s \in index' THEN meta'[s] = meta[s] /\ chunk'[s] = chunk[s]
                                             ELSE meta'[s] = None
      BY <1>2, <2>2, NodePurgeSlots
    <3>2. runtime = "node" /\ now' = now /\ put' = put
      BY <2>2 DEF NodePurge
    <3>3. Whole = Complete /\ Shown = Listed /\ Shown' = Listed'
      BY <1>2, <3>2, NodeWhole DEF Shown, Running
    <3>4. \A s \in Slot : s \in Whole' => s \in Whole /\ meta'[s] = meta[s]
      BY <3>1, <3>3 DEF Whole, Complete
    <3>5. \A s \in Slot : Listed'[s] \in {None, Listed[s]}
      BY <3>2, <3>4 DEF Listed
    <3>6. QED
      BY <1>2, <3>3, <3>5, LoseStep
  <2>3. CASE \E row \in Arriving : WorkerPut(row)
    <3>1. ~Running /\ Running' /\ put'.shown = Listed
      BY <1>2, <2>3, WorkerPutPlan DEF WorkerPut
    <3>2. Shown' = Shown
      BY <3>1 DEF Shown
    <3>3. QED
      BY <3>2
  <2>4. CASE WorkerWrite
    BY <1>2, <2>4, WriteShown
  <2>5. CASE Fault
    <3>1. /\ Running /\ ~Running' /\ now' = now
          /\ index' = index /\ meta' = meta /\ chunk' = chunk
      BY <2>5 DEF Fault, store, Running
    <3>2. Listed' = Listed
      BY <3>1 DEF Listed, Whole, Complete
    <3>3. Showing
      BY <1>2, <3>1, PutFacts DEF PutInv
    <3>4. QED
      BY <1>2, <3>1, <3>2, <3>3, PutShown DEF Showing
  <2>6. CASE \E device \in Device : NotePresence(device)
    <3>1. now' = now /\ put' = put /\ index' = index /\ meta' = meta /\ chunk' = chunk
      BY <2>6 DEF NotePresence, store
    <3>2. QED
      BY <3>1 DEF Shown, Listed, Whole, Complete, Running
  <2>7. CASE Tick
    <3>1. /\ ~Running /\ now' = now + 1 /\ put' = put
          /\ index' = index /\ meta' = meta /\ chunk' = chunk
      BY <2>7 DEF Tick, store
    <3>2. Shown = Listed /\ Shown' = Listed'
      BY <3>1 DEF Shown, Running
    <3>3. \A s \in Slot : Listed'[s] \in {None, Listed[s]}
      <4>1. Whole' = Whole
        BY <3>1 DEF Whole, Complete
      <4>2. \A s \in Whole : meta[s].expiresAt \in Nat /\ now \in Nat
        BY <1>2, RowFacts, Limits DEF IInv, TypeOK, Whole, Complete
      <4>3. \A s \in Whole : meta[s].expiresAt > now' => meta[s].expiresAt > now
        BY <3>1, <4>2
      <4>4. QED
        BY <3>1, <4>1, <4>3 DEF Listed
    <3>4. QED
      BY <1>2, <3>2, <3>3, LoseStep
  <2>8. CASE UNCHANGED vars
    BY <2>8 DEF vars, store, Shown, Listed, Whole, Complete, Running
  <2>9. QED
    BY <1>2, <2>1, <2>2, <2>3, <2>4, <2>5, <2>6, <2>7, <2>8 DEF Next
<1>3. QED
  BY <1>1, <1>2, Invariance, PTL DEF Spec, ImplementsStateCache, Cache!Spec
=============================================================================
