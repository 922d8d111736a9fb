------------------------- MODULE SocketPolicyProofs -------------------------
(***************************************************************************)
(* Proofs about SocketPolicy for any number of clients and identities and  *)
(* every limit.  A step changes the sockets and, on its own terms, the     *)
(* cool-down registry with its history, so the invariant has two parts:    *)
(* SocketInv, of the sockets alone, and CoolDownInv, which ties what the   *)
(* registry holds of an identity to what the identity was told.            *)
(***************************************************************************)
EXTENDS SocketPolicy, FiniteFacts, TLAPS

-----------------------------------------------------------------------------
(* Sockets *)

\* The timer of an open socket is its lease's.
TimersFollowLeases ==
    \A c \in Client : sock[c].phase = "open" => sock[c].timer = sock[c].lease

SocketInv ==
    /\ sock \in [Client -> Sock]
    /\ IsFiniteSet(InRoom)
    /\ RoomCapacity
    /\ TimersFollowLeases

LEMMA NoSockType == NoSock \in Sock /\ NoSock.phase = "none"
  BY DEF NoSock, Sock

\* Sockets of a room that nobody enters stay few.
LEMMA NobodyEnters ==
    ASSUME SocketInv, NEW S, S \subseteq InRoom
    PROVE  IsFiniteSet(S) /\ Cardinality(S) <= MaxRoomSockets
<1>1. IsFiniteSet(InRoom) /\ Cardinality(InRoom) <= MaxRoomSockets
  BY DEF SocketInv, RoomCapacity
<1>2. IsFiniteSet(S) /\ Cardinality(S) <= Cardinality(InRoom)
  BY <1>1, FS_Subset
<1>3. Cardinality(S) \in Nat /\ Cardinality(InRoom) \in Nat
  BY <1>1, <1>2, FS_CardinalityType
<1>4. QED
  BY <1>1, <1>2, <1>3, BoundAssumption

\* A step of one socket that does not open it.
LEMMA OneSocket ==
    ASSUME SocketInv, NEW c \in Client, NEW s \in Sock, sock' = [sock EXCEPT ![c] = s],
           s.phase = "open" => s.timer = s.lease,
           s.phase \in {"open", "closing"} => c \in InRoom
    PROVE  SocketInv'
<1>1. sock \in [Client -> Sock] /\ TimersFollowLeases
  BY DEF SocketInv
<1>2. sock' \in [Client -> Sock] /\ sock'[c] = s /\ \A d \in Client \ {c} : sock'[d] = sock[d]
  BY <1>1
<1>3. InRoom' \subseteq InRoom
  BY <1>2 DEF InRoom
<1>4. IsFiniteSet(InRoom') /\ Cardinality(InRoom') <= MaxRoomSockets
  BY <1>3, NobodyEnters
<1>5. TimersFollowLeases'
  BY <1>1, <1>2 DEF TimersFollowLeases
<1>6. QED
  BY <1>2, <1>4, <1>5 DEF SocketInv, RoomCapacity

\* A socket that is closed stays in the room until its close event.
LEMMA ClosingKeeps ==
    ASSUME SocketInv, NEW c \in Client, sock[c].phase = "open",
           NEW why \in {"policy", "cool-down", "admission", "admission-expired"},
           Closing(c, why)
    PROVE  SocketInv'
<1> DEFINE s == [sock[c] EXCEPT !.phase = "closing", !.why = why]
<1>1. sock \in [Client -> Sock] /\ sock[c] \in Sock
  BY DEF SocketInv
<1>2. s \in Sock /\ s.phase = "closing"
  BY <1>1 DEF Sock
<1>3. sock' = [sock EXCEPT ![c] = s]
  BY <1>1 DEF Closing
<1>4. c \in InRoom
  BY DEF InRoom
<1> HIDE DEF s
<1>5. QED
  BY <1>2, <1>3, <1>4, OneSocket

\* The room is counted again when the quota service has answered.
LEMMA AdmittedKeeps == ASSUME SocketInv, NEW c \in Client, Admitted(c) PROVE SocketInv'
<1> DEFINE s == [sock[c] EXCEPT !.phase = "open", !.timer = sock[c].lease]
<1>1. sock \in [Client -> Sock] /\ sock[c] \in Sock /\ IsFiniteSet(InRoom) /\ TimersFollowLeases
  BY DEF SocketInv
<1>2. sock' = [sock EXCEPT ![c] = IF HasRoom THEN s ELSE NoSock]
  BY <1>1 DEF Admitted
<1>3. CASE ~HasRoom
  BY <1>2, <1>3, NoSockType, OneSocket
<1>4. CASE HasRoom
  <2>1. s \in Sock /\ s.phase = "open" /\ s.timer = s.lease
    BY <1>1 DEF Sock
  <2>2. sock' = [sock EXCEPT ![c] = s]
    BY <1>2, <1>4
  <2> HIDE DEF s
  <2>3. sock' \in [Client -> Sock] /\ sock'[c] = s /\ \A d \in Client \ {c} : sock'[d] = sock[d]
    BY <1>1, <2>1, <2>2
  <2>4. InRoom' = InRoom \cup {c} /\ c \notin InRoom
    BY <2>1, <2>3 DEF InRoom, Admitted
  <2>5. IsFiniteSet(InRoom') /\ Cardinality(InRoom') = Cardinality(InRoom) + 1
    BY <1>1, <2>4, FS_AddElement
  <2>6. Cardinality(InRoom) \in Nat /\ Cardinality(InRoom) < MaxRoomSockets
    BY <1>1, <1>4, FS_CardinalityType DEF HasRoom
  <2>7. Cardinality(InRoom') <= MaxRoomSockets
    BY <2>5, <2>6, BoundAssumption
  <2>8. TimersFollowLeases'
    BY <1>1, <2>1, <2>3 DEF TimersFollowLeases
  <2>9. QED
    BY <2>3, <2>5, <2>7, <2>8 DEF SocketInv, RoomCapacity
<1>5. QED
  BY <1>3, <1>4

\* Time passes for leases and timers alike.
LEMMA TickKeeps == ASSUME SocketInv, Tick PROVE SocketInv'
<1>1. sock \in [Client -> Sock] /\ TimersFollowLeases
  BY DEF SocketInv
<1>2. ASSUME NEW c \in Client
      PROVE  /\ sock'[c] \in Sock /\ sock'[c].phase = sock[c].phase
             /\ sock'[c].phase = "open" => sock'[c].timer = sock'[c].lease
  <2> DEFINE l == Down(sock[c].lease)
             t == Down(sock[c].timer)
  <2>1. sock[c] \in Sock
    BY <1>1, <1>2
  <2>2. sock[c].lease \in Nat /\ sock[c].timer \in Nat
    BY <2>1 DEF Sock
  <2>3. l \in Nat /\ t \in Nat
    BY <2>2 DEF Down
  <2>4. sock'[c] = [sock[c] EXCEPT !.lease = l, !.timer = t]
    BY <1>2 DEF Tick
  <2>5. sock[c].phase = "open" => l = t
    BY <1>1, <1>2 DEF TimersFollowLeases
  <2> HIDE DEF l, t
  <2>6. sock'[c] \in Sock /\ sock'[c].phase = sock[c].phase
        /\ sock'[c].lease = l /\ sock'[c].timer = t
    BY <2>1, <2>3, <2>4 DEF Sock
  <2>7. QED
    BY <2>5, <2>6
<1>3. sock' = [c \in Client |-> sock'[c]]
  BY DEF Tick
<1>4. sock' \in [Client -> Sock]
  BY <1>2, <1>3
<1>5. InRoom' \subseteq InRoom
  BY <1>2 DEF InRoom
<1>6. IsFiniteSet(InRoom') /\ Cardinality(InRoom') <= MaxRoomSockets
  BY <1>5, NobodyEnters
<1>7. QED
  BY <1>2, <1>4, <1>6 DEF SocketInv, RoomCapacity, TimersFollowLeases

LEMMA SocketStep == ASSUME SocketInv, [Next]_vars PROVE SocketInv'
<1>0. sock \in [Client -> Sock] /\ TimersFollowLeases
  BY DEF SocketInv
<1>1. ASSUME NEW c \in Client, NEW managed \in BOOLEAN, NEW life \in Lives, Upgrade(c, managed, life)
      PROVE  SocketInv'
  <2> DEFINE s == [NoSock EXCEPT !.phase = "admitting",
                      !.managed = managed, !.lease = IF managed THEN life ELSE 0]
  <2>1. life \in Nat
    BY BoundAssumption
  <2>2. s \in Sock /\ s.phase = "admitting"
    BY <2>1 DEF NoSock, Sock
  <2>3. sock' = sock \/ sock' = [sock EXCEPT ![c] = s]
    BY <1>1 DEF Upgrade
  <2> HIDE DEF s
  <2>4. CASE sock' = sock
    BY <2>4 DEF SocketInv, InRoom, RoomCapacity, TimersFollowLeases
  <2>5. CASE sock' = [sock EXCEPT ![c] = s]
    BY <2>2, <2>5, OneSocket
  <2>6. QED
    BY <2>3, <2>4, <2>5
<1>2. ASSUME NEW c \in Client, Admitted(c) PROVE SocketInv'
  BY <1>2, AdmittedKeeps
<1>3. ASSUME NEW c \in Client, NotAdmitted(c) \/ Closed(c) PROVE SocketInv'
  BY <1>3, NoSockType, OneSocket DEF NotAdmitted, Closed
<1>4. ASSUME NEW c \in Client, FirstFrame(c) PROVE SocketInv'
  <2> DEFINE s == [sock[c] EXCEPT !.spoke = TRUE]
  <2>1. sock[c] \in Sock
    BY <1>0
  <2>2. s \in Sock /\ s.phase = "open" /\ s.timer = sock[c].timer /\ s.lease = sock[c].lease
    BY <1>4, <2>1 DEF Sock, FirstFrame
  <2>3. sock' = [sock EXCEPT ![c] = s]
    BY <1>0, <1>4 DEF FirstFrame
  <2>4. c \in InRoom /\ sock[c].timer = sock[c].lease
    BY <1>0, <1>4 DEF InRoom, FirstFrame, TimersFollowLeases
  <2> HIDE DEF s
  <2>5. QED
    BY <2>2, <2>3, <2>4, OneSocket
<1>5. ASSUME NEW c \in Client,
             RefuseFirstFrame(c) \/ UnadmittedFrame(c) \/ Abuse(c) \/ RejectRenewal(c)
                 \/ TimerFires(c)
      PROVE  SocketInv'
  BY <1>5, ClosingKeeps
     DEF RefuseFirstFrame, UnadmittedFrame, Abuse, RejectRenewal, TimerFires
<1>6. ASSUME NEW c \in Client, NEW life \in Lives, Renew(c, life) PROVE SocketInv'
  <2> DEFINE s == Armed(c, life)
  <2>1. sock[c] \in Sock /\ life \in Nat
    BY <1>0, BoundAssumption
  <2>2. s \in Sock /\ s.phase = sock[c].phase /\ s.timer = s.lease
    BY <2>1 DEF Sock, Armed
  <2>3. sock' = [sock EXCEPT ![c] = s] /\ c \in InRoom
    BY <1>6 DEF Renew, InRoom
  <2> HIDE DEF s
  <2>4. QED
    BY <2>2, <2>3, OneSocket
<1>7. ASSUME Restart PROVE SocketInv'
  <2>1. sock' \in [Client -> Sock] /\ \A c \in Client : sock'[c].phase = "none"
    BY <1>7, NoSockType DEF Restart
  <2>2. InRoom' \subseteq InRoom
    BY <2>1 DEF InRoom
  <2>3. IsFiniteSet(InRoom') /\ Cardinality(InRoom') <= MaxRoomSockets
    BY <2>2, NobodyEnters
  <2>4. QED
    BY <2>1, <2>3 DEF SocketInv, RoomCapacity, TimersFollowLeases
<1>8. ASSUME Tick PROVE SocketInv'
  BY <1>8, TickKeeps
<1>9. ASSUME UNCHANGED vars PROVE SocketInv'
  BY <1>9 DEF vars, SocketInv, InRoom, RoomCapacity, TimersFollowLeases
<1>10. QED
  BY <1>1, <1>2, <1>3, <1>4, <1>5, <1>6, <1>7, <1>8, <1>9 DEF Next

LEMMA SocketInit == ASSUME Init PROVE SocketInv
<1>1. sock \in [Client -> Sock] /\ \A c \in Client : sock[c].phase = "none"
  BY NoSockType DEF Init
<1>2. InRoom = {}
  BY <1>1 DEF InRoom
<1>3. IsFiniteSet(InRoom) /\ Cardinality(InRoom) = 0
  BY <1>2, FS_EmptySet
<1>4. QED
  BY <1>1, <1>3, BoundAssumption DEF SocketInv, RoomCapacity, TimersFollowLeases

LEMMA SocketAlways == Spec => []SocketInv
  BY SocketInit, SocketStep, PTL DEF Spec

\* However many upgrades await the quota service at once, and whatever the
\* number of clients, the room holds at most MaxRoomSockets sockets
\* (server.js counts the room before and again after the await).
THEOREM RoomIsBounded == Spec => []RoomCapacity
<1>1. SocketInv => RoomCapacity
  BY DEF SocketInv
<1>2. QED
  BY <1>1, SocketAlways, PTL

\* Only a lease that has run out, renewals included, closes a socket as expired
\* (the admissionTimer is armed anew by every renewal).
THEOREM ExpiryFollowsLease == Spec => OnlyLapsedLeasesExpire
<1> DEFINE A == \A c \in Client :
                  sock'[c].why = "admission-expired" /\ sock[c].why # "admission-expired" =>
                      sock[c].lease = 0
<1>1. ASSUME SocketInv, [Next]_vars PROVE A
  <2> SUFFICES ASSUME NEW c \in Client, sock'[c].why = "admission-expired",
                      sock[c].why # "admission-expired"
               PROVE  sock[c].lease = 0
    OBVIOUS
  <2>0. sock \in [Client -> Sock] /\ TimersFollowLeases
    BY <1>1 DEF SocketInv
  <2>a. NoSock.why = ""
    BY DEF NoSock
  <2>b. sock[c] \in Sock
    BY <2>0
  <2>1. ASSUME NEW d \in Client, TimerFires(d) PROVE sock[c].lease = 0
    <3>1. CASE c = d
      BY <2>0, <2>1, <3>1 DEF TimerFires, TimersFollowLeases
    <3>2. CASE c # d
      BY <2>0, <2>1, <3>2 DEF TimerFires, Closing
    <3>3. QED
      BY <3>1, <3>2
  <2>2. ASSUME NEW d \in Client, NEW why \in {"policy", "cool-down", "admission"}, Closing(d, why)
        PROVE  FALSE
    <3>1. CASE c = d
      <4>1. sock'[c] = [sock[c] EXCEPT !.phase = "closing", !.why = why]
        BY <2>0, <2>2, <3>1 DEF Closing
      <4>2. sock'[c].why = why
        BY <2>b, <4>1 DEF Sock
      <4>3. QED
        BY <4>2
    <3>2. CASE c # d
      BY <2>0, <2>2, <3>2 DEF Closing
    <3>3. QED
      BY <3>1, <3>2
  <2>3. ASSUME NEW d \in Client, NEW s, s.why = "" \/ s.why = sock[d].why,
               sock' = [sock EXCEPT ![d] = s]
        PROVE  FALSE
    BY <2>0, <2>3
  <2>4. ASSUME Tick PROVE FALSE
    <3>1. sock'[c] = [sock[c] EXCEPT !.lease = Down(@), !.timer = Down(@)]
      BY <2>4 DEF Tick
    <3>2. sock'[c].why = sock[c].why
      BY <2>b, <3>1 DEF Sock
    <3>3. QED
      BY <3>2
  <2>5. ASSUME Restart PROVE FALSE
    BY <2>5, <2>a DEF Restart
  <2>6. ASSUME NEW d \in Client, NEW managed \in BOOLEAN, NEW life \in Lives,
               Upgrade(d, managed, life)
        PROVE  FALSE
    <3> DEFINE s == [NoSock EXCEPT !.phase = "admitting",
                        !.managed = managed, !.lease = IF managed THEN life ELSE 0]
    <3>1. s.why = ""
      BY DEF NoSock
    <3>2. sock' = sock \/ sock' = [sock EXCEPT ![d] = s]
      BY <2>6 DEF Upgrade
    <3> HIDE DEF s
    <3>3. QED
      BY <2>3, <3>1, <3>2
  <2>7. ASSUME NEW d \in Client, NotAdmitted(d) \/ Closed(d) PROVE FALSE
    BY <2>3, <2>7, <2>a DEF NotAdmitted, Closed
  <2>8. ASSUME NEW d \in Client, Admitted(d) PROVE FALSE
    <3> DEFINE s == [sock[d] EXCEPT !.phase = "open", !.timer = sock[d].lease]
    <3>1. sock[d] \in Sock
      BY <2>0
    <3>2. s.why = sock[d].why
      BY <3>1 DEF Sock
    <3>3. sock' = [sock EXCEPT ![d] = s] \/ sock' = [sock EXCEPT ![d] = NoSock]
      BY <2>0, <2>8 DEF Admitted
    <3> HIDE DEF s
    <3>4. QED
      BY <2>3, <2>a, <3>2, <3>3
  <2>9. ASSUME NEW d \in Client, FirstFrame(d) PROVE FALSE
    <3> DEFINE s == [sock[d] EXCEPT !.spoke = TRUE]
    <3>1. sock[d] \in Sock
      BY <2>0
    <3>2. s.why = sock[d].why
      BY <3>1 DEF Sock
    <3>3. sock' = [sock EXCEPT ![d] = s]
      BY <2>0, <2>9 DEF FirstFrame
    <3> HIDE DEF s
    <3>4. QED
      BY <2>3, <3>2, <3>3
  <2>10. ASSUME NEW d \in Client, NEW life \in Lives, Renew(d, life) PROVE FALSE
    <3>1. sock[d] \in Sock
      BY <2>0
    <3>2. Armed(d, life).why = sock[d].why
      BY <3>1 DEF Sock, Armed
    <3>3. QED
      BY <2>3, <2>10, <3>2 DEF Renew
  <2>11. ASSUME NEW d \in Client,
                RefuseFirstFrame(d) \/ UnadmittedFrame(d) \/ Abuse(d) \/ RejectRenewal(d)
         PROVE  FALSE
    BY <2>2, <2>11 DEF RefuseFirstFrame, UnadmittedFrame, Abuse, RejectRenewal
  <2>12. ASSUME UNCHANGED vars PROVE FALSE
    BY <2>12 DEF vars
  <2>13. QED
    BY <1>1, <2>1, <2>4, <2>5, <2>6, <2>7, <2>8, <2>9, <2>10, <2>11, <2>12 DEF Next
<1>2. QED
  <2>1. SocketInv /\ [Next]_vars => [A]_vars
    BY <1>1
  <2>2. QED
    BY <2>1, SocketAlways, PTL DEF Spec, OnlyLapsedLeasesExpire

-----------------------------------------------------------------------------
(* Lists of entries *)

\* Entries of different identities.
EntriesOK(es) ==
    es \in Seq(Entry) /\ \A x, y \in DOMAIN es : es[x].id = es[y].id => x = y

\* No two entries of one identity: none is ahead of another.
LEMMA DistinctIds ==
    ASSUME NEW es \in Seq(Entry)
    PROVE  EntriesOK(es) <=> \A x, y \in Entry : Ahead(es, x, y) => x.id # y.id
<1> DEFINE n == Len(es)
<1>1. n \in Nat /\ DOMAIN es = 1..n /\ \A k \in 1..n : es[k] \in Entry
  OBVIOUS
<1>2. ASSUME EntriesOK(es), NEW x, NEW y, Ahead(es, x, y) PROVE x.id # y.id
  <2>1. PICK j \in 1..n, k \in 1..n : j < k /\ es[j] = x /\ es[k] = y
    BY <1>2 DEF Ahead
  <2>2. j # k
    BY <1>1, <2>1
  <2>3. QED
    BY <1>1, <1>2, <2>1, <2>2 DEF EntriesOK
<1>3. ASSUME \A x, y \in Entry : Ahead(es, x, y) => x.id # y.id PROVE EntriesOK(es)
  <2>1. ASSUME NEW j \in 1..n, NEW k \in 1..n, es[j].id = es[k].id PROVE j = k
    <3>1. j < k => Ahead(es, es[j], es[k])
      BY DEF Ahead
    <3>2. k < j => Ahead(es, es[k], es[j])
      BY DEF Ahead
    <3>3. ~(j < k) /\ ~(k < j)
      BY <1>1, <1>3, <2>1, <3>1, <3>2
    <3>4. QED
      BY <1>1, <3>3
  <2>2. QED
    BY <1>1, <2>1 DEF EntriesOK
<1>4. QED
  BY <1>2, <1>3

\* fs is es without the entries that keep does not have.
Thin(es, fs, keep) ==
    /\ EntriesOK(fs) /\ Len(fs) <= Len(es)
    /\ \A x \in Entry : Has(fs, x) <=> Has(es, x) /\ x \in keep
    /\ \A x, y \in Entry : Ahead(fs, x, y) => Ahead(es, x, y)

LEMMA FilterThins ==
    ASSUME NEW es, EntriesOK(es), NEW keep
    PROVE  Thin(es, Filter(es, keep), keep)
<1>1. es \in Seq(Entry)
  BY DEF EntriesOK
<1>2. /\ Filter(es, keep) \in Seq(Entry) /\ Len(Filter(es, keep)) <= Len(es)
      /\ \A x : Has(Filter(es, keep), x) <=> Has(es, x) /\ x \in keep
      /\ \A x, y : Ahead(Filter(es, keep), x, y) => Ahead(es, x, y)
  BY <1>1, FilterKeeps
<1>3. EntriesOK(Filter(es, keep))
  BY <1>1, <1>2, DistinctIds
<1>4. QED
  BY <1>2, <1>3 DEF Thin

\* Thinning twice, not at all, or with another description of what stays.
LEMMA ThinTwice ==
    ASSUME NEW es, NEW fs, NEW gs, NEW K, NEW L, Thin(es, fs, K), Thin(fs, gs, L),
           EntriesOK(es)
    PROVE  Thin(es, gs, K \cap L)
<1>1. Len(es) \in Nat /\ Len(fs) \in Nat /\ Len(gs) \in Nat
  BY DEF Thin, EntriesOK
<1>2. Len(gs) <= Len(es)
  BY <1>1 DEF Thin
<1>3. QED
  BY <1>2 DEF Thin

LEMMA ThinSame ==
    ASSUME NEW es, EntriesOK(es), NEW K, \A x \in Entry : Has(es, x) => x \in K
    PROVE  Thin(es, es, K)
  BY DEF Thin, EntriesOK

LEMMA ThinAgain ==
    ASSUME NEW es, NEW fs, NEW K, Thin(es, fs, K), NEW L,
           \A x \in Entry : Has(es, x) => (x \in K <=> x \in L)
    PROVE  Thin(es, fs, L)
  BY DEF Thin

\* The entry of an identity.
LEMMA EntryIs ==
    ASSUME NEW es, EntriesOK(es), NEW x, Has(es, x)
    PROVE  x \in Entry /\ Struck(es, x.id) /\ EntryOf(es, x.id) = x
<1>1. PICK k \in 1..Len(es) : es[k] = x
  BY DEF Has
<1>2. k \in DOMAIN es /\ x \in Entry
  BY <1>1 DEF EntriesOK
<1>3. \A l \in DOMAIN es : es[l].id = x.id => l = k
  BY <1>1, <1>2 DEF EntriesOK
<1>4. (CHOOSE l \in DOMAIN es : es[l].id = x.id) = k
  BY <1>1, <1>2, <1>3
<1>5. QED
  BY <1>1, <1>2, <1>4 DEF Struck, EntryOf

LEMMA StruckEntry ==
    ASSUME NEW es, EntriesOK(es), NEW i, Struck(es, i)
    PROVE  Has(es, EntryOf(es, i)) /\ EntryOf(es, i) \in Entry /\ EntryOf(es, i).id = i
<1>1. PICK k \in 1..Len(es) : es[k].id = i
  BY DEF Struck, EntriesOK
<1>2. Has(es, es[k])
  BY DEF Has
<1>3. EntryOf(es, i) = es[k]
  BY <1>1, <1>2, EntryIs
<1>4. QED
  BY <1>1, <1>2, <1>3, EntryIs

NotOf(i) == {x \in Entry : x.id # i}

\* The entries a look-up for i leaves.
Stays(i, admitted) ==
    {x \in Entry : x.id = i => ~(admitted /\ x.admissionOnly) /\ ~Quiet(x.left)}

LEMMA LookedThins ==
    ASSUME NEW es, EntriesOK(es), NEW i, NEW admitted \in BOOLEAN
    PROVE  Thin(es, Looked(es, i, admitted), Stays(i, admitted))
<1> DEFINE gone == /\ Struck(es, i)
                   /\ (admitted /\ EntryOf(es, i).admissionOnly) \/ Quiet(EntryOf(es, i).left)
<1>1. CASE gone
  <2>1. Looked(es, i, admitted) = Filter(es, NotOf(i))
    BY <1>1 DEF Looked, Drop, NotOf
  <2>2. \A x \in Entry : Has(es, x) => (x \in NotOf(i) <=> x \in Stays(i, admitted))
    BY <1>1, EntryIs DEF NotOf, Stays
  <2>3. Thin(es, Filter(es, NotOf(i)), NotOf(i))
    BY FilterThins
  <2>4. QED
    BY <2>1, <2>2, <2>3, ThinAgain
<1>2. CASE ~gone
  <2>1. Looked(es, i, admitted) = es
    BY <1>2 DEF Looked
  <2>2. \A x \in Entry : Has(es, x) => x \in Stays(i, admitted)
    BY <1>2, EntryIs DEF Stays
  <2>3. QED
    BY <2>1, <2>2, ThinSame
<1>3. QED
  BY <1>1, <1>2

-----------------------------------------------------------------------------
(* The cool-down registry *)

HistoryType ==
    /\ announced \in [Identity -> Span]
    /\ rude \in [Identity -> BOOLEAN]
    /\ others \in [Identity -> SUBSET Identity]
    /\ \A i \in Identity : IsFiniteSet(others[i])

\* An entry a lease does not clear records abuse, with the backoff told.
AbuseOnRecord ==
    \A x \in Entry : Has(entries, x) /\ ~Quiet(x.left) /\ ~x.admissionOnly =>
        rude[x.id] /\ announced[x.id] = x.left

\* Abuse is remembered as long as the identity is not quiet.
AbuseIsRecent == \A i \in Identity : rude[i] => ~Quiet(announced[i])

\* What entry x says of the identity it is of.
Tells(x, i, left, abused) == x.id = i /\ x.left = left /\ x.admissionOnly = ~abused

\* The registry has what an identity was told, unless it may have been evicted.
ToldIsOnRecord ==
    \A i \in Identity : ~Crowded(i) /\ ~Quiet(announced[i]) =>
        \E x \in Entry : Has(entries, x) /\ Tells(x, i, announced[i], rude[i])

\* The registry is in the order of the strikes.
InOrder ==
    \A x, y \in Entry : Ahead(entries, x, y) =>
        y.id \in others[x.id] \/ Quiet(announced[x.id])

CoolDownInv ==
    /\ EntriesOK(entries) /\ Len(entries) <= MaxEntries
    /\ HistoryType
    /\ AbuseOnRecord
    /\ AbuseIsRecent
    /\ ToldIsOnRecord
    /\ InOrder

\* The limits, one by one.
LEMMA Limits ==
    /\ MaxEntries \in Nat /\ MaxEntries > 0 /\ Base \in Nat /\ Base > 0
    /\ MaxBackoff \in Nat /\ MaxBackoff >= Base /\ Reset \in Nat
    /\ Forgotten \in Int /\ Forgotten \in Span /\ Quiet(Forgotten)
    /\ \A t \in Span : t \in Int
  BY BoundAssumption DEF Forgotten, Span, Quiet

\* Look-ups, and the forgiveness a lease brings.
LEMMA ForgiveKeeps ==
    ASSUME CoolDownInv, NEW ids, NEW admitted \in BOOLEAN, Forgive(ids, admitted),
           NEW K, Thin(entries, entries', K),
           \A x \in Entry : x \notin K =>
               Quiet(x.left) \/ (admitted /\ x.admissionOnly /\ x.id \in ids)
    PROVE  CoolDownInv'
<1>1. rude' = rude /\ others' = others
      /\ announced' = [i \in Identity |-> IF admitted /\ i \in ids /\ ~rude[i]
                                          THEN Forgotten ELSE announced[i]]
  BY DEF Forgive
<1>2. EntriesOK(entries') /\ Len(entries') <= MaxEntries
  <2>1. Len(entries) \in Nat /\ Len(entries') \in Nat
    BY DEF CoolDownInv, Thin, EntriesOK
  <2>2. QED
    BY <2>1, Limits DEF CoolDownInv, Thin
<1>3. HistoryType'
  BY <1>1, Limits DEF CoolDownInv, HistoryType
<1>4. \A i \in Identity : /\ announced'[i] = announced[i] \/ (~rude[i] /\ Quiet(announced'[i]))
                          /\ admitted /\ i \in ids /\ ~rude[i] => Quiet(announced'[i])
  BY <1>1, Limits
<1>a. \A x \in Entry : x.id \in Identity
  BY DEF Entry
<1>5. AbuseOnRecord'
  BY <1>1, <1>4, <1>a DEF CoolDownInv, AbuseOnRecord, Thin
<1>6. AbuseIsRecent'
  BY <1>1, <1>4 DEF CoolDownInv, AbuseIsRecent
<1>7. ToldIsOnRecord'
  <2> SUFFICES ASSUME NEW i \in Identity, ~Crowded(i), ~Quiet(announced'[i])
               PROVE  \E x \in Entry : Has(entries', x) /\ Tells(x, i, announced'[i], rude[i])
    BY <1>1 DEF ToldIsOnRecord, Crowded
  <2>1. announced'[i] = announced[i] /\ ~(admitted /\ i \in ids /\ ~rude[i])
    BY <1>4
  <2>2. PICK x \in Entry : Has(entries, x) /\ Tells(x, i, announced[i], rude[i])
    BY <2>1 DEF CoolDownInv, ToldIsOnRecord
  <2>3. x \in K
    BY <2>1, <2>2 DEF Tells
  <2>4. QED
    BY <2>1, <2>2, <2>3 DEF Thin
<1>8. InOrder'
  <2> SUFFICES ASSUME NEW x \in Entry, NEW y \in Entry, Ahead(entries', x, y)
               PROVE  y.id \in others[x.id] \/ Quiet(announced'[x.id])
    BY <1>1 DEF InOrder
  <2>1. Ahead(entries, x, y)
    BY DEF Thin
  <2>2. QED
    BY <1>4, <1>a, <2>1 DEF CoolDownInv, InOrder
<1>9. QED
  BY <1>2, <1>3, <1>5, <1>6, <1>7, <1>8 DEF CoolDownInv

\* Powers of two are positive.
LEMMA TwoToType == TwoTo \in [0 .. MaxBackoff -> Nat \ {0}]
<1> DEFINE N == MaxBackoff
           V == Nat \ {0}
           F == [m \in 1..N |-> [v \in V |-> 2 * v]]
           Solves(g) == g = [n \in 0 .. N |-> IF n = 0 THEN 1 ELSE 2 * g[n - 1]]
           f == CHOOSE g : Solves(g)
<1>1. N \in Nat /\ 1 \in V
  BY Limits
<1>2. F \in [1..N -> [V -> V]]
  OBVIOUS
<1>3. PICK g \in [0..N -> V] : Follows(g, 1, F, N)
  <2> HIDE DEF N, V, F
  <2>1. QED
    BY <1>1, <1>2, RecursionExists
<1>4. g[0] = 1 /\ \A m \in 1..N : g[m] = 2 * g[m - 1]
  <2>1. \A m \in 1..N : m - 1 \in 0..N
    BY <1>1
  <2> HIDE DEF N
  <2>2. \A m \in 1..N : g[m] = F[m][g[m - 1]] /\ g[m - 1] \in V
    BY <1>3, <2>1 DEF Follows
  <2>3. QED
    BY <1>3, <2>2 DEF Follows
<1>5. Solves(g)
  <2>1. \A m \in 0..N : m = 0 \/ m \in 1..N
    BY <1>1
  <2>2. \A m \in 1..N : m # 0
    BY <1>1
  <2> HIDE DEF N, V, F
  <2>3. QED
    BY <1>4, <2>1, <2>2
<1>6. Solves(f)
  <2> HIDE DEF Solves
  <2>1. QED
    BY <1>5
<1>7. TwoTo = f
  BY DEF TwoTo
<1> HIDE DEF f
<1>8. DOMAIN f = 0..N /\ \A n \in 0..N : f[n] = IF n = 0 THEN 1 ELSE 2 * f[n - 1]
  BY <1>6
<1>9. \A n \in Nat : n <= N => f[n] \in V
  <2> DEFINE I == {n \in Nat : n <= N => f[n] \in V}
  <2>1. 0 \in I
    BY <1>1, <1>8
  <2>2. ASSUME NEW n \in I PROVE n + 1 \in I
    <3>1. n \in Nat /\ n + 1 \in Nat
      OBVIOUS
    <3>2. ASSUME n + 1 <= N PROVE f[n + 1] \in V
      <4>1. n + 1 \in 0..N /\ n + 1 # 0 /\ (n + 1) - 1 = n /\ n <= N
        BY <1>1, <3>1, <3>2
      <4>2. f[n] \in V
        BY <4>1
      <4>3. f[n + 1] = 2 * f[n]
        BY <1>8, <4>1
      <4>4. QED
        BY <4>2, <4>3
    <3> HIDE DEF N, V
    <3>3. QED
      BY <3>1, <3>2
  <2>3. I \in SUBSET Nat
    OBVIOUS
  <2>4. I = Nat
    <3> HIDE DEF I
    <3>1. QED
      BY <2>1, <2>2, <2>3, NaturalInduction
  <2>5. QED
    BY <2>4
<1>10. f \in [0..N -> V]
  <2>1. \A n \in 0..N : f[n] \in V
    BY <1>1, <1>9
  <2>2. f = [n \in 0..N |-> f[n]]
    BY <1>6
  <2> HIDE DEF V, N
  <2>3. QED
    BY <2>1, <2>2
<1>11. QED
  BY <1>7, <1>10

\* Strikes and backoffs.
LEMMA BackoffType ==
    ASSUME NEW n \in 1 .. MaxBackoff
    PROVE  Backoff(n) \in Span /\ ~Quiet(Backoff(n))
<1> DEFINE d == Base * TwoTo[n - 1]
<1>1. n - 1 \in 0 .. MaxBackoff
  BY Limits
<1>2. TwoTo[n - 1] \in Nat /\ TwoTo[n - 1] > 0
  BY <1>1, TwoToType
<1>3. d \in Nat
  BY <1>2, Limits
<1>4. Backoff(n) = IF d < MaxBackoff THEN d ELSE MaxBackoff
  BY DEF Backoff
<1> HIDE DEF d
<1>5. Backoff(n) \in Nat /\ Backoff(n) <= MaxBackoff
  BY <1>3, <1>4, Limits
<1>6. QED
  BY <1>5, Limits DEF Span, Forgotten, Quiet

LEMMA StrikesType ==
    ASSUME NEW es, EntriesOK(es), NEW i
    PROVE  Strikes(es, i) \in 1 .. MaxBackoff
<1>1. 1 \in 1 .. MaxBackoff /\ MaxBackoff \in 1 .. MaxBackoff
  BY Limits
<1>2. CASE Struck(es, i)
  <2>1. EntryOf(es, i).strikes \in 1 .. MaxBackoff
    BY <1>2, StruckEntry DEF Entry
  <2>2. EntryOf(es, i).strikes < MaxBackoff => EntryOf(es, i).strikes + 1 \in 1 .. MaxBackoff
    BY <2>1, Limits
  <2>3. QED
    BY <1>1, <2>2 DEF Strikes
<1>3. CASE ~Struck(es, i)
  BY <1>1, <1>3 DEF Strikes
<1>4. QED
  BY <1>2, <1>3

\* A new entry at the end.
LEMMA AppendEntry ==
    ASSUME NEW es, EntriesOK(es), NEW e \in Entry, \A x \in Entry : Has(es, x) => x.id # e.id
    PROVE  /\ EntriesOK(Append(es, e)) /\ Len(Append(es, e)) = Len(es) + 1
           /\ Append(es, e)[Len(es) + 1] = e
           /\ \A k \in 1..Len(es) : Append(es, e)[k] = es[k]
           /\ \A x \in Entry : Has(Append(es, e), x) <=> Has(es, x) \/ x = e
           /\ \A x, y \in Entry : Ahead(Append(es, e), x, y) =>
                 Ahead(es, x, y) \/ (Has(es, x) /\ y = e)
<1>1. es \in Seq(Entry)
  BY DEF EntriesOK
<1>2. /\ Append(es, e) \in Seq(Entry) /\ Len(Append(es, e)) = Len(es) + 1
      /\ Append(es, e)[Len(es) + 1] = e
      /\ \A k \in 1..Len(es) : Append(es, e)[k] = es[k]
      /\ \A x : Has(Append(es, e), x) <=> Has(es, x) \/ x = e
      /\ \A x, y : Ahead(Append(es, e), x, y) => Ahead(es, x, y) \/ (Has(es, x) /\ y = e)
  BY <1>1, AppendKeeps
<1> DEFINE p == Append(es, e)
<1> HIDE DEF p
<1>3. \A x, y \in Entry : Ahead(es, x, y) => x.id # y.id
  BY <1>1, DistinctIds
<1>4. EntriesOK(p)
  <2>1. \A x, y \in Entry : Ahead(p, x, y) => x.id # y.id
    BY <1>2, <1>3 DEF p
  <2>2. QED
    BY <1>2, <2>1, DistinctIds DEF p
<1>5. QED
  BY <1>2, <1>4 DEF p

\* The oldest entry leaves.
LEMMA DropOldest ==
    ASSUME NEW es, EntriesOK(es), es # <<>>
    PROVE  LET t == SubSeq(es, 2, Len(es)) IN
           /\ EntriesOK(t) /\ Len(t) = Len(es) - 1
           /\ \A x \in Entry : Has(t, x) <=> Has(es, x) /\ x # es[1]
           /\ \A x, y \in Entry : Ahead(t, x, y) => Ahead(es, x, y)
<1> DEFINE t == SubSeq(es, 2, Len(es))
<1>1. es \in Seq(Entry) /\ es[1] \in Entry
  BY DEF EntriesOK
<1>2. /\ t \in Seq(Entry) /\ Len(t) = Len(es) - 1
      /\ \A x : Has(t, x) => Has(es, x) /\ Ahead(es, es[1], x)
      /\ \A x : Has(es, x) /\ x # es[1] => Has(t, x)
      /\ \A x, y : Ahead(t, x, y) => Ahead(es, x, y)
  BY <1>1, DropFirst
<1> HIDE DEF t
<1>3. \A x, y \in Entry : Ahead(es, x, y) => x.id # y.id
  BY <1>1, DistinctIds
<1>4. EntriesOK(t)
  BY <1>2, <1>3, DistinctIds
<1>5. QED
  BY <1>1, <1>2, <1>3, <1>4 DEF t

\* A sweep drops only what is quiet, and the oldest entry if there is one too many.
LEMMA SweptFacts ==
    ASSUME NEW p, EntriesOK(p), p # <<>>, Len(p) <= MaxEntries + 1
    PROVE  /\ EntriesOK(Swept(p)) /\ Len(Swept(p)) <= MaxEntries
           /\ \A x \in Entry : Has(Swept(p), x) => Has(p, x)
           /\ \A x \in Entry : Has(p, x) /\ ~Quiet(x.left) /\ ~Has(Swept(p), x) =>
                 x = p[1] /\ Len(p) = MaxEntries + 1
           /\ \A x, y \in Entry : Ahead(Swept(p), x, y) => Ahead(p, x, y)
<1> DEFINE checked == {p[k] : k \in {j \in DOMAIN p : j <= SweepPerStrike}}
           loud == {x \in Entry : ~(Quiet(x.left) /\ x \in checked)}
           t == SubSeq(p, 2, Len(p))
           f == Swept(p)
<1>1. p \in Seq(Entry) /\ Len(p) \in Nat /\ MaxEntries \in Nat
  BY Limits DEF EntriesOK
<1>2. CASE Len(p) <= MaxEntries
  <2>1. SubSeq(p, 1, Len(p)) = p
    BY <1>1
  <2>2. ~(Len(p) > MaxEntries) /\ 0 + 1 = 1
    BY <1>1, <1>2
  <2>3. f = Filter(p, loud)
    BY <2>1, <2>2 DEF Swept
  <2> HIDE DEF loud, f
  <2>4. Thin(p, f, loud)
    BY <2>3, FilterThins
  <2>5. EntriesOK(f) /\ Len(f) <= MaxEntries
    <3>1. Len(f) \in Nat /\ Len(f) <= Len(p) /\ EntriesOK(f)
      BY <2>4 DEF Thin, EntriesOK
    <3>2. QED
      BY <1>1, <1>2, <3>1
  <2>6. \A x \in Entry : Has(p, x) /\ ~Quiet(x.left) => Has(f, x)
    BY <2>4 DEF Thin, loud
  <2>7. QED
    BY <2>4, <2>5, <2>6 DEF Thin, f
<1>3. CASE Len(p) = MaxEntries + 1
  <2>1. Len(p) > MaxEntries /\ (Len(p) - MaxEntries) + 1 = 2
    BY <1>1, <1>3
  <2>2. f = Filter(t, loud)
    BY <2>1 DEF Swept
  <2>3. /\ EntriesOK(t) /\ Len(t) = Len(p) - 1
        /\ \A x \in Entry : Has(t, x) <=> Has(p, x) /\ x # p[1]
        /\ \A x, y \in Entry : Ahead(t, x, y) => Ahead(p, x, y)
    BY DropOldest
  <2> HIDE DEF loud, f, t
  <2>4. Thin(t, f, loud)
    BY <2>2, <2>3, FilterThins
  <2>5. EntriesOK(f) /\ Len(f) <= MaxEntries
    <3>1. Len(f) \in Nat /\ Len(f) <= Len(t) /\ EntriesOK(f)
      BY <2>4 DEF Thin, EntriesOK
    <3>2. Len(t) = MaxEntries
      BY <1>1, <1>3, <2>3
    <3>3. QED
      BY <1>1, <3>1, <3>2
  <2>6. \A x \in Entry : Has(p, x) /\ ~Quiet(x.left) /\ x # p[1] => Has(f, x)
    BY <2>3, <2>4 DEF Thin, loud
  <2>7. QED
    BY <1>3, <2>3, <2>4, <2>5, <2>6 DEF Thin, f
<1>4. Len(p) <= MaxEntries \/ Len(p) = MaxEntries + 1
  <2> DEFINE n == Len(p)
  <2>1. n \in Nat /\ n <= MaxEntries + 1
    BY <1>1
  <2> HIDE DEF n
  <2>2. n <= MaxEntries \/ n = MaxEntries + 1
    BY <1>1, <2>1
  <2>3. QED
    BY <2>2 DEF n
<1>5. QED
  BY <1>2, <1>3, <1>4

\* The oldest of a full registry had every other entry struck after it.
LEMMA OldestIsCrowded ==
    ASSUME NEW p, EntriesOK(p), Len(p) = MaxEntries + 1, NEW A, IsFiniteSet(A),
           \A k \in 2..(MaxEntries + 1) : p[k].id \in A
    PROVE  Cardinality(A) >= MaxEntries
<1> DEFINE n == MaxEntries
           s == [k \in 1..n |-> p[k + 1].id]
           E == {s[k] : k \in 1..n}
<1>1. n \in Nat
  BY Limits
<1>2. \A k \in 1..n : k + 1 \in 2..(n + 1) /\ k + 1 \in 1..(n + 1) /\ k \in Int
  BY <1>1
<1>3. \A x, y \in 1..(n + 1) : p[x].id = p[y].id => x = y
  BY DEF EntriesOK
<1> HIDE DEF n
<1>4. ASSUME NEW j \in 1..n, NEW k \in 1..n, s[j] = s[k] PROVE j = k
  <2>1. j + 1 = k + 1
    BY <1>2, <1>3, <1>4
  <2>2. QED
    BY <1>2, <2>1
<1>5. E \subseteq A
  BY <1>2 DEF n
<1>a. /\ s \in [1..n -> E]
      /\ \A j, k \in 1..n : s[j] = s[k] => j = k
      /\ \A x \in E : \E k \in 1..n : s[k] = x
  BY <1>4
<1> HIDE DEF s
<1> HIDE DEF E
<1>6. IsFiniteSet(E) /\ Cardinality(E) = n
  BY <1>1, <1>a, DistinctElements
<1>7. Cardinality(E) <= Cardinality(A)
  BY <1>5, FS_Subset
<1>8. Cardinality(A) \in Nat
  BY FS_CardinalityType
<1>9. QED
  BY <1>1, <1>6, <1>7, <1>8 DEF n

\* Strikes of one identity leave the others what they were told.
LEMMA StrikeKeeps ==
    ASSUME CoolDownInv, NEW i \in Identity, NEW admission \in BOOLEAN,
           NEW es, NEW K, Thin(entries, es, K),
           \A x \in Entry : x \notin K => x.id = i /\ (Quiet(x.left) \/ x.admissionOnly),
           Strike(es, i, admission)
    PROVE  CoolDownInv'
<1> DEFINE n == Strikes(es, i)
           only == AdmissionOnly(es, i, admission)
           e == [id |-> i, strikes |-> n, left |-> Backoff(n), admissionOnly |-> only]
           d == Drop(es, i)
           p == Append(d, e)
<1>1. EntriesOK(entries) /\ EntriesOK(es) /\ Len(entries) <= MaxEntries /\ HistoryType
  BY DEF CoolDownInv, Thin
<1>2. n \in 1 .. MaxBackoff /\ Backoff(n) \in Span /\ ~Quiet(Backoff(n))
  BY <1>1, StrikesType, BackoffType
<1>3. only \in BOOLEAN
  <2>1. Struck(es, i) => EntryOf(es, i).admissionOnly \in BOOLEAN
    BY <1>1, StruckEntry DEF Entry
  <2>2. QED
    BY <2>1, Zenon DEF AdmissionOnly
<1>4. e \in Entry /\ e.id = i /\ e.left = Backoff(n) /\ e.admissionOnly = only
  <2> HIDE DEF n, only
  <2>1. QED
    BY <1>2, <1>3 DEF Entry
<1>5. /\ entries' = Swept(p)
      /\ announced' = [announced EXCEPT ![i] = Backoff(n)]
      /\ rude' = [rude EXCEPT ![i] = @ \/ ~admission]
      /\ others' = [j \in Identity |-> IF j # i THEN others[j] \cup {i}
                                       ELSE IF Crowded(i) THEN others[i] ELSE {}]
  <2>1. i # NoId
    BY ClientAssumption
  <2>2. QED
    BY <2>1 DEF Strike
<1> HIDE DEF n, e, only
<1>6. /\ announced'[i] = e.left /\ (\A j \in Identity \ {i} : announced'[j] = announced[j])
      /\ rude'[i] = (rude[i] \/ ~admission) /\ (\A j \in Identity \ {i} : rude'[j] = rude[j])
      /\ \A j \in Identity \ {i} : others'[j] = others[j] \cup {i}
      /\ others'[i] = IF Crowded(i) THEN others[i] ELSE {}
  BY <1>1, <1>4, <1>5 DEF HistoryType
<1>7. Thin(entries, d, NotOf(i))
  <2>1. d = Filter(es, NotOf(i))
    BY DEF Drop, NotOf
  <2>2. Thin(es, d, NotOf(i))
    BY <1>1, <2>1, FilterThins
  <2> HIDE DEF d
  <2>3. Thin(entries, d, K \cap NotOf(i))
    BY <1>1, <2>2, ThinTwice
  <2>4. \A x \in Entry : x \in K \cap NotOf(i) <=> x \in NotOf(i)
    BY DEF NotOf
  <2>5. QED
    BY <2>3, <2>4, ThinAgain
<1> HIDE DEF d
<1>8. EntriesOK(d) /\ Len(d) \in Nat /\ Len(d) <= MaxEntries
  <2>1. EntriesOK(d) /\ Len(d) <= Len(entries) /\ Len(d) \in Nat /\ Len(entries) \in Nat
    BY <1>1, <1>7 DEF Thin, EntriesOK
  <2>2. QED
    BY <1>1, <2>1, Limits
<1>9. \A x \in Entry : Has(d, x) <=> Has(entries, x) /\ x.id # i
  BY <1>7 DEF Thin, NotOf
<1>10. /\ EntriesOK(p) /\ Len(p) = Len(d) + 1 /\ p[Len(d) + 1] = e
       /\ \A k \in 1..Len(d) : p[k] = d[k]
       /\ \A x \in Entry : Has(p, x) <=> Has(d, x) \/ x = e
       /\ \A x, y \in Entry : Ahead(p, x, y) => Ahead(d, x, y) \/ (Has(d, x) /\ y = e)
  BY <1>4, <1>8, <1>9, AppendEntry
<1> HIDE DEF p
<1>11. p # <<>> /\ Len(p) <= MaxEntries + 1
  <2>1. Len(p) <= MaxEntries + 1 /\ Len(p) # 0
    BY <1>8, <1>10, Limits
  <2>2. QED
    BY <2>1
<1>12. /\ EntriesOK(entries') /\ Len(entries') <= MaxEntries
       /\ \A x \in Entry : Has(entries', x) => Has(p, x)
       /\ \A x \in Entry : Has(p, x) /\ ~Quiet(x.left) /\ ~Has(entries', x) =>
             x = p[1] /\ Len(p) = MaxEntries + 1
       /\ \A x, y \in Entry : Ahead(entries', x, y) => Ahead(p, x, y)
  BY <1>5, <1>10, <1>11, SweptFacts
<1>a. \A x \in Entry : x.id \in Identity
  BY DEF Entry
<1>13. HistoryType'
  <2>1. announced' \in [Identity -> Span] /\ rude' \in [Identity -> BOOLEAN]
    <3>1. (rude[i] \/ ~admission) \in BOOLEAN
      OBVIOUS
    <3>2. QED
      BY <1>1, <1>2, <1>5, <3>1 DEF HistoryType
  <2>2. others' \in [Identity -> SUBSET Identity]
    BY <1>1, <1>5 DEF HistoryType
  <2>3. ASSUME NEW j \in Identity PROVE IsFiniteSet(others'[j])
    <3>1. IsFiniteSet(others[j]) /\ IsFiniteSet({})
      BY <1>1, <2>3, FS_EmptySet DEF HistoryType
    <3>2. IsFiniteSet(others[j] \cup {i})
      BY <3>1, FS_AddElement
    <3>3. QED
      BY <1>6, <3>1, <3>2
  <2>4. QED
    BY <2>1, <2>2, <2>3 DEF HistoryType
<1>14. AbuseOnRecord'
  <2> SUFFICES ASSUME NEW x \in Entry, Has(entries', x), ~Quiet(x.left), ~x.admissionOnly
               PROVE  rude'[x.id] /\ announced'[x.id] = x.left
    BY DEF AbuseOnRecord
  <2>1. Has(d, x) \/ x = e
    BY <1>10, <1>12
  <2>2. CASE Has(d, x)
    BY <1>6, <1>9, <1>a, <2>2 DEF CoolDownInv, AbuseOnRecord
  <2>3. CASE x = e
    <3>1. ~only /\ announced'[x.id] = x.left
      BY <1>4, <1>6, <2>3
    <3>2. CASE ~admission
      BY <1>4, <1>6, <2>3, <3>1, <3>2
    <3>3. CASE admission
      <4>1. Struck(es, i) /\ ~Quiet(EntryOf(es, i).left) /\ ~EntryOf(es, i).admissionOnly
        BY <3>1, <3>3 DEF only, AdmissionOnly
      <4>2. Has(es, EntryOf(es, i)) /\ EntryOf(es, i) \in Entry /\ EntryOf(es, i).id = i
        BY <1>1, <4>1, StruckEntry
      <4>3. Has(entries, EntryOf(es, i))
        BY <4>2 DEF Thin
      <4>4. rude[i]
        BY <4>1, <4>2, <4>3 DEF CoolDownInv, AbuseOnRecord
      <4>5. QED
        BY <1>4, <1>6, <2>3, <3>1, <4>4
    <3>4. QED
      BY <3>2, <3>3
  <2>4. QED
    BY <2>1, <2>2, <2>3
<1>15. AbuseIsRecent'
  <2>1. ~Quiet(announced'[i])
    BY <1>2, <1>4, <1>6
  <2>2. QED
    BY <1>6, <2>1 DEF CoolDownInv, AbuseIsRecent
<1>16. ToldIsOnRecord'
  <2> SUFFICES ASSUME NEW j \in Identity, ~Crowded(j)', ~Quiet(announced'[j])
               PROVE  \E x \in Entry : Has(entries', x) /\ Tells(x, j, announced'[j], rude'[j])
    BY DEF ToldIsOnRecord
  <2>1. IsFiniteSet(others[j]) /\ Cardinality(others[j]) \in Nat
    BY <1>1, FS_CardinalityType DEF HistoryType
  <2>2. CASE j = i
    <3>1. ~Crowded(i)
      BY <1>6, <2>2 DEF Crowded
    <3>2. only = ~rude'[i]
      <4>1. rude[i] \in BOOLEAN
        BY <1>1 DEF HistoryType
      <4>2. CASE ~admission
        BY <1>3, <1>6, <4>2 DEF only, AdmissionOnly
      <4>3. CASE admission /\ rude[i]
        <5>1. ~Quiet(announced[i])
          BY <4>3 DEF CoolDownInv, AbuseIsRecent
        <5>2. PICK x \in Entry : Has(entries, x) /\ Tells(x, i, announced[i], rude[i])
          BY <3>1, <5>1 DEF CoolDownInv, ToldIsOnRecord
        <5>3. x.id = i /\ ~Quiet(x.left) /\ ~x.admissionOnly
          BY <4>3, <5>1, <5>2 DEF Tells
        <5>4. Has(es, x)
          BY <5>2, <5>3 DEF Thin
        <5>5. Struck(es, i) /\ EntryOf(es, i) = x
          BY <1>1, <5>3, <5>4, EntryIs
        <5>6. ~only
          BY <5>3, <5>5 DEF only, AdmissionOnly
        <5>7. QED
          BY <1>3, <1>6, <4>3, <5>6
      <4>4. CASE admission /\ ~rude[i]
        <5>1. ~Struck(es, i) \/ Quiet(EntryOf(es, i).left) \/ EntryOf(es, i).admissionOnly
          <6>1. SUFFICES ASSUME Struck(es, i), ~Quiet(EntryOf(es, i).left),
                                ~EntryOf(es, i).admissionOnly
                         PROVE  FALSE
            OBVIOUS
          <6>2. Has(es, EntryOf(es, i)) /\ EntryOf(es, i) \in Entry /\ EntryOf(es, i).id = i
            BY <1>1, <6>1, StruckEntry
          <6>3. Has(entries, EntryOf(es, i))
            BY <6>2 DEF Thin
          <6>4. QED
            BY <4>4, <6>1, <6>2, <6>3 DEF CoolDownInv, AbuseOnRecord
        <5>2. only
          BY <4>4, <5>1 DEF only, AdmissionOnly
        <5>3. QED
          BY <1>3, <1>6, <4>4, <5>2
      <4>5. QED
        BY <4>1, <4>2, <4>3, <4>4
    <3>3. Has(p, e) /\ ~Quiet(e.left)
      BY <1>2, <1>4, <1>10
    <3>4. Has(entries', e)
      <4>1. SUFFICES ASSUME ~Has(entries', e) PROVE FALSE
        OBVIOUS
      <4>2. e = p[1] /\ Len(p) = MaxEntries + 1
        BY <1>4, <1>12, <3>3, <4>1
      <4>3. DOMAIN p = 1..Len(p)
        BY <1>10 DEF EntriesOK
      <4>4. 1 \in 1..Len(p) /\ Len(d) + 1 \in 1..Len(p) /\ Len(d) + 1 # 1
        BY <1>8, <1>10, <4>2, Limits
      <4>5. QED
        BY <1>10, <4>2, <4>3, <4>4 DEF EntriesOK
    <3>5. QED
      BY <1>4, <1>6, <2>2, <3>2, <3>4 DEF Tells
  <2>3. CASE j # i
    <3>1. others'[j] = others[j] \cup {i} /\ announced'[j] = announced[j] /\ rude'[j] = rude[j]
      BY <1>6, <2>3
    <3>2. IsFiniteSet(others'[j]) /\ Cardinality(others'[j]) \in Nat
          /\ Cardinality(others[j]) <= Cardinality(others'[j])
      <4>1. IsFiniteSet(others'[j])
        BY <2>1, <3>1, FS_AddElement
      <4>2. others[j] \subseteq others'[j]
        BY <3>1
      <4>3. QED
        BY <4>1, <4>2, FS_Subset, FS_CardinalityType
    <3>3. ~(Cardinality(others'[j]) >= MaxEntries)
      BY DEF Crowded
    <3>4. ~Crowded(j)
      BY <2>1, <3>2, <3>3, Limits DEF Crowded
    <3>5. PICK x \in Entry : Has(entries, x) /\ Tells(x, j, announced[j], rude[j])
      BY <3>1, <3>4 DEF CoolDownInv, ToldIsOnRecord
    <3>6. x.id = j /\ Has(d, x) /\ Has(p, x) /\ ~Quiet(x.left)
      BY <1>9, <1>10, <2>3, <3>1, <3>5 DEF Tells
    <3>7. Has(entries', x)
      <4>1. SUFFICES ASSUME ~Has(entries', x) PROVE FALSE
        OBVIOUS
      <4>2. x = p[1] /\ Len(p) = MaxEntries + 1
        BY <1>12, <3>6, <4>1
      <4>3. Len(d) = MaxEntries
        BY <1>8, <1>10, <4>2, Limits
      <4>4. d[1] = x /\ 1 \in 1..Len(d)
        BY <1>10, <4>2, <4>3, Limits
      <4>5. ASSUME NEW k \in 2..(MaxEntries + 1) PROVE p[k].id \in others'[j]
        <5>1. CASE k = MaxEntries + 1
          BY <1>4, <1>10, <3>1, <4>3, <5>1
        <5>2. CASE k # MaxEntries + 1
          <6>1. k \in 1..Len(d) /\ 1 < k
            BY <4>3, <5>2, Limits
          <6>2. p[k] = d[k] /\ d[k] \in Entry
            BY <1>8, <1>10, <6>1 DEF EntriesOK
          <6>3. Ahead(d, x, d[k])
            BY <4>4, <6>1 DEF Ahead
          <6>4. Ahead(entries, x, d[k])
            BY <1>7, <6>2, <6>3 DEF Thin
          <6>5. d[k].id \in others[j]
            BY <3>1, <3>6, <6>2, <6>4 DEF CoolDownInv, InOrder
          <6>6. QED
            BY <3>1, <6>2, <6>5
        <5>3. QED
          BY <5>1, <5>2
      <4>6. Cardinality(others'[j]) >= MaxEntries
        BY <1>10, <3>2, <4>2, <4>5, OldestIsCrowded
      <4>7. QED
        BY <3>3, <4>6
    <3>8. QED
      BY <3>1, <3>5, <3>7
  <2>4. QED
    BY <2>2, <2>3
<1>17. InOrder'
  <2> SUFFICES ASSUME NEW x \in Entry, NEW y \in Entry, Ahead(entries', x, y)
               PROVE  y.id \in others'[x.id] \/ Quiet(announced'[x.id])
    BY DEF InOrder
  <2>1. Ahead(d, x, y) \/ (Has(d, x) /\ y = e)
    BY <1>10, <1>12
  <2>2. Has(d, x) /\ x.id # i
    <3>1. Ahead(d, x, y) => Has(d, x)
      BY DEF Ahead, Has
    <3>2. QED
      BY <1>9, <2>1, <3>1
  <2>3. others'[x.id] = others[x.id] \cup {i} /\ announced'[x.id] = announced[x.id]
    BY <1>6, <1>a, <2>2
  <2>4. CASE Ahead(d, x, y)
    BY <1>7, <2>3, <2>4 DEF Thin, CoolDownInv, InOrder
  <2>5. CASE y = e
    BY <1>4, <2>3, <2>5
  <2>6. QED
    BY <2>1, <2>4, <2>5
<1>18. QED
  BY <1>12, <1>13, <1>14, <1>15, <1>16, <1>17 DEF CoolDownInv

\* An entry a unit of time later.
Later(x) == [x EXCEPT !.left = Sooner(@)]

LEMMA LaterEntry ==
    /\ \A t \in Span : Sooner(t) \in Span /\ (Quiet(t) => Quiet(Sooner(t)))
    /\ \A x \in Entry : /\ Later(x) \in Entry /\ Later(x).id = x.id
                        /\ Later(x).left = Sooner(x.left)
                        /\ Later(x).admissionOnly = x.admissionOnly
<1>1. ASSUME NEW t \in Span PROVE Sooner(t) \in Span /\ (Quiet(t) => Quiet(Sooner(t)))
  BY BoundAssumption DEF Span, Forgotten, Sooner, Quiet
<1>2. ASSUME NEW x \in Entry
      PROVE  /\ Later(x) \in Entry /\ Later(x).id = x.id
             /\ Later(x).left = Sooner(x.left)
             /\ Later(x).admissionOnly = x.admissionOnly
  <2> DEFINE l == Sooner(x.left)
  <2>1. l \in Span
    BY <1>1 DEF Entry
  <2>2. Later(x) = [x EXCEPT !.left = l]
    BY DEF Later
  <2> HIDE DEF l
  <2>3. Later(x) \in Entry /\ Later(x).id = x.id /\ Later(x).left = l
        /\ Later(x).admissionOnly = x.admissionOnly
    BY <2>1, <2>2 DEF Entry
  <2>4. QED
    BY <2>3 DEF l
<1>3. QED
  BY <1>1, <1>2

\* Time passes for the registry and for what identities were told alike.
LEMMA TimePasses == ASSUME CoolDownInv, Tick PROVE CoolDownInv'
<1> DEFINE n == Len(entries)
<1>0. /\ entries' = [k \in DOMAIN entries |-> Later(entries[k])]
      /\ announced' = [i \in Identity |-> Sooner(announced[i])]
      /\ rude' = [i \in Identity |-> rude[i] /\ ~Quiet(announced'[i])]
      /\ others' = [i \in Identity |-> IF Quiet(announced'[i]) THEN {} ELSE others[i]]
  BY Zenon DEF Tick, Later
<1>1. entries \in Seq(Entry) /\ n \in Nat /\ EntriesOK(entries) /\ HistoryType
  BY DEF CoolDownInv, EntriesOK
<1>2. DOMAIN entries = 1..n /\ \A k \in 1..n : entries[k] \in Entry
  BY <1>1
<1>3. entries' = [k \in 1..n |-> Later(entries[k])]
  BY <1>0, <1>2
<1>4. entries' \in Seq(Entry) /\ Len(entries') = n /\ DOMAIN entries' = 1..n
  <2>1. \A k \in 1..n : Later(entries[k]) \in Entry
    BY <1>2, LaterEntry
  <2>2. entries' \in [1..n -> Entry]
    BY <1>3, <2>1
  <2>3. QED
    BY <1>1, <2>2
<1>5. \A k \in 1..n : entries'[k] = Later(entries[k]) /\ entries'[k].id = entries[k].id
  BY <1>2, <1>3, LaterEntry
<1>6. EntriesOK(entries') /\ Len(entries') <= MaxEntries
  BY <1>2, <1>4, <1>5 DEF EntriesOK, CoolDownInv
<1>7. ASSUME NEW y, Has(entries', y) PROVE \E x \in Entry : Has(entries, x) /\ y = Later(x)
  BY <1>2, <1>4, <1>5, <1>7 DEF Has
<1>8. ASSUME NEW x, Has(entries, x) PROVE Has(entries', Later(x))
  BY <1>4, <1>5, <1>8 DEF Has
<1>9. ASSUME NEW y, NEW z, Ahead(entries', y, z)
      PROVE  \E v, w \in Entry : Ahead(entries, v, w) /\ y = Later(v) /\ z = Later(w)
  <2>1. PICK j \in 1..n, k \in 1..n : j < k /\ entries'[j] = y /\ entries'[k] = z
    BY <1>4, <1>9 DEF Ahead
  <2>2. Ahead(entries, entries[j], entries[k])
    BY <2>1 DEF Ahead
  <2>3. QED
    BY <1>2, <1>5, <2>1, <2>2
<1>10. ASSUME NEW i \in Identity
       PROVE  /\ announced[i] \in Span /\ announced'[i] = Sooner(announced[i])
              /\ Quiet(announced[i]) => Quiet(announced'[i])
              /\ rude'[i] = (rude[i] /\ ~Quiet(announced'[i]))
              /\ others'[i] = IF Quiet(announced'[i]) THEN {} ELSE others[i]
  <2>1. announced[i] \in Span
    BY <1>1 DEF HistoryType
  <2>2. announced'[i] = Sooner(announced[i])
    BY <1>0
  <2>3. QED
    BY <1>0, <2>1, <2>2, LaterEntry
<1>a. \A x \in Entry : x.id \in Identity /\ x.left \in Span
  BY DEF Entry
<1>11. HistoryType'
  <2>1. announced' \in [Identity -> Span]
    <3>1. \A i \in Identity : Sooner(announced[i]) \in Span
      BY <1>1, LaterEntry DEF HistoryType
    <3>2. QED
      BY <1>0, <3>1
  <2>2. rude' \in [Identity -> BOOLEAN]
    <3>1. \A i \in Identity : (rude[i] /\ ~Quiet(announced'[i])) \in BOOLEAN
      OBVIOUS
    <3>2. QED
      BY <1>0, <3>1
  <2>3. \A i \in Identity : others'[i] \in SUBSET Identity /\ IsFiniteSet(others'[i])
    BY <1>1, <1>10, FS_EmptySet DEF HistoryType
  <2>4. others' \in [Identity -> SUBSET Identity]
    <3>1. others' = [i \in Identity |-> others'[i]]
      BY <1>0
    <3>2. QED
      BY <2>3, <3>1
  <2>5. QED
    BY <2>1, <2>2, <2>3, <2>4 DEF HistoryType
<1>12. AbuseOnRecord'
  <2> SUFFICES ASSUME NEW y \in Entry, Has(entries', y), ~Quiet(y.left), ~y.admissionOnly
               PROVE  rude'[y.id] /\ announced'[y.id] = y.left
    BY DEF AbuseOnRecord
  <2>1. PICK x \in Entry : Has(entries, x) /\ y = Later(x)
    BY <1>7
  <2>2. y.id = x.id /\ y.left = Sooner(x.left) /\ y.admissionOnly = x.admissionOnly
    BY <2>1, LaterEntry
  <2>3. ~Quiet(x.left)
    BY <1>a, <2>2, LaterEntry
  <2>4. rude[x.id] /\ announced[x.id] = x.left
    BY <2>1, <2>2, <2>3 DEF CoolDownInv, AbuseOnRecord
  <2>5. announced'[y.id] = y.left
    BY <1>10, <1>a, <2>2, <2>4
  <2>6. QED
    BY <1>10, <1>a, <2>2, <2>4, <2>5
<1>13. AbuseIsRecent'
  BY <1>10 DEF AbuseIsRecent
<1>14. ToldIsOnRecord'
  <2> SUFFICES ASSUME NEW i \in Identity, ~Crowded(i)', ~Quiet(announced'[i])
               PROVE  \E y \in Entry : Has(entries', y) /\ Tells(y, i, announced'[i], rude'[i])
    BY DEF ToldIsOnRecord
  <2>1. others'[i] = others[i] /\ ~Quiet(announced[i])
    BY <1>10
  <2>2. ~Crowded(i)
    BY <2>1 DEF Crowded
  <2>3. PICK x \in Entry : Has(entries, x) /\ Tells(x, i, announced[i], rude[i])
    BY <2>1, <2>2 DEF CoolDownInv, ToldIsOnRecord
  <2>4. rude'[i] = rude[i]
    <3>1. rude[i] \in BOOLEAN
      BY <1>1 DEF HistoryType
    <3>2. QED
      BY <1>10, <3>1
  <2>5. Tells(Later(x), i, announced'[i], rude'[i])
    BY <1>10, <2>3, <2>4, LaterEntry DEF Tells
  <2>6. QED
    BY <1>8, <2>3, <2>5, LaterEntry
<1>15. InOrder'
  <2> SUFFICES ASSUME NEW y \in Entry, NEW z \in Entry, Ahead(entries', y, z)
               PROVE  z.id \in others'[y.id] \/ Quiet(announced'[y.id])
    BY DEF InOrder
  <2>1. PICK v \in Entry, w \in Entry : Ahead(entries, v, w) /\ y = Later(v) /\ z = Later(w)
    BY <1>9
  <2>2. y.id = v.id /\ z.id = w.id
    BY <2>1, LaterEntry
  <2>3. w.id \in others[v.id] \/ Quiet(announced[v.id])
    BY <2>1 DEF CoolDownInv, InOrder
  <2>4. QED
    BY <1>10, <1>a, <2>2, <2>3
<1>16. QED
  BY <1>6, <1>11, <1>12, <1>13, <1>14, <1>15 DEF CoolDownInv

\* Nobody has been struck, or a restart has forgotten it.
Fresh ==
    /\ entries = <<>> /\ announced = [i \in Identity |-> Forgotten]
    /\ rude = [i \in Identity |-> FALSE] /\ others = [i \in Identity |-> {}]

LEMMA NobodyStruck == Fresh => CoolDownInv
<1> SUFFICES ASSUME Fresh PROVE CoolDownInv
  OBVIOUS
<1> USE DEF Fresh
<1>1. EntriesOK(entries) /\ Len(entries) <= MaxEntries
  BY Limits DEF EntriesOK
<1>2. HistoryType
  BY Limits, FS_EmptySet DEF HistoryType
<1>3. \A i \in Identity : Quiet(announced[i]) /\ ~rude[i]
  BY Limits
<1>4. \A x, y : ~Has(entries, x) /\ ~Ahead(entries, x, y)
  BY DEF Has, Ahead
<1>5. QED
  BY <1>1, <1>2, <1>3, <1>4
     DEF CoolDownInv, AbuseOnRecord, AbuseIsRecent, ToldIsOnRecord, InOrder

LEMMA RegistryUnchanged ==
    ASSUME CoolDownInv, UNCHANGED <<entries, history>>
    PROVE  CoolDownInv'
  BY DEF CoolDownInv, HistoryType, AbuseOnRecord, AbuseIsRecent, ToldIsOnRecord, InOrder,
         Crowded, history

\* A strike with nothing looked up before it; an unknown identity is not struck.
LEMMA PlainStrikeKeeps ==
    ASSUME CoolDownInv, NEW i \in Identity \cup {NoId}, NEW admission \in BOOLEAN,
           Strike(entries, i, admission)
    PROVE  CoolDownInv'
<1>1. CASE i = NoId
  <2>1. UNCHANGED <<entries, history>>
    BY <1>1 DEF Strike
  <2>2. QED
    BY <2>1, RegistryUnchanged
<1>2. CASE i \in Identity
  <2>1. Thin(entries, entries, Entry)
    BY ThinSame DEF CoolDownInv
  <2>2. QED
    BY <1>2, <2>1, StrikeKeeps
<1>3. QED
  BY <1>1, <1>2

LEMMA Identities ==
    ASSUME NEW c \in Client
    PROVE  /\ \A managed \in BOOLEAN : GateId(c, managed) \in Identity \cup {NoId}
           /\ IdOf(c, TRUE) \in Identity /\ IdOf(c, FALSE) \in Identity \cup {NoId}
           /\ PlainId[c] \in Identity /\ Keyed[c] \in BOOLEAN
           /\ AdmittedSocket(c) \in BOOLEAN
<1>1. AdmittedSocket(c) \in BOOLEAN
  BY DEF AdmittedSocket
<1>2. QED
  BY <1>1, ClientAssumption DEF GateId, IdOf

\* What the gate looks up at an upgrade.
LEMMA UpgradeKeepsRecord ==
    ASSUME CoolDownInv, NEW c \in Client, NEW managed \in BOOLEAN, NEW life,
           Upgrade(c, managed, life)
    PROVE  CoolDownInv'
<1> DEFINE both == managed /\ Keyed[c]
           plain == IF both THEN Looked(entries, PlainId[c], TRUE) ELSE entries
           K == IF both THEN Stays(PlainId[c], TRUE) ELSE Entry
           g == GateId(c, managed)
           ids == GateIds(c, managed)
<1>1. EntriesOK(entries)
  BY DEF CoolDownInv
<1>2. entries' = Looked(plain, g, managed) /\ Forgive(ids, managed)
  BY DEF Upgrade, Cleared
<1>3. Thin(entries, plain, K)
  <2>1. CASE both
    <3>1. Thin(entries, Looked(entries, PlainId[c], TRUE), Stays(PlainId[c], TRUE))
      BY <1>1, LookedThins
    <3>2. QED
      BY <2>1, <3>1
  <2>2. CASE ~both
    <3>1. Thin(entries, entries, Entry)
      BY <1>1, ThinSame
    <3>2. QED
      BY <2>2, <3>1
  <2>3. QED
    BY <2>1, <2>2
<1>4. g \in ids /\ (both => PlainId[c] \in ids)
  BY DEF GateIds
<1>5. ASSUME NEW x \in Entry, x \notin K
      PROVE  Quiet(x.left) \/ (managed /\ x.admissionOnly /\ x.id \in ids)
  <2>1. both /\ x.id = PlainId[c] /\ (x.admissionOnly \/ Quiet(x.left))
    BY <1>5 DEF Stays
  <2>2. QED
    BY <1>4, <2>1
<1>6. ASSUME NEW x \in Entry, x \notin Stays(g, managed)
      PROVE  Quiet(x.left) \/ (managed /\ x.admissionOnly /\ x.id \in ids)
  BY <1>4, <1>6 DEF Stays
<1> HIDE DEF plain, K, g, ids
<1>7. Thin(plain, entries', Stays(g, managed))
  BY <1>2, <1>3, LookedThins DEF Thin
<1>8. Thin(entries, entries', K \cap Stays(g, managed))
  BY <1>1, <1>3, <1>7, ThinTwice
<1>9. \A x \in Entry : x \notin K \cap Stays(g, managed) =>
          Quiet(x.left) \/ (managed /\ x.admissionOnly /\ x.id \in ids)
  BY <1>5, <1>6
<1>10. QED
  BY <1>2, <1>8, <1>9, ForgiveKeeps

\* A look-up that finds a backoff deletes nothing.
LEMMA CoolingKeeps ==
    ASSUME CoolDownInv, NEW i, NEW admitted \in BOOLEAN, Cooling(entries, i, admitted)
    PROVE  Looked(entries, i, admitted) = entries
<1> DEFINE es == Looked(entries, i, admitted)
<1>1. EntriesOK(entries)
  BY DEF CoolDownInv
<1>2. Struck(es, i) /\ Thin(entries, es, Stays(i, admitted))
  BY <1>1, LookedThins DEF Cooling
<1> HIDE DEF es
<1>3. EntriesOK(es)
  BY <1>2 DEF Thin
<1>4. PICK x \in Entry : Has(es, x) /\ x.id = i
  BY <1>2, <1>3, StruckEntry
<1>5. Has(entries, x) /\ x \in Stays(i, admitted)
  BY <1>2, <1>4 DEF Thin
<1>6. EntryOf(entries, i) = x
  BY <1>1, <1>4, <1>5, EntryIs
<1>7. QED
  BY <1>4, <1>5, <1>6 DEF Looked, Stays

LEMMA CoolDownStep == ASSUME CoolDownInv, [Next]_vars PROVE CoolDownInv'
<1>0. EntriesOK(entries)
  BY DEF CoolDownInv
<1>1. ASSUME NEW c \in Client, NEW managed \in BOOLEAN, NEW life \in Lives, Upgrade(c, managed, life)
      PROVE  CoolDownInv'
  BY <1>1, UpgradeKeepsRecord
<1>2. ASSUME NEW c \in Client, Admitted(c) \/ NotAdmitted(c) \/ Closed(c) PROVE CoolDownInv'
  BY <1>2, RegistryUnchanged DEF Admitted, NotAdmitted, Closed
<1>3. ASSUME NEW c \in Client, NEW life \in Lives, Renew(c, life) PROVE CoolDownInv'
  BY <1>3, RegistryUnchanged DEF Renew
<1>4. ASSUME NEW c \in Client, RefuseFirstFrame(c) PROVE CoolDownInv'
  <2>1. AdmittedSocket(c) \in BOOLEAN
    BY Identities
  <2>2. entries' = entries /\ UNCHANGED history
    BY <1>4, <2>1, CoolingKeeps DEF RefuseFirstFrame
  <2>3. QED
    BY <2>2, RegistryUnchanged
<1>5. ASSUME NEW c \in Client, FirstFrame(c) PROVE CoolDownInv'
  <2> DEFINE i == IdOf(c, TRUE)
             a == AdmittedSocket(c)
  <2>1. a \in BOOLEAN
    BY Identities
  <2>2. entries' = Looked(entries, i, a) /\ Forgive({i}, a)
    BY <1>5 DEF FirstFrame
  <2> HIDE DEF i, a
  <2>3. Thin(entries, entries', Stays(i, a))
    BY <1>0, <2>1, <2>2, LookedThins
  <2>4. \A x \in Entry : x \notin Stays(i, a) =>
            Quiet(x.left) \/ (a /\ x.admissionOnly /\ x.id \in {i})
    BY DEF Stays
  <2>5. QED
    BY <2>1, <2>2, <2>3, <2>4, ForgiveKeeps
<1>6. ASSUME NEW c \in Client, UnadmittedFrame(c) PROVE CoolDownInv'
  <2> DEFINE i == IdOf(c, TRUE)
             a == AdmittedSocket(c)
  <2>1. a \in BOOLEAN /\ i \in Identity
    BY Identities
  <2>2. CASE sock[c].spoke
    <3>1. Strike(entries, i, TRUE)
      BY <1>6, <2>2, Zenon DEF UnadmittedFrame
    <3>2. QED
      BY <2>1, <3>1, PlainStrikeKeeps
  <2>3. CASE ~sock[c].spoke
    <3> DEFINE es == Looked(entries, i, a)
    <3>1. Strike(es, i, TRUE)
      BY <1>6, <2>3, Zenon DEF UnadmittedFrame
    <3>2. Thin(entries, es, Stays(i, a))
      BY <1>0, <2>1, LookedThins
    <3> HIDE DEF es, i, a
    <3>3. \A x \in Entry : x \notin Stays(i, a) =>
              x.id = i /\ (Quiet(x.left) \/ x.admissionOnly)
      BY DEF Stays
    <3>4. QED
      BY <2>1, <3>1, <3>2, <3>3, StrikeKeeps
  <2>4. QED
    BY <2>2, <2>3
<1>7. ASSUME NEW c \in Client, Abuse(c) \/ RejectRenewal(c) \/ TimerFires(c) PROVE CoolDownInv'
  BY <1>7, Identities, PlainStrikeKeeps DEF Abuse, RejectRenewal, TimerFires
<1>8. ASSUME Restart PROVE CoolDownInv'
  <2>1. Fresh'
    BY <1>8 DEF Restart, Fresh
  <2>2. QED
    BY <2>1, NobodyStruck, PTL
<1>9. ASSUME Tick PROVE CoolDownInv'
  BY <1>9, TimePasses
<1>10. ASSUME UNCHANGED vars PROVE CoolDownInv'
  BY <1>10, RegistryUnchanged DEF vars, history
<1>11. QED
  BY <1>1, <1>2, <1>3, <1>4, <1>5, <1>6, <1>7, <1>8, <1>9, <1>10 DEF Next

LEMMA CoolDownAlways == Spec => []CoolDownInv
<1>1. Init => CoolDownInv
  BY NobodyStruck DEF Init, Fresh
<1>2. QED
  BY <1>1, CoolDownStep, PTL DEF Spec

\* Type correctness, with the registry's own limits: at most MaxEntries entries
\* (the sweep of every strike), and one entry for an identity (a Map's keys).
THEOREM TypeCorrect == Spec => []TypeOK
<1>1. SocketInv /\ CoolDownInv => TypeOK
  BY DEF SocketInv, CoolDownInv, EntriesOK, HistoryType, TypeOK
<1>2. QED
  BY <1>1, SocketAlways, CoolDownAlways, PTL

\* Every entry that a lease does not clear and that still runs records abuse
\* (strike keeps admissionOnly until the identity is closed for more).
THEOREM LeasesReconnect == Spec => []LeaseReconnects
<1>1. ASSUME CoolDownInv PROVE LeaseReconnects
  <2> SUFFICES ASSUME NEW k \in DOMAIN entries, entries[k].left > 0, ~entries[k].admissionOnly
               PROVE  rude[entries[k].id]
    BY DEF LeaseReconnects
  <2>1. entries \in Seq(Entry)
    BY <1>1 DEF CoolDownInv, EntriesOK
  <2>2. entries[k] \in Entry /\ Has(entries, entries[k])
    BY <2>1 DEF Has
  <2>3. entries[k].left \in Int
    BY <2>2, Limits DEF Entry
  <2>4. ~Quiet(entries[k].left)
    BY <2>3, Limits DEF Quiet
  <2>5. QED
    BY <1>1, <2>2, <2>4 DEF CoolDownInv, AbuseOnRecord
<1>2. QED
  BY <1>1, CoolDownAlways, PTL

\* An identity that the registry lets through has been served.
LEMMA NotCoolingIsServed ==
    ASSUME CoolDownInv, NEW i \in Identity \cup {NoId}, NEW admitted \in BOOLEAN,
           ~Cooling(entries, i, admitted)
    PROVE  Served(i, admitted)
<1>1. SUFFICES ASSUME i \in Identity, ~(announced[i] <= 0), ~(admitted /\ ~rude[i]), ~Crowded(i)
               PROVE  FALSE
  BY DEF Served
<1>2. announced[i] \in Int
  BY <1>1, Limits DEF CoolDownInv, HistoryType
<1>3. announced[i] > 0 /\ ~Quiet(announced[i])
  BY <1>1, <1>2, Limits DEF Quiet
<1>4. PICK x \in Entry : Has(entries, x) /\ Tells(x, i, announced[i], rude[i])
  BY <1>1, <1>3 DEF CoolDownInv, ToldIsOnRecord
<1>5. x.id = i /\ x.left > 0 /\ ~Quiet(x.left) /\ ~(admitted /\ x.admissionOnly)
  BY <1>1, <1>3, <1>4 DEF Tells
<1>6. Struck(entries, i) /\ EntryOf(entries, i) = x
  BY <1>4, <1>5, EntryIs DEF CoolDownInv
<1>7. Looked(entries, i, admitted) = entries
  BY <1>5, <1>6 DEF Looked
<1>8. QED
  BY <1>5, <1>6, <1>7 DEF Cooling

\* Only the gate starts an upgrade, and only a first frame registers a socket.
LEMMA WhoLetsIn ==
    ASSUME SocketInv, [Next]_vars, NEW c \in Client
    PROVE  /\ sock[c].phase = "none" /\ sock'[c].phase = "admitting" =>
                  /\ sock'[c].managed \in BOOLEAN
                  /\ Passes(c, sock'[c].managed)
           /\ ~sock[c].spoke /\ sock'[c].spoke => FirstFrame(c)
<1> DEFINE same == sock'[c].phase = sock[c].phase /\ sock'[c].spoke = sock[c].spoke
           left == sock'[c].phase = "none" /\ ~sock'[c].spoke
           P == /\ sock[c].phase = "none" /\ sock'[c].phase = "admitting" =>
                      sock'[c].managed \in BOOLEAN /\ Passes(c, sock'[c].managed)
                /\ ~sock[c].spoke /\ sock'[c].spoke => FirstFrame(c)
<1>0. sock \in [Client -> Sock] /\ sock[c] \in Sock
  BY DEF SocketInv
<1>a. NoSock.phase = "none" /\ NoSock.spoke = FALSE
  BY DEF NoSock
<1>b. ASSUME NEW d \in Client, d # c, NEW s, sock' = [sock EXCEPT ![d] = s] PROVE same
  BY <1>0, <1>b
<1>c. ASSUME NEW s, sock' = [sock EXCEPT ![c] = s] PROVE sock'[c] = s
  BY <1>0, <1>c
<1>1. ASSUME NEW d \in Client, NEW managed \in BOOLEAN, NEW life \in Lives, Upgrade(d, managed, life)
      PROVE  P
  <2> DEFINE s == [NoSock EXCEPT !.phase = "admitting",
                      !.managed = managed, !.lease = IF managed THEN life ELSE 0]
  <2>1. s.spoke = FALSE /\ s.managed = managed
    BY DEF NoSock
  <2>2. sock' = sock \/ (sock' = [sock EXCEPT ![d] = s] /\ Passes(d, managed))
    BY <1>1 DEF Upgrade
  <2> HIDE DEF s
  <2>3. CASE sock' = sock
    BY <2>3
  <2>4. CASE sock' = [sock EXCEPT ![d] = s] /\ Passes(d, managed)
    <3>1. CASE d = c
      BY <1>c, <2>1, <2>4, <3>1
    <3>2. CASE d # c
      BY <1>b, <2>4, <3>2
    <3>3. QED
      BY <3>1, <3>2
  <2>5. QED
    BY <2>2, <2>3, <2>4
<1>2. ASSUME NEW d \in Client, Admitted(d) PROVE P
  <2> DEFINE s == IF HasRoom THEN [sock[d] EXCEPT !.phase = "open", !.timer = sock[d].lease]
                  ELSE NoSock
  <2>1. sock' = [sock EXCEPT ![d] = s]
    BY <1>0, <1>2 DEF Admitted
  <2>2. sock[d] \in Sock
    BY <1>0
  <2>3. s.phase # "admitting" /\ (s.spoke = sock[d].spoke \/ s.spoke = FALSE)
    BY <1>a, <2>2 DEF Sock
  <2> HIDE DEF s
  <2>4. QED
    BY <1>b, <1>c, <2>1, <2>3
<1>3. ASSUME NEW d \in Client, NotAdmitted(d) \/ Closed(d) PROVE P
  BY <1>3, <1>a, <1>b, <1>c DEF NotAdmitted, Closed
<1>4. ASSUME NEW d \in Client, FirstFrame(d) PROVE P
  <2> DEFINE s == [sock[d] EXCEPT !.spoke = TRUE]
  <2>1. sock' = [sock EXCEPT ![d] = s]
    BY <1>0, <1>4 DEF FirstFrame
  <2>2. sock[d] \in Sock
    BY <1>0
  <2>3. s.phase = sock[d].phase
    BY <2>2 DEF Sock
  <2> HIDE DEF s
  <2>4. QED
    BY <1>4, <1>b, <1>c, <2>1, <2>3
<1>5. ASSUME NEW d \in Client, NEW why, Closing(d, why) PROVE P
  <2> DEFINE s == [sock[d] EXCEPT !.phase = "closing", !.why = why]
  <2>1. sock' = [sock EXCEPT ![d] = s]
    BY <1>0, <1>5 DEF Closing
  <2>2. sock[d] \in Sock
    BY <1>0
  <2>3. s.phase = "closing" /\ s.spoke = sock[d].spoke
    BY <2>2 DEF Sock
  <2> HIDE DEF s
  <2>4. QED
    BY <1>b, <1>c, <2>1, <2>3
<1>6. ASSUME NEW d \in Client, NEW life \in Lives, Renew(d, life) PROVE P
  <2>1. sock[d] \in Sock
    BY <1>0
  <2>2. Armed(d, life).phase = sock[d].phase /\ Armed(d, life).spoke = sock[d].spoke
    BY <2>1 DEF Sock, Armed
  <2>3. QED
    BY <1>6, <1>b, <1>c, <2>2 DEF Renew
<1>7. ASSUME Restart PROVE P
  <2>1. sock'[c] = NoSock
    BY <1>7 DEF Restart
  <2>2. QED
    BY <1>a, <2>1
<1>8. ASSUME Tick PROVE P
  <2>1. sock'[c] = [sock[c] EXCEPT !.lease = Down(@), !.timer = Down(@)]
    BY <1>8 DEF Tick
  <2>2. sock'[c].phase = sock[c].phase /\ sock'[c].spoke = sock[c].spoke
    BY <1>0, <2>1 DEF Sock
  <2>3. QED
    BY <2>2
<1>9. ASSUME UNCHANGED vars PROVE P
  BY <1>9 DEF vars
<1>10. ASSUME NEW d \in Client,
              RefuseFirstFrame(d) \/ UnadmittedFrame(d) \/ Abuse(d) \/ RejectRenewal(d)
                  \/ TimerFires(d)
       PROVE  P
  BY <1>5, <1>10 DEF RefuseFirstFrame, UnadmittedFrame, Abuse, RejectRenewal, TimerFires
<1> HIDE DEF P
<1>11. P
  BY <1>1, <1>2, <1>3, <1>4, <1>6, <1>7, <1>8, <1>9, <1>10 DEF Next
<1>12. QED
  BY <1>11 DEF P

\* The backoff told with a policy close is served before the gate or a first
\* frame lets the identity in again, for every registry size: an entry leaves
\* early only when a lease clears it or MaxEntries others were struck since
\* (remaining and sweep of the cool-down registry).
THEOREM BackoffsAreServed == Spec => CoolDownServed
<1> DEFINE A == \A c \in Client :
                  /\ sock[c].phase = "none" /\ sock'[c].phase = "admitting" =>
                        Served(GateId(c, sock'[c].managed), sock'[c].managed)
                  /\ ~sock[c].spoke /\ sock'[c].spoke => Served(IdOf(c, TRUE), AdmittedSocket(c))
<1>1. ASSUME SocketInv, CoolDownInv, [Next]_vars PROVE A
  <2> SUFFICES ASSUME NEW c \in Client
               PROVE  /\ sock[c].phase = "none" /\ sock'[c].phase = "admitting" =>
                            Served(GateId(c, sock'[c].managed), sock'[c].managed)
                      /\ ~sock[c].spoke /\ sock'[c].spoke =>
                            Served(IdOf(c, TRUE), AdmittedSocket(c))
    OBVIOUS
  <2> DEFINE m == sock'[c].managed
  <2>1. ASSUME sock[c].phase = "none", sock'[c].phase = "admitting" PROVE Served(GateId(c, m), m)
    <3>1. m \in BOOLEAN /\ Passes(c, m)
      BY <1>1, <2>1, WhoLetsIn
    <3> HIDE DEF m
    <3>2. ~Cooling(entries, GateId(c, m), m) /\ GateId(c, m) \in Identity \cup {NoId}
      BY <3>1, Identities DEF Passes
    <3>3. QED
      BY <1>1, <3>1, <3>2, NotCoolingIsServed
  <2>2. ASSUME ~sock[c].spoke, sock'[c].spoke PROVE Served(IdOf(c, TRUE), AdmittedSocket(c))
    <3>1. FirstFrame(c)
      BY <1>1, <2>2, WhoLetsIn
    <3>2. ~Cooling(entries, IdOf(c, TRUE), AdmittedSocket(c))
      BY <3>1 DEF FirstFrame
    <3>3. QED
      BY <1>1, <3>2, Identities, NotCoolingIsServed
  <2>3. QED
    BY <2>1, <2>2
<1>2. QED
  <2>1. SocketInv /\ CoolDownInv /\ [Next]_vars => [A]_vars
    BY <1>1
  <2>2. QED
    BY <2>1, SocketAlways, CoolDownAlways, PTL DEF Spec, CoolDownServed
=============================================================================
