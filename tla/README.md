# A verification project for the GrantTap relay

The relay passes end-to-end encrypted frames between the computers ("machine")
and phones of a paired room. It never sees plaintext. What it must get right is
delivery, scheduling and admission: a stored submission is not lost, a scheduled
job starts once, a wake is neither lost nor repeated, a client that misbehaves
waits and one that does not is let in. There are two deployments of one policy:
a single-threaded **Node** server over SQLite, and a Cloudflare **Worker** whose
Durable Object per room awaits every storage access.

The modules here are TLA+ translations of that code. TLC checks them on small
instances, and TLAPS proves the main invariants for every value of the constants.
`PROJECT.json` lists the runs, the mutants that show that each property can
fail, the source lines of each definition, the findings and the hazards.

## 1. Inventory

| Component | State | Operations | Interacts with | What is hard | Correct when |
|---|---|---|---|---|---|
| Node room delivery (`node/socket-messages.js`, `node/store.js`, `relay/submissionReceipts.js`, `retainedState/socketReplay.js`, `node/socketDelivery`) | two mailboxes per room, sockets, replay snapshots | message, acknowledge, replay, close, restart | wakes, presence, connection policy | replay awaits between frames; full mailboxes; retries; several computers share a mailbox | receipts are honoured, frames reach their addressees only, budgets hold |
| Worker room delivery (`relay/room.js`, `relay/roomSockets.js`) | the same, each mailbox one stored array | message, acknowledge, hello and flush, close, restart | alarm, wakes, presence | a write the storage refuses; the whole array is one value; several computers share it | as above, and a refused write neither stores nor forwards |
| Task job store (`taskDispatch/policy.js`, `node.js`, `worker.js`) | rows with schedule, claim, ciphertext | put, claim, finish, cancel, expire on read, purge | offers, alarm, writers | races of claim, cancel and expiry; a retry after a purge | one start, inside the schedule; receipts stay on record |
| Task job offers (`socket-offers.js`, `worker-room.js`) | per-socket cache of recent offers | Node's pump, Worker hello/put/alarm | job store, alarm | cache lifetime against the period of the rounds | every due job is offered |
| Wake delivery (`relay/wakeDelivery.js`) | persisted record, in-memory chain | request, drain, send, restart, purge | push tokens, alarm | crash between claim and answer, coalescing | no recorded wake lost, three attempts, an interval apart |
| Push token registry (`node/store.js`, `relay/room.js`, `node/pushDelivery`) | list of at most eight tokens | register, unregister, wake pass | wakes, APNs (external) | a list read before an await and written after it | registrations and removals hold |
| Worker room alarm, endpoint directory (`worker-room.js`, `relay/endpointRetention.js`, `relay/endpointDirectory.js`) | one alarm, at most 32 endpoint records | put, get, delete, purge, schedule, alarm | jobs, wakes | several writers of one alarm; eviction before it is set | no deadline of the room is later than its alarm |
| Connection policy, cool-down (`relay/connectionPolicy.js`, `relay/coolDown.js`, `node/socket-policy.js`) | bounded registry of strikes | strike, look-up, sweep | upgrade, sockets | lazily dropped entries, mixed strikes, eviction | announced back-offs are served, a lease clears admission strikes only |
| Upgrade and managed admission (`node/server.js`, `node/upgrade-gate.js`, `node/managed-*.js`, `node/client-access.js`) | sockets of a room, leases, timers | upgrade, admit, renew, expire | quota service (external) | the capacity check is older than the awaited decision; renewal races the timer | capacity holds, only lapsed leases expire |
| Heartbeat (`node/heartbeat.js`) | `awaitingPong` | sweep | sockets | late pongs | two silent sweeps end a socket |
| Retained state, presence (`retainedState/*`, `roomPresence/*`) | latest ciphertext per key; presence rows | put, list, purge | room delivery | chunked writes in the Worker, eviction order | newest revision kept, no torn value, catalogs evicted last |
| Pairing mailbox (`relay/pairingMailbox.js`, `node/store.js`) | parked blobs | put, take, purge | none | two takers | taken once |
| Task writers (`taskDispatch/writers`) | grants, resource reports | grant, revoke, report, purge, delegated put and cancel | job store | a grant revoked, purged or issued anew during an awaited body | delegated work starts within the grant that authorised it |
| Task configurations (`taskDispatch/configurations`) | stored configurations | put, get, delete, purge | alarm | none of its own | the last put is read |
| Task activities (`taskActivities/*`) | Live Activity enrolments, a chain of updates each | register, rotate, remove, update | APNs | rotation or removal during a send; an answer after the timeout | an answer never undoes a rotation, updates are spaced, every update is answered |
| Metrics, logging, routing, legacy proxy | counters or none | | | | no behaviour depends on them |

## 2. Plan

Written so far, in this order: `NodeRoom`, `TaskJobs`, `TaskOffers`,
`WakeDelivery`, `PushTokens`, `SocketPolicy`, `RoomAlarm`; then `RetainedState` with
the abstract `StateCache`, `TaskActivities`, `TaskWriters` in front of `TaskJobs`,
and `WorkerRoom` beside `NodeRoom` with the abstract `Submissions` that both
implement.

```
 Submissions                 StateCache              TaskJobs
   ^      ^   (refinement)      ^  (refinement)         ^  (refinement, EXTENDS)
 NodeRoom WorkerRoom        RetainedState           TaskWriters

 TaskOffers   WakeDelivery --+
                 PushTokens  +-- RoomAlarm (the alarm they share in the Worker)
 SocketPolicy (who may hold a socket)     TaskActivities (APNs, own registry)
```

Left, in order of value:

1. The Worker's use of the cool-down registry (`roomSockets.js`) in `SocketPolicy`.
2. The deadlines of stored configurations in `RoomAlarm`.

## 3. Modules and code

`X` is the specification, `MCX` gives its constants values for TLC, `XProofs`
holds theorems: `RoomDeliveryProofs` those of NodeRoom, WorkerRoom and the promise both
make, `TaskJobsProofs` those of TaskJobs and TaskWriters, `WakePushProofs` those of
WakeDelivery and PushTokens (whose `TokenInit`, `TokenNext`, `TokenSpec` and `TokenTypeOK` have
these names because the two are proved side by side). `FiniteFacts` has the lemmas
about sets, sums and sequences that they share. Operators whose comment begins "Mutant:"
are plausible bugs that the project uses to test its own properties; no specification
uses them.

- **Deployments**: the constant `Runtime` and the variable `runtime`, which tell Node from
  the Worker in WakeDelivery, PushTokens, RetainedState and TaskOffers.
- **NodeRoom**: one room of the Node relay. `handleSocketMessage` never awaits, so
  each of its outcomes is one action: `ForwardLive`, `StoreAndForward`,
  `ForwardDuplicate`, `DropFull`, `DropOversize`, `CloseOversize`. `Registers` and
  `RegisterRole` are the first frame, which takes the replay `Snapshot`;
  `ReplayNext` is one turn of `replayNodeFrames`. `Acknowledge` removes by delivery
  id and role. `Kept` is the eviction of `retainSubmission`: the cut that removes
  the fewest of the oldest ordinary rows. `PolicyClose`, `FinishClose`,
  `LoseConnection` (heartbeat or network) and `Restart` are the failures. Reasons
  for a policy close, backpressure and response allowances are nondeterministic.
- **WorkerRoom** extends NodeRoom: the same state, policy (`Kept`, `Live`, `Promises`,
  `Targets`) and sockets, with the Durable Object's handler. The platform delivers no
  event to the object while storage is awaited, so each outcome of
  `webSocketMessage` is one action: `SendLive`, `QueueAndSend`, `SendDuplicate`,
  `QueueFull`, `StorageFails`, `Oversize`. The first frame of a socket also flushes
  (`Flush`) and may delete an array of expired rows (`Flushed`). `Retained` is its
  single budget, 1.8 MB in one stored value. `StorageFails` is the one exception the
  handler catches, a failed read or write in `queue()`; `replay` is not used.
- **Submissions**: the abstract promise to a phone. `held` are the submissions on
  record, `promised` the receipts, `read` what an addressee has read. In `Store` and
  `Release` only what has expired or was read may leave, and a receipt is given only
  for what is held. `Held` and `Promised` of NodeRoom are the mapping.
- **TaskJobs**: the job table of one room. Each store call is one transaction in
  both deployments, hence one action. `ExpireQueued` is the expiry that reads
  perform; `Purge` the seven-day retention. `started` and `receipts` are history.
- **TaskWriters** extends TaskJobs with the grants of a room. A delegated upload is
  two actions, because `taskDispatch/index.js` authorises the writer (`UploadBegin`),
  awaits the body and only then stores (`UploadEnd`); `upload` is the request in
  between, with the grant row it read. `PutGrant` purges rows past `RetainedUntil`
  first; `Revoke` and the purge remove the resource report. `author` is history.
  `JobStep` are the other operations of TaskJobs.
- **TaskOffers**: jobs of one connected computer in `store.due` order, with the
  cache as ages of offers. The deployment is chosen in `Init`. `FallsDue` is a job's
  `notBefore`. In the Worker `OfferOnRequest` (hello, PUT), `TimedRound` and `EarlyRound`
  offer and set the alarm; `Reschedule` and `Leave` are the requests that end in
  `scheduleRoomTaskAlarm` and offer nothing: endpoints, wakes, claims, finishes,
  cancellations, as often as clients send them. `maintain` sets the alarm of a job that is
  due already a full `Period` ahead of the request.
- **WakeDelivery**: requests wait on the chain (`line`), a turn writes the record,
  claims, and pushes (`sending`). `PurgeRow` is Node's maintenance. Deadlines are
  kept as the time left, so no clock bound is needed. `owed`, `tries`, `gap` are
  history: what the requester is still owed, pushes spent, time since the last push.
- **PushTokens**: the list and one wake pass over it. `Remaining` is where the
  deployments differ: Node reads the list again, the Worker filters the old one.
- **SocketPolicy**: the sockets of one Node room. `Upgrade` (gate), `Admitted` and
  `NotAdmitted` (after the awaited decision), first frames, abuse, renewals,
  `TimerFires`. `entries` is the registry in order of the last strike. `announced`,
  `rude` and `others` are history: what is left of the last announced back-off,
  whether it was for more than admission, who was struck since.
- **RoomAlarm**: all that shares the Worker's one alarm. A handler is cut only where
  it awaits something other than storage (the platform delivers no event to the
  object while storage is awaited): the push, and its turn of scheduling. `owed`
  stands for any number of handlers that have still to schedule, since one turn
  does what the others would. `Evict` ends the object at any point; storage and
  the alarm survive, and an alarm whose handler had not ended runs again.

- **RetainedState**: `RetainState` is the policy both stores share: a row that is `Refused`
  changes nothing but what has expired (`Live`), any other competes with the live rows of
  the other slots (`Contenders`), of which whole groups are evicted by `Rank`. Node
  replaces in one transaction (`NodePut`, `NodePurge`). The Worker's put is `WorkerPut`,
  which reads what there is (`before`), decides what to leave (`after`) and with that what
  to remove and to add (`gone`, `fresh`), then one `WorkerWrite` per awaited storage call:
  `RemoveChunk` and `RemoveMeta` of each row that goes, `AddChunk` and `AddMeta` of the new
  one, `WriteIndex`. `Fault` cuts it short. `NotePresence` is `updatePresence`, whose times
  rank the groups. `Rows` is the reader, which skips what is incomplete. `cuts` and
  `put.shown` are history.
- **StateCache**: the abstract cache of latest frames: a slot loses its frame or shows a
  newer whole one.
- **TaskActivities**: `rows` is the registry, `chain[a]` the promise chain of an
  activity. `Register`, `RegisterRefused`, `Unregister`, `List` are the endpoint;
  requests read the clock before they await their body (`RequestTimes`). `DeliverSend`
  is `deliver()` up to the awaited push; `AnswerOk`, `AnswerStale` and `Failed` what
  follows it, with the registry as it is then. `wanted` and `accepted` are history:
  the enrolment the phone may count on, and what APNs took since it began.

- **Filters**: `Filter`, the filter of an array, which the token list, the receipts of
  wakes, the presence record and the cool-down registry use. It is a recursive function
  and not `SelectSeq`, so that proofs can say what it returns.

WakeDelivery takes the Worker's alarm as given; RoomAlarm is where it is set, and shows
when that holds: the deadlines of a wake are absolute, so others may set the alarm
earlier but not push the wake's deadline away. The deadline of a due job is relative to
the last request, which is why TaskOffers has the requests itself.

## 4. Runs

| Run | Shows | Bounds |
|---|---|---|
| `node_room` | receipts durable, one row per delivery, budgets; NodeRoom implements Submissions | one phone, one computer, ordinary and protected ids with retries of another expiry; mailboxes of two rows; three stored rows, one tick, one fault: eviction, refusal, expiry and a restart all occur |
| `node_fleet` | frames only on sockets of their addressee; a submission with a receipt is eventually read | two computers with their own keys, one of which does not announce its key; one fault |
| `worker_room` | the array fits its value, one row per delivery; WorkerRoom implements Submissions; a submission with a receipt is eventually read | a phone and two computers, a mailbox of two rows, two stored rows, one tick, one fault (a refused write, a lost socket or a restart): 107 000 states |
| `retained_state` | both stores implement StateCache; torn frames, limits of whole frames, eviction order | a room of two slots and three chunks, both deployments, two faults; Node: four slots of two phones, frames of one to three chunks; Worker: a catalog that grows to two chunks and a head that shrinks to one, so that a put evicts, tears and completes: 446 000 states |
| `task_jobs` | single start, schedule, receipts, ciphertext, room limits; delegated starts and reports belong to grants | two job identities, two attempts, two writers and three grants of which a room holds one, clock to 6: long enough for a job or a grant to be stored, ended, purged and stored again: 828 000 states |
| `task_activities` | answers never undo a rotation, spacing, no repeated push, chains drain | two activities for one place, two tokens, two deliveryIds, two updates, lifetime and gap of two units: 363 000 states |
| `task_offers` | every due job offered (Node always; the Worker if offered jobs are dealt with and requests pause) | three jobs, cache of three units, as many as Node's pump visits before it forgets |
| `wake_delivery` | no lost wake, budget, spacing, trailing wake served | two identities, history of one, two attempts, both deployments |
| `push_tokens` | registrations and removals hold in Node, and in the Worker when nothing changed during a pass | four tokens, limit two, symmetric |
| `push_tokens_worker` | **violation**: an unregistered token comes back | as above, Worker |
| `socket_policy` | capacity, served cool-downs, forgiveness, lease expiry | a leased computer and a phone, a room of one socket, a registry of two of three identities of which a strike sweeps one; back-off 1 then 2 |
| `room_alarm` | the alarm covers every deadline, expired records go, due wakes are served | two recipients for one record, one job, one wake, one eviction |

The bounds are chosen so that limits are short of what the inputs ask for (a mailbox, a
room, a registry, a list is full and refuses or evicts) and the clock runs past the
longest lifetime where a purge matters. Two limits are met but not exceeded in their
runs, the number of rows in `worker_room` and of jobs in `task_jobs`, where the byte
limits bind first; `ArraysAreBounded` and `QueueIsBounded` prove them for all values. A fault bound of one or two
is enough for the properties: each speaks of one row, one slot or one wake, and
`TornOnlyAfterTwoCuts` shows why retained state needs the second.

The violation is a disagreement between a document and the code, described under
`findings` with both lines. Other facts a reader of the code should know, each
visible in a property's hypothesis:

- In the Worker a due job that is never claimed keeps later ones from being offered;
  hence `OfferedJobsLeave` in `OffersReachEveryJob`. Node's pump moves on.
- In the Worker every endpoint request, wake, or (repeated) claim, finish and cancellation
  sets the alarm of a job that is due already to fifteen seconds from now
  (`worker.js:95-99`) without offering it. Such requests, when they come less than fifteen
  seconds apart, postpone the offer for as long as they do, although
  `taskDispatch/README.md` has the alarm offer a job "when due". TLC finds this behaviour
  when `RequestsPause` is taken out of `OffersReachEveryJob`; with it, a pause as long as
  the alarm is enough. A PUT or a computer's hello offers at once.
- Both relays remove what an acknowledgement names from any socket of the role. That a
  device acknowledges only what it has read and decrypted is the clients' part of the
  protocol and a guard of `Acknowledge` and `AcknowledgeRow`; receipts and delivery are
  promised under it.
- Node's purge of a wake record forgets when the last push was, so two pushes may be
  closer than the interval (`PushesSpacedWhileRemembered`).
- A refused endpoint overwrites the room's alarm with the directory's next expiry,
  which delays jobs and wakes until then, at most fifteen minutes (`AlarmComposed`).
  `DueWakeServed` shows that the delay ends, and names the case that has no end of its
  own: an eviction after a wake was recorded and before any alarm was set.
- Two puts of one retained slot in a row that were both cut short can leave chunks of
  two frames under one metadata record (`TornOnlyAfterTwoCuts`). One cut never does,
  because the old row is deleted before the new one is written. The relay cannot
  tell such a frame from a whole one; the phone's decryption must. A cut may also hide
  the newest revision, after which an older one is accepted again. A torn frame is not in
  any put's count, so it may come on top of the room's limits (`RoomLimits` speaks of
  whole ones).
- A frame that takes its slot and is then evicted with its own group takes the older frame
  of that slot with it. A group counts as a catalog only if no
  other frame of it has a higher priority number, so `EvictionOrder` compares groups.
- A delegated upload whose body is under way when its grant is revoked is still
  stored; `StartsWithinGrant` therefore asks that the upload began before. A job belongs
  to a writer by identity only, so a grant reissued after its retention reaches the
  jobs of its predecessor.
- A Live Activity keeps the receipt of its last delivery only: `RetryNotResent` speaks
  of that one. A retry of an older delivery, or of one whose answer came after the
  eight seconds, is pushed again; `accepted` has only what the relay learned in time, and
  `UpdatesSpaced` speaks of that. An accepted end removes the enrolment that exists
  when its answer arrives.

Deadlock is not checked where the bounds on clock, arrivals or faults end the
behaviours (`node_room`, `node_fleet`, `worker_room`, `task_jobs`, `retained_state`,
`task_activities`).

`TypeOK` is proved for every module that has theorems. In `TaskOffers` it documents the
state; it holds in that run when `INVARIANT TypeOK` is added to the configuration.

### Fairness

- NodeRoom: a computer without a socket dials again and says hello, which is what
  the client does; the event loop serves replays, buffers and closes. Nothing is
  assumed of phones, of new messages or of acknowledgements.
- WorkerRoom: as NodeRoom, with the hello of a computer as the redial's first frame.
- TaskActivities: a promise whose predecessor has settled runs, and an awaited push
  settles within its eight seconds (`Failed`). Nothing is assumed of clients, of APNs
  or of time.
- TaskOffers: time passes; strong fairness of the timer or alarm, which fires if it is
  due again and again, as in RoomAlarm. That the receiver deals with what it is offered,
  and that requests pause, are hypotheses of the property, not fairness of the
  specification.
- WakeDelivery: time passes, the pump or alarm comes round, the chain is served,
  and a push ends by its eight-second timeout. In the Worker the alarm is the one
  that the request set, see RoomAlarm.
- SocketPolicy: expiry timers fire.
- RoomAlarm: weak fairness of time, of scheduling turns and of the end of a push;
  strong fairness of the drain, whose place in a first-in first-out chain later
  requests cannot take, and of the alarm, which the platform delivers as soon as
  it is due even though requests may move it away in between.

## 5. Proofs

All theorems hold for every value of the constants under the named assumptions
(`...Assumption`) of the modules, which TLC evaluates in every run. Apart from the
ranges of limits and lifetimes they say that a null value (`None`, `NoJob`, `NoClaim`) is
none of the values it stands beside, that there is no third deployment, and that a
delivery id names one message (`ImmutableIdAssumption`). Sets of devices, tokens, jobs, recipients and activities may
be infinite: that what a room holds is finite is part of the invariants.

- **FiniteFacts.** What the other proofs use of finite sets and sequences. Induction
  is stated of a set instead of a predicate (`NaturalInduction`, `SubsetInduction`: a
  collection of subsets that has the empty one and is closed under adding an element
  has every finite one), which the provers can instantiate with a set comprehension.
  From it: that a function defined by recursion over a set or a prefix exists and
  meets its equation (`IterationExists`, `RecursionExists`, `FilterExists`), that the
  byte counts of the models are sums (`IterationIsSum`) and grow with their set
  (`SumMonotone`), and that `Filter` lists, in order, exactly what it keeps
  (`FilterLists`, `FilterKeeps`). `Has` and `Ahead` say that a list has an element, or
  one ahead of another, and how appending, dropping the first and filtering change that.
- **RoomDeliveryProofs, Node.** `TypeCorrect`. `SubmissionsAreProtected`: a lemma per
  kind of step says what may leave a mailbox (`StoreFacts`, `UnstoredFacts`, `LossFacts`);
  only expiry and an acknowledgement remove a protected row, and an acknowledgement
  comes from a device that has read it. `ReceiptsAreDurable` joins this with
  `PromiseFacts`: a receipt is given only when a row with that id is stored and
  lives as long as promised; it needs `ImmutableIdAssumption`. `DeliveriesAreUnique`
  rests on the duplicate test before every insertion. `FramesReachAddressees` is not
  inductive: `RoutingInv` adds that rows are filed under the role they are addressed to,
  that only open sockets are replayed to, and that a closed one has no role.
  `RoomImplementsSubmissions` maps every step to one of Submissions or a stutter:
  `MailboxStep` for steps that write a mailbox, from `LossFacts`, `PromiseFacts` and
  `FreshRow` (a stored row is new and has not expired), `QuietStep` for the others.
  `MailboxesAreBounded` needs `BoundsInv`, which adds that the rows are finite: the count
  of an eviction's survivors is tested, and fewer rows weigh no more (`PartIsSmaller`).
- **RoomDeliveryProofs, Worker.** `WorkerTypeCorrect`; `WorkerImplementsSubmissions` from
  `QueueFacts`, `UnqueuedFacts` and `ReceiptFacts`, the counterparts of NodeRoom's
  lemmas for the stored array; steps that both rooms take are `SharedStep`. A refused
  write is covered: it changes nothing but expired rows. `ReceiptsAreGood`: in whatever
  implements Submissions a receipt is good until its expiry or until the submission was
  read. `WorkerReceiptsAreDurable` is that promise read through the refinement mapping,
  so the Worker's durability is proved from what it implements and not again from its
  handler. `ArraysAreBounded` needs `ArrayInv`, finite rows again.
- **TaskJobsProofs, jobs.** `StartsOnce` needs `JobInv`: a queued row has never been
  started under its identity and body (`QueuedIsUnstarted`), and a granted
  attempt is the one its row names, or the body has expired and no row holds it
  (`StartIsOnRecord`): the purge waits for the expiry, and an expired body is no
  longer a valid request. `ReceiptsStayOnRecord`, `CiphertextKept`, `ClaimsEndByFinishing`
  and `StartsAreInsideSchedule` follow from what each operation does to one row
  (`ClaimRow`, `CancelRow`, `FinishRow`, `PurgeRow`, `ExpireKeeps`). `QueueIsBounded`: every
  operation but a put takes jobs off the active ones or leaves them (`Shrinks`), and a put
  adds one to what it has counted after expiring the rest (`StoringAddsOne`).
- **TaskJobsProofs, writers.** `WriterTypeCorrect`. `WritersRefineTaskJobs`: every step of a room
  with writers is a step of TaskJobs or leaves the job table alone; all theorems above
  then hold with writers (`DelegatedJobsAreSafe`). `ReportsBelongToGrants` is inductive
  with the types. `DelegatedStartsAreGranted` needs `GrantInv`: the row an upload carries
  authorised it and was not revoked then (`UploadAuthorised`), and a stored job lies
  within the row that authorised it (`JobWithinGrant`). The second survives purges and
  retries because a row keeps its body (`BodiesStay`), and the start is before the
  body's expiry (`StartsBeforeExpiry`), which is no later than the grant's.
- **WakePushProofs, wakes.** `WakeInv` ties the record to the history: a push in
  flight is claimed (`SendIsClaimed`), recorded attempts are the pushes spent
  (`AttemptsAreTries`), a pending wake is due no earlier than the interval after
  the last push (`DueAfterInterval`, `LastSentIsLastPush`). `WakesAreKept`,
  `BudgetHolds` and `PushesAreSpaced` follow. `TypeCorrect` adds that the chain and the
  remembered receipts are typed and within their limits (`Lines`).
- **RoomAlarmProofs.** `AlarmIsComposed`: `AlarmComposed` speaks of the moments when no
  handler is under way, so `AlarmInv` says what holds in between: once nobody owes a
  scheduling, the alarm covers directory and jobs even while a request awaits its push,
  and the wake too when nobody does; an alarm handler that awaits a push has been
  drained. The cases that matter are the tick, where the alarm and every deadline come
  nearer together (`TickCovers`), reads, which expire jobs (`ReadCovers`), and a turn of
  scheduling, which takes the minimum of a finite set (`MinFacts`, `ScheduleCovers`).
- **TaskActivitiesProofs.** One invariant, `ActivityInv`, for three properties. `Agree`: row
  and phone name the same token and expiry while either is alive. `Receipts`: the row
  carries the receipt of the last accepted update, and those are spaced and differ from
  their neighbour. `FlightOK`: what an update on its way was tested against still
  holds when its answer comes, whatever was rotated, removed or enrolled anew in
  between. The last is the strengthening: `PhoneAndRegistryAgree`, `AcceptedUpdatesAreSpaced`
  and `RetriesAreNotResent` all speak of the state after an answer, the tests in the code
  of the state before the push. It holds because a chain has one update on its way
  (`ChainOK`), so that only that update can change the receipt.
- **SocketPolicyProofs.** `RoomIsBounded` and `ExpiryFollowsLease` from `SocketInv`: sockets are
  counted again after the awaited decision, and the timer of an open socket is its
  lease's. For the registry, `CoolDownInv` ties its entries to what clients were told:
  an entry that a lease does not clear records abuse (`AbuseOnRecord`), what was
  announced is on record unless as many others as the registry holds were struck since
  (`ToldIsOnRecord`), and the registry is in the order of the strikes (`InOrder`), which is
  what makes the evicted entry the one whose identity is crowded (`OldestIsCrowded`).
  `LeasesReconnect` and `BackoffsAreServed` follow; the second goes through both places
  where an identity is let in (`WhoLetsIn`). The doubling of the back-off is the
  recursive function `TwoTo`, as the provers know nothing of `2^n`.
- **WakePushProofs, tokens.** `TokensTyped`. `PushInv`: the list repeats no token, a pass sent
  the list as it is unless a registration changed meanwhile (`SentIsCurrent`), and its order
  is that of the registrations (`InOrder`), so that the one a full list pushes out has Limit
  registered after it. `RegistrationsAreKept` and `UnregistrationsAreKept` follow.
- **RetainedStateProofs.** Five theorems from one invariant, `IInv`: `TypeCorrect`,
  `TornAfterTwoCuts`, `WholeWithinLimits`, `EvictsInOrder`, `ImplementsCache`. None of the
  properties is inductive, because between two writes a slot is neither what it was nor
  what it will be. `Settled` slots, those no running put has still to write, are `Sound`:
  without a cut they are whole or empty, after one cut chunks may be missing but none is
  another frame's, after two anything may be. For a running put `PutInv` says what it
  decided (`Plan`), how far it is (`Progress`, `Removing`, `Adding`), and that the rows it
  keeps, and only they, can still be read (`Kept`, `Readable`, `Showing`).
  - The plan is a result of `RetainState` for the clock and the presence record of its
    beginning. `SameChoice` shows that it stays one to the end, as neither changes
    while a put awaits its storage.
  - `WholeWithinLimits` is argued write by write. Removing only takes rows away
    (`FewerFit`). A chunk that is added under metadata left by a fault can complete a row
    only if it is a chunk of the same frame, which has the same size as the row that is to
    come (`ExchangeFits`).
  - `EvictsInOrder`: `EvictionOrdered` shows it of `retainState`'s choice, from what the four-part
    order says of a group that stays and one that goes (`StaysLonger`); `IndexWritten` that
    the rows read after the last write are that choice.
  - `ImplementsCache`: a put is hidden from phones until it ends (`put.shown`). Ending it,
    by its last write or by a fault, replaces one slot by a newer frame or only takes frames
    away (`PutShown`, `ReplaceStep`, `LoseStep`).

Only model-checked:

- every liveness property, since fairness is out of the prover's reach:
  `EventuallyDelivered`, `OffersReachEveryJob`, `TrailingWakeServed`, `ChainDrains`,
  `LapsedSocketsClose`, `ExpiredRecordsRemoved`, `DueWakeServed`;
- `TaskOffers`, whose property is liveness.

## 6. Not modelled

- **Pairing mailbox**: take reads and deletes in one synchronous call in Node and in one
  turn of a Durable Object, so no step can come between; a model would restate one
  assignment.
- **Task configurations**: a last-writer-wins table, one transaction per request. Its
  deadline is one more row of the minimum that RoomAlarm takes over three others.
- **Heartbeat bookkeeping**: that the second silent sweep ends a socket; its effect,
  `LoseConnection`, may happen at any time.
- **Counters that end in a close or a refusal**: the frame window of the rate limit,
  response allowances, bytes in flight of `socketDelivery`. Their effect is a
  nondeterministic choice. Ingress receipts likewise.
- **The quota service's leases** (`client-access.js`, `hostwatch-client.mjs`).
- **The Worker's use of the cool-down registry** (`roomSockets.js`): it calls the same
  policy and registry as Node for clients without tickets, at the upgrade, at the first
  frame and at a close, and loses the registry when the object is evicted.
- **Worker exceptions the code does not catch** (presence, retained state or backlog at
  a hello) and mailbox rows of older versions without a delivery id.
- **Encryption, signatures, validation syntax**: a frame, ticket or credential is valid
  or absent.
- **Metrics, logs, request routing, the legacy proxy**: no behaviour of the relay
  depends on them.
