# tgNtfy in TLA+

tgNtfy is a notification gateway: services post events over HTTP, the gateway
stores, routes and batches them, and a Telegram bot sends each batch to the
user it is for, in a group with one forum topic per service. These modules
model the parts of it in which goroutines, failures and restarts meet. Source
references are `file:line` under `src/`; the package directory is given where it
is not plain.

Files: `X.tla` models a component, `XProofs.tla` proves theorems about it,
`MCX.tla` and `MCX*.cfg` are its instances for TLC, `PROJECT.json` maps every
definition to the lines it stands for.

    tlc -workers 2 -config MCTransport.cfg MCTransport
    tlapm TransportProofs.tla

The proofs about `Coalescer` are in `GatewayProofs.tla` with those about the
composition that extends it, and the proofs about `Setup` in `MenuProofs.tla`:
both need the same lemmas.

## 1. The system

    service --POST /v1/events--> Ingest --+--> events table
                                  |       +--> Limiter, Catalog, Services
                                  v
                     ResolveRoutes / EnsureTopic --createForumTopic--> Telegram
                                  |   (Destination)
                                  v
                        Coalescer  (one batch per chat, topic, service)
                                  |  Flush: delivery row, queue
                                  v
                        Transport loop --sendMessage--> Telegram
                                  |
                         deliveries table <-- retry button, /status
    service --POST /v1/link--> Linking (codes, identities, subscriptions)
    user    --/start /link /connect /setup /menu--> update handler (menu)

| Component | State | Operations | Hard behaviour |
|---|---|---|---|
| Coalescer (`coalesce/coalesce.go`) | map of open batches, a timer each, one mutex | `Add`, `forceFlush`, the timer's closure, `flushBatch` | the mutex is released between seeing the cap and flushing; a stopped timer may already run |
| Transport (`transport/transport.go`, `store/deliveries.go`) | bounded queue, token bucket, the delivery in flight, delivery rows | enqueue, `Run`, `deliverWithRetry`, `Stop`; `MarkDelivery*`, `RetryAllFailed` | overflow, 429, retries, failing bookkeeping writes, restart, button clicks during a delivery |
| Destination (`store/topics.go`, `store/routing.go`, `dispatch/dispatch.go`, `menu/setup.go:66-90`) | user's group, topic rows, Telegram's topics | `EnsureTopic` from events and links, `finishSetup`, `Flush`'s two reads | every step is a statement of its own: no transaction, no lock |
| Linking (`store/identity.go`, `admin.go`, `users.go:58-74`, `codes.go`) | link codes, identities, `service_users`, subscriptions | `/link`, `POST /v1/link`, `tgntfy link/unlink`, `/start`'s claim | look-up and redemption are two transactions; three writers claim one identity |
| Ingest (`ingest/ingest.go:247-353`, `store/events.go`) | events table, handlers, counters | `handleEvents` | repeated and concurrent posts, hangups, a crash with batches in memory |
| Limiter (`limit/limit.go`) | two rings of times per service | `AllowForService` | index arithmetic, window edges, no lock around a window |
| Setup (`menu/setup.go`, `store/codes.go:33-64`) | connect codes, users' groups | `verifySetup`, `CreateConnectCode`, `ConsumeConnectCode`, `SetDeliveryMode` | what was verified and what is bound may differ; codes are drawn twice; a redemption and its binding are two steps |
| Subscriptions, `/menu` (`menu/menu_kb.go`, `store/subscriptions.go`) | enabled types, mute; keyboards already sent | type and mute buttons, drawing a keyboard, links | read-modify-write by concurrent taps; errors discarded and nil meaning ALL; old keyboards stay usable |
| Services and tokens (`store/services.go`, `admin/admin.go`) | token hash and enabled flag of each service | `service create`, `rotate`, `enable`, `disable`; `authService` | another process writes between the two queries that authenticate a request |
| Catalog (`catalog/catalog.go`, `cmd/tgntfy/main.go:91-161`) | a snapshot, a signal channel of one | `Load`, `Reload` on SIGHUP, `TypeFlag`, `IsKnown` | edits, signals and reloads overlap; a request looks twice |
| Topic names, truncation, arguments (`topic/topic.go`, `ingest/ingest.go:431`, `admin/admin.go:74`) | none | pure functions | runes, bytes and edges |
| Users, Update handler, Admin CLI, Server wiring | see `PROJECT.json` | | modelled where another component needs them |
| Telegram client, Health, Schema | see `PROJECT.json` | | I/O, or no state |

What makes each correct, in a sentence: the coalescer loses nothing and flushes
whole batches; the transport posts nothing again once it was told that Telegram
took it (an answer that is lost makes it post again), never calls a row sent
wrongly, and comes to an end; a message goes to the topic of its own service in
the group the user chose, but for the time it takes a change of group to go
through; a code links one identity once and nobody but the operator takes an
identity from its user; all delivery rows of an event come of one batch however
often it is posted; the limiter keeps its caps as long as requests do not
overlap, and finds back to them afterwards; a request is let in only if the
operator entitled it, and a catalog comes into force when it was signalled; a
tap changes the type it is on, unless it overlaps another or reads nothing, and
the keyboard tells what is routed.

The hazards, each at its line with the properties that would catch it going
wrong, are listed in `PROJECT.json`.

## 2. Modules

### Coalescer, BatchingSpec

`BatchingSpec` is the promise of a coalescer: items that wait are emitted in
batches, each of one key and made of waiting items, and what was emitted never
waits again. `Coalescer` implements it.

| Model | Code |
|---|---|
| `b`, `items` | the map `c.b` of open batches, and `p.items` of each batch there ever was |
| `timer` | `p.timer` and the closure it runs: armed, fired and waiting for the mutex, flushing, stopped, done |
| `worker` | handler goroutines between the end of `Add`'s critical section and the end of `forceFlush` |
| `calls` | the calls of the `Flush` callback each batch has had (an observer; the program keeps none) |
| `Add` | `Add` under the mutex, the first event arming the timer |
| `ForceFlush`, `ForceFlushLost`, `CapFlush` | `forceFlush` under the mutex, finding the batch or not; `flushBatch` outside it |
| `Fire`, `TimerLock`, `TimerFlush` | the closure started by the runtime, its critical section, its flush |

A batch is a value of its own, not a key, so that a closure that waits for the
mutex can meet the next window of its key, as it can in Go.

### Transport

`row` is the deliveries table, `queue` the channel, `run` the goroutine of
`Run` with the delivery in hand, `flushing` the goroutines between
`CreateDelivery` and `Enqueue`. One action per API call and per bookkeeping
write: a crash, a button click or a failing write can fall between any two. A
`Write` may fail and leave the row, since the loop discards those errors.
`tries`, `acks` and `posted` observe Telegram: the attempts it answered other
than with 429, the ok's that reached the loop, and the messages it posted. An
answer that is lost after the message was posted (`SendLost`) is for the loop an
error like any other, and it sends again. That a message is posted at the moment
its attempt ends leaves out a request that Telegram works on after the bot gave
up waiting for it: such a message appears later than `posted` says.
Back-off durations are left out: a sleeping loop is one that has not taken its
next step. `Faults` chooses which of crash, stop, retry click and write failure
may happen.

### Destination

One user, because every query is keyed by the user. A request walks through
`select`, `create`, `insert`: `EnsureTopic`'s SELECT, the callback into
Telegram, and `INSERT ... ON CONFLICT DO NOTHING`; each may fail, and so may the
two reads of `Flush`, which then goes to the chat with the bot or to no topic.
`finishSetup` is `SetDeliveryMode` and then `ClearUserTopics`; `Flush` reads the
user and then the topic. `made` is Telegram's list of topics, never the
program's. Telegram numbers the topics of each chat for itself, so a number kept
from one group may be any service's topic in the next; a row holds only the
number (`group_topics.message_thread_id`). `lost` counts topics whose creator
failed to store them, at most `MaxLost` of a service.

`disturbed` observes when rows or handlers may be of an earlier group: from a
`/connect` of another group until a `ClearUserTopics` succeeds while no handler
works for an earlier one. A message is `calm` if nothing is disturbed and its
chat is the user's.

### Linking

`code` is the link_codes table, `owner` the user of each external identity in
`service_users`, `sub` the subscription rows, `granting` the `AdminLink` calls
between their two statements; `links` and `halved` observe redemptions and the
`AdminLink` calls whose second statement failed or never ran. A request of `POST /v1/link` looks its code up (`Lookup`) and
redeems it in another transaction (`LinkIdentity`, whose statements are one
action because the transaction begins with an UPDATE, which makes every other
writer wait until it ends). A failing SELECT of the owner is taken for an
identity without a row (`LinkUnseen`, `store/identity.go:73-79`): the transaction
commits, and it is the upsert, which leaves `user_id` alone, that keeps the owner.
`AdminLink` is two actions, as it is two statements outside a transaction.

### Ingest

All events are of one service, user and type, so the coalescer holds one batch.
A handler is split at the limiter, the INSERT, the routing query and `Add`.
`Post` is the service: it posts until it is told that the event is accepted or
known. `Hangup` ends the request's context, which makes the statements of that
request fail; a failing routing query, of a hangup or by itself, is discarded and
the event counted as unrouted (`RouteNone`). `Flush` makes one row of a batch or
two, as `Coalescer` shows it may: `rows` counts an event's rows, `kept` the
batches they were made from.

### Limiter

The rings of one service. `allow` is split where it touches the ring (judge,
store, advance), because the registry's mutex is released before it runs, so any
number of handlers may be inside. While two are, there is no guarantee: both may
pass where there is room for one, and handlers that always come in overlapping
pairs store in one slot and skip the next, so that the ring never fills and no
bound holds at all. `met` observes which handlers were inside together with
another; when such a one records in a window, the `log` of what that window let
through begins anew. What is said is about requests that come one after another,
whatever overlapped before them.

### Setup

`code` is the connect_codes table, `group` the users' delivery mode and chat. An
update goroutine verifies a group and then issues a code, or redeems a code and
then stores the group it came from; a failure or a crash falls between the two.
`verified`, `last`, `uses` and `overlapped` observe what happened. The in-memory
`chatUser` of `SetupState` is left out: `verifySetup` consults it only for a
button without a chat, and there is none.

### Gateway, MessageSpec

`Gateway` composes `Coalescer` and `Transport`, as `main.go:122-138` wires them;
it extends the one and has an instance `T` of the other, so of two names that
clash the coalescer's is the plain one (`Init` is its initial state, `GatewayInit`
that of both). A call of the coalescer's callback is, in the same action, a `CreateDelivery` of
the transport or its failure (`dispatch.go:75-88`); every other action is an
action of one of the two, and a crash is one of both. `text` remembers which
batch a row was made from. `MessageSpec` promises what the user sees: an
accepted event waits until it is shown or lost, always with the same events of
its key, and what was lost is not shown later (`ImplementsMessageSpec`); how often
a message is posted it does not promise. `Shown` are the deliveries Telegram
posted, whether or not the loop was told. The retry button is left out,
because it only rewrites rows and nothing on this way reads one.

### Admission

What a request passes before its handler does anything, for both endpoints, one
action per query: size, `VerifyToken`, `ServiceEnabled`, the envelope, the
limiter, the drop rule and the second lookup, or `HasService` for a link. The
body is read by nothing before it is validated, so it is chosen there. Around
it: the command line, the operator's editor (`file`), and the SIGHUP loop (`hup`,
`reloader`, `snapshot`), whose channel holds one signal. `create` and `rotate`
store a token in `rows` and print it in a later step (`unprinted`, `told`), which
may never come, or come after another command's. `current` is what was stored
last for each service, `seen` and `asked` are observers: `seen` collects whose
token a request has had since it came in.

### Menu

One user and one service. `row` is the subscriptions row. A tap on a type is
`ReadEnabled`, `WriteTypes` and then the keyboard's two reads and `SendKeyboard`,
each able to fail as the code lets it: the errors of all four statements are
discarded. Writers of the row other than taps are `LinkIdentity`, the second
statement of `AdminLink`, and nobody else. `want`, `blurred` and `current`
are observers: the types stored when the user was linked last, changed by each
tap since; the types whose own tap overlapped another, met no row or was not
written, and those that were stored when a tap could not read the list; and which
readers, and whether the keyboard shown last, saw the row as it is. event_types
is a set, because nothing looks at its order and the code never appends a type it
read.

### Texts

`SanitizeTopicName`, its two callers, `truncate` and the argument loop of
`service`, as operators over short sequences; a rune is a space, a control rune
or a letter, a byte is anything. `MCAdmission` compares them with references in
ASSUMEs, which TLC evaluates before the run `admission`.

## 3. What the runs show

Every property is stated in words above its definition. All runs explore their
whole state space.

| Run | Instance | Shows |
|---|---|---|
| `coalescer` | 5 events of 2 keys, 2 handlers, cap 2 (72,885 states) | In every order of adds, cap flushes and timers: no event is stranded (`NoEventLost`) or joins a batch already flushed (`FlushIsFinal`); a full batch has somebody on the way to it (`FullBatchIsTaken`) and exceeds the cap by at most one event per other handler (`BatchBound`); the cap flushes a batch at most once and the timer at most once (`OneFlushPerCause`); every event is flushed in the end (`EventuallyFlushed`); `BatchingSpec` is implemented. |
| `coalescer_flushed_once` | 3 handlers (violated) | See section 5. |
| `transport` | 3 deliveries, queue 3, 3 attempts, no faults (102,405 states) | What must hold when nothing outside fails but answers: a pending row is somebody's (`PendingIsHeld`), a finished one tells what the loop knows of its end and after how many attempts (`LeftIsRecorded`), and whatever is queued is settled (`QueuedIsSettled`). |
| `transport_faults` | queue 2, all faults (5,501,162) | With crashes, stops, button clicks, failing writes, lost answers and overflow: once the loop was told ok no message of the delivery is posted any more, whatever fails before the row says so (`AckedIsFinal`); attempts, and so messages, are bounded although a 429 undoes the counter (`AttemptsBounded`); `sent` is true (`SentIsTrue`) and final (`SentIsFinal`). |
| `gateway` | 2 events of one key, cap 2, 2 handlers, 2 rows, queue 1, 3 attempts, crashes, failing writes, lost answers (193,712) | No event in messages of two batches, and no more deliveries of a batch than one for the cap and one for its timer (`OneMessagePerCause`); every event that came is shown or lost in the end, stuck nowhere (`EventuallySettled`); `MessageSpec` is implemented. |
| `destination` | 2 services, 2 groups, 2 handlers, a flush, 2 `/connect`s, 2 topics in each group, all faults (4,334,415, under symmetry) | Away from a change of group that is not through yet, a message has the number of its own service's topic in the very group it goes to (`OwnTopic`), and every row names such a topic (`RowsAreCurrent`), also after the second group was bound; few topics are created (`TopicsBounded`). |
| `linking` | 1 service, 2 identities, 2 users, 2 codes, 2 handlers (362,853, under symmetry) | A code links once (`UsedOnce`), even when it expires or is taken between look-up and redemption; only the operator takes an identity from its user, even when the owner could not be read (`NoTakeover`); an owner has a subscription row unless an `AdminLink` broke off (`OwnersSubscribe`). |
| `admission` | 2 services, 2 types, 2 catalogs and a broken file, 2 tokens, 1 handler (616,284) | Who is let in had the token stored last of an enabled service at some moment of the request (`AcceptedIsEntitled`); who is turned away had not, at some moment, or a query of the request failed (`RefusedForCause`); the last signal is buffered, being served or served (`SignalIsKept`), and a valid file that was signalled comes into force (`SighupTakesEffect`). The ASSUMEs of `MCAdmission` check `Texts` on all names of up to 7 runes, clamped to 4, and all lengths around the limit of `truncate`. |
| `menu` | 2 types, 2 handlers (133,896, under symmetry) | A type is enabled exactly if the taps since the last link ask for it, whatever taps of other types, mutes and the operator do, and however those fail: but for its own overlapping or unwritten taps, and for a tap that could not read the list and wiped it (`TogglesAreKept`); a keyboard drawn from the current row tells what `ResolveRoutes` does (`ScreenIsTrue`). |
| `ingest` | 3 events, one dropped by the catalog, 2 handlers, 2 posts of each (1 of the dropped one), all faults (225,488) | All rows of an event come of one batch, two at most (`DeliveredOnce`), answers are true (`AnswersAreTrue`), a stored event is in one place: with a handler, in the batch, in rows, counted as unrouted (also a linked user's, when the client hung up or the query failed) or lost by a crash or a failed write (`Accounted`); and it is settled in the end (`StoredIsSettled`). |
| `setup` | 2 users, 2 groups, 2 codes, 3 draws, 2 goroutines, failures and crashes (21,922) | Only users who passed verification bind a group (`OnlyVerifiedBind`), although a draw may replace anybody's code; the group connected last is the one bound, unless two `/connect`s overlapped or the last one failed (`LastConnectWins`). |
| `limiter` | burst 2 in 1, rate 3 in 3, 5 ticks, 2 handlers (3,974,407, under symmetry) | Of the requests let through one after another since the last overlap no window lets more than its cap through in any stretch of its size (`WithinCaps`); until requests overlap, and again once cap of them passed one after another, the ring agrees with the history about what is full (`RingIsExact`). |

**Why these bounds are enough to be interesting.** Cap 2 with four events of a
key lets a second window fill while the first is flushed, and two handlers let
one overfill a batch while the other is on its way to flush it. Three deliveries: one in hand, one
queued, one in a flush goroutine; three attempts: a retry that is neither first
nor last; queue 2 overflows. Two handlers and a flush put `/connect` between any
two steps of a topic's creation and of a flush; two services and two groups make a
wrong topic possible, of another service and under a number of the other group,
and the second `/connect` leads to another group or clears the rows of the same
one again; one topic of each service may be created and not stored. Two users and two codes compete for one
identity. Three draws of two codes replace one that is fresh, used or being
bound. Patience 2 repeats a post, with two handlers at the same time. The
limiter's rings turn over, each window refuses while the other does not, and
overlaps come before, between and after requests that come one after another. In
`gateway` a batch of two is flushed by the cap, by its timer or by both, or two
batches of one event each by their timers: two flushes in all, so two rows bound
nothing. A queue of one overflows, and three attempts let an answer be lost
twice and the third be received, lost or refused. Batches beyond the cap need a
third event and are in `coalescer`. Two services and two tokens make a token another's, rotated
or worthless; requests change nothing that another reads, so one handler is
enough, and the proofs are for any number. Two types and two taps: overlapping
taps of one type and of two. Seven runes against a clamp of four: spaces and
control runes before, between and after what is kept and what is cut off.

**Deadlock.** `linking`, `setup`, `limiter`, `admission` and `menu` check it. In
the others the system may stop: all events are flushed, all rows settled, all bounds used up.

**Symmetry** is used only where no temporal property of a run counts on
fairness: services, groups and handlers in `destination`, users, codes and
handlers in `linking`, these and the groups in `setup`, types and handlers in
`menu`, handlers in `limiter`.

**Fairness.** `Coalescer`: timers fire and goroutines run, nothing is assumed of
callers. `Transport`: the loop runs, tokens refill with time, and Telegram does
not answer 429 for ever; this last one is strong fairness of the answers that are
not 429, a lost one among them, and a real assumption, since the loop sets 429
no limit (`transport/transport.go:197-208`). `Ingest`: handlers run and windows
end.
`Gateway`: of all goroutines that can take a step some one does, since each has
finitely many steps, and the conditions of `Transport` on its loop; nothing is
assumed of callers. `Admission`: the goroutine that reloads is scheduled, and
nobody else has to act.

## 4. What is proved

TLAPS proves for every value of the constants what TLC checks on the instances.
From the named assumptions in each module, and nothing else:

| Module | Theorems | Assumptions that matter |
|---|---|---|
| `GatewayProofs` | of `Coalescer`: `TypeCorrect`, `Inductive`, `BatchesBounded`, `FlushedOncePerCause`, `FlushSeesFinalBatch`, `EventsAreHeld`, `FullBatchesTaken`, `Implementation`; of `Gateway`: `GatewayInductive`, `ShownOncePerCause`, `GatewayImplements`, `GatewayTransports`, `NothingIsLostSilently` | cap at least 1, finitely many handler goroutines; of `Gateway` also those of `Transport`, any queue and number of attempts, any subset of crashes and failing writes; for the last one no faults and room in the queue for every row |
| `TransportProofs` | `TypeCorrect`, `Inductive`, `AckedStaysDone`, `AttemptsAreBounded`, `SentRowsAreTrue`, `HeldByOne`, `SentRowsAreFinal`; `LeftRowsAreRecorded`, `PendingRowsAreHeld` | at least one attempt; any queue capacity, any set of faults; for the last two no faults and room in the queue for every row |
| `DestinationProofs` | `TypeCorrect`, `Inductive`, `TopicsAreOwn`, `RowsStayCurrent`, `FirstTopicWins`, `TopicsAreBounded` | finitely many handlers; any groups, any set of faults |
| `LinkingProofs` | `TypeCorrect`, `Inductive`, `CodesLinkOnce`, `OwnersHaveRows`, `IdentitiesStay`, `ExpiryIsFinal` | none on sizes |
| `IngestProofs` | `Inductive`, `EventsAreAccounted`, `RowsAreOfOneBatch`, `AnswersTellTruth` | any patience of the services, any set of faults |
| `AdmissionProofs` | `TypeCorrect`, `Inductive`, `OnlyEntitledAreLetIn`, `RefusalsHaveCause`, `SignalsAreKept` | any services, catalogs and handlers, any number of tokens |
| `MenuProofs` | of `Menu`: `Inductive`, `TogglesAreNeverLost`, `ScreenTellsRouting`; of `Setup`: `SetupInductive`, `OnlyVerifiedUsersBind`, `LastGroupIsBound` | none on sizes |
| `LimiterProofs` | `TypeCorrect`; `Inductive`, `CapsHold`, `RingForgetsNothing` | any sizes, caps at least 1, any number of handlers inside at once |

**The argument.** Each `IInv` is proved by `Init => IInv` and one step per
action. TLC checks it too, with the cfg of the component's run and `IInv` in the
place of its properties; it is not among the runs, because what it says beyond
the properties serves the proof. The same holds for what is only proved:
`HeldOnce`, `FirstTopicStays`, `ExpiredStaysUnused`, and `NoSilentLoss`, which
TLC checks with `MCGateway.cfg`, `GatewaySpec` instead of `FairGatewaySpec`,
`Faults = {}` and `QueueCap = 2`; with faults, or with a smaller queue, it is
violated.

- Coalescer: an open batch has an armed or fired timer, a batch somebody has
  seen full is open or taken, the events of all batches and `todo` partition the
  events, and whoever flushed did it with what the batch still holds. `BatchBound`
  needs the count: an event beyond the cap was added by a handler that has itself
  not flushed yet. The refinement maps `waiting` to the events in batches without
  a call and `out` to those with one; of a second call for the same batch it must
  be shown that it emits the very events of the first, which is a stutter.
  `IInv` is `Consistent /\ StoppedIsFlushed`; a crash leaves the first, and takes
  the second with the batches that will never be flushed.
- Gateway: `Consistent` and the transport's `IInv` (whose proof is cited through
  an instance of `TransportProofs`; that every step of the gateway is one of the
  transport or a stutter is `GatewayTransports`) are tied by `text`: each row
  was rendered by a flush that took place (`TextsAreFlushes`), and no two rows
  by the same (`TextsDiffer`), because the coalescer flushes once per cause.
  This is `OneMessagePerCause`, whichever of these rows Telegram posted and
  however often. For the refinement, `Accept` is the arrival of an event, an
  attempt that posts, answered or not, shows its batch for the first time or
  repeats it, and every other step can only end somebody's interest in a batch,
  which is losing its events or a stutter: nothing revives a batch nobody acts
  for. `NothingIsLostSilently` follows an event to its row: without faults its
  batch is flushed, the flush left a row (`FlushesHaveRows`), and a row that
  left the transport tells how (`LeftIsRecorded`).
- Transport: where a delivery is determines what its row says. A row that waits
  is as `CreateDelivery` left it; the loop's program counter and attempt number
  give the number of answers its delivery has had; rows not yet created are
  untouched. `AttemptsBounded` follows although the button writes the same rows,
  because the loop counts in its own variable, and a message is never posted but
  by an attempt (`PostsAreAttempts`). `AckedIsFinal` follows because the loop
  that has an ok in hand only writes the row and goes on, and what left its hand
  never returns. Without faults and with room for every row nothing is dropped
  and no write is lost, so the row of a delivery that left says how
  (`HandIsRecorded` covers the moment in which the loop has the answer and has
  not written it), and a pending row is still held.
- Destination: a handler carries the number of a topic of its service in the
  group it read (`HandlersRemember`). While nothing is disturbed no handler
  works for an earlier group (`HandlersAreCurrent`), so what it stores is a
  topic of the user's group and `RowsAreCurrent` holds; before there is a group
  there are neither rows nor handlers (`NoGroupYet`). `CreationsBounded` counts:
  while a service has no row, only handlers at the INSERT (and lost topics)
  account for topics made since the last clearing; once it has one, only
  handlers that missed it before still create.
- Linking: a code's state and the number of its redemptions agree; a handler
  works for the user its code was issued to. An owner has a subscription row
  from the step that made him owner, but for the identity `/start` claims and
  for an `AdminLink` between its statements or broken off there (`granting`,
  `halved`).
- Ingest: `Accounted` is nearly inductive: of each event it counts the places
  where it is. `Busy` adds what a handler may be working on. Rows are counted
  twice, by batches they came of and by themselves: a batch makes one row or two
  (`RowsOfKept`), and `Accounted` leaves room for one batch.
- Admission: a registered service has the token stored last for it, and no two
  have the same (`TokensAreCurrent`), whatever was printed; so between the two
  queries of a request nobody else can come to own its token
  (`TokenStaysOwned`). `FactsAreSeen` ties the observer to the state: what holds
  now has been seen. Whoever passed the second query was entitled when the first
  one matched, and `seen` never forgets; whoever failed a query that did not err
  met a moment without an entitled owner. `SignalIsKept` needs none of this: it
  says where the last SIGHUP is, and that a reload that read an older file is
  never the last one.
- Menu: taps in flight together blur each other (`TapsBlur`), so a list about to be
  written is stale in blurred types only (`ListIsFresh`) and the row misses exactly
  the tap in flight (`PendingTap`): writing it settles that tap and disturbs no
  other. For the keyboard, whoever still counts as current has read what the row
  says (`ReadersAreCurrent`, `ScreenIsCurrent`), and each write ends that for all.
- Setup: codes in the table and work in flight belong to users who verified, and
  the redemption of a user whose `/connect`s did not overlap is the only one in
  flight and the last. A redemption that starts alone clears the mark, one that
  meets another sets it.
- Limiter: `RingHoldsNewest` tells which slot holds the d-th newest time, as far
  back as the log goes (`Known`), so the slot under the cursor holds the one Cap
  places back. Times are recorded in order (`Ordered`), so a window is full exactly
  when that one still counts, and `WithinCaps` is what the judgement said of it
  when it was overwritten (`StoresFit`). A handler that met nobody is alone inside
  (`Alone`), so nothing moved between its judgement and its record; one that met
  another begins the log of its window anew, and nothing is claimed of what lies
  before. More cannot be had: with two handlers inside both pass where there is
  room for one (`MCLimiterRace.cfg`).

Only model-checked: liveness under fairness (`EventuallyFlushed`,
`QueuedIsSettled`, `StoredIsSettled`, `EventuallySettled`, `SighupTakesEffect`),
because the prover has no support for `ENABLED` (what is safety in them is proved:
`NoEventLost`, `PendingIsHeld`, `Accounted`, `NoSilentLoss`, `SignalIsKept`); and
the operators of `Texts`, which are folds over data, on all short inputs.

## 5. Where the code and its documents disagree

Each of these came up while modelling. One has a run that finds the
counterexample. Of the others the configuration named has one; "with P" means
that configuration with its properties replaced by P, which the module defines
under the document's words or as "Not a property of this code".

| What the code does | What the document says | Configuration |
|---|---|---|
| A timer closure that waits for the mutex while the cap flush runs flushes the same batch again (`coalesce/coalesce.go:80`) | one message per batch (`coalesce/coalesce.go:2-4`) | run `coalescer_flushed_once` |
| The retry button resets rows and sends nothing: they stay pending (`store/deliveries.go:57`) | "re-enqueues each" (t_352cddfe/SPEC.md:141) | `MCTransportRetry.cfg` |
| A handler that read the old group stores its topic after `/connect` cleared the rows (`store/topics.go:30`) | stale rows are deleted (t_a86c33cd/SPEC.md:28) | `MCDestinationStale.cfg` |
| An event whose client hung up, or whose routing query failed, is counted as unrouted although its user is linked, and its retry is a duplicate (`ingest/ingest.go:337`) | "Accepted, no linked users." (`ingest/ingest.go:37`) | `MCIngestHangup.cfg` |
| `/connect` binds any group or supergroup, verified or not (`menu/setup.go:66`) | "The gate checks: ... the chat is a forum; the bot is an admin ...; you are an admin of that group" (README.md:181-186) | `MCSetupVerified.cfg` |
| Two handlers of a service both pass a window that has room for one (`limit/limit.go:88`); such pairs store in one slot and skip the next (`limit/limit.go:42-43`), so that the ring never fills while they keep coming | the 31st is refused (t_352cddfe/SPEC.md:684) | `MCLimiterRace.cfg` |
| A batch may exceed the cap, by one event per other handler (`coalesce/coalesce.go:86`) | "each batch ≤ 20" (t_352cddfe/SPEC.md:681) | `MCCoalescerBatchWithinCap.cfg` |
| `Run` may exit with deliveries on the queue (`transport/transport.go:131`) | "after draining" (`transport/transport.go:186`) | `MCTransportStop.cfg` |
| A full queue drops the new delivery and leaves its row pending (`transport/transport.go:127`) | the oldest is failed (t_352cddfe/SPEC.md:433) | `MCTransportOverflow.cfg` |
| A restart leaves pending rows pending (`cmd/tgntfy/main.go:123`) | "re-driven at startup" (t_352cddfe/SPEC.md:701) | `MCTransportRestart.cfg` |
| A batch is flushed to the General topic when the row is missing (`dispatch/dispatch.go:66`) | every message carries its topic (t_352cddfe/SPEC.md:429) | `MCDestinationInTopic.cfg` |
| n concurrent handlers leave up to n-1 orphan topics (`store/topics.go:30`) | at worst one (t_a86c33cd/SPEC.md:262) | `MCDestinationOrphan.cfg` |
| A code can be redeemed by a service it was not issued for (`store/identity.go:41`) | only by the owning service (t_352cddfe/SPEC.md:602) | `MCLinkingService.cfg` |
| The identity `/start` claims gets no subscription (`store/users.go:69`) | every linked service gets one (README.md:149) | `MCLinkingSubscription.cfg` |
| A restart loses stored events that are not flushed yet (`ingest/ingest.go:343`) | "at worst one extra message" (t_352cddfe/SPEC.md:701) | `MCIngestRestart.cfg` |
| One batch can be two messages in Telegram, as a consequence of the first line | one message per batch (`coalesce/coalesce.go:2-4`) | `MCGateway.cfg` with `ShownOnce` |
| The button that reads Unmute mutes (`menu/menu_kb.go:53,89`) | "service-level toggle = mute/unmute all" (t_352cddfe/SPEC.md:131) | `MCMenu.cfg` with `UnmuteUnmutes` |
| While no type is chosen no button is ticked and every type is delivered; the first tap narrows to one type, and the tap that removes the last turns ALL on (`menu/menu_kb.go:61-67`) | the tick marks an enabled type (`menu/menu_kb.go:79-82`), "nil = ALL, i.e. enabled" (`store/subscriptions.go:41`) | `MCMenu.cfg` with `IconsTellRouting` |
| A new link keeps the old event_types (`store/identity.go:90-92`) | "a subscription row with all event types on" (`store/identity.go:89`) | none: `Subscribe` |
| A keyboard of an unlinked service still writes its row (`menu/menu_kb.go:51-68`) | answered with "Service no longer linked" (t_352cddfe/SPEC.md:135) | none: `TapType` and `TapMute` do not ask for `linked` |
| A disabled service is answered 401, since `VerifyToken` asks for `enabled=1` (`store/services.go:79`) | 400 `service_unknown` (t_352cddfe/SPEC.md:108, :205) | `MCAdmission.cfg` with `DisabledIsUnknown` |
| The token printed last need not be the one stored: `rotate` of an unknown id prints one that works for nobody, and a command may die before it prints or print after a later one (`admin/admin.go:132-136`) | "exit 1 with clear message" (t_352cddfe/SPEC.md:154) | `MCAdmission.cfg` with `ToldTokenWorks` |
| A space beside a dropped control rune stays: a name may come out with a space at its edge, or as a space alone (`topic/topic.go:26-40`) | "trim edges", "the ready-to-send topic name, or "" if the result is empty" (`topic/topic.go:11-14`) | `BlankIsEmpty`, refuted in `MCAdmission` |
| A stored name of which nothing is left names the topic as it is (`dispatch/dispatch.go:30-34`) | "fallback: service id" (`dispatch/dispatch.go:27`) | none: `TopicName` |
| A truncated message is three bytes and one character longer than the limit, and may be cut within a rune (`ingest/ingest.go:435`) | "total ≤ 3500 chars" (t_352cddfe/SPEC.md:477) | `TruncateIsBounded`, checked in `MCAdmission` |
| `service create --name N id` takes N for the id (`admin/admin.go:86-93`) | "pull --name out explicitly" (`admin/admin.go:84-85`), so either order might be expected | `IdIsFirst`, refuted in `MCAdmission` |
| An `event_id` is a duplicate for ever (`store/events.go:29`) | for 24 hours (README.md:226) | none: the code keeps no age |
| An answer that is lost after Telegram posted the message makes the loop post it again (`transport/transport.go:215-219`) | "a flush renders ONE message" (`coalesce/coalesce.go:3`) | `MCTransport.cfg` with `PostedOnce` |
| A catalog that lists `job_progress` without `drop` delivers it (`ingest/ingest.go:295`) | "type job_progress (or catalog drop:true) is dropped" (`ingest/ingest.go:294`), "always dropped in v1" (t_352cddfe/SPEC.md:465) | none: `DropRule` |
| A tap that could not read the list takes it for empty and stores the one type, which wipes the others; one that read an old list writes that back (`menu/menu_kb.go:61-67`) | "one toggle row per catalog event type" (t_352cddfe/SPEC.md:132) | `MCMenu.cfg` with `TapsChangeOneType` |
| A group user whose row cannot be read at the flush gets the message in the chat with the bot (`dispatch/dispatch.go:63-64`) | "group = production, dm = pre-setup smoke only" (t_352cddfe/SPEC.md:323) | none: `FlushGetUser` |

The SPEC documents are in `docs/epics/tgnfyt-<id>/`. The properties that hold
are the strongest found that these behaviours leave: `BatchBound` for the cap,
`OneFlushPerCause` for the double flush, `OneMessagePerCause` for its messages, `AttemptsBounded` and `AckedIsFinal` for the
lost answers, `WithinCaps` for the limiter between overlaps, `OwnTopic` for the
stale rows, `OnlyVerifiedBind` for the unverified group, `TopicsBounded` for the orphans, `Accounted` for the lost events,
`ScreenIsTrue` for the keyboard, `TogglesAreKept` for the lost taps.

## 6. What is not modelled

- Durations: a timer or a back-off may end at any moment after it began. This
  includes every order real clocks produce.
- Several users and services, where every statement is keyed by one and their
  state is disjoint. One table is not: `events.event_id` is UNIQUE for all
  services (`store/schema.go:96`), so a service that posts an id another has used
  is told 409 and its event is not stored. `Ingest`, which has one service, does
  not show this.
- The layout of messages and keyboards, icons, and each single rule of
  `validateEnvelope`: `Malformed` stands for all of them, since no state depends
  on which one failed.
- `/status`, `/undelivered`, `service list`, `user list`, `events recent`,
  `/api/health`, `/metrics`: they only read.
- `EnsureRegistered`, `EnsureServiceUser`, `SetTopic`, `SendNow` and
  `Catalog.DisplayName`: nothing outside the tests calls them.
- The shutdown timeout of the HTTP server, and flags and environment at start.
- Telegram's polling: that the same update may be delivered again after a crash
  is a second tap in `Menu` and a second `/connect` in `Setup`.
- Memory-level effects of the limiter's data race: a torn read of a time.
- SQLite itself: a statement is atomic, and so is a transaction that begins with
  a write, as the two in the code do; either may fail and is rolled back.

## 7. Plan

Done, in the order of importance: Coalescer, Transport, Destination, Linking,
Ingest, Limiter, Setup, Admission, Menu and the composition Gateway, each modelled,
checked and proved; Texts, modelled and checked.

1. `Ingest` in front of `Gateway`, so that one refinement leads from a post to
   Telegram.
2. An abstract specification of linking (who owns an identity, and who may change
   that), with `Linking` shown to implement it.
3. How many messages may still go to the previous group after a second `/connect`:
   a bound on stale rows in `Destination`, beside `NoStaleRow`, which fails.
