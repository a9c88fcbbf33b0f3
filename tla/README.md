# Specifications of the elastic GPU telemetry pipeline

TLA+ models of the Go program in `src/`, the TLC runs that check them, and
theorems about them that TLAPS has checked. Streamers read GPU telemetry from
a CSV file and publish it to a message queue; collectors take it from the
queue in batches and save it to a repository; an API gateway answers queries.

## The system

| component | state | operations | modelled in |
| --- | --- | --- | --- |
| In-memory queue, `pkg/mq/inmemory.go` | message channel, backlog, subscriber list and round-robin index, pending (lease) table keyed by message ID, one channel per subscriber, closed flag | `Publish`, `Subscribe` and its cleanup goroutine, `Ack`, `Close`; goroutines `distribute` and `redeliveryLoop`, both through `deliverMessage` and `safeSend` | `InMemoryQueue`, promise in `LeaseQueue` |
| Queue service process and server, `cmd/queue-service`, `pkg/mq/server.go` | the `http.Server`, handlers under way, deferred `Close` | `Start`, `Stop`, `publishMessage`, `subscribeMessages`, `ackMessage` | `QueueService` (process and streams), `Streamer` (publish), `Pipeline` (acknowledgements) |
| HTTP queue client, `pkg/mq/httpclient.go` | connection, `msgChan`, closed flag | `Publish` and `Ack` with attempts, `Subscribe` with reconnection, `Close` | `Streamer`, `Pipeline`, `QueueService` |
| Collector, `internal/collector` | subscription channel, batch, GPU map, processed list, context | `Start`, `Stop`, `processMessages`, `processBatch`, `processMessage` | `Collector` |
| Streamer, `internal/streamer` | records of the file, position, context | `LoadCSV`, `Start`, `streamLoop`, `Stop` | `Streamer` |
| CSV parser, `pkg/telemetry/parser.go` | none | `Parse`, `parseRow` | `CSVParser` |
| In-memory store, `pkg/storage/memory` | GPUs, slice of records, index, set of GPUs with telemetry | `SaveGPU`, `SaveTelemetry` with eviction, `ListGPUs`, `GetGPU`, `GetTelemetryByGPU` | `MemoryStore` |
| PostgreSQL store, `pkg/storage/postgres` | tables `gpus` and `telemetry` | the same, one statement each | `PostgresStore` |
| Storage service, HTTP repository | the repository behind it | forwards calls, which fail or go unanswered | `Storage` (both backends, restarts), `Collector` (saves), `Gateway` (queries) |
| API gateway, `pkg/api`, `cmd/api-gateway` | gin contexts, a goroutine per request, connection deadlines | `TimeoutMiddleware`, `ListGPUs`, `GetTelemetryByGPU` | `Gateway` |
| Domain types, configuration, health, logging, storage factory, charts | none that changes | | no |

They interact by calls (collector and gateway to repository), channels
(publisher to `distribute`, `distribute` to subscribers), shared memory under
one `RWMutex` (the queue; the store) and HTTP requests that may be lost,
repeated or overtaken (streamer and collector to queue service, all to storage
service). What is hard: two goroutines and any number of callers over one
lock; sends and leases in different critical sections; copies of a message
that share a table entry; timeouts that race late answers; collectors killed
between saving and acknowledging; streams that end and are replaced before the
queue has noticed; a shutdown that open streams hold up; contexts shared by a
goroutine that outlives its request; two backends that ought to answer alike.
`PROJECT.json` lists these hazards with their lines.

## Modules

**LeaseQueue** is what a `MessageQueue` promises, without channels or
goroutines. A message is *new*, *ready*, *handed* (sent to one subscription),
*leased* to that subscription's consumer, and then *settled*, *lost* or ready
again. A message leased while a copy of it is leased takes the copy's place.

**InMemoryQueue** is `inmemory.go`, one action for every critical section
under `q.mu` and for every channel operation outside it. `pc[w]` says where
each of the two goroutines is: `route` (distribute holds a new message),
`pick`/`advance` (the read-locked section of `deliverMessage`, two steps
because both goroutines write `currentSubscriberIndex` in it: the data race is
the choice of `i` in `Advance`), `send` (`safeSend`), `record` (the lease),
`buffer` and `rebuffer` (the backlog). A writer waits for readers (`NoReader`).
`Publish` is the check under the lock and the send after it, and may be called
again after `ErrQueueFull`. `IdOf` gives every element of `Message` its ID:
copies, as a repeated publish makes them, have the same one, and the entry a
lease overwrites in the pending table is `Superseded`; an `Ack` ends the entry
of the ID, whichever copy it is for. Time is the classification of a lease as
the sweep sees it (`within`, `ackTimeout`, `ttl`). `fate`, `swept`, `acked`,
`got` are history.

A `_proofs` module for each of `InMemoryQueue`, `Collector`, `Pipeline`,
`QueueService`, `Streamer`, `Storage` and `Gateway` holds the theorems, and
**MemoryStore_proofs** the lemmas about the in-memory store that `Storage` and
`Gateway` share, see below.

**QueueService** is the process around the queue and the clients of its event
streams: `main`, `Start` and its failures, a signal at any moment, `Shutdown`
with its deadline of five seconds and the exit that follows, the deferred
`Close`; the handler of a stream, which copies from its subscription to the
connection until its context is done; and `Subscribe`'s goroutine, which
connects, reads, hands over through the bounded `msgChan`, pauses and connects
again. A request's context is done when its client has gone or when the read
deadline (`ReadTimeout`, 15 s, set when the request was read) passes, never
because of `Shutdown`. A handler whose client has gone unnoticed is an
*orphan* until it writes or times out. What is in the connection is `wire`: an
orderly end leaves it to be read, a broken one may not. The queue itself is
reduced to handing messages out (`Hand`).

**Collector** is any number of collectors and the repository. A batch's saves
and acknowledgements are single steps, so that kills, stops, failures and
arrivals fall between any two. A repository call succeeds, fails, or succeeds
without the collector learning of it (`Fault`). `processMessages`' select is
`Receive`, `Tick` or `Leave`, whichever is enabled.

**Pipeline** composes `LeaseQueue` and `Collector`. Event streams are opened
and break (`Connect`, `Disconnect`), the queue hears of it later (`Forget`),
messages sent to a dead stream are leased to nobody who reads, Ack requests
arrive late, twice or not at all.

**CSVParser** is `Parse` as a loop over the lines of a file (`ReadUpTo` is its
result after each of them): blank lines are skipped, a line with the wrong number of columns or without a GPU UUID is an
error, and an error returns nothing of what was read before.

**Streamer** is `LoadCSV` over `CSVParser` and `streamLoop` with both ways of
publishing: the in-memory queue in its own process, where a full queue means
waiting, and HTTP, where the retries of one `Publish` may overtake each other.
The queue is its channel. The file is chosen in the initial state; `pos` goes
round it, and `content` is the history of what the messages said.

**MemoryStore** and **PostgresStore** have one action for each method that
saves (a method holds the lock throughout, or is one SQL statement) and one
operator for each query. Positions in the index of the memory store count from
0 as in the code; `log`, the records it was ever given, is history. The table's
key is `SameKey`, its upsert `Upsert`; `Column` is what a `TIMESTAMP` makes of
a Go time: rounded to microseconds, the zone dropped. The rounding and the
dropping are the database's, the rest is `store.go`. Where the code sorts
(`sort.Slice`, `ORDER BY`) both use `Arranged` of **Ordering**, which says what a
sorted list is and leaves the order of equals open, as the code does.

**Storage** gives both backends the same calls. A record of a GPU nobody has
saved is refused by the one and taken by the other; a restart of the service
empties the one and leaves the other.

**Gateway** is a request for telemetry or for the list of GPUs:
`TimeoutMiddleware` with the handler in its own goroutine, the GPU lookup and
the query as separate calls to a storage service (`INSTANCE MemoryStore`) that
is saved to in between, gin's pool, which hands the context of a request that
is over to the next one, and the deadlines of the server: the read deadline
ends the request's context (`Expire`), the write deadline the connection
(`CutOff`). Both are 15 s and the first is set first, so a response written
before any context has ended reaches the client (`BeforeWriteDeadline`).
Writes through a context that serves nobody are dropped, and the effect a late
goroutine may have on the handler chain of the next request (`c.index`) is
left out.

The `MC*` modules give constants their values. A definition whose name is that
of another with a suffix (`RestAgain`, `HoldsLeaseAnyone`, ...) is a plausible
error in the code, used to see that a property would notice it.

## Runs

| run | question | instance |
| --- | --- | --- |
| queue_safety | Is an accepted message always in exactly one place? Is the queue a work queue, do leases end only as they should, are index, list and limits right, is nothing in flight after `Close`? Does it implement `LeaseQueue`? | 2 messages, 2 subscriptions of 2 consumers, buffers of 1, pending table of 1, 1 failed attempt |
| queue_live | Do two copies of one message get along in one table entry, and implement `LeaseQueue`? Do `Close` return, leases end, the channel drain? | 2 copies, 1 subscription, buffers of 2 |
| queue_ack_too_early | *violated*: is a message that was acknowledged over? | 1 message |
| queue_publish_close | *violated*: is `Publish` safe beside `Close`? | 1 message |
| queue_service | Does the queue close quietly, does a client see exactly what its stream was sent, does a signal end the process, does a subscriber come back and end when told? | 1 subscriber, 1 short request, 2 messages, 2 faults |
| storage | Limit, indexes and answers of the memory store through evictions and a restart; is the last save of a key the one the table has; do both backends answer alike? | 5 records of 2 GPUs, limit 3, half evicted at a time, 5 saves, 1 restart, 3 instants to a microsecond |
| collector | Is only what is stored acknowledged, is nothing taken abandoned, do batches stay apart, is everything tried, does `Stop` return? | 3 messages, one of them invalid, batches of 2, 2 faults, foreign keys |
| pipeline | Is what the queue has settled stored? Does the queue feed every open stream? | 1 message, 2 collectors, 3 subscriptions, 1 fault |
| pipeline_live | Is every accepted valid message stored or reported lost, a message beside it that can never be saved notwithstanding? | 2 messages, one of them invalid, 1 collector, 2 subscriptions, 1 fault |
| streamer | Is a file streamed whole, in order and round after round, or not at all? Are copies explained, is one process exactly-once and in order, does `Stop` return? | 8 files of up to 3 lines, 3 messages, buffer of 2, 3 attempts, 3 faults |
| gateway | Is every request answered once, by its own handler, completely, and over in the end? | 2 requests on 1 context, store of 1, 2 saves, 1 failed call |
| gateway_mixed_up | *violated*: is what a request is sent written for it, after a timeout too? | 2 requests on 1 context, store of 2, 1 save |

`TypeOK` of `Pipeline`, `Streamer` and `Gateway` holds in their runs too; the
configurations leave it out in favour of the other properties.

Bounds. Buffers are as small as the code allows, so that full and empty are
reached with two messages; a pending table of one slot (`PendingFactor` 1 for
10) makes untracked messages happen; `MaxRetries` 1 for 100 in the queue makes
every failed send a parked message one step later. Two messages and two
subscriptions are enough for a message to be parked while another is
delivered, redelivered to a second consumer while a late acknowledgement is on
its way, and for both goroutines to race for the index. Two copies are enough
for a lease to be overwritten, and for the acknowledgement of one copy to end
the lease of the other. `msgChan` of one for
ten makes the client of a stream wait with a message in its hand; a
subscription's channel of two holds both messages when its handler returns.
Eviction of one half instead of one tenth, with room for three, evicts twice
within five saves; the five records are the same key with two values, another
metric, a key that rounds to the first one's, and another GPU and zone. The
files are a good one with a blank line, one with a line without a UUID, one
with a line that is too long, and one without lines, each under a right and
under a short header. `MaxFaults`, `MaxInbox`, `MaxSaves`, `MaxRestarts`,
`MaxMessages` and the number of subscriptions bound the behaviours. They are in
guards and named in their modules; that collectors are cut off only while a
subscription is left to come back with is `Spare`. Message symmetry is used for
safety only. Deadlock is not checked: every model ends, or stops at a bound.

Fairness. Goroutines run (weak fairness of each loop); where a goroutine waits
for the write lock or for a full channel it gets it in the end (strong
fairness; `sync.RWMutex` holds new readers back behind a waiting writer), and
Go's `select`, which chooses at random, takes no ready case for ever. Leases
age. Nothing is assumed of publishers and consumers of the queue, nor of the
storage service behind the gateway, where only deadlines pass. `Pipeline`
assumes that collectors are restarted, that streams are reopened, and that a
ready message meets a subscriber now and then: the backlog is flushed by the
next publish, so this says that publishing goes on. `QueueService` assumes that
the process is started again, that timers end, and that a collector receives
until it cancels its context; nothing of signals, requests and the network.
`SubscriptionLives` states its own assumption, that the server is up from some
moment on; `EveryRecordPublished` that the queue is drained. Faults and
kills are finitely many.

## Where code and documentation differ

Checked, with a counterexample:

* `deliverMessage` sends before it records the lease (`inmemory.go:274`). An
  `Ack` in between finds nothing, returns nil, and the message is leased
  and redelivered all the same.
* `Publish` sends after it has released the lock (`inmemory.go:136`); after a
  `Close` in between the send panics instead of returning an error.
* `TimeoutMiddleware` returns while its handler still uses the context
  (`middleware.go:84`); the late answer goes to whoever has the context then.

Visible in the models, and the reason why properties are stated as they are:

* A GPU that could not be saved is not saved with its messages
  (`collector.go:188`, `268`), though the comment there says it is
  (`StoredHasGPU`); without foreign keys the record is stored and acknowledged,
  its GPU unknown.
* The backlog waits for the next publish: a subscriber alone does not get it (`DistributeFlush`, `inmemory.go:219`).
* The in-memory store has no composite key (`SaveTelemetry`; `interface.go:66` speaks of one), so a redelivered message is stored twice; the table replaces the row. `BackendsAgree` compares keys, and values only where the last save is in the answer.
* A `TIMESTAMP` drops the zone and what is finer than a microsecond (`Column`), of records and of bounds. `BackendsAgree` is about stamps in whole microseconds of UTC.
* Over HTTP a full queue is status 500 (`Refusal`), and the streamer skips the record after three attempts; in one process it waits.
* Time bounds lose their fractions of a second on the way to the storage service (`Sent`), while `handlers.go:69` calls both bounds inclusive; `AnswerComplete` is about whole seconds.
* The gateway's server has deadlines of 15 s, so the request's context ends there and not with the middleware's 30 s; the answer it then gives, status 408 included, may be cut off by the write deadline a moment later (`CutOff`). `OneAnswerEach` speaks of the time before.
* `ReadTimeout` also ends every event stream after 15 s. Its client reads what was written and comes back (`StreamFaithful`, `SubscriptionLives`), but what was still in the subscription's channel is redelivered only when its lease times out.
* With event streams open, the queue service's shutdown times out and exits without `queue.Close` (`cmd/queue-service/main.go:57-59`); a signal before `Start` has made the server lets `Close` run while requests may still arrive (`Signal`), the one case `QuietClose` leaves out.
* An error of `Serve` after `Start` has returned is read by nobody (`ServeFails`): the process stays, and serves no one.
* `Close` of the HTTP client sets a flag that a read does not see; a subscription ends when its stream does, or with its context.
* The parser counts the columns of a row (`parser.go:74`) after `csv.Reader` has refused a row of the wrong length, and never looks at what the header says.

## Proofs

For all values of the constants that satisfy the modules' assumptions:
finitely many messages, capacities and attempts of at least one, a GPU for
every valid message, files with finitely many lines, `None` different from
what it is the absence of (times and stamps). Nothing else is assumed: not of how many actors there are, not of fairness. Each
module has an inductive invariant made of named parts, which TLC checked on
the instances above before it was proved, a lemma for every action, and the
theorems on top.

| module | theorems (property) |
| --- | --- |
| InMemoryQueue_proofs | `TypeCorrect` (`TypeOK`), `IndexStaysInRange` (`IndexInRange`), `CapacitiesRespected` (`Bounded`), `MessagesAreInCustody` (`Custody`), `OneConsumerAtATime` (`WorkQueue`), `LeasesEndProperly` (`LeaseEndsProperly`), `CloseLeavesNothingInFlight` (`CloseIsQuiescent`), `QueueImplementsLeaseQueue` (`ImplementsLeaseQueue`) |
| Collector_proofs | `TypeCorrect` (`TypeOK`), `OnlyStoredIsAcked` (`AckedIsStored`), `BatchesStayApart` (`BatchesDoNotMix`), `StopsWithNothingLeft` (`NothingTakenIsAbandoned`) |
| Pipeline_proofs | `TypeCorrect`, `NothingSettledIsLost` (`SettledIsStored`), `StreamsStayFed` (`OpenStreamIsFed`), `CollectorsStaySound`, `QueueIsLeaseQueue` |
| QueueService_proofs | `TypeCorrect` (`TypeOK`), `CloseMeetsNoHandler` (`QuietClose`), `StreamsAreFaithful` (`StreamFaithful`) |
| Streamer_proofs | `TypeCorrect`, `FilesAreStreamedWhole` (`WholeFileInOrder`), `CopiesAreAccountedFor` (`CopiesAccountedFor`), `OneProcessExactlyOnce` (`ExactlyOnceInOrder`) |
| MemoryStore_proofs | lemmas only, with the invariant `StoreInv` of the store's methods |
| Storage_proofs | `TypeCorrect` (`TypeOK`), `OldestAreEvicted` (`KeepsTheNewest`), `QueriesAnswerWhatIsStored` (`QueryExact`), `TableHoldsTheLatest` (`LastSavedWins`), `RepositoriesAgree` (`BackendsAgree`) |
| Gateway_proofs | `TypeCorrect`, `OneAnswerWithoutTimeouts` (`OneAnswerEach`), `NothingIsLeftOut` (`AnswerComplete`), `ContextsAreNotShared` |

Together they say of the whole: `Pipeline` is proved over `LeaseQueue`
(`QueueIsLeaseQueue`), and `InMemoryQueue` is proved to implement `LeaseQueue`,
so what the queue lets go of as acknowledged is stored, for any number of
messages, consumers and collectors.

*The queue.* The invariant `TypeInv` is `TypeOK` with three additions.
`WorkerShape`: what a goroutine holds in each of its states, which makes
`Head(todo[w])` and `target[w]` denote something. `IndexInRange` itself, for
the index and for the value each reader has read: it survives both goroutines
advancing the index because nobody changes the list while one of them is
between reading and writing (`NoReader`), and removal because `Cleanup` resets
an index that has fallen off the end. `IndexOfEmptyList`: with no subscriber
listed the index is where the first one will find it. `Bounded` is proved on
top: every insertion tests for room in the critical section that inserts.

*Custody.* The channel, the backlog, the pending table and what each of the two
goroutines holds are five places; the invariant `CustodyInv` says that they
share nothing and hold together exactly the messages that are live
(`Apart(Place, Live)`), each once (`EachOnce`), and that copies of an ID do not
hold two leases (`LeasedOnce`). Every action moves a set of messages from one
place to another, or out of all of them, and `MoveKeeps` shows once that this
keeps the places apart. `WorkQueue` needs in addition that a message somebody
has seen is being recorded, leased or gone (`Handover`), since it is sent in
one critical section and recorded in another; `CloseIsQuiescent` needs how far
the goroutines are when `Close` makes progress (`Closing`). In the refinement
the cases of `StatusOf` exclude each other only because of `CustodyInv`
(`StatusTable`); a step is then read off the places it moves a message
between, and a step of a goroutine that moves nothing is a stutter.

*Collector.* The invariant is `TypeOK`, `AckedIsStored` and `Shape(c)` for
every collector: which lists are empty in which phase, that a batch being
gathered is shorter than `BatchSize`, and that what was taken is what was tried
and what is still in the batch. `AckedIsStored` is kept because only
`RecordSaved` appends to the processed list and nothing removes a record;
`Shape` makes the heads of batch and processed list exist, and its last
conjunct turns into `NothingTakenIsAbandoned` when a collector stops with an
empty batch.

*Pipeline.* The collectors' theorems are used, not repeated: `Sound` is
`Collector_proofs` with the pipeline's variables, and every step of the
pipeline is one of a collector's, leaves the collectors alone, or cuts off
their channels. `SettledIsStored` follows because a message is settled only
by a request under way, and `AckedIsStored` says that such a request names a
record that is stored. `OpenStreamIsFed` needs that subscriptions are listed
when they are opened and never used twice.

*QueueService.* What holds a stream's history together is `BetweenStreams`: a
client that is not reading has neither a stream nor events of an old one, so
that what it reads next is the new stream from its beginning. `QuietClose` is
inductive with the types, since `Shutdown` waits for what is busy and nothing
starts once the server is shut.

*Streamer.* A copy of a message is a request that was accepted. `SentInv` says
that copies and requests under way are together no more than the requests the
client has sent, which depends on where it is in its attempts; the limit of
`MaxRetries` copies follows. That without a fault there is one copy at most is
`OneAttemptCounts`: each attempt but the last was refused, and nothing of it is
left when the next one is made (`AnswerInv`). In one process `LocalInv` relates
what is queued to the record the loop is at. What is in the messages has two
parts. `ParseReads` is about the parser: after n lines it has read the rows
among them, in order, or it has failed and has nothing (`ReadSoFar`, kept by
every `Read`). `RoundInv` is about the loop: the current record and the record
in each message follow from their number modulo the number of records.

*Induction.* Facts that hold because a loop or a count goes on, step by step,
are proved with `SetInduction`: a set of numbers that has 0 and with every
number the next has them all. It follows from the well-foundedness of the
naturals, with the set where the usual rule has a predicate. With it,
`ReadUpToExists` shows that the recursive function the parser is written as
exists, and `ArrangedOrders` that every finite set can be arranged in a strict
order, by taking last elements away (`HasLast`).

*The store.* `StoreInv` has four parts: the types; the slice is an end of the
log within its limit (`KeptInv`; `EndOf` survives dropping from the front and
appending to both), where eviction makes room for any share (`KeptFacts`); the
set of GPUs with telemetry is that of the slice (`GpusInv`); and the index of
each GPU lists the places of its records in the slice, each once (`IndexInv`).
The last is what eviction puts at risk, since it moves every record; it is kept
because the rebuilt index is arranged from the slice that is left, and because a
save appends the place its record gets. `QueryAnswers` needs nothing else: the
answer is an arrangement of the index positions within the bounds, and followed
through the index these are the records within the bounds, one to one.

*Storage.* `StoreInv`, for the table that it holds the last value saved of
each key (`LatestAppend` is what an upsert does to those), and `SharedInv`,
which relates the two: the table knows every GPU the store knows, has a row
with the key of each record of a GPU nothing of which was refused, holds the
record itself when no later one in the store has its key, and until a restart
has nothing that is not in the log. An end of the log supersedes no less than
the log (`LatestOfEnd`), so eviction keeps it. `BackendsAgree` follows since
stamps in whole microseconds are ordered as their columns are (`WholeColumns`,
`SameBounds`).

*Gateway.* `ContextInv`: a request that is waiting is served by its own
context, and a context serves only such a request. `Punctual`: without a
timeout nothing is cut off and the middleware returns only for a handler that
is done; hence what a handler writes goes into its own response, which is
empty (`WrittenInv`). For the answers the store keeps `StoreInv`, and
`ComesBefore` relates the history of a request to it: what is still stored
when the list or the telemetry is read, of what was there when the request
came, is among what it is read from, and bounds in whole seconds arrive as they
were sent (`SentBounds`).

Every safety invariant and every action property that a passing run checks is
also a theorem. Only model-checked is all liveness (`CloseReturns`, `LeasesEnd`,
`BufferDrains`, `TakenIsAttempted`, `StopReturns`, `EveryMessageIsStored`,
`EveryRecordPublished`, `RequestsEnd`, `SignalEndsProcess`,
`SubscriptionLives`): fairness and `ENABLED` are beyond these provers. The
theorems that no property of a run names are the types of `Pipeline`,
`Streamer` and `Gateway`, `CollectorsStaySound`, `QueueIsLeaseQueue` and
`ContextsAreNotShared`.

## Not modelled

Statistics, logging, health checks, the texts of errors and the content of
GPU entities have no influence on the behaviour above. The decoding of an
event and the rendering of a response are conversions without state.
`GetGPU` of the database, its connection pool and its lost connections are
left out; a call that fails is one in `Collector`. The validator and the
transformer of `pkg/telemetry` are called by nobody. The GPUs a parsed file
also yields are kept in `s.gpus` and not used again. A streamer that is given
an in-memory queue has no consumer in its process; `Take` stands for one. The
other middlewares of the gateway (request ID, recovery) keep no state, and a panic of a handler that runs in the goroutine of
`TimeoutMiddleware` is outside of what `RecoveryMiddleware` could catch; no
handler panics in the models. The shutdown of the gateway and of the storage
service is that of the queue service without its streams.

## Plan

Written so far: all the models of the table at the top, and the proofs of every
safety and action property the runs check. What is left to prove:

1. That the two paths of publishing are paths to the same queue: a copy `Streamer` counts is a message `InMemoryQueue` accepts, its `Take` a step of `distribute`.
2. The invariants in `LeaseQueue`'s own terms that its users rest on, for the queue and the pipeline at once.
3. What remains true of a request after a timeout, beyond `ContextsAreNotShared` and `NothingIsLeftOut`.
