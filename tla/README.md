# A TLA+ model of dns-flow

dns-flow collects DNS traffic: a DNSTAP server decodes frames into events, a pool
of workers correlates and enriches them, a producer batches them into a Kafka
topic, and a consumer, in the same process, reads the topic into ClickHouse,
InfluxDB or files. This directory models that program in TLA+, checks the models
on small instances with TLC, and proves with TLAPS, for every instance, what the
runs check of every component's safety and that four of its stages implement one
abstract specification. Paths such as `pipeline.go:108` are relative to the
package they belong to, under `src/internal/` or `src/cmd/dns-flow/`.

## The system

| Component | State it keeps | Operations | Talks to |
|---|---|---|---|
| DNSTAP server, `adapter/inbound/dnstap/server.go` | listener, context, one goroutine per connection | Start, acceptLoop, handleConn, Stop | calls `Pipeline.Process`, ignores the result |
| Pipeline, `usecase/pipeline.go` | the channel `queue`, `die`, the workers' context and wait group | Process, Run, worker, processEvent, Shutdown | correlator, GeoIP resolver, storages (here: the producer) |
| Correlator, `usecase/correlator.go` | the map `entries` under a mutex, a ticker | Store, Lookup, evict, Start, Stop | called by the workers and by its own eviction goroutine |
| GeoIP resolver, `adapter/outbound/geoip/maxmind.go` | two read-only databases | Lookup, LookupIP | called by the workers |
| Kafka producer, `adapter/outbound/kafka/producer.go` | the channel `queue`, the flusher's batch | Migrate, Write, startFlusher, flushBatch, Close | kafka-go Writer, which keeps batches of its own |
| Kafka consumer, `adapter/inbound/kafka/consumer.go` | reader, cancel function, wait group; the group's committed offset lives in Kafka | Start, loop, Stop | calls `Write` of every storage in turn |
| ClickHouse writer, `adapter/outbound/clickhouse/writer.go` | the channel `queue`, the flusher's batch, the connection pool | Migrate, Write, startFlusher, flushBatch, Close | two tables, `dns_raw` and `dns_answers` |
| InfluxDB v1/v2 writers, `adapter/outbound/influxdb*/writer.go` | none: one HTTP request per event | Migrate, Write, Close | a database and a bucket |
| File writer, `adapter/outbound/file/writer.go` | the open file and its size, the backups on disk, cleanup goroutines | Migrate, Write, rotate, gzipFile, cleanup, Close | the file system |
| Configuration, `infrastructure/config/config.go` | none; nothing has a default | Load, Validate | read by main |
| main, `cmd/dns-flow/main.go` | the channel of signals, of capacity 1 | start-up, SIGHUP (validate and log), shutdown: consumer, server, pipeline | all of the above |

What is hard about it, in a sentence each (the list at its lines is `hazards` in
`PROJECT.json`):

* `Process` is called by handlers nobody waits for, while `Shutdown` cancels the
  workers, closes `die`, closes the channel and waits, in that order.
* The workers' `select` and the flusher's `select` may prefer the stop signal to a
  channel that still holds events.
* Query and response of one exchange can be in the hands of two workers at once.
* A Kafka batch may fail in part, be acknowledged late, be retried as a whole, or
  still be held by the kafka-go writer after the attempt's context has expired.
* The consumer's offset is committed before any storage has been written.
* A ClickHouse batch goes to two tables with two inserts, each of which may fail,
  or succeed and lose its answer; a batch given up keeps a connection of the pool.
* Rotation closes, renames, compresses and reopens a file in steps that fail
  separately, next to cleanup goroutines that read the same directory.
* `Start` of the consumer runs concurrently with `Stop`, without synchronisation.
* An event may reach a database twice (an answer lost, a topic read again because no
  `group_id` is set) and must still be one point there; an HTTP status that says no is
  a success for the writers, so one database may have what the other refused.
* Start-up talks to a cluster and to outputs that may be down; a signal may come at any
  step of it, and the channel of signals holds one.
* An event is made of a query and a response that may be missing or unreadable, the
  second written over the first; what is left decides whether the correlator stores it
  or looks it up.

What makes each component correct: the server offers every decoded frame once;
the pipeline relays what it accepts exactly once and tears down behind its users;
the correlator's table agrees with the history of every query and forgets in
bounded time; the producer accounts for every event, acknowledges only what is
stored, and keeps the order of the events of a qname but for those of one batch; the
consumer is at-most-once and
ordered within a start, repeats only what was not committed, and explains every gap;
the ClickHouse tables agree and get nothing twice from one start; the databases of the InfluxDB writers
have one point for each event read; the file writer bounds its files and deletes only
backups in excess or beyond their age; start-up ends; and the whole returns from `main`
after a signal.

## Modules

```
EventRelay            what a stage promises to the stage before it
   ^   implemented by Pipeline, Producer, ClickHouseWriter and Collector

Collector    =  DnstapServer + Pipeline + Producer        frames to topic, and shutdown
Correlation  =  Pipeline + Correlator + Decode            messages to pairs
Process      =  Consumer + InfluxDB + InfluxDBv2          start-up, signals, restarts,
                           (both over InfluxServer)       topic to databases
ClickHouseWriter, FileWriter                              outputs of their own

ChannelLemmas         what a send, a receive and a join make of a sequence; least numbers
PipelineProofs, CorrelationProofs, CollectorProofs, ProducerProofs,
ProcessProofs, ClickHouseProofs, FileWriterProofs
                      theorems about the module of that name and what it is made of

MCxxx, *.cfg          the instances that TLC checks
```

**EventRelay** is the abstract specification. An event offered to a stage is
refused or accepted; accepted events are relayed, or reported as failed if the
stage may do that, and those still accepted when the stage comes to rest are
abandoned in that one step. It says what a stage must never do: relay an event it
did not accept, relay one twice, relay after having come to rest, or leave an
event in limbo.

**Pipeline** has one action per statement or `select` of `Process`, `worker`,
`processEvent` and `Shutdown` that another goroutine can observe. The cases of a
`select` are disjuncts that compete; a `default` is enabled when no case is
ready. With `QueueSize = 0` (`queue_size` omitted) the channel is unbuffered and a
send succeeds only while a worker is parked in its `select` (`HandOver`). The send
on a closed channel panics and is recovered in `Process` (`SendOnClosed`). An
event is an opaque identity. `GeoIP` says whether a resolver is configured and
whether its database loaded.

**Correlator** has one action per method, since each runs under `qc.mu`, plus the
eviction loop. Time is a number of steps; the table compares only ages with the
ttl, so ages are kept rather than instants and saturate just above the largest
value compared (`Oldest`). `fate` and `waited` are history: what became of each
query, and for how long it has really been there, against which the table's own
ages are judged.

**Producer** models `Write`, the flusher's `select`, the retry loop of
`flushBatch` and `Close`. The kafka-go `Writer` and the cluster are external: per
partition a queue of calls, each a part of a batch of the flusher, settled one by one.
`BatchBytes` is not set where the writer is made (`producer.go:142-150`), so a call of more
than 1 MiB is cut into batches that are settled separately, the later ones whatever
becomes of the earlier (`Cut`, `Serve`); `Splits` says whether calls may be that large, and
the place of the cut is arbitrary. `Faults` names what may happen besides success: `"retriable"` and `"fatal"` errors, `"unacked"` (stored, but the
acknowledgement is an error) and `"timeout"` (the attempt's context expires while
the writer still holds the batch, which may be stored later).

**DnstapServer** models the accept loop, the handlers, frames without a message,
for which `decodeToEvent` returns nil, and `Stop`, which waits for nobody. `stop` is
what `Stop` has ended so far, because the accept loop tells a closed listener from a
passing error by the context (`NoSpin`).

**Decode** is `decodeToEvent` as a function from a message to an event, with an operator
for each function it calls: times and latency, the words of the extra field, `parseDNS`
for the query and then, over it, for the response, resource records, EDNS. The text of
names and of record data is left out; the properties are about which part of the message
each field of the event comes from.

**Consumer** models `Start` as four observable steps, the loop with ReadMessage
split into fetch and commit, a `Write` to one storage after the other, `Stop` as
three steps, crashes, and restarts that resume from the committed offset. `group` says
whether `group_id` is set: without it nothing is ever committed and every start reads
the topic from its first message. The memory of the process ends with it.

**InfluxServer** is external: the points of a database or bucket, identified by series and
instant, into which lines are merged, and a server that may be down, refuse, or store a
line and lose the answer. **InfluxDB** (v1: `Migrate` with the substring test of
`dbExists`, and `Write`) and **InfluxDBv2** (`Write`, whose lines carry nanoseconds
whatever `precision` says) are the two writers, which keep no state.

**Process** is `main`: one action per step of start-up that can fail or that another
goroutine can observe, up to `signal.Notify`; the producer's `Migrate` with its search for
the topic; the channel of signals; `handleReload`, which changes nothing; the consumer
of module Consumer, whose `Write`s go to the two InfluxDB writers; and the end of the
process at any point, by `os.Exit`, by a panic of the flusher without a flush interval,
by a crash, or by returning. Of a configuration it keeps what the steps depend on:
whether it is valid, the flush interval, the precision.

**ClickHouseWriter** models `Migrate` as far as it starts the flusher or fails
before that, `Write`, the flusher's `select`, `flushBatch` and `Close`. `Prepare` and
`PrepareFails` stand for the two `PrepareBatch` calls and all `Append`s, which nobody
can observe half-way; the two `Send`s are steps of their own. External, and modelled
from how `flushBatch` uses it: the connection pool of clickhouse-go, where a batch
holds a connection until it is sent or an `Append` to it fails. `flushBatch` calls
`Abort` on no batch, so `free` goes down with most failures and never up again; an
exhausted pool makes every later flush fail after the dial timeout. Rows that
`Append` refuses are `Poison`. `main` never calls `Close`; it is modelled because it is
an operation of the `Storage` interface. The process may end anywhere and start again:
the tables stay, and what the channel and the flusher held is lost (`writtenIn` says in
which start each event was accepted). An element of `Events` is one handing over of the
message `Offset[e]`. `New` is what the consumer guarantees: every start hands messages over
in the order of the topic and none twice; with a `group_id` that is so over all starts,
without one each start may begin at the first message again, and both tables, which are
plain `MergeTree`s, then get its rows again.

**FileWriter** models `Migrate`, `Write` with each step of `rotate` and `gzipFile`, the
cleanup goroutines, the clock, and a process that may end at any step and start
again. A file is the set of events in it, each one unit of size; the name of a backup
is the second it was made and whether it is compressed, so two rotations within one
second collide, as they do on disk. The lock in `cleanup` covers only the reading of
two settings and is no step. `modified` is the time of a backup's last write, which the
age limit goes by. `Ahead` counts the active file among uncompressed
backups, because `cleanup`'s prefix test matches it and it sorts first in reverse
order (its extension begins with a letter, a backup's with a digit).

**Collector** composes server, pipeline and producer as `main` does: `Offer` is a
handler's `Process`, `Store` a worker's `Write` into the producer, `CloseProducer`
and `EndShutdown` the producer's `Close` within `Shutdown`. When `main` returns
every goroutine ends.

**Correlation** composes the pipeline with the correlator: which worker calls
which method for which event and when `Shutdown` stops the eviction loop.

Operators that carry "mutant of X" in their comment are not part of a
specification. Each is X with a plausible bug; substituting it for X breaks the
property named with it in `PROJECT.json`, which shows that the property depends on
that code.

## Runs

| Run | Instance | What it shows |
|---|---|---|
| `pipeline` | 4 events, 2 workers, `QueueSize` 2, a resolver that panics on 1 of the events | an accepted event is in exactly one place, whatever the interleaving (`ExactlyOnce` in `PipelineInv`, the inductive invariant of the proofs); nothing is stopped under a worker (`SafeTeardown`); every step is a step or a stutter of EventRelay; `Shutdown` returns; accepted events are written while nobody shuts down or panics |
| `correlation` | 1 worker, 2 queries under one key, their responses, 1 unreadable response, ttl 2, period 1; decoding over some 1000 messages | table and history agree, and ages are right also for a reused key (`CorrelatorInv`); entries live at most ttl plus a period; every orphan has a reason; events are served in the order of their acceptance, so that a response accepted after its query finds it, and no worker runs when the correlator stops (`ServedInOrder`, `NoFalseOrphan`, `StopsLast` in `CorrelationInv`); events and pairs are what the messages say (`PairsAreAsSent`); no call after `Stop` (`UsesCorrelator`) |
| `producer` | 4 events (1 unencodable), 2 partitions, batches of 2, which may be cut, capacity 2, 2 attempts, all faults | every accepted event is in one place, and behind the earlier ones of its partition as far as the kafka writer (`ProducerInv`); acknowledged means stored; in a partition an event is first stored behind the earlier ones, but for those of its own batch (`OrderAcrossBatches`); EventRelay; every event settled; `Close` returns |
| `collector` | 2 connections, 1 worker, 2 events and an empty frame, an unbuffered channel in the pipeline and one of 1 in the producer, timeouts, calls that may be cut | at most one late frame per connection after `Stop`, each frame offered once, an accept loop that ends with its listener (`ServerInv`); nobody writes to a producer being closed; end-to-end accounting, in order with one worker, in front of the producer and in it (`ToTheProducer`, `AtTheProducer` in `EndToEnd`); `main` returns although handlers may be blocked; the two stages in a row are an EventRelay |
| `consumer` | 3 messages (1 malformed), 2 storages, with and without a group, 3 starts of the process | in order within a start, and nothing repeated that was committed (`ConsumerInv`); every gap explained; no write after `Stop`; `Stop` returns; malformed messages do not block |
| `process` | 2 messages with one instant and one series, with and without a group, 2 starts, 3 configurations, 2 looks for the topic; a v1 server that may be down and have a database of a similar name, a v2 server that may lose answers | nothing is consumed before the checks of the start have passed, what an output took without an error is in its database or was refused (`ProcessInv`); a message read is one point in both databases unless it was refused, failed, skipped or lost, and its policy fields are its own or explained (`DatabasesFollowTopic`); start-up ends, a SIGTERM is heeded also during a reload, a process without a flush interval does not last (`MainMovesOn`) |
| `clickhouse` | 3 messages (1 poisoned), 2 of which may be handed over again, with and without a group; batches of 2, capacity 1, 3 connections, all faults, 2 starts | records never without their event, an event without its records is reported or the last of its start, no message twice or out of order in either table, lost answers included, with a group over both starts and without one in each (`StoredOnceInOrder` in `ClickHouseInv`); what is accepted and neither stored nor reported is the last of its start (`OnlyTheLastAreLost`); EventRelay in each start; every event settled and `Close` returns, with an exhausted pool too |
| `file` | 4 events, rotation at each, compression, 1 backup kept for 1 second, 3 seconds, 2 starts, all faults but a failing write to an open file | no file beyond the limit; what makes a cleanup remove a backup stays true until it does (`CleanersAreRight` in `FileInv`); only backups in excess, too old, or with the same second leave the disk; a silent drop follows an announced error; a superseded or old backup is removed |

Runs that end in a violation of what the documentation says:

| Run | Claim | What the code does |
|---|---|---|
| `pipeline_geoip` | `docs/architecture.md:228`: a GeoIP failure is non-fatal | `initGeoIP` returns a nil pointer inside a non-nil interface (`main.go:159`); the first lookup panics in a worker, where nothing recovers |
| `collector_sigterm` | `README.md:27`: zero data loss on SIGINT/SIGTERM | workers and flusher may take their stop case with events in the channel; the shortest trace loses one event with a healthy cluster |
| `producer_order` | `docs/architecture.md:159`: "Hash by qname — ordering per-domain guaranteed" | a batch beyond 1 MiB is cut by kafka-go (`producer.go:142-150`); its first part fails, its second is stored, and the retry of the whole batch (`producer.go:242-257`) stores the earlier event behind the later |
| `file_backups` | `docs/usage.md:157`: `max_backups` is "Max rotated files to keep" | without compression the active file takes one of the places (`writer.go:186`, `:207`): with 1, every cleanup removes the only backup |

Where the documentation says something else and no run is needed to see it:

* `docs/usage.md:138` gives `group_id` the default `dns-flow`. `config.go` has no
  defaults; an omitted `group_id` is empty, and the topic is read again at every start
  (the branch `~group` of Consumer and Process). The same goes for the other defaults
  of that table: a `flush_interval` left out is zero and ends the process.
* `docs/usage.md:151` offers `us`, `ms` and `s` as `precision`; lines always carry
  nanoseconds, so that the server refuses them (`InRange`).
* `docs/architecture.md:150-153` describes `ttl_days`, `retention_days` and
  `retention_ms`; `main` passes none of them to the adapters (`main.go:56`, `:166`,
  `:178`, `:190`), and a reload changes nothing.
* `docs/architecture.md:140` promises zero data loss while ClickHouse or InfluxDB is down,
  the data being safe in Kafka. The offset is committed before any storage is written
  (`consumer.go:98`), and a write that fails is logged and not repeated: the event stays in
  the topic and is not read again. `SkippedIsExplained` and `DatabasesFollowTopic` count
  these among the reasons (`failed`, `skipped`, `lost`, `rejected`), and a ClickHouse batch
  is `reported`.
* `docs/architecture.md:141` and `:167` recommend replay. InfluxDB has one point for an event
  however often it is written (`DatabasesFollowTopic`); the ClickHouse tables have its rows
  once for every time (`StoredOnceInOrder` is per start where the topic is read again).
* `docs/usage.md:156` calls `max_age_days` the "Max age before rotation", and `:157` has
  `max_backups` 0 "keep all". The code never rotates by age (`writer.go:88`), and its cleanup
  removes every backup whose last write is older than that, also when `max_backups` is 0
  (`writer.go:211-219`). FileWriter does what the code does: `OnlyExcessIsLost` counts the
  age among the reasons for which a backup may go.
* `docs/architecture.md:233` and `:236` have the consumer flush its batch and close all
  storages; `main` calls `Close` of no storage behind the consumer. `OnlyTheLastAreLost`
  says what that costs.

Not a violation, but worth knowing: with two workers what `NoFalseOrphan` says would fail (the
response's `Lookup` precedes its query's `Store`); the documentation promises no order
for parallel workers (`docs/architecture.md:219`), so the property and `ServedInOrder`
speak of a pool of one.

The state invariant of a module is one property, its type invariant with the
invariants that belong to it: `PipelineInv`, `CorrelatorInv`, `CorrelationInv`,
`ProducerInv`, `ServerInv`, `EndToEnd`, `ConsumerInv`, `ProcessInv`, `ClickHouseInv`,
`FileInv`. The proofs do induction on them (in the collector and the process on parts of
them: `CollectorInv` and `Accounts`, `Kernel`), and what the induction needs beyond the
properties themselves is a named conjunct, so that TLC checks it too.

### Bounds, and why they suffice

Every data value is an identity, so two events suffice to violate anything about
order or duplication, and a third to fill a channel behind them. Two workers give
every pairwise interleaving of workers; one worker is used where the property is
about order, or is only true there. Channels of 0, 1 and 2 cover unbuffered, full
and partly filled. Two attempts cover first, retry and last; a third attempt adds
no new transition. Two partitions let one fail while the other succeeds. In the
correlator the ttl spans two periods (in the code 30 s span three of 10 s). Three
connections leave room for one failure at each level of the pool: two free, one,
none. Three seconds and four events let rotations fall into the same second or into
different ones, two cleanups overlap, and a backup grow old. The channel of the pipeline
is full in `pipeline` and without a buffer in `collector`, so both ways of dropping an event
occur. Five handings over of three messages are what lets a topic be read again from
its beginning as far as a message that was stored. Two restarts let a
restart follow a restart; one is enough where only what outlives a start matters (file,
clickhouse, process). Two messages of one series and instant are the least that can
merge, and read twice they can merge in either order. Two looks for the topic are one that
is repeated and one that gives up; ten in the code. The bounds are the constants
`Capacity`, `BatchSize`, `MaxAttempts`, `Conns`, `MaxRuns`, `MaxTime`, `TTL`, `Period`,
`Polls`, `N` and the sizes of the sets; no other bound is hidden in a guard.

Deadlock is checked in every run; the final stuttering step `Ended` (or
`SysEnded`, `Quiet`, `Idle`) is enabled only where the process or the component has ended.

### Fairness

Weak fairness of a goroutine's own steps: the Go scheduler runs a goroutine that
can go on, and `select` chooses a ready case. Weak fairness of
the kafka writer settling batches, whose own attempts and timeouts are bounded, and
of the ClickHouse driver's calls, which return, if only with an error.
`Shutdown`, `Close` and `Stop` carry on once begun, and so does `main` (every call of its
start-up has a timeout). A file cleanup gets to run. Nothing is assumed of a client
(frames need not come, connections need not close, so `Decode` may block for
good), of signals, or of the answers of the cluster and the storages, which may be
errors every time. One thing is assumed of the consumer's reader: weak fairness is that of
the loop as a whole, in which a failed read that changes nothing is a stutter, so
`TopicIsRead` takes a fetch to succeed in the end. `Collector` assumes only that *some* goroutine that can run is
run, which is weaker and is enough, because all internal work is finite.

## Proofs

The theorems hold for all values of the constants that the module's assumption admits:
`PipelineAssumption`, `CorrelatorAssumption`, `CorrelationAssumption`,
`ServerAssumption`, `CollectorAssumption`, `ProducerAssumption`, `ConsumerAssumption`,
`ProcessAssumption`, `ClickHouseAssumption` and `FileAssumption`. They say what kind of
thing each constant is and what the code itself ensures (channels of 100000, batches of
1000 and three attempts are at least one each; `Validate` asks for an output); TLC
evaluates each of them in the runs of that module. Three theorems have a hypothesis of their own, `Compress`,
`LabelledTruly` and `~Splits`, explained below. Sets of events, workers, connections, partitions and
keys may be of any size, infinite ones included; the numbers of restarts, attempts and
seconds are any numbers.

Every invariant and every property of one step (`[][A]_vars`, and the refinements) that
a passing run checks is proved. The shape is the same everywhere: one lemma per
action or per group of actions with the same effect, a lemma that the invariant is
preserved by `[Next]_vars`, and a theorem. What had to be added to make a property
inductive is what a reader of the code may want to know:

| Module | Theorems | Strengthening, and the argument |
|---|---|---|
| PipelineProofs | `Invariance`, `EventsAreNeverDuplicated`, `TeardownIsSafe`, `Refinement` | `ExactlyOnce` needs `HeldInv` (a worker holds an event exactly while it is in `processEvent`), `Admission` (a new event is nowhere) and `PhaseInv` (how the progress of `Shutdown` shows in the channel, the context and the workers). `MoveOne` reduces a step that changes the outcome of one event to EventRelay's `Move` |
| CorrelationProofs, the table | `Invariance`, `AgeIsBounded`, `OrphansHaveReasons` | `AgesWithTheTicker`: at each tick every entry older than the ttl goes, so no age can exceed the ttl by more than the time since the last tick. That a waiting query is found is `TableIsConsistent`: entry and history name each other |
| CorrelationProofs, the workers | `SysInvariance`, `TableIsUsed`, `TableOfTheWorkers`, `PipelineIsAsSpecified` | `NoFalseOrphan` needs `ServedInOrder`: with one worker, whatever is accepted before an event that has been served has been served. `StopsLast` makes every call of a worker one that the running table allows, so all that is proved of the table holds of it under the workers |
| CorrelationProofs, decoding | `MessagesAreDecoded`, `PairsFollowMessages` | No induction: the fields of an event are followed through `parseDNS` for the query and then, over it, for the response (`PartIsParsed`, `EventIsDecoded`, `EDNSIsParsed`). Version and DO bit are those of the last OPT record, the options those of both, and the subnet is the query's where the response names none (`EDNSIsOfBothParts`), because `parseEDNS` sets it only when it meets one (`server.go:359-362`). A pair has one client and id by the key of the table |
| CollectorProofs | `ServerInvariance`, `SysInvariance`, `PartsAreAsSpecified`, `TopicFollowsWorkers`, `Refinement` | A handler's frame is in its hands exactly between `decode` and `deliver` (`OfferedOnce`). `InOnePlace` joins it to the pipeline's channel, a worker's hands and the producer; `written = AtProducer` says that what the pipeline calls written is what the producer calls accepted, which neither of the two modules says alone. `PartsAreAsSpecified` shows that the composition implements its three parts; the guard `~done` that Producer puts on `Write` is `NoWriteDuringClose`. So the theorems of ProducerProofs, instantiated, hold of the whole collector (`TopicFollowsWorkers`: `AckedIsStored` and `OrderAcrossBatches`) |
| ProducerProofs | `Invariance`, `OrderHoldsAcrossBatches`, `OrderIsKept`, `Refinement` | `AckedIsStored` needs `AnswersAreOfTheBatch`: the last call that the kafka writer holds for a partition that owes an answer is of the present batch, and what of it has been answered without an error is stored. For the order, `EverythingInTurn` says for each stretch (channel, batch, each call of the writer) that an earlier event of the partition has been there before or is settled and does not come any more; within the present call an earlier event may also be one of the same batch. `HeldOnce` says that what an expired attempt has left with the writer is reported and nowhere else. So `OrderAcrossBatches` holds of every step that stores something. `OrderIsKept` is the stronger `PartitionOrder`, for a writer that cuts no call. `BatchFor` is a recursive function; that it selects a partition's messages in order (`BatchForSelects`) goes by the smallest counterexample |
| ProcessProofs, the consumer | `ConsumerInvariance`, `LossesAreExplained`, `StopIsQuiet` | `NoUnexplainedRepeat` counts how often a storage was sent back in the topic: never with a group, because the offset is committed first (`Offsets`, `HandedIsBehind`), and once per restart without one. `ReadIsKept` says where each message read has gone, storage by storage |
| ProcessProofs, the process | `ProcessRunsConsumer`, `ProcessInvariance`, `TopicReachesDatabases` | The first is the refinement of Consumer by Process, so the theorems above hold of the process. Of the databases: a point merged into is still the point of its event (`MergeIsSound`), and what a storage was handed is stored, refused or failed (`HandedIsStored`), restarts included |
| ClickHouseProofs | `Invariance`, `LossIsBounded`, `RelayInEveryRun`, `Refinement` | Everything is in the order in which it was handed over (`HeldInOrder`, `UnsettledAreLast`): raw table, batch, channel, one behind the other. `HandedOverInTurn` says what that order is to the topic: of two events the later is a later message, or one of a later start without a group; together they give `StoredOnceInOrder`. So what is lost at a crash is the end of a run, and at most what channel and batch hold (`FewAreHeld`). EventRelay is implemented in each run; the run checks it for two, the theorem holds for any |
| FileWriterProofs | `Invariance`, `SilenceComesLate`, `LossIsExplained` | A cleanup decides on a listing that is stale when it acts: `CleanersAreRight` says that what made a backup excess or old stays true through rotations, other cleanups, crashes and restarts until the backup is gone. `RotationIsSafe` says where the events of a rotation are at each of its steps, and `NamesAreTimes` how a backup's name, its last write and the clock are ordered |

ChannelLemmas has what a channel operation does to the set of buffered events and to
their distinctness (`SendContents`, `SendDistinct`, `ReceiveContents`,
`ReceiveDistinct`, `ReceiveLast`, `JoinContents`), and `Least`, that a set of natural
numbers has a least element, which stands for induction.

What the attempts at a proof showed about the models:

* `LossIsExplained` holds with `Compress` only. Without compression the active file
  counts among the backups, and a cleanup removes one that is not in excess, which is
  the finding `file_backups`. The other two theorems need no such hypothesis.
* A cleanup computes what is in excess only if `MaxBackups > 0`: with 0 and an age limit
  nothing is ever in excess, which `OnlyExcessIsLost` had not said.
* With compression, the plain file of a rotation is removed last. If the compressed one
  has been removed for its age meanwhile, what counts is the second in the name, because
  the last write of the plain file may be much older; `OnlyExcessIsLost` says so now (`Aged`).
* The query of a pair is a query and its response a response only if no client puts a
  message with the response bit into the query's place of a frame, or the other way
  round (`LabelledTruly`; the run's messages satisfy it). `decodeToEvent` looks only at the
  bit of the last part it can read. `MessagesAreDecoded` needs no such hypothesis.
* `OrderIsKept` needs `~Splits`: the attempt to prove it for a writer that cuts a call
  fails at the retry, and `producer_order` is the counterexample. What is left of the order
  is `OrderAcrossBatches`, which needs no hypothesis.
* Order with a single worker is stated by positions rather than by sequences of events,
  and `BatchFor` as a recursive function rather than a filter: same values, and the
  provers can reason about them.

Only model-checked, because fairness and ENABLED are beyond the prover:
`ShutdownCompletes` and `AcceptedIsWritten` of Pipeline, `AcceptedIsSettled` and
`CloseCompletes` of Producer and of ClickHouseWriter, `ShutdownReturns` of Collector,
`StopReturns` and `TopicIsRead` of Consumer, `MainMovesOn` of Process and
`BackupsAreTrimmed` of FileWriter. The runs that end in a violation are counterexamples
and need no proof.

## Not modelled, and why

* The text of names, addresses and record data, JSON, the escaping of line protocol:
  formatting whose output no other part branches on. Nil frames and events that cannot
  be encoded or decoded are modelled.
* The contents of GeoIP databases, most of a configuration's values, log output.
* What the program has and never uses: `applyRetentionPolicy` of the v1 writer and the
  retention settings of the producer and of ClickHouse (`main` passes zeroes), `Close` of
  the InfluxDB and file writers, `Health`, `GeoIP.Close`.
* Several consumers in one group, and topics of several partitions on the
  consumer's side: rebalancing is Kafka's.
* The data race on `c.cancel` and `c.reader` is modelled as interleaving of single
  reads and writes. One outcome is left out of `StopReturns` by its premise: if
  `Stop` reads `c.cancel` before `Start` sets it and then `c.reader` after `Start`
  has set that, the loop reads errors from a closed reader for ever and `Stop`
  waits for it. `SignalIsHeeded` has the same premise.
* A signal behind one that main has not taken yet is dropped; `SignalIsHeeded` is about
  a SIGTERM that is in the channel.
* Names within the file writer's cleanup that are no rotated file of its own; `os.Stat`
  and the `os.Remove` after it are one step.
* A message that kafka-go still has buffered when the reader is closed: `Fetch` needs an
  open reader. A `Stat` of the opened file that fails, after which the writer counts
  from zero (`file/writer.go:62-65`).  Events are one unit of size, and the limit of a
  file is tested before the write: a real file may exceed it by one event.
* An operator who resets the offsets of the group: to the tables that is a start
  without a group.
* Of the InfluxDB servers, `process` has refusals from a missing database and from the
  precision; a status that is a fault of the server (`"status"`) is in the module and not
  in the run.
* The ClickHouse schema, and what InfluxDB does with fields of another type beyond
  refusing the line.

## Plan

1. *Done.* The models: EventRelay, Pipeline, Correlator, Decode and Correlation;
   Producer; DnstapServer and Collector; Consumer, the InfluxDB writers and Process;
   ClickHouseWriter with restarts; FileWriter with both limits.
2. *Done.* The proofs of every invariant, action property and refinement that the
   runs check.
3. Next, results that no run can check: the bound on the work that is left which the
   liveness properties rest on (a measure that every internal step lowers), and, with
   one worker, the order from the frame to the topic in one statement.
4. Shorter proofs: the lemmas on sequences in order of ClickHouseProofs and ProducerProofs
   have a common core.
