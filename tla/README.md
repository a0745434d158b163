# A TLA+ model of the aggregator service

The aggregator service generates packets of measurements, reduces each packet
to its maximum in a pool of workers, stores the maxima in Postgres through a
buffered, batching writer, and serves them over HTTP and gRPC. This directory
models the service in TLA+, checks the models with TLC on small instances and
proves the most important properties with TLAPS for every instance. All source
paths below are relative to `src/app/src/`.

## The system

| component | source | state it keeps | operations |
|---|---|---|---|
| generator | `core/generator.go` | the packet it is about to send | tick, send, stop on cancellation (closes the channel) |
| worker pool | `core/worker_pool.go` | one packet per worker, the gauge of active workers | receive, scan, `Add`, leave; with no workers: drain |
| repository, write side | `database/postgres.go` | `closed`/`stopCh`, the channel `buffer`, the writer's batch and timer | `Add`, the writer goroutine `run`, `Close` |
| repository, storage | `database/postgres.go`, `resources/migrations` | the table `packet_max` | insert, update by pair, update by packet, select by id, select by range |
| SQL runner | `database/migrate.go` | one open database per DSN | `Exec`, `dbFor`, `Close` |
| start-up | `database/connection.go`, `database/migrations.go`, `cmd/migrate/main.go` | attempts left, migrations applied | `WaitForDatabase`, `ApplyMigrations`, `SetupRepository`; the command `cmd/migrate` |
| main | `cmd/start/main.go` | the context, the wait groups, the listeners | listen, serve, shut down, clean up |
| HTTP API | `api/http`, `api/chi` | none | max by id, max in range, health |
| gRPC API | `api/grpc` | none | max by id, max in range |
| aggregator | `core/aggregator.go` | none | passes both calls on to the repository |
| metrics | `infra/metrics.go`, `infra/prometheus` | counters, gauges, histograms | increment, observe, gather |
| configuration, logging | `infra/config.go`, `infra/logging.go`, `infra/utils` | none | load, log |

How they interact:

    generator --packets (channel, capacity PACKET_BUFFER)--> workers
    workers   --Add--> buffer (channel) --> writer: batch, timer --Exec--> SQL runner --> Postgres
    HTTP, gRPC --> aggregator --> repository reads --Exec--> SQL runner --> Postgres
    both APIs, the writer, generator and pool --> metrics <--one scrape after the other-- /metrics
    main: one context for generator, workers, Add; a wait group for generator
          and pool; a wait group for the servers; deferred cleanup closes the repository

What is hard: every goroutine selects between its work and one shared
cancellation; `Add` reads a flag under a lock and uses it after the lock; the
writer's timer runs beside the batch it is for; the shutdown is a sequence of
waits whose order matters; `Add` returns before anything is stored; a failing
listener ends the process by another path than a signal does; the SQL runner
unlocks its map while it opens a database; a write is up to three statements
with other writers in between; requests read the table while a batch is half
written; a request updates three metrics under three locks while a scrape reads
them one by one; main waits for the HTTP requests in flight only
by way of the gRPC server.

What makes each part correct: the pipeline neither loses nor doubles a packet
and stores all it accepted at a clean exit; the writer passes items on in order
and leaves none behind; a stored maximum is never lowered or credited to
another source; the runner leaks no database; the service serves on a complete
schema, and does not take the repository away from a request; both APIs ask the
service for what the contract says and answer with what was stored; the metrics
count every request once and a scrape never shows numbers that contradict each
other.

## Modules

| module | models | read with |
|---|---|---|
| `Handoff` | the promise of the write side: a bounded FIFO, each item taken over at most once and passed on once | `HandsOver` in `Repository` |
| `Repository` | `New`, `Add`, `run`, `processBatch`, `Close` of `database/postgres.go` | `MCRepository`, `RepositoryProofs` |
| `Pipeline` | generator, worker pool and main over `Repository`, whose variables and actions it shares | `MCPipeline`, `PipelineProofs` |
| `WorkerScan` | `processPacket`/`findMaxMeasurement`, one measurement per step | `MCWorkerScan`, `WorkerScanProofs` |
| `PacketStore` | `writePacketMax` and the table `packet_max`, one statement per step, and its two SELECTs | `MCPacketStore`, `PacketStoreProofs` |
| `MaxRegister` | the promise of the table: one number for each packet, which a write raises in one step | `KeepsMaximum` in `PacketStore` |
| `Storage` | `Repository` over `PacketStore`: the writer's write is the statements on the table, beside other instances and deletions | `MCStorage`, `StorageProofs` |
| `SharedPool` | the promise of the SQL runner: one database of each data source, got or made in one step | `SharesDatabases` in `SqlRunner` |
| `SqlRunner` | `Exec`, `dbFor`, `openDB`, `Close` of `database/migrate.go` | `MCSqlRunner`, `SqlRunnerProofs` |
| `Startup` | `WaitForDatabase`, `ApplyMigrations`, `SetupRepository`, with kills and restarts, and `cmd/migrate` beside them | `Lifecycle` |
| `Lifecycle` | main over `Startup`: listeners, servers, shutdown, requests, cleanup | `MCLifecycle`, `LifecycleProofs` |
| `Api` | what the HTTP router and handlers and the gRPC methods ask of the service, and their status for its answer | `Serving`, `ServingProofs` |
| `Metrics` | counters, gauges, histograms, and one scrape of `/metrics` | `Serving` |
| `Serving` | the requests of both APIs and the writer's flushes, over `PacketStore`, `Api` and `Metrics` | `MCServing`, `ServingProofs` |

### Repository

A member of `Adds` is one call of `Add` and the packet maximum that it carries;
it happens at most once, so the model is finite without a state constraint.
`add[a]` is where the call is: past its first checks (`entered`), past the read
of `closed` and at its select (`sending`), or what it returned. The steps are
separate because the code releases the lock before the select. `closed` is the
flag and the channel `stopCh`, which `Close` closes under the same lock.

`mode` is where the writer is (its select, the inner drain loop, the last
flush, returned), and `flushing` says that it is inside `flush`. During a flush
`batch` holds the items not yet handed to `writePacketMax`; the code truncates
the slice only when all have been handed over, which nobody else can see. The
timer is `nil`, `armed`, `ticked` (the tick waits in its channel) or `received`
(a non-nil timer whose tick has been taken, which will never tick again).
`TimerFire` is a step of its own and may happen during a flush.

`attempted` lists the items handed to `writePacketMax`. A write that fails is
logged and dropped by the code, so an attempt is all the writer promises; what
an attempt does to the table is not part of this module. `runnerOpen` says
that the SQL runner holds an open database: a write or a lookup opens it
(`dbFor`) unless the ping fails, and only the closer that runs `closeOnce` closes
it. A member of `Queries` is one call of `PacketMaxByID` or `PacketMaxInRange`;
`Query` is its use of the runner, as the one step at which a database that it
has opened enters the runner's map (its rows are in `PacketStore`). The code does
not ask there whether the repository is closed, so a lookup may leave a database
in the runner for good, after a single `Close` too. `query` remembers the lookups
that did (`reopened`), and `Released` claims of `Close` what is left: the writer
is gone, what was open has been closed, and no write opens anything again.

### Pipeline

EXTENDS `Repository` with `Adds` as the packets: a packet's maximum is Added at
most once. `generator`, `worker[w]`, `pool` and `main` are program counters with
one value per point at which the goroutine can wait or be overtaken. `dropped`
is a history variable. The initial state chooses one of `Staffs`, the sets of
workers that a configured count may start; the empty one is a count of zero or
less, which only drains the channel (`NoWorkers`). `main` takes one of two ways
out: `waiting`, `servers`,
`cleanup`, `exited`, or, when a listener fails, `failing`, `killed`, which is
`Fatalf`. After the end of the process nothing moves. The servers are an
environment here: `ServersWaited` stands for `serverGroup.Wait`, and `Lookup` for
a request that reads, from the opening of the listeners to the end of the
cleanup, which it may overlap when `Shutdown` has stopped waiting for it.

### WorkerScan

The scan of one packet with a cancellation between any two measurements. In
`Pipeline` it is the two actions `WorkerFound` and `WorkerAbort`. Values are
integers: the generator makes whole numbers below 1000, and the scan only
compares them.

### PacketStore

What `Repository` leaves out: the effect of one write. `at[w]` is the statement
that writer `w` is about to execute, `insert`, `pair` or `packet`. Each service
instance has one writer goroutine, so several writers are several instances on
one database. A statement is atomic, as Postgres makes it; between two of them
other writers may run, and `Purge` deletes rows, which the service never does
itself but without which the last statement is dead code. `StatementFails` is an
answer that is an error, with the statement applied or not. `Merge` is the SET
clause: source and value change together, the timestamp always. An update of
all rows of a packet may be refused, because it would give two of them the same
key (`Collides`). Values are integers, of which the code needs the order only.
`ByID` and `InRange` are the rows that the two SELECTs choose from; both ends of
an interval belong to it. `SourceOwnsValue` says of a row what survives every
merge: its value was reported for its packet by the source that it names, and
its timestamp was reported for its packet, perhaps with another value.
`stored` and `started` are history variables: the writes that returned no error,
and those begun.

`MaxRegister` is what all this amounts to for a reader of maxima: no rows, keys
or statements, one number of each packet. The refinement mapping takes the
highest value of the packet's rows for that number (a set of one, or none when
there is no row); the step at which a write takes effect is its last statement,
and a write that fails has raised the number or has not.

### Storage

`Repository` leaves out what a write does, `PacketStore` who asks for it;
`Storage` puts them together. A call of `Add` stands for the packet maximum it
carries, so `Adds` is a part of `Items`. `WriteOne` of `Repository` becomes
`WriteBegin`, the statements that lead to another (`WriteGoesOn`), and the last
one (`WriteEnds`), at which the item leaves the batch, whether the write failed
or not. In between everything else goes on: callers, timer and `Close`
(`AroundWrites`; the writer itself is inside `writePacketMax`), the other
instances on the same database and deletions (`Others`). `lost` is a history
variable, the items whose write ended with an error that was only logged. The
runner's flag `runnerOpen` changes with the last statement of a write, as it
does with the write in `Repository`.

### SqlRunner

The mutex covers the lookup, the insertion and `Close`, not the opening of a
database between the first two, and not the statement. A call opens one database
at most, so the call is also the name of the database. `Close` keeps the mutex
while it closes one database after the other; the calls at their statement do
not need the mutex and may run in between. `Repository` sees this module as
the one flag `runnerOpen`. A blank statement, for which `Exec` returns at once, is
left out: no caller has one. `SharedPool` is what the callers may rely on: the
database is got or made in one step. A database that is opened in vain, because
another caller was faster, does not appear in it.

### Startup and Lifecycle

`Startup` has the first half of main, up to the repository, and the one thing
that outlives a process, `schema`: the migration files the database has
executed. There is no record of them in the program, so a new process executes
all of them again. A file is one statement for the runner and one transaction
for the database. An error of `WaitForDatabase` is logged and forgotten, as in
`provideRepository`. `migrator` is the command `cmd/migrate`, another process
that executes the same files in the same database at any time, and which, unlike
the service, gives up when the database does not answer. What Postgres does with
two concurrent statements of CREATE TABLE IF NOT EXISTS is not in the
repository; here each is atomic, and either may answer with an error.

`Lifecycle` EXTENDS it with the other half, seen from the servers: their two
goroutines, the goroutine that shuts them down, the channel `serverErrs`, and
requests that begin and end. It leaves out generator and workers, for which
`WorkersWaited` stands; `Pipeline` has these and leaves out the servers.
`net/http` and `grpc` are modelled by what main relies on: `Shutdown` lets
`Serve` return at once and waits for the requests for at most five seconds,
`GracefulStop` waits for the calls without limit and `Serve` of gRPC returns
after it. A server whose `Serve` has failed still serves open connections.

### Api

Pure operators. A parameter is absent, malformed or good; what ParseUUID and the
parser of times make of the text is that difference. `HttpQuestion` is the route
and the checks of `handleGetMax`, `GrpcQuestion` those of the two methods of
gRPC: either a question to the service or the reason why it is not asked.
`HttpStatus` and `GrpcCode` translate the answer, `HttpError` and `GrpcError`
are what middleware and interceptor take for an error.

### Metrics and Serving

A metric is a function on levels: level 0 is the value of a counter or gauge, or
the count of a histogram, and the levels above are its buckets. Every metric has
its own lock, so an update is one step and the reading of one metric is one step
(`GatherNext`), in the order of the names, which `Gather` sorts. Scrapes do not
disturb one another, so one is enough.

`Serving` has three kinds of actors. A request arrives by either API (`Arrive`),
reads the table in one statement (`Read`) and then, in the deferred function of
the middleware or the interceptor, updates duration, requests and errors, each
under its own lock. The writer takes one of `Batches`, updates the metrics of
the wait and the size, writes the items through the actions of `PacketStore`,
statement by statement, and updates the metrics of the flush. Third is the
scrape. There is one process, so one writer, and the generator never repeats an
identifier, so each packet has one maximum (`OneProcessAssumption`). That a batch
comes from the channel is left to `Repository`; here any batch may come, once.
`answer[r]` keeps, after the handler, only whether the client got what it asked,
and `storedThen` and `servedThen` remember what had been stored when a request
arrived and which requests had been served when the scrape began.

The operators marked "Mutant" in the modules are deliberately wrong variants of
the definition that follows them. They take part in no specification; putting
one in the place of its original makes a property fail, which shows that the
property depends on that piece of the code.

## Runs

| run | question | bounds |
|---|---|---|
| `repository` | does the write side account for every item, hand over in order, cover partial batches, release what the writer used, and return from every call? | 3 valid calls of `Add` and 1 invalid, 1 lookup, 1 `Close`, batches of 2, a channel of 1 |
| `late_add` (finding) | has everything that `Add` accepted been written when the writer has exited? | the same |
| `second_close` (finding) | is what the writer used released when two concurrent calls of `Close` have returned? | the same, 2 `Close` |
| `pipeline` | are packets conserved, given up only after a cancellation, and all written at a clean exit? | 4 packets, 1 lookup, 2 workers or none, channels of 1, batches of 2; packets and workers are symmetric |
| `pipeline_live` | is every packet written, and does the process end? | 2 packets, 1 lookup, 2 workers or none |
| `fatal_exit` (finding) | does an exit through `Fatalf` keep what was accepted? | 2 packets, 1 lookup, 2 workers or none |
| `scan` | does a worker store the maximum of the whole packet? | every packet of up to 4 measurements over 2 values and 2 timestamps |
| `storage` | does a write that reported success stay covered, does no value fall, does a row's source own its value, is the table one number for each packet, is each item stored or reported lost, and is what was accepted before `Close` in the table when it returns? | 2 calls of `Add` for a packet, from 2 sources, batches of 2, a channel of 1, no timer, 1 `Close`; another instance with 3 lower maxima of the packet, from these sources and a third; 1 deletion |
| `max_by_id` (finding) | does the lookup by packet return the maximum? | 2 writers, 4 maxima of one packet from 3 sources, 1 of another packet, 1 deletion |
| `sql_runner` | do callers share one database as if from a pool, does none leak, what does `Close` leave behind? | 4 calls on 2 data sources, 2 `Close` |
| `lifecycle` | is the schema complete before anything is served, also beside `cmd/migrate`, does the repository outlive the requests, does the process end? | 2 files, 2 attempts, 2 starts, 2 HTTP requests and 1 of gRPC |
| `serving` | are answers current, is every request counted once and rightly, does a page add up and show what was served? | 2 symmetric requests out of 8 kinds, one batch of 2 packets, 1 scrape, histograms of 2 buckets |

The bounds let the interesting cases happen: with a channel of 1 and batches of
2, three items fill everything the writer can hold, so a fourth call (or packet)
blocks; a batch is flushed because it is full, because the timer ticks and
because of `Close`; with two workers two calls of `Add` race, and one packet
more than workers waits in a channel. `FairRepoSpec` and `FairSpec` are used
without symmetry, since TLC's liveness checking does not allow it.
In `storage` the maxima of the calls meet rows of the other instance with the same
key; a deletion between the insert and the update of the pair leads to the last
statement; lower maxima of other sources may then come between, so that the update
of the packet would give two rows one key and is refused, or a higher one, whose
source has to stay. All is about one packet, for a statement touches no row of
another one (two packets are in `serving`, any number in the proofs). The timer and
the lookups, which touch no row, are left to `repository`: with them the instance
would be several times as large, and a flush is the same whatever began it. One
lookup is enough there, for it may come before, during or after everything else:
it opens the database that `Close` then closes, or the one that is left. With one
`Close`, `repository` and `storage` say nothing about a second one, which is the
question of `second_close`. In `sql_runner` three
calls open the same database at once and a fourth keeps `Close` busy with a
second one. In `lifecycle` the second start meets a schema that is empty, half
executed or complete, and the second HTTP request arrives while the first is in
flight. In `serving` two requests may overlap each other, the flush of a batch and
the scrape at every step; the eight kinds are good and bad requests (by packet,
by interval, with an end of the interval on a timestamp, both at
once, from after to, a wrong method, health, a malformed identifier) over both
APIs. A duration is the first bucket that it fits in: requests fall into the
first and flushes beyond the last, so both ends of a histogram occur.

Fairness: weak fairness for each goroutine that has something to do, which the
Go scheduler gives; for the timer; for each started call. It includes the
assumption that the database answers every statement, because the writer uses a
background context without a deadline: without that assumption `Close` need not
return. In `lifecycle` the same assumption is made of gRPC calls, for which
`GracefulStop` waits without a limit, so `ProcessEnds` says nothing about a call
that never ends; of HTTP requests nothing is assumed, since
`Shutdown` has a timeout. No signal, tick of the generator, lookup, call of `Add` or of
`Close` is assumed to happen, and nothing of the kind in `serving`, which has no
liveness property.

## What disagrees with the documentation

- `late_add`: `Add` may return nil for an item that nobody will write, when
  `Close` runs between its read of `closed` and its select. In the program main
  excludes it (`CleanExit` in `pipeline`): it closes the repository only after
  the workers have returned.
- `second_close`: a second concurrent `Close` closes the SQL runner under the
  writer; the next write opens the database again and nobody closes it. The
  program calls `Close` once.
- `fatal_exit`: when a listener cannot be opened, accepted items are lost,
  because `Fatalf` skips the deferred cleanup.
- `max_by_id`: with rows of two sources for one packet, `PacketMaxByID` takes any
  of them, because its query has LIMIT 1 and no order. The service itself stores
  one maximum of each packet.

Not a disagreement, but worth knowing: "Close releases resources held by the
repository", but the lookups, which do not ask whether it is closed, may take a
database again after `Close`; in the program this needs a request that outlives
`Shutdown`, just before the process ends (`Released` and `CleanExit` name this
case, `ReleasedAtReturn` its counterpart in the runner). No crash is modelled:
nothing in the repository's memory survives one, and `HandsOver` bounds what is
in memory at any moment. When the gRPC server fails by itself,
main closes the repository under requests in flight (`RepositoryOutlivesRequests`
names this case). `METRICS_PORT` is read and logged, but `StartMetricsServer`
always listens on port 2112.

## Proofs

`RepositoryProofs` proves, for every set of calls and closers and every
configuration in the integers (`ConfigAssumption`):

- `RepoTypeCorrect`. The limit on the batch is not inductive alone: it needs that
  the batch is not full between flushes and that the last flush is a flush
  (`WriterInv`).
- `TimerCorrect`: `TimerCoversBatch`, inductive together with the types.
- `AccountedAlways`: `Accounted`. The argument is about the log
  `attempted \o batch \o buffer`: the writer's steps move items along it and
  leave it equal (`LogOfReceive`, `LogOfWrite`), a send appends to it an item that
  was not accepted before (`LogOfSend`), and no other step touches it
  (`OtherSteps`). The lemmas about sequences at the top of the module carry this.
- `RepositoryHandsOver`: the refinement of `Handoff`, with the queue
  `batch \o buffer`. A send is an `Accept`, because an item accepted before is in
  the log (`Accounted`); a write is a `PassOn`; a receive is a stutter.
- `SingleCloseReleases`: with one call of `Close` at most, `Released`. The
  invariant says that a closer past its wait finds the writer gone, that
  `closeOnce` has run exactly when a closer has returned, and that from then on
  only a lookup can have opened the runner's database (`CloseInv`).
- `CloseWritesWhatWasAccepted`: with one call of `Close` at most,
  `WrittenBeforeReturn`, a property of two moments. From the first on a predicate
  holds that no step destroys (`OnItsWay`): the item was accepted, and when the
  drain is over it is out of the channel. It begins to hold because the writer
  leaves its select only after `closed` is set (`SelectsWhileOpen`), and it stays
  because the drain ends on an empty channel, when an item of the log can only be
  written or in the last batch (`OutOfEmptyChannel`).

The assumption is about `Close` alone; lookups may come at any moment and in any
number. It cannot be dropped (`second_close`), and an item that
is accepted after `Close` was called may be left behind (`late_add`).

`PipelineProofs` proves, for any number of packets and workers (a finite set,
`StaffsAssumption`) and every configuration, all the safety properties of the run
`pipeline`. `PipelineUsesRepository` says that the program takes only steps that
Repository allows, so what `RepositoryProofs` shows of `RepoSpec` holds of the
program; it needs that a worker inside `Add` holds a packet (`Holders`).
`GaugeSettlesAlways` and `PipelineTypeCorrect` follow from the gauge being the
number of workers between the two updates (`GaugeInv`). `ShutInv` has the order
of shutdown: main is past its wait only when generator and pool have returned
(`ReturnedStays`), so nobody is inside `Add` when the repository closes
(`AddingKeepsOpen`), and the writer that has seen the channel empty never finds
it filled again; with `Accounted` and the invariant of `Close` from
`RepositoryProofs` this is `CleanExitAlways`. `PlaceInv` makes `PacketsConserved`
inductive: a packet is asked of `Add` only by the worker that holds it, so
whoever has it earlier, or gives it up earlier, has one that was not accepted.
`NothingDroppedBeforeCancel` combines the answers of `Add` (`AnswerInv`) with the
places at which a packet is given up.

`WorkerScanProofs` proves `ScanCorrect` and `ScanTypeCorrect` for packets of every
length: before a measurement is looked at, `best` is the first maximum of those
seen.

`PacketStoreProofs` proves, for every set of writers and items and any number of
deletions (`ItemsAssumption`: values are numbers), `RowsNeverFall`,
`SourceNamesItsValue` and `StoredStaysCovered`. Whatever the statement, it adds
the writer's item or merges it into rows of its packet (`StepApplies`); a merged
row is at least as high as both and has value and source from one of them
(`MergeFacts`); the rest follows without looking at the statements again.
`StoreTypeCorrect` adds that the primary key is kept: an update of the pair does
not change a key (`PairDoesNotCollide`), and the update of the packet is refused
when it would double one. `TableKeepsMaximum` is the refinement of `MaxRegister`.
It needs that the rows of a packet have a highest value (`HasTop`), which for a set
of rows of which nothing else is known must be an invariant. Whatever the
statement, if it is applied, the highest value afterwards is the higher one of
the item's and the one before (`EffectRaises`): the item, or a row it was merged
into, is at least as high as the item, no row falls, and no row is higher than
both (`Effect`, `EffectOnPacket`). A statement that is not the last of its write
leaves the table alone and is a stutter (`StatementOutcomes`).

`StorageProofs` proves of `Storage`, for every set of calls, instances and items
and every configuration, that it takes only steps of `Repository` and of
`PacketStore` (`StorageUsesRepository`, `StorageUsesTable`), so the theorems about
both hold in it. `StorageTypeCorrect` is the invariant that ties the two: the write
in progress is that of the head of the batch, during a flush, and with the items
already written it is all that this repository has asked of the table. As an
item is in the log once (`Accounted`, `WrittenOnce`), a write that ends finds its
item neither stored nor lost, which gives `EveryItemSettled`. `CloseMakesDurable`
combines `CloseWritesWhatWasAccepted`, `EveryItemSettled` and
`StoredStaysCovered`; and since a writer that has exited has an empty batch, no
statement of it is in progress (`CloseWaitsForStatements`).

`SqlRunnerProofs` proves, for any number of calls, closers and data sources,
`RunnerTypeCorrect`, `NothingLeaks`, `CallersShare`, `OnlyCloseStops` and `CloseReleases`. The
invariant says that an entry of the map is an open database of its DSN whose
opener has put it there, and that a call at its statement holds one of its DSN;
an open database whose opener is past the insertion is then the entry, so two
calls that hold open ones hold the same. `RunnerSharesDatabases` is the refinement of
`SharedPool`: the lookup that finds an entry and the insertion that finds one are a
`Get`, the insertion that finds none is a `Make`, because a call that has not got a
database yet has made none (`NoneYetNext`), and the opening is a stutter.

`LifecycleProofs` proves, for any number of files, starts and requests,
`SchemaGrowsInOrder` and `ServesOnCompleteSchema` (the files below the next one
are in the schema while a process migrates, `SchemaInv`, which holds of both
processes), `LifeTypeCorrect`, and `RequestsKeepRepository`. `ServeInv` has the
chain the code relies on: main is
past its wait only when `Serve` of gRPC has returned, which without an error
means that `GracefulStop` is over or that no call was ever accepted; it was
called after `Shutdown`, which returned with no HTTP request in flight, or late.

`ServingProofs` proves, for any finite number of requests, any batches and any
number of buckets, the properties of the run `serving`. `RequestsCountedOnce`: the
counters are the sizes of the sets of requests past each update (`Counters`), and
the kind of an answer decides between error and success alike for both APIs
(`ErrorsAreBad`). `EveryPageAddsUp` and `EveryPageShowsServed` are about a page that
is still being written; they are inductive for the page that would result if the
scrape ended now (`Shown`: a line already written, else the metric itself).
Shown so, the page keeps every inequality between two metrics if the lesser one
is read first and the greater never falls, which is what the order of the names
gives. `AnswersStayCurrent` rests on a table that only grows, that holds what was
stored and nothing but what was begun, and in which no row is merged (`TableInv`,
from one maximum for each packet), and on `storedThen` being a part of it
(`Remembered`). `ServingTypeCorrect` adds the
types. `ServingUsesTable`: requests, flushes and scrapes do to the table what
`PacketStore` allows, so its theorems hold of the service.

The same module proves of the operators of `Api`, for every set of packets and
instants: `HttpUnderstands`, that HTTP asks the service for a packet or an
interval exactly when the contract of the API says so, and `ApisAgree`, that both
APIs ask the same for the same parameters.

Only model-checked: the liveness properties, out of the prover's reach. Some
facts are proved and not checked by a run: `OneDatabase` (`CallersShare`), of which
`SharesDatabases` says more; `ScanTypeOK`, a type invariant; and the theorems that a
composed module takes only the steps of its parts (`PipelineUsesRepository`,
`StorageUsesRepository`, `StorageUsesTable`, `ServingUsesTable`).

## Plan

Done, in the order of importance: the write side and its refinement, the
pipeline, the scan, the storage, the SQL runner, start-up, shutdown and
`cmd/migrate`, the two APIs with the metrics, and theorems about all of them.
What could follow:

1. `Storage` below `Pipeline`: from the generator to the table in one module, and
   that at a clean exit each packet is in the table, was reported lost, or was
   given up after the cancellation; it follows from `CleanExit`, `Settled` and
   `StoredIsCovered`. `SqlRunner` as the implementation of the flag `runnerOpen`.
2. The parsing of the runner's CSV and of command tags, as the conversion that
   `Insert` and `Read` rely on.

## Not modelled

The text of logs, configuration and its defaults, dotenv: no state that several
actors share. The parsing of command tags, CSV, timestamps and UUIDs, and the
JSON and protobuf of answers: conversions of one value, without control, which
unit tests reach. The order of the rows of a range, and the rounding of
timestamps by Postgres. The limits of `database/sql`'s connection pool. `Connect`,
which nothing calls. The sum of a histogram, the counter of packets and the
exposition text of the metrics; `StartMetricsServer`, one goroutine that serves
them. The generated protobuf code; dashboards and deployment files.
