# Verification of the observability course's programs

The repository holds the programs of a course on observability.  Its main
program is the taxi system of `lesson_09/project`: two Go services, a Redis
server, and a goroutine that carries each location report from one service to
the other.  Around it are single programs about one idea each (an in-memory
location index, a rate limiter that follows the error rate, a circuit breaker,
loggers with a channel in the middle), the libraries of lesson_07 that sample,
wrap and instrument other programs, and the web shop of lesson_11, whose orders
go through a cart, a checkout service, Kafka and an accounting service.

This directory models the programs whose behaviour depends on the order in
which goroutines, processes and commands run, and the arithmetic on which
decisions rest.  TLC checks every module on small instances; TLAPS proves, for
all values of the constants, every invariant the runs check and the two
refinements.

File names below are relative to `src/`; `L9` stands for `lesson_09/project`,
`CONTRIB` for `lesson_07/opentelemetry-go-contrib`, `AUTO` for
`lesson_07/opentelemetry-go-instrumentation`, and `DEMO` for
`lesson_11/opentelemetry-demo/src`.

## 1. Inventory

### The taxi system (`L9`)

| Part | State | Operations | Meets others through |
|---|---|---|---|
| request pipeline: `middleware/timeout.go`, `middleware/metrics.go`, the same in both services | per request: the flag `headerWritten`, the status for the metric, the response | `TimeoutMiddleware`, `MetricsMiddleware`, `timeoutWriter`, `responseWriter` | two goroutines per request share a `ResponseWriter` and a flag, without a lock |
| driver location service: `driver_service.go`, `driver_handler.go` | in Redis: the geo index `driver:locations` and a record `driver:<id>` per driver | `UpdateLocation`, `FindNearby`, and `RemoveDriver`, which no route calls | Redis, one command at a time; a goroutine per report to the analyzer |
| track analyzer: `track_repository.go`, `track_handler.go` | in Redis: the list `track:points:<id>` and the value `track:analysis:<id>`; the counter of processed points | `AddPoint` / `SavePoint`, `GetRecentPoints` | Redis, one command at a time |
| track kinematics: `track_service.go` | none: a loop over points | `AnalyzeTrack` | the list, in whatever order points were pushed |
| feature flags: `feature_service.go`, `feature_handler.go` | a `sync.Map` | `SetFeature`, `GetIntFeature`, `GetBoolFeature` | `randomWait`, the delay in `AddPoint` |
| start and shutdown: `cmd/main.go` of both | the HTTP server, signals, the clients and exporters that are closed by `defer` | `main` | ends handlers and reports under way |

What is hard, and what correctness means here:

* *Pipeline.*  After a deadline the handler goroutine keeps running and both
  goroutines may write to the response.  The client must get exactly one
  answer: the handler's, or 504; the metric must count that answer; a handler
  that hangs must not keep its client waiting.
* *Driver service.*  Index and record are written by separate commands, each of
  which may fail, be repeated by the Redis client, or be overtaken by those of
  another request.  Index and record must agree again after any write that ran
  alone; queries must find settled drivers; nothing may be visible that was
  kept from the analyzer.
* *Track analyzer.*  `LPUSH`, `LRANGE` and `SET` are three commands.  An
  analysis may miss or undo another's work through an overlap of their saves,
  and in no other way.  What it computes must hold for points that raced.
* *Both together.*  Reports travel in goroutines of their own, are given up
  after a second without knowing the outcome, and die with either process.  The
  track must hold only accepted reports, each a bounded number of times, and in
  order unless the reports raced.
* *Flags.*  A delay range is read by two loads; it must not make `rand.Intn`
  panic, nor be a range nobody set unless the range changed twice meanwhile.  All
  calls draw from one `*rand.Rand` without a lock.
* *Shutdown.*  It must end, and may cut off only requests that the client was
  already told about.

### The single programs

| Program | State | What runs side by side | Correctness |
|---|---|---|---|
| `lesson_02`: in-memory location manager | a map of positions under a read-write lock; gauges | updates, searches, the cleanup ticker; a search takes the lock once per driver | old positions go in bounded time; a search returns the nearest of its bucket |
| `lesson_10/adaptive_rate_limiter` | limit, count and minute under a mutex | requests and the monitor | no minute above its limit; the limit in its range, and back to its ends |
| `lesson_10/gd_example` | a flag and the gauge that shows it | handlers of alerts | the gauge shows the flag |
| `lesson_10/circuit_breaker` | the breaker's state and counts | nothing; but time passes | it opens soon enough, is quiet while open, and is half-open when the second loop begins |
| `lesson_08/async_logging`, `async_logging_batch` | a bounded channel, a builder | producer and worker | lines in order; bounded loss; the program ends |
| `lesson_08/aggregate_log_example` | the same channel, counts | producer and worker | the counts add up, and all are reported |
| `lesson_08/aggregate_metric_example` | a map filled by five goroutines without a lock | those, and the aggregator | each value in one average |

### The libraries of lesson_07

| Part | State | What runs side by side | Correctness |
|---|---|---|---|
| `AUTO`: the instrumentation manager (`instrumentation.go`, `internal/pkg/instrumentation/manager.go`, `probe/probe.go`) | its state, the current configuration, each probe and what it has attached | `Run`, `Close`, `Stop`, the loop that applies configurations, a goroutine per probe | nothing stays attached after a stop; what is enabled runs; `Run` and `Close` return |
| `AUTO/sdk`: a span of the auto SDK (`span.go`, `tracer.go`) | attributes, events and links with their limits; whether it is sampled | goroutines that change the span, and `End` | what is dropped is counted; the newest is kept; exported once |
| `CONTRIB/samplers/probability/consistent` | none: what a trace carries in its tracestate | the services of a trace, each with a sampler | decisions nest; the fraction is exact; what is handed on can be read |
| `CONTRIB/samplers/aws/xray` | rules with statistics and reservoirs | `ShouldSample` and the poller | no more sampled than the reservoirs give; each match reported once |
| `CONTRIB/samplers/jaegerremote` | the strategy in force, limiters per operation | `ShouldSample`, the poller, `UpdateSampler`, `Close` | an updated sampler is as good as a new one; credit and operations bounded; `Close` returns |
| `CONTRIB/.../otelsarama/producer.go` | a map of messages under way | four goroutines, the user, sarama | each span ends once; metadata restored; `Close` returns |
| `CONTRIB/.../otelgrpc/interceptor.go` | the end of a stream | two callers, two goroutines | the span ends, tells the end, keeps nobody waiting |
| `CONTRIB/zpages` | active spans and samples by name | spans, and a page being drawn | samples spaced; every end counted; a page misses only what changes |

### The shop of lesson_11 (`DEMO`)

| Part | State | What runs side by side | Correctness |
|---|---|---|---|
| `cart`: `ValkeyCartStore.cs`, `CartService.cs` | a hash per user in Valkey | calls on one cart | an item added alone is kept |
| `checkout`: `main.go`, `kafka/producer.go` | none of its own but the producer, which all orders share | orders, the producer, copies made by a feature flag | charged before shipped, shipped once, nobody waits for ever |
| `accounting`: `Consumer.cs` | the consumer's position, one `DbContext` | commits by the clock | no order forgotten or stuck |
| money and currency: `checkout/money/money.go`, `currency/src/server.cpp` | none | nothing | exact sums |

`PROJECT.json` lists, under `hazards`, each place in the code where one of
these things can go wrong, and the properties that would notice.

## 2. The modules

| Module | What it is | Checked by | Proofs |
|---|---|---|---|
| `TimeoutMiddleware` | the request pipeline | `MCTimeoutMiddleware` | `TimeoutMiddlewareProofs` |
| `ServiceLifecycle` | a service from its first request to its exit | `MCTimeoutMiddleware` | in `TimeoutMiddlewareProofs` |
| `DriverService` | the driver location service | `MCDriverService` | `DriverServiceProofs` |
| `TrackAnalyzer` | the track analyzer | `MCTrackAnalyzer` | `TrackAnalyzerProofs` |
| `TrackKinematics` | `AnalyzeTrack` | `MCTrackAnalyzer` | in `TrackAnalyzerProofs` |
| `DriverTracking` | composes `DriverService` and `TrackAnalyzer` with the goroutines between them | itself, `MCEndings` | `DriverTrackingProofs` |
| `ReportLog` | abstract: what both services promise together | as a property of `DriverTracking` | `DriverTrackingProofs` |
| `FeatureFlags` | flags and the delay they put on `AddPoint` | `MCTrackAnalyzer` | in `TrackAnalyzerProofs` |
| `LocationManager` | the location manager of lesson_02 | `MCLocationManager` | `LocationManagerProofs` |
| `SpanProcessor` | the span samples behind zPages | `MCLocationManager` | in `LocationManagerProofs` |
| `RecordingSpan` | a span of the auto SDK | `MCLocationManager` | in `LocationManagerProofs` |
| `ConsistentSampler` | the samplers a trace passes | `MCLocationManager` | in `LocationManagerProofs` |
| `RateLimiter` | the adaptive rate limiter | `MCRateLimiter` | `RateLimiterProofs` |
| `CircuitBreaker` | the two loops of the circuit breaker example | `MCRateLimiter` | in `RateLimiterProofs` |
| `Degradation` | the alert handler and its gauge | `MCRateLimiter` | in `RateLimiterProofs` |
| `XRaySampler` | the remote sampler of X-Ray | `MCRateLimiter` | in `RateLimiterProofs` |
| `JaegerSampler` | the remote sampler of Jaeger | `MCRateLimiter` | in `RateLimiterProofs` |
| `LogChannel` | producer and channel of the loggers | with the next two | with the next two |
| `BatchLog` | the batching logger; with `Batch = 1` the plain asynchronous one | `MCTelemetry` | `BatchLogProofs` |
| `AggregateLog` | the aggregating logger | `MCTelemetry` | in `BatchLogProofs` |
| `MetricAggregation` | the map five goroutines fill | `MCTelemetry` | in `BatchLogProofs` |
| `AsyncProducer`, `ClientStream` | the wrapped Kafka producer, the span of a client stream | `MCTelemetry` | in `BatchLogProofs` |
| `Manager` | the instrumentation manager and its probes | `MCEndings` | in `DriverTrackingProofs` |
| `CartStore`, `Checkout`, `Accounting` | the way of an order; `Checkout` extends `CartStore` | with `Shop` | `ShopProofs` |
| `Shop` | composes `Checkout` and `Accounting` | `MCShop` | `ShopProofs` |
| `OrderLedger` | abstract: what the shop promises about an order | as a property of `Shop` | `ShopProofs` |
| `Pricing` | what an order costs | `MCShop` | in `ShopProofs` |

Definitions marked `Fault:` are deliberate mistakes.  Each can take the place of
the definition that follows it, and a property then fails; `PROJECT.json` says
which, under `mutants`.  They are part of no specification.

An MC module that instantiates several modules has a variable `program` (`part`
in `MCShop`) chosen in the initial state: a behaviour is one of one of these
programs, while the variables of the others rest.  The programs share nothing;
they share a run.  In the same way several small properties of a program are
conjoined into one (`LimitKept`, `XRaySound`, ...), which the run checks: the
conjuncts are stated and explained one by one in the module, and `mutants` holds
a fault for each of them.

### The taxi system

**TimeoutMiddleware.**  `serverAt` and `handlerAt` are the program counters of
the goroutine of net/http and of the one `TimeoutMiddleware` starts.  Each
access to `headerWritten` (timeout.go) and to `responseWriter.status`
(metrics.go) is a step, because nothing orders the accesses: `SetFlag`,
`SetStatus`, `SendHeader` are the three lines a `WriteHeader` of the handler
runs through, `SetFlagForBody` and `WriteBody` those of a `Write`; `CheckFlag`,
`SetStatus504`, `SendHeader504`, `WriteBody504` are the timeout branch.
`Completed` and `TimedOut` are the two cases of the select; both may be
enabled.  `wire` and `body` are what net/http lets through to the client: the
first status wins, and silence means 200.  Both racing fields fit one machine
word, so that a racing read returns an old or a new value and nothing else.

**ServiceLifecycle.**  `mainAt` goes through `main` from its select to the last of
its deferred calls (`Closing`); `request`, `handler` and `report` are the three
goroutines of a request.  `SelectSignal` and `SelectError` are the two cases of
the select: after an error of the server `main` returns without `Shutdown`.
`ShutDown` waits for the requests that net/http still counts as active, `GiveUp`
is its 30 seconds; neither knows of a handler whose client has had its 504, nor of
a report.  `failed` and `lostSpans` are history: commands that found Redis closed,
spans that ended after the exporter.

**DriverService.**  One action per Redis command: `GeoAdd`, `SetRecord` for
`UpdateLocation` with `GoSend` between them (the `go` statement, which adds the
update to `handed`), `ZRem` and `Del` for `RemoveDriver`, `GeoRadius` and one
`Get` per driver found for `FindNearby`.  `Execute` and `LoseReply` are what
the Redis client makes of a command: it succeeds; or it was executed, the reply
is lost, and the client repeats it up to `MaxRetries` times or reports an
error.  `FailWrite` and `FailQuery` are commands that fail without effect,
`Crash` is the end of the process.  `index` and `record` are the two copies of
a driver's position.  `alone`, `unsettled` and `steady` are history: writes
that have met no other write of their driver, drivers whose last write
overlapped or failed, and drivers a query found settled.

**TrackAnalyzer.**  `Begin`, `Push`, `Read`, `Write`, `Reply` are the steps of
`AddPoint` and `SavePoint`, with the same `Execute` and `LoseReply`.  A point
is named by the save that stores it.  Since nothing removes an element of the
list, what `LRANGE` returned is determined by the length the list had; `seen`
and the `upto` of an analysis are such lengths.  `Expire` is the 24-hour expiry
of the analysis.  `met` is history: which saves of one driver overlapped.

**TrackKinematics.**  The loop of `AnalyzeTrack`, a point a step: `SkipPoint`
where two points have one time, `AnalyzePoint` otherwise.  A track is any
sequence of places, which are latitudes and longitudes, and times, so that points
may come in any order.  `Distance` is a constant: nothing is assumed of the
haversine formula but that it gives no less than 0, or NaN, which rounding makes of
places on opposite sides of the Earth (the root of a number below zero); in
particular no triangle inequality.  `Estimates` is `interpolateLocation`, which
moves along the straight line from coordinates to coordinates at the ratio of two
distances, and so mixes two measures as the code does.  A quotient of doubles is
the exact one or, between two parts, either of them (`Rounded`), also where the
threshold is decided; `Plus` and `Exceeds` treat NaN as the language does.

**DriverTracking.**  Takes both modules with `INSTANCE` and adds `sending`, the
goroutine of each report: `Post` delivers the request, `PostFails` does not,
`Answer` brings the answer back, `GiveUp` is its one-second timeout.  A crash of
the driver service ends these goroutines and none of the analyzer's.  `stamps`
is the order of the reports' timestamps, `raced` the pairs of reports of which
the second was stamped while the first was still on its way.  Removals and
queries do not take part.  `LogSafe` says that this implements
`ReportLog`, with `owner`, `log` and `closed` computed from the handed reports,
the lists and the state of both processes.

**FeatureFlags.**  `SetFeature` stores what a JSON body held, a number or not;
`LoadStart` and the load after it are the two halves of the range `randomWait`
waits for; `Delayed` and `Chosen` are its arithmetic on integers up to
`MaxInt`, in which a delay in milliseconds can overflow a `time.Duration`.
`Draw` and `Wait` are the entry to and the return of `Intn` on the source that all
calls share without a lock.  Two calls inside it at the same time (`overlapped`) may
leave its two positions outside of its table, so that from then on any draw may
panic; a number that comes out is brought into the range whatever it was.  `Refuse`
is the panic of `Intn` at a range without length, `DoNotWait` the call that waits
for nothing.  `inForce` and `changes` are history: the ranges that were in force
during a call.

### Single programs

**LocationManager.**  One step per critical section: `UpdateLocation`,
`Cleanup`, and for a search `Scan` (`GetDriversInBucket`), one `Look` per
driver found (`GetLocation`) and `Select`, which sorts and cuts.  A coordinate
is one of a few places, with its bucket and its distance given as constants.
`Tick` lets time pass, but not beyond the moment at which the ticker is due;
`time.Ticker` and the wait for the lock are taken to be exact in that sense.
`steady` is history: the drivers there when a search made its scan and
untouched since.

**RateLimiter.**  `Admit` and `Refuse` are `Allow`; `Query`, `Get`, `Adjust` are
one round of `MonitorAndAdjust`, whose `GetRateLimit` and `SetRateLimit` are
separate critical sections.  `SetClock` moves the wall clock to the next minute
or back.  `Floor` and `Ceil` allow for inexact products: where the exact product
is whole, the rounded one may be its neighbour.  `Change` chooses what
Prometheus would answer; an empty vector and NaN count as no errors in the code
and are cases of `failing = FALSE` here.

**CircuitBreaker.**  The two loops of `main` with the settings the code gives
gobreaker, which is external: `Enter`, `Counted`, `Trips`, `Refused` are what
these settings mean to it.  `Elapse` is the passing of time, counted in sleeps of
50 milliseconds: one after each call, and the pause between the two loops.

**Degradation.**  `Store` writes the flag, `SetGauge` shows it: two steps of a
handler.  `raced` is history: a handler has stored while one of an alert with
the opposite status was between the two.

**LogChannel, BatchLog, AggregateLog.**  `Send`, `Close` and `Exit` are main;
`Take` and `Drained` are the two ways a worker's range loop goes on.  `BatchLog`
adds `Receive` and `Write` around the builder, `AggregateLog` the counts of equal
messages, reported by `FlushLogs` at each full batch and by `EndLoop` after the
loop.

**MetricAggregation.**  `Begin` and `Insert` are the two ends of an unlocked
insertion into a Go map, which is undefined when it meets another access: an
insertion may then be lost, overwrite another, or end the process (`Die`).
`Collect` and `Export` take the lock of one list.

### Libraries of lesson_07

**Manager.**  `runAt`, `closeAt` and `stopAt` are the callers of `Run`, `Close` and
`Stop`, `loop` the goroutine of `ConfigLoop`, and `probe` what each probe has
loaded, attached and running.  The two locks of the manager and of a probe make
the steps: `ApplyConfig` is one critical section of the manager, `Loaded` one of
a probe.  `stale` and `failed` are history: the loop of an earlier run, or a second load,
has overwritten `currentConfig`; a probe could not be loaded or closed.

**RecordingSpan.**  A call looks at the atomic `sampled` (`Begin`), then changes
the span under its lock (`Apply`); `BeginEnd` swaps `sampled` away and `Export`
marshals the span under the lock.  `Capped` and `Newest` are what `Start` makes of
the limits, `SetAll` and `Pushed` what the later calls make of them.  `offers`,
`added`, `atSwap` and `late` are history: what the span was given, and which
calls had passed their look when it ended.

**ConsistentSampler.**  `ProbabilityBased` and `ParentProbabilityBased` are the
two samplers; each `NextSpan` is a service of the trace, which reads the
tracestate by `Parse`, decides by `Split` and `Samples`, and hands on what
`Serialize` writes.  A field is a key with a number, or with one of the two
kinds of values that are none; the random number has `PZero` bits in place of 63.

**XRaySampler.**  One rule, which every call matches.  `Match`, `CountMatched`,
`Expired`, `Take`, `CountOutcome` are `ShouldSample`; `DeepCopy`, three swaps of
counters, `TargetsArrive` or `TargetsFail`, `UpdateRules` are the poller, which
works on a copy that shares the statistics and has reservoirs of its own.  Each
answer assigns any quota from 0 up to `MaxQuota`, as the poller takes what it is
sent.  A call that others have overtaken comes with a time before the reservoir's
last; it sets the reservoir back, and takes back credit at the present quota, which
may be less than what the seconds between were credited with and will be again.
`wonBack`, history, bounds the sum of these differences.

**JaegerSampler.**  `Begin` takes the read lock, `Make` adds an operation under
the lock, `Decide` asks the limiter; `StartUpdate`, `Fetched`, `FetchFails`,
`Apply` are an update by the poller or by a caller of `UpdateSampler`; `Stop` is
the moment at which `Close` and the poller meet.

**SpanProcessor.**  `OnStart` and the steps of `OnEnd` (`Delete`, `LoadStore`,
`Create`, `Added`), against `ListActive` and the other halves of a page, which
ranges over two maps one after the other.

**AsyncProducer.**  `Take`, `HandOver` are the goroutine before sarama, `Receive`
and `Return` the two behind it, `CleanUp` the last; `Settle`, `Drain`, `Flushed`
are sarama itself.  `Key` makes the case in which no provider is installed and
all spans have one ID.

**ClientStream.**  The receiver and the sender each `Tell` the end they met over
an unbuffered channel (`Notify`), unless the watcher has left (`Skip`);
`WatchCancel` and `Finish` are the watcher and the goroutine that ends the span.

### The shop

**CartStore.**  `HashGet` and `HashSet` are the two commands of `AddItemAsync`,
`EmptyCart` the one of `EmptyCartAsync`, `ExpireKey` the hour after which the key
goes.  An item is named by the call that adds it.

**Checkout.**  `orderAt` goes through `PlaceOrder`: each call to another service
may fail without effect, or take effect and lose its answer.  `Publish`,
`Deliver`, `Answer`, `LogError` and the `Copy` steps are the one Kafka producer
with its two channels, from which each order takes whichever answer is next.
`Crash` ends every order and the producer.

**Accounting.**  `Consume`, `Refuse`, `SaveFails`, `Save` are `ProcessMessage`
with the one `DbContext`; `AutoCommit` is the consumer's clock; `Restart` is a
kill and a start.

**Shop, OrderLedger.**  `Shop` composes the two over the topic.  `KeepsLedger`
says that it implements `OrderLedger`, where an order is charged, then shipped,
then accounted.

**Pricing.**  `Sum`, `Times` and `Convert` are `money.Sum`, `MultiplySlow` and the
currency service; `Add` adds the cost of one item to the total, as in
`prepOrderItems` and `PlaceOrder`.  `Mod` stands for the 10^9 nanos of a unit.
`Convert` divides by the rate of one currency and multiplies by that of another,
both times in doubles, and cuts off what is less than a nano: from a currency into
itself, 45.00 may come back as 44.999999999.  `Precision` says how far the doubles
may be off: a result is off by less than one part in `Precision` of itself.  `Read`
is `getDouble`, whose digits of the nanos have lost their leading zeros.  A rate of
0 is that of a currency the service does not know.  `exact` and `due` are history:
the sum of the converted amounts, and what the catalogue asks at the rate.

## 3. The runs

Runs that pass.  A run with more than one program is one behaviour of one of
them each time; the properties of each are the conjuncts of the property named.

| Run | Instance | What it shows |
|---|---|---|
| `TimeoutMiddleware_requests` | 2 requests, one error status; one service with its shutdown | `AnswersTrue` (a completed request gives client and metric the handler's answer; a handler still at work gives 504; a false success needs the deadline to pass while an error is being written), `LossNeedsCause` (what a shutdown cuts off, and which spans it loses), `EveryWaitEnds` (every request is answered though its handler may hang; the service exits) |
| `DriverService_requests` | 2 drivers, 3 updates, 1 removal, 1 query of at most 1 driver, 1 retry, faults | index and record agree after a write that ran alone; a visible location has been handed on; a query finds each driver that was settled within the radius when it read the index and met no write since, at its place, unless its own GET failed |
| `TrackAnalyzer_safety` | 1 driver, 3 saves, window 2, 1 retry, faults; tracks of up to 3 points at 4 places, of which two are on both sides of the 180th meridian and two opposite each other, and at times 0, 3995, 7200; 2 delayed calls, 3 changes of the flags, integers of 6 bits | analyses miss and regress only through overlaps; a save's own point leaves the window only when enough others overlapped; `AnalysisSound` (a jump is missed and an average is off only if points are out of order or on opposite sides of the Earth, what is flagged is too far, an estimate lies between the two points); `DelaysSound` (the delay range is one that was in force, no draw panics before two have met) |
| `DriverTracking_safety` | 1 driver, 2 reports, window 2, 1 analyzer retry, faults | `LogSafe`: both services implement `ReportLog`; `TracksSound`: disorder needs a race |
| `Endings_all` | 2 drivers and 2 reports without faults; 1 report with retries on both sides and faults; the manager with 2 probes, 2 configurations, 2 calls of `Run`, 1 `Close` | `EverythingEnds` (without faults every report is stored under its own driver; with them goroutine and handler end; `Run` and `Close` of the manager return), `CalmTracks` (without faults the track ends where the index is), `ManagerSound` (nothing attached after a stop, what is enabled runs, the handler outlives the probes, a crash has one of the named causes) |
| `LocationManager_search` | 2 drivers, 3 places, 1 search of 1 driver, timeout 1, interval 2, time up to 5; 3 spans of 2 names, capacity 2, period 1, time up to 2; a span with 3 calls and limits none, 0, 1, 2; traces of 3 spans, 11 tracestates, 8 fractions, 4 random bits | `LocationsSound` (a search leaves no steady driver of its bucket out for one farther away; no position is older than timeout and interval together), `PagesSound` (samples are spaced, every end is counted, a page misses only what changes), `SpanSound` (nothing is lost from a span but what is counted or raced with its end), `SamplingSound` (consistent samplers nest, keep their fraction and stay readable) |
| `RateLimiter_limits` | limit 1 to 4, factors 1.5 and 0.5, 2 minutes, each visited twice; 3 alerts; the breaker with the numbers of its `main.go`; X-Ray with 2 calls, capacity 2, quotas 0 and 1, 2 polls; Jaeger with 2 requests, room for 1 operation of 2, 2 updates | `LimitKept` and `FollowsErrors` (the limiter), `AlertsSound` (the gauge shows the flag), `BreakerSound` (it trips in time, is quiet while open and half-open for the second loop), `XRaySound` (no more is sampled than the reservoirs give for the time that has passed and calls have won back, each match is reported once), `JaegerSound` (an updated sampler decides as a new one; operations and credit are bounded), `JaegerCloses` (its `Close` returns) |
| `Telemetry_all` | 23 log lines, channel of 4, batches of 3; 3 processes of up to 2 values; 3 Kafka messages, 2 under way; a stream of up to 2 messages each way | `LinesSafe` (the loggers), `AggregatesSound` (counts and values once each), `ProducerSound` (metadata restored, no span ended twice), `StreamSound` (the span tells how the RPC ended), `EveryProgramEnds` (the loggers exit, spans end and keep nobody waiting, `Close` returns) |
| `Shop_orders` | 2 items, 2 orders of one user, crashes of the checkout service, one restart of the accounting service; orders of up to 3 costs, quantities 0, 1 and 3, at rates 0, 2 and 3 where the dollar's is 2, off by one part in 150 | `KeepsLedger`: the services implement `OrderLedger`; `AloneAddIsKept`, `ShippedTwiceNeedsCause`, `NobodyWaitsInVain`, `BooksSound`, `PricesSound` (a total is the sum of its costs, what is charged is what the catalogue asks at the rate, and what goes wrong has a small amount or a leading zero as its cause) |

Runs that find a violation; each concerns a sentence of the repository:

| Run | Sentence | What the code does |
|---|---|---|
| `TimeoutMiddleware_flag` | timeout.go:22, the writer "can detect if headers were written" | it detects that they are about to be: the middleware keeps silent, net/http sends 200, and the client takes a failed request for a success |
| `DriverService_radius` | driver_service.go:170, "Find drivers within radius" | selects by the index and returns the records, which an update running meanwhile has not written yet |
| `LocationManager_fractions` | sampler.go:76-81, a fraction that is no power of two "will be rounded down", and "Fractions < 2^-62 are treated as zero" | a fraction is interpolated at random between the powers on both sides, and compared with 2e-62: between 2^-63 and 2^-62 spans are sampled as of 2^-62 |

### Bounds, and why they are enough

* Overlap in the taxi system is between requests for the same driver, and each
  step involves two of them at most; three writes allow a third to begin
  between the two.  `TrackAnalyzer` needs three saves for the window (2 in place
  of 100) to overflow.  Two drivers matter only where a step could name the
  wrong one; the instances with two drivers are for that.
* One retry is enough for a command to be executed twice.  Crashes are not
  counted: requests that have begun end with them.
* The channel (100 000 messages in the code) and the batch (1000) are small
  enough to fill up several times in a run, and the number of messages is no
  multiple of the batch.
* `RateLimiter`: in a range of four limits, factors of 1.5 and 0.5 meet both ends
  and both kinds of rounding.  `MaxVisits` 2 is a clock set back once into a
  minute.
* `FeatureFlags`: with 6 bits and 4 units to the millisecond, one of the numbers is
  no int and becomes one that overflows a duration, one is just below that, and two
  are small.  Two calls can meet at the
  source; three changes tear a range and leave one more.
* `TrackKinematics`: of the distances 222, 896 and 19119 km, an hour or two allow the
  first two or the first only; the time 3995 puts 222 km within a part of the limit.  A jump
  between opposite places has no distance at all.
* Samplers: two calls and a poller give every order of two accesses to the
  statistics.  Two polls are needed for one to report what the other has
  prepared; quotas 0 and 1 let one answer close a reservoir and the next open it
  again; two operations and room for one, for one to be left out.
* `RecordingSpan`: three calls are two that change one list and one `End`, or two
  `End`s and a change.  The attribute lists have a key twice, one without a value,
  and one more than the greatest limit.
* `ConsistentSampler`: with four random bits every number is drawn, and the
  sums of `FractionKept` are over all of them.  Fractions go down to a 64th, below
  the smallest p of an 8th, and include 0, 1 and both sides out of range.  Three spans let a
  decision be handed on by a sampler that does not decide.
* `Manager`: a second `Run`, a second configuration while the first is applied,
  and one `Close` at any moment.  Two probes, because one may fail where the
  other has been loaded.
* `AsyncProducer`: three messages with two under way, so that one waits for the
  other's answer when `Close` comes.
* `Shop`: two orders of one cart are the smallest number that can overlap.  The
  constraint `CartOrKafka` separates what does not interact: with a broker the
  cart stays empty and one order at most is sent again; without one every
  overlap of orders and items is met.  The proofs about `Shop` need no such
  constraint.
* `Pricing`: 100 nanos to a unit, which are two digits in place of nine; the
  amounts include those that carry and those with a leading zero.  The user's
  currency is the catalogue's own, one of half its worth again, or unknown; with a
  `Precision` of 150 an amount of a unit or more may be one nano off on either side.
* The proofs of section 5 need none of these bounds.

`CHECK_DEADLOCK FALSE` appears where programs end or rest for good: the loggers
and the aggregator exit, orders and spans are finite, alerts, calls and polls
may cease, the manager may be left alone.  Each such program has a liveness
property for what must not stop half way.  In the other runs a deadlock would
show.

## 4. Fairness

* `TimeoutMiddleware`: weak fairness of the server goroutine's steps and of the
  timer, for each request.  The runtime schedules a goroutine that can run, and
  `context.WithTimeout` fires.  Nothing is assumed of the handler.
* `ServiceLifecycle`: weak fairness of `main` alone, whose waits, once it is
  told to stop, all have a timeout.  Nothing is assumed of handlers and reports.
* `DriverTracking`: weak fairness of sending or failing to send, of giving up
  (the request carries a one-second context), and of the analyzer's handler,
  whose Redis commands return because the client has timeouts.  An answer is
  assumed to arrive only where the configuration excludes faults.
  `TrackAnalyzer` and `DriverService` on their own are checked for safety.
* `Manager`: weak fairness of each goroutine, as long as the process has not
  panicked.  Callers need not call `Stop` or `Close`; what is asked is that those
  who called return.
* `RateLimiter`: weak fairness of the monitor, whose ticker goes on for as long as
  the process runs.  That errors cease and Prometheus answers is a premise of
  the property, not an assumption.
* `JaegerSampler`: weak fairness of requests and updates; strong fairness of
  `Stop`, since the poller's select takes a ready case at random and `Close` is
  ready each time the poller comes round.
* `BatchLog`, `AggregateLog`, `MetricAggregation`: weak fairness of the whole
  next-state relation: one of the goroutines can run until the program has
  ended.
* `AsyncProducer`: weak fairness of the four goroutines and of sarama, which is
  taken to settle every message it has accepted.  The user need do nothing but
  read what is returned.
* `ClientStream`: weak fairness of each goroutine's step.  That an RPC ends is a
  premise.

## 5. Proofs

| Theorem | Module | Property |
|---|---|---|
| `TypeCorrect` | every `...Proofs` module but `DriverTrackingProofs`, whose theorems include it | the type invariant, as it stands or strengthened |
| `CompletedFaithful`, `SlowHandler`, `WrongSuccess`; together `AllAnswersTrue` | `TimeoutMiddlewareProofs` | `AnswersTrue` |
| `Settled`, `HandedOver`, `SteadyFound` | `DriverServiceProofs` | `SettledAgree`, `RecordWasHandedOver`, `SteadyFoundNearby` |
| `MissedOverlap`, `RegressOverlap`, `OwnPoint` | `TrackAnalyzerProofs` | `MissedOnlyByOverlap`, the action property `RegressOnlyByOverlap`, and `OwnPointLostOnlyToOverlap` |
| `Kept`, `Searched`; together `Locations` | `LocationManagerProofs` | `LocationsSound` |
| `InRange`, `Admitted`; together `Limits` | `RateLimiterProofs` | `LimitKept` |
| `InOrder`, `Bounded`, `TailLost`; together `Lines` | `BatchLogProofs` | `LinesSafe` |
| `Shown` | `RateLimiterProofs` (with an instance of `Degradation`) | `AlertsSound` |
| `LogKept`, `TracksInOrder` | `DriverTrackingProofs` | `LogSafe`: the refinement of `ReportLog`; and `TracksSound` |
| `LedgerKept` | `ShopProofs` | `KeepsLedger`: the refinement of `OrderLedger` |
| `Books`, `AddsKept`, `ShippedOnce`, `AnswersSuffice` | `ShopProofs` | `BooksSound`, `AloneAddIsKept`, `ShippedTwiceNeedsCause`, `NobodyWaitsInVain` |
| `LossHasCause` | `TimeoutMiddlewareProofs` (`ServiceLifecycle`) | `LossNeedsCause` |
| `TypesKept` | `TrackAnalyzerProofs`, `DriverServiceProofs` | `TypeOK` |
| `Analysis` | `TrackAnalyzerProofs` (`TrackKinematics`) | `AnalysisSound` |
| `Delays` | `TrackAnalyzerProofs` (`FeatureFlags`) | `DelaysSound` |
| `Spared` | `RateLimiterProofs` (`CircuitBreaker`) | `BreakerSound`, an action property among its conjuncts |
| `Reservoir` | `RateLimiterProofs` (`XRaySampler`) | `XRaySound` |
| `Aggregates` | `BatchLogProofs` (`AggregateLog`, `MetricAggregation`) | `AggregatesSound` |
| `Sampled` | `RateLimiterProofs` (`JaegerSampler`) | `JaegerSound` |
| `StreamTold`, `Produced` | `BatchLogProofs` (`ClientStream`, `AsyncProducer`) | `StreamSound`, `ProducerSound` |
| `Decides` | `LocationManagerProofs` (`ConsistentSampler`) | `SamplingSound` |
| `Pages` | `LocationManagerProofs` (`SpanProcessor`) | `PagesSound` |
| `SpanShared` | `LocationManagerProofs` (`RecordingSpan`) | `SpanSound` |
| `Priced` | `ShopProofs` (`Pricing`) | `PricesSound` |
| `TracksFollow` | `DriverTrackingProofs` | `CalmTracks` |
| `ProbesFollow` | `DriverTrackingProofs` (`Manager`) | `ManagerSound` |

With these every invariant the runs check is a theorem, and so are the two action
properties and the refinements.

They hold for all values of the constants under the named assumptions of each
module, which TLC evaluates in every run.  Most say what the code says or takes
for granted: counts, capacities and bounds are natural numbers, a batch, a
channel, a window or a bucket is not empty, error statuses are neither 200 nor
504, an update is no removal, and the words for none and for a panic are no
order, driver, report, span or amount (`StatusAssumption`, `DriverAssumption`,
`TrackAssumption`, `TrackingAssumption`, `ChannelAssumption`, `BatchAssumption`,
`AggregateAssumption`, `NoneAssumption`, `FlagAssumption`, `PagesAssumption`,
`SpanAssumption`, `ManagerAssumption`).  `StrategyAssumption` is the shape of a
strategy that a server of Jaeger sends: of one of the three kinds, with rates and
limits that are natural numbers.  `SamplerAssumption` says that a tracestate is
read as a sequence of fields or not at all, that the p and the r of an entry find
room in it, and that a log-adjusted count fits its byte.  The others exclude
configurations, which nothing in the code checks:

* `RateAssumption`: a minimum of at least 1, and factors on the right sides of 100
  per cent.  `LocationAssumption`: a limit that is not negative.
* `BreakerAssumption`: the relations between the numbers of `main` on which its
  two loops rely: an interval is long enough for the breaker to trip in, a failure
  rate of 100 per cent trips it, the pause is as long as the timeout.
* `PricingAssumption`: a unit has 10^k nanos for a k of 1 to 9 (the code's is 9), and
  prices in the catalogue are nonnegative with their nanos in range.  Rates and the
  precision of doubles are any; a rate may be 0, the dollar's is not.

`XRayAssumption` asks nothing of quotas: they may be 0, and change with every answer.
What calls that overtake each other then win back of credit that was spent is
counted (`wonBack`), and `TakenWithinTime` allows for just that.
`KinematicsAssumption` asks nothing of distances but that they are not negative, or
are NaN; coordinates, distances and times are whole numbers of some part.

None of the properties is inductive as it stands.  The arguments:

* **TimeoutMiddleware.**  `IInv` says for each place of each goroutine what has
  been written so far: before the handler's flag is set nothing of it has
  reached status, wire or body; on the `done` branch the handler is through and
  the middleware has written nothing; the middleware has only written after the
  check.  The steps of one request leave those of the others alone
  (`OtherRequests`).
* **DriverService.**  `SettledAgree` speaks of drivers with no write running.  To
  get there, `IInv` follows the write that runs alone: `AloneIsOnly` (it is the
  only writer of its driver) and `AloneHalfway` (between its two commands the
  first copy already is what it writes).  A second write that begins makes both
  lose `alone` and the driver unsettled.  `SteadyIsSettled` carries agreement to
  the queries.
* **TrackAnalyzer.**  A save that has pushed finds its point in the list
  (`PushedIsStored`), what it has read is a prefix of the list (`SeenIsPrefix`),
  and a point missing from what it has read, or a newer read by another save,
  belongs to a save it has met (`SeenMissesOnlyMet`, `SeenOlderOnlyIfMet`).
  `Write` turns these into the properties of the analysis; `RunningHaveMet` puts
  any two saves that run together into `met`.  For the window, `WindowInv` adds
  that what lies behind a point before its save has read the list comes from
  saves it has met (`LaterHaveMet`, carried over to the analysis by
  `AnalysedHaveMet`), and that a save stores its point at most once per try
  (`PushesBounded`).  `PositionsBounded` counts the positions that push a point
  out by naming each with its save and the number of earlier positions of that
  save: a one-to-one map into the pairs that `OwnPointLostOnlyToOverlap` counts.
* **DriverTracking.**  Three invariants.  `Placed`: a report has a driver since its
  update began, is sent on only after it was handed over, and is at the analyzer,
  under its own driver, only after it was posted.  `Listed`: a list holds reports
  of its own driver, each at most once for every try of LPUSH.  `InOrder`: a
  report that may still be stored has raced with all that were stamped after it
  (`OpenRaced`), since it was open already when they were; LPUSH turns that into
  the order of the list.  Each step is then one of the log or none (`LogStep`):
  `GoSend` accepts a report, LPUSH stores it, and whatever ends its way --
  a failed POST, an answer, a deadline, a crash of either side -- closes it.
* **LocationManager.**  A position is fresh at the last cleanup or newer
  (`Fresh`), and the next cleanup is no more than an interval after it.  For a
  search, `SearchInv` keeps each steady driver of the bucket among those to look
  up or those looked up with its present distance; `CutKeepsNearest` is the
  lemma about sorting and cutting.
* **RateLimiter.**  Only the monitor writes the limit, so that the limit it has
  read is still in force when it sets the next; `FloorBelow` and `CeilAbove` say
  that a lowered limit is no higher and a raised one no lower.  `Windows` splits
  what a minute has admitted into earlier visits and the count of the present
  one.
* **BatchLog.**  The messages sent are, one after the other, those written, those
  in the builder and those in the channel (`Queued`); output grows by whole
  batches (`Batched`); `Remainder` turns that into the rest that is lost.
* **DriverTracking without faults.**  `History` ties the index to the stamps: an
  update that runs alone leaves its own location in the index and is stamped after
  all handed over before it (`AloneLeads`); a driver is settled only by such an
  update, so that a settled driver's index is the last of its reports
  (`SettledLatest`).  Without faults a report that has been dealt with is in the
  list (`ArrivedIsStored`); since it is stamped last and raced with no other,
  `DisorderNeedsRace` puts it at the end.
* **Manager.**  `Callers` says where those who call are: who stops is stopping, who
  runs has been counted.  `Quiet`: goroutines of probes are left only while the
  manager runs, and nothing is attached once it has stopped or while a `Stop`
  waits.  `Follows`: while nothing has failed and nothing overwrote the
  configuration, the probes are those of the current one -- or, between the two
  steps of its loop, of the one the last run is about to set -- and who reads has a
  reader.  Each step is cut into what it makes of one probe (`LoadedIs`,
  `ClosedIs`, `TurnIs`) and of all (`LoadIs`, `ChangeIs`).
* **ServiceLifecycle.**  While `main` still serves, nothing is closed, failed or
  lost (`NothingLostYet`); past the select the server has failed or is closed, and
  it is closed only after the 30 seconds or when net/http counts no request
  (`ServerStopped`); a handler that runs has a request that waits for it or has had
  its 504 (`HandlerHasRequest`).
* **TrackKinematics.**  Invariants of the loop: the bound on the average holds at
  every point passed, not only at the last (`AverageSoFar`).  A quotient is within one
  part of the product it comes from, and on the same side of a whole number of parts
  (`RoundedKeepsSide`); a ratio of what is flagged is below 1, so that each coordinate moved at it
  stays between the two.
* **LocationManager's neighbours.**  `SpanProcessor`: the samples of a bucket
  ended a `SamplePeriod` or more before its next one is due and apart from each
  other (`BucketFine`), and what the page has yet to find is active (`PageFinds`).
  `RecordingSpan`: `Accounted` carries, through the loop over the attributes, what
  is in the list, what is dropped and which keys were there; `KeptNewest` says
  which events and links are left; `Ender` that only one call finds the span
  recording and exports it.
* **FeatureFlags, CircuitBreaker, XRaySampler.**  A call has seen a start and an end
  that were in force during it, and two different ranges only after two changes; a
  call inside the source has a range of positive length, and the process has not
  panicked unless two calls have overlapped there.
  A closed breaker's counts fit in the interval and did not trip it at its last
  failure, and of a streak older than the interval every call in it has failed
  (`ClosedInv`), which bounds the streaks it lets through.  What a reservoir has
  given and has left, less what was won back, stays within the credit for the time
  that has passed (`CreditKept`), every match is in the statistics, in the report or reported
  (`MatchesKept`), and no call knows the copy the poller works on
  (`ReservoirsFine`).
* **JaegerSampler.**  `Forced`: what is in force is what the last strategy says,
  with a limiter for each operation it names and for those requests have added
  (`Follows`), which are no more than may be.  `Credits`: of each limiter, twice
  what it has given at the ceiling of its rate, and its balance at the highest rate,
  are paid for by the time since it was made and the one full balance it began with;
  an update keeps the balance and the moment, so that it pays nothing in (`Fits`,
  `Earned`).  `Finding`: a request between its look and its lock has an operation
  that was unknown then, and may no longer be.
* **AsyncProducer.**  A message with the user is as it was given; an entry of the map
  stands for one message on its way, unless spans are not recorded and all messages
  have one key; a span is ended by whoever takes the entry out.
* **ClientStream.**  What the two callers are about to tell, and what the watcher has
  told, is an end that the RPC had; the receiver has all messages before it meets the
  end, so that one is lost only to another's end.
* **ConsistentSampler.**  `SamplerInv`: every decision was by the r that the entry
  carries, which is the one the trace came with if that was valid; so decisions nest.
  What `Serialize` writes is read by `Parse` as it was meant (`WrittenIs`): p and r
  come first, find room, and the fields of others have other keys (`OthersAre`).
  Fractions are arithmetic, not induction: of the 2^63 draws just 2^(63 - p) have p
  leading zeros (`SampledOften`), a split of n has counts a factor 2 apart
  (`SplitIs`), and the two shares add up to n (`SharesAddUp`) and their weights to
  all draws (`CountsAddUp`).
* **AggregateLog, MetricAggregation.**  The channel holds the last messages sent, and
  those before it are in the counts or reported; a list is missing from the map
  only if its insertion met another access (`touched`).
* **Pricing.**  Amounts are good, or of the kind that is refused (`Good`,
  `Refused`): a sum that is made has the value of both amounts, by induction over
  the quantity a product has the value of all its amounts, and a total is good as
  long as no small amounts were added to each other.  A converted amount is near the
  one in the catalogue at the rate (`ConvertOfGood`), and near amounts add up to near
  ones (`NearAddsUp`), the nano that each may lose being counted.
* **Degradation.**  As long as no opposite handlers have overlapped, every handler
  about to set the gauge was sent what the flag says; when none is, gauge and
  flag agree.
* **Shop.**  Four invariants.  `LInv`: whatever a later part of the system holds
  (a place in `PlaceOrder` after shipping, a message, the order being processed,
  an order in the context) is an order that was shipped; each step is then one of
  the ledger or none (`LedgerStep`).  `BInv`: what was consumed is saved, pending
  or being processed, and the context knows all of the database until the first
  kill or lost answer.  `CInv`: a call that is alone on the cart is the only one
  between its two accesses (`Undisturbed`), what it will write back contains
  everything acknowledged (`Kept`), nobody holds an item before it was written
  (`Written`) or after an undisturbed order emptied it out (`Apart`).  `WInv`:
  messages are with the producer only once handed over, so that each hand-over
  adds one to those who wait and one to what is under way.

Where a property needs induction over data, the theorem cites no induction rule of
the library, whose rules take an operator: `LeastOne`, `FromZero` and `UpTo`
derive from `WFMin` and `NatLessThanWellFounded` that a set of numbers that holds
the first (0 or 1) and with each number the next one holds all, and the set is
then named in the proof; others are by the least counterexample itself.  Of powers
of two the provers know nothing: that 2^n is a number, that it doubles with each
step of n, and so what the powers of a sum are, comes from the library's theorem
`FS_SUBSET`, by which a set of n elements has 2^n subsets.

Model-checked only, all liveness properties, since the prover handles neither
fairness nor `ENABLED`: `EveryWaitEnds`, `EverythingEnds`,
`FollowsErrors`, `JaegerCloses`, `EveryProgramEnds`;
and, of runs with a violation, the three sentences that the code does not keep.

## 6. What the models leave out

* Coordinates, except in `TrackKinematics`, JSON, log lines, histograms, and most
  spans.  A location is the request that reports it, or one of a few places.
* An analysis with a NaN.  JSON has none, so that `SavePoint` fails to store it;
  `TrackAnalyzer` takes every analysis for one that can be stored.
* All queries of `DriverService`, and all searches of `LocationManager`, are about
  one circle or point; requests about different ones share no more state.
* A driver whose id is the word `locations`: its record would have the key of
  the index.  A body of `AddPoint` whose driver is not the driver of the URL: the
  driver service, its only client, takes both from one variable.
* `GetRecentPoints` and `GetAllLocations`, which change nothing.
* The list of a driver is never trimmed in the code; the models bound the number
  of reports.
* What happens inside the `*rand.Rand` that handlers share without a lock
  (`track_handler.go:135`).  `FeatureFlags` has what can come of it: after two
  overlapping draws, any draw may panic.
* The loggers' errors of writing to standard output, which the code ignores.
* `ClientStream`: a message that cannot be marshalled, once the server has ended the
  RPC.  `JaegerSampler`: a fetch whose body never ends (`sampler_remote.go`, lines
  273-296); each fetch is taken to return, with an answer or an error.
* Redis, Valkey and Postgres do not lose data, and a Kafka topic keeps its order.
* `TimeoutMiddleware`: a handler that panics.  It runs in a goroutine that
  `timeout.go:28` starts inside chi's `Recoverer`, which does not reach it: the
  process ends.
* `XRaySampler`: several rules.  A call is of the first rule it matches; rules
  share nothing but the poll.
* `RecordingSpan`: times, the status, the truncation of long values, and the
  attributes of events and links, which `Capped` cuts like those of `Start`.  The
  limits of attributes, events and links are one number, since the lists do not meet.
* `ConsistentSampler`: other vendors' entries of the tracestate; the text of the
  entry, whose fields have size one.
* `Shop`: several users and several checkout processes.  Carts share nothing,
  and each process has a producer of its own.

## 7. Not modelled

* *Nothing several steps long*: `log_sampling_example` (a counter under a mutex,
  one goroutine), `dynamic_logging` (an atomic level), the demos of lessons 01,
  03, 04 and 12 and the homework (handlers without state of their own).
* *Only configuration of libraries outside the repository*: lesson_06 sets up the
  OpenTelemetry log SDK.
* *The rest of lesson_07*: the other instrumentations of `opentelemetry-go-contrib`
  wrap one call each; detectors, propagators, exporters and bridges keep no
  state between calls; the eBPF programs and their loader run in the kernel.
* *The rest of lesson_11*: stateless services in a dozen languages, front ends,
  load generators.  What an order needs of them is a call that succeeds, fails,
  or loses its answer, and that is in `Checkout`.
* *Generated code*, most of the lines of lesson_07 and lesson_11.
* *Earlier stages*: `lesson_05/project`, `lesson_07/project` and
  `lesson_08/project` are older versions of `lesson_09/project`.
* *Configuration*: dashboards, scrape settings, compose files.

### Behaviour of the code worth knowing

No run is about these; the models contain them, and the properties are stated so
as to allow for them.

* *Taxi system.*  An analysis of points out of order has negative speeds, and
  misses jumps.  A jump across the 180th meridian is estimated on the other side of the
  Earth, since longitudes are interpolated.  `SavePoint` and `AddPoint` both add one to
  `processed_gps_points_total` for the same point.  A service whose listener fails returns without `Shutdown`;
  spans of reports and of handlers that outlive their request are lost at any
  shutdown.
* *lesson_02.*  `driver_location.go:123` has `FindNearestDrivers` look for the
  drivers nearest to a point; it looks into one bucket (line 132), and a driver
  across the bucket's edge may be nearer.  `metrics.go:43` calls
  `taxi_driver_current_drivers` the current number of drivers; cleanup alone sets
  it (`driver_location.go:119`), so that it says 0 until the first cleanup.
* *Circuit breaker.*  The comments of `main.go`, lines 28-29, take `Interval` and
  `Timeout` for something else than gobreaker does: the counts are cleared every
  `Interval` while closed, and `Timeout` is how long the breaker stays open.
* *Rate limiter.*  With `MIN_RATE_LIMIT=0` the limit may reach 0, and stays there.
* *Manager.*  `applyConfig` joins errors and returns nil (`manager.go:226`), so
  that a failed load is never tried again, and what it had half loaded is not
  released.  A second `Run`, though refused, shuts the handler down on its way
  out.  A second load of a probe with another configuration leaves what was attached
  before.  A configuration loop of an earlier run may overwrite the current
  configuration.
* *Samplers.*  X-Ray: statistics taken for a report are lost if the call fails;
  what a reservoir gave during the call is undone by the copy; with a quota of 0, or
  one that was lowered, calls that overtake each other win back credit that was spent
  already; a new poll interval has no effect.  Jaeger: operations listed by the strategy may exceed
  `MaxOperations`; an updated probabilistic sampler refuses a rate out of range
  that a new one would clamp; operations not listed start with fresh credit after
  an update.
* *Auto SDK.*  `Start` cuts its attributes before it drops those without a
  value, and counts only what it cut; `SetAttributes` counts both.  A key given
  twice to `Start` stays twice.  A change that meets `End` comes after the export.
* *Consistent samplers.*  A fraction of 0 is sampled if all 63 random bits are zero; no tracestate can
  carry that number, and the next sampler draws another.  A p without an r passes
  the parent sampler even where the parent was not sampled.
* *Kafka producer.*  With `Return.Successes` off, an error is returned with the
  metadata replaced.  Without a tracer provider all spans have one ID, and messages
  share a key.  After `Close`, spans of a user who stops reading stay open, and
  `Close` may wait for ever.
* *Client stream.*  `io.EOF` of `SendMsg` is recorded as an error of unknown kind
  even where the RPC succeeded; the one answer of a client-streaming RPC has no
  event.
* *Shop.*  `EmptyCart` failing is ignored, a shipping call whose answer is lost
  ends the order: the cart is shipped again by the next.  An order that fails past
  `chargeCard` stays charged.  A copy made by the feature flag reads `Successes` only,
  and waits for ever where only an error is left.  The accounting service
  keeps what it could not save in its one context: after a redelivered order every
  later save fails.  Commits follow consumption, so that a kill loses orders.
  `money.Sum` of two amounts below a unit may return an amount that the next `Sum`
  refuses, upon which `Must` panics, and ends the service; the currency service
  drops the leading zeros of a fraction, so that 57.08 becomes 57.80; a conversion
  from a currency into itself may lose a nano; `MultiplySlow(m, 0)` is `m`.

## 8. Plan

Done: the taxi system with its composition, abstract specification and shutdown;
the programs of lessons 02, 08 and 10; of lesson_07 the manager, the span of the
auto SDK, the samplers, the producer, the stream and the span processor; of
lesson_11 the way of an order; proofs of every invariant the runs check, and of the
refinements.

Left: an order of several users, that is the checkout service with more than one
cart; and a second rule of X-Ray, whose calls meet only in the poll.
