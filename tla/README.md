# A TLA+ model of panopticon

Panopticon collects logs and spans from services over HTTP, moves them through
Kafka into Elasticsearch, rolls spans up by the minute, and answers queries
about them. This directory holds TLA+ specifications of its core, TLC
configurations that check them on small instances, and TLAPS proofs of what
matters most for every value of their constants. `PROJECT.json` lists the runs,
the lines each definition stands for, the hazards and the theorems.

Paths below are relative to the repository; `backend/...` is
`src/backend/src/...` and `producerServer/...` is `src/producerServer/src/...`.

## 1. The system

    services --HTTP--> producerServer --Kafka apm.logs, apm.spans--> stream-processor
                                                                        |      |
                                    Kafka apm.logs.error <--forwarder---+      | _bulk
                                          |                                    v
             browsers <--WebSocket-- error-stream                       Elasticsearch
                                                                        ^      ^    ^
                                                          aggregator ---+      |    |
                                             (reads spans, writes metrics-apm) |    |
             browsers <--HTTP------------ query-api (with Redis) --------------+    |
                                                       storage bootstrap -----------+

| Component | State | Operations | Hard behaviour |
| --- | --- | --- | --- |
| **Bulk indexer** `backend/stream-processor/common/bulk-indexer.service.ts` | buffer, byte counter, flush timer, count of flushes in flight, pending flag | `enqueue`, timer, `finally` of a flush, `onModuleDestroy` | several callbacks change the same fields; limit of parallel flushes; requests that fail or half succeed; shutdown with work in flight |
| **Aggregator** `backend/aggregator/` | `running` flag, timer; in Elasticsearch the checkpoint document and the `metrics-apm` stream | a cycle: plan, aggregate, bulk create, save checkpoint, window by window | crash or lost answer between the two writes; ticks during a cycle; two instances in a rolling deployment; rollover of the stream; late spans |
| **Service metrics query** `backend/query-api/service-metrics/` | two key spaces in Redis (answers, older parts) | `GET /services/{name}/metrics` | two sources read at different times; a split that falls inside a bucket; cached parts; limited result size |
| **Log and span consumers** `backend/stream-processor/{log,span}-consumer/` | Kafka offsets, the forwarder's producer, throughput counters | handler: parse, validate, ingest, forward errors | offsets are committed while documents are only buffered; redelivery after a crash; a member that lost its partition; failing forwarder; a message that always fails |
| **Error stream** `backend/error-stream/` | connected sockets; in Kafka the group's offsets | parse an error log, push it to the browsers; connect, disconnect | one consumer group, so each log reaches the browsers of one instance only; a group that begins at the end of a partition; a member that lost its partition; browsers that come and go |
| **Storage bootstrap** `backend/shared/logs/log-storage.service.ts`, `backend/aggregator/rollup-checkpoint.service.ts` | policies, templates, data streams, the checkpoint index | check, then create, at the start of every service | services, and two applications of one process, starting at once; one refusal ends a process; a checkpoint saved before its index is created |
| **Producer server** `producerServer/kafka/` | connection flag; POSTs under way | accept, filter, send | several batches for one POST; retries without idempotence; a crash before the answer |
| **Span transformer** `producerServer/utils/span-transformer.ts` | none | OTLP to event | conversions between three spellings of the same thing; one bad span in a POST |
| Throughput tracker `backend/stream-processor/common/throughput-tracker.ts` | counters, timer | count, report | - |
| **Stateless searches** `backend/query-api/{logs,traces,spans,services}`, `backend/shared/apm/{spans,logs}` | none beyond a request | trace, pages of spans, logs and root spans, overview, endpoints and their traces | two searches of one request at different moments; pages cut while documents arrive; limits before filters; ties in a sort key |

What makes each of them correct:

- *Bulk indexer*: every accepted document is sent exactly once and settled in
  the end; none is stranded in the buffer; no more than the configured requests
  are in flight; batches outgrow their limit only under back pressure.
- *Aggregator*: the checkpoint is a promise that every closed bucket below it
  is in `metrics-apm`, whatever failed; it moves over one bucket at a time; no
  bucket is done twice unless a lost write of it came late; the worker catches up.
- *Metrics query*: an answer counts no span from a document and from the raw spans
  too, and none from two documents unless a retry stored its bucket again after a
  rollover; it counts only spans that were asked for, and all it can be expected to
  know, from whichever cache it comes.
- *Consumers*: what a committed offset covers was handled to the end (its
  document enqueued, its error log forwarded or tried); a message is handled again
  only after a crash or a rebalance, never because something failed inside a
  handler; every message is consumed.
- *Error stream*: no committed log was left out; logs come in order for the first
  time; a browser of the only instance sees each of them.
- *Storage bootstrap*: a service that is up has every resource it needs; a lost
  race costs one start; services that start together end up all running.
- *Producer, transformer and consumers together*: what a POST reported and was
  answered for is stored in the end as it was reported, unless the document was
  given up; nothing else is stored; copies come from faults only.
- *Searches*: a trace is complete or truly unknown; a walk through pages skips
  nothing that was there; a limit leaves out only the less busy; SLOW means slow.

## 2. Modules

`DocumentSink` - what a caller of the bulk indexer may rely on: each document
is settled once, as stored or given up, and in the end. It knows no buffer, no
timer and no request.

`BulkIndexer` - `BulkIndexerService`. One action is one callback, since Node
runs callbacks to their end. The variables are the private fields, plus the
batches whose `executeFlush` has not settled and a history of what was accepted,
stored and given up. `TriggerFlush`, `DrainBuffer`, `ShouldFlushBySize` and
`EnsureFlushTimer` are the methods of these names, with the values of the fields
at the call as parameters, because callers change fields before they call.
Elasticsearch may store any part of a batch: `response.errors`, a rejected
request and a request that was carried out without an answer all take the same
way through the code. It refines `DocumentSink` (`ImplementsSink`).

`Aggregator` - the worker, with `Instances` of it. Time is counted in buckets,
which is exact, as the planner only uses multiples of the bucket length. A cycle
is a record with the await it stands at (`plan`, `aggregate`, `store`, `save`),
and a step goes from one await to the next, so spans, the clock, rollovers,
crashes and the other instance come between. `onTime` and `late` count the spans
of a bucket indexed before and after it closed; `rollup` holds the documents of
the stream with the backing index they are in, because `create` finds a
duplicate only in the write index. A write without an answer, because it failed or
its process died, goes to `inFlight` and may be carried out at any later time, a
bulk request in part, or never (`LateWrite`). A key is a service in an environment;
`TopKeys` cuts both terms aggregations, the outer one of the services and the one of
the environments nested in it. `first` (where the last cycle began that found no
checkpoint), `rolledUpTo` (the highest checkpoint), `outOfTurn` (a late write of the
checkpoint took it back or ahead) and `faults` are history.

`MetricsQuery` - one service's metrics endpoint, its two caches, and around it
time, spans that become searchable, rollovers, and the aggregator as far as it
decides what documents there can be: `Plan`, `Aggregate`, `BulkCreate` and
`SaveCheckpoint` are the awaits of a cycle as in `Aggregator`, `CycleFails` ends it at
any of them, and `LateWrite` carries its write out later. There is one process of it,
it always finds a checkpoint, and the sizes of its terms aggregations suffice; what it
writes is searchable at once. An answer is kept as the spans it counts. A request goes through `lookup`, `rollupLookup`,
`rollupSearch`, `rollupStore`, `raw`, `store` and `answered`, the awaits of
`getMetrics` and `fetchRollupBuckets`. A failure of Redis is a miss, or a store
without effect; a failed search ends the request. `SearchResults` is the sorted,
limited search: with equal buckets any choice of documents is possible.

`LogPipeline` - the processes of the stream processor between Kafka and the
indexer. A handler is `Skip`, `Handle` or `HandleError` up to its first await,
and for an error log `ForwardAnswers` or `ForwardFails` after it. The indexer
is an instance of `DocumentSink`: `Ingest` is `Sink!Accept` and `Settle` is
`Sink!Settle`, so what is shown here rests only on what `BulkIndexer` is shown
to implement. The consumer group is external: `owner` is what the group says,
`position` where each process stands, and they differ between `Evict` and
`Release`, while a member goes on with a partition it has lost. Only the owner
may `Commit`. Logs and spans differ in the kinds of their messages. `End` is a
crash or SIGTERM, which are alike because `main.ts` enables no shutdown hooks.

`StorageBootstrap` - `LogStorageService.onModuleInit` and `ensureIndex` of the
checkpoint service, in every application. The requests they make are a plan of
numbered steps (`Resource`): policy, template and stream of each data stream,
then for the aggregator the checkpoint index. An application is `down`, has to
look for the resource of its step (`check`), has found it missing and asked for
its creation (`create`), or is `ready`. The puts of an ILM policy or a template
overwrite; the creation of an ISM policy, a stream or an index that exists is
refused (`Refused`), and the error leaves `bootstrap()` and ends the process with
every application in it (`Ends`), whose requests under way may still be carried
out. `useIsm` is chosen in `Init`. `CheckpointSaved` is the aggregator's first
cycle, which starts in the same round of hooks as `ensureIndex`: indexing into a
missing index creates it.

`SpanTransform` - the conversions of `SpanTransformer` as operators of the same
names, on the request as `toJSON()` of protobufjs gives it: enums by name, fields
that are not set left out. `TransformThrows` is where `nanoToISO` throws.

`Producer` - the producer server and the log of each partition of `apm.logs` and
`apm.spans`. What a body sends, under which key and to which partitions is a
constant function of the body (`Messages`, `PartitionOf`, `NumbersFor`). `Key` is the
event's own trace, or, for a span without one, the `traceId` next to it. `Post` is
a handler up to its `await producer.send`, `Accept` and `GiveUp` what comes after
it. Between them kafkajs sends a batch for each partition, and an attempt is
acknowledged (`Acknowledge`), or ends with any part of the batches carried out
(`Retry`, `GiveUp`). `Crash` cuts the POSTs under way off from their answer, with
at most one batch for each partition still to be carried out, as
`maxInFlightRequests` is 1.

`Delivery` - a report from its POST to Elasticsearch and `apm.logs.error`. It
extends `Producer` with the stream processor as `LogPipeline` shows it: messages
in the order of their partition, at least once, a document stored or lost. `Valid`
is what the DTOs take. `Abstract` maps it to `Telemetry`: the reports are read
from the POST itself (`ReportedSpans`), not from what the transformer made of it,
so a conversion that goes wrong, or a DTO that refuses what it should take, is a
step that `Telemetry` does not have, or a promise not kept.

`Telemetry` - what the services that report may rely on: what was answered with
202 is kept or given up in the end, and nothing is kept that nobody reported.

`ErrorStream` - the instances of the error stream, one consumer group and the
browsers. `owner` and `position` differ as in `LogPipeline`. `Begin` is where a
member starts: at the committed offset, or at the end, because the consumer does
not set `fromBeginning`; what the group began behind is kept in `skipped`.
`HandleErrorLog` is one action, as the handler is synchronous down to
`server.emit`. It stands alone: its input is a topic that grows (`Publish`).

`Searches` - one request to one of the seven stateless endpoints, search by
search, while documents arrive (`IndexDocument`) and time passes. A repository
method is an operator of its name that returns the *set* of answers
Elasticsearch may give, since hits with the same sort key come in any order and a
terms aggregation may choose among groups of the same size. `NextPage` is a
client that goes on to the next page.

`BulkIndexerProofs`, `AggregatorProofs`, `MetricsQueryProofs`, `LogPipelineProofs`,
`StorageBootstrapProofs`, `DeliveryProofs`, `ErrorStreamProofs`, `SearchesProofs` -
theorems; `MCBulkIndexer`, `MCAggregator`, `MCMetricsQuery`, `MCLogPipeline`,
`MCStorageBootstrap`, `MCDelivery`, `MCErrorStream`, `MCSearches` - instances for TLC.

A definition whose name begins with `Faulty` is the definition below it with a
plausible mistake. No specification uses it; replacing the right one by it must
make TLC find the property that is about it violated.

## 3. Runs

| Run | Instance | Shows |
| --- | --- | --- |
| `MCBulkIndexer.cfg` | 3 light documents, 2 heavy ones; batches of 2 documents or 3 bytes; 2 slots; `FairSpec` | all safety properties, the refinement of `DocumentSink` with its liveness, and that a drain ends |
| `MCAggregator.cfg` | 1 instance, 2 environments of which the terms aggregation returns 1, 3 buckets, 2 spans, 1 rollover, 2 faults | `RollupCoversOnTimeSpans`, `CheckpointAdvancesByOne`, `NeverReaggregates` |
| `MCAggregatorOverlap.cfg` | 2 instances, 1 key, 1 span, lookback 1, 2 buckets, 1 fault; `FairSpec` | `RollupCoversOnTimeSpans` also when two instances share the checkpoint, and `CatchesUp` |
| `MCMetricsQuery.cfg` | 2 clients, 2 environments, buckets of 3 ticks, quanta of 2, windows of 6 with a threshold of 1, an explicit window whose older part has a full bucket and one whose older part has none; a late span, 1 rollover, 1 fault of the aggregator | `CountsOnce`, `CountsOnlyAsked`, `CountsWhatItMust` |
| `MCMetricsQueryTruncation.cfg` | 3 environments, a query for all of them | **violated** `CountsWhatItMust` |
| `MCLogPipeline.cfg` | 2 processes, a partition with an error log and another event, one with a message that is refused, 1 fault; `FairSpec` | `CommittedIsAccountedFor`, `DocumentsConserved`, `HandledOncePerAssignment`, `ConsumesEverything` |
| `MCDelivery.cfg` | 1 POST with a body of logs, spans, JSON spans (one with nothing but a `traceId` to key it) or a broken span; 2 partitions of each topic, 1 retry, 2 faults of the producer, 1 of the consumers; `FairSpec` | `ImplementsTelemetry` with its liveness, `CopiesWithinFaults` |
| `MCDeliveryStatus.cfg` | the same, without fairness | **violated** `ErrorSpansStoredAsErrors` |
| `MCErrorStream.cfg` | 2 instances, 1 browser, 1 partition with 3 logs, 2 ends; `FairSpec` | `CommittedWasPushed`, `FirstPushInOrder`, `OnlyProcessShowsAll` |
| `MCSearches.cfg` | 4 spans of 2 traces and 2 services, 3 logs; the searches of a trace return 1 span and 2 logs at most; 11 queries, at least one for each endpoint, with limits and pages of 1 or 2 | `TraceAnswerTrue`, `PagesSkipNothing`, `LeavesOutOnlyLessBusy` |
| `MCSearchesSlow.cfg` | the same | **violated** `SlowTracesAreSlow` |
| `MCStorageBootstrap.cfg` | the stream processor with 2 applications and the aggregator, ILM or ISM, 1 data stream, 2 faults; `FairSpec` | `PlanPassedExists`, `RefusedOnce`, `AllComeUp` |

Why the bounds are enough. *Bulk indexer*: five documents fill both slots, fill
the buffer behind them, raise the pending flag and leave documents for another
round after it; light and heavy documents meet either limit. *Aggregator*: three
buckets allow a first cycle with a lookback, a cycle over several windows, and
one more after a failure; two faults allow a failed retry, or a crash after one;
an environment that the terms aggregation leaves out needs two. With two instances
the number of spans does not matter, since what may go wrong is which bucket is
written when; two buckets let one instance fall behind the other by a bucket, begin
without a checkpoint apart from it by more than the lookback, and overwrite its
checkpoint, by itself or late. `MCAggregatorProgress.cfg`, which is not among the
listed runs, checks `CatchesUp` of one instance with three buckets and two faults.
*Metrics query*: a quantum that does not divide a bucket puts the splits of the two
windows that slide past in its middle and at its end; two requests are enough for one
to be answered from what the other stored; the bucket that both look for is rolled up
meanwhile, with or without a span that comes late, fails once, and is stored again in
another index or in the same. The proofs are for any number of faults, requests and
spans. *Log pipeline*: two processes and one eviction are enough for a member
that has lost its partition to go on beside the new owner; an error log followed
by an event has one document in flight while the next is handled; one fault is a
crash, an eviction, a connection or a send that failed, and the proofs do without
that bound. *Storage bootstrap*: one data stream has a step of every kind, and
the next ones repeat it in the same order; two applications in one process and
one in another race inside a process and across; two faults are a crash of each
process or two of one, besides any number of refusals. The proofs are for any
number of streams. *Delivery*: the bodies have every kind of event that the code
tells apart (kept, filtered by the transformer, left out by `sendLogs`, refused by
a DTO, forwarded) and messages for two partitions, so that one batch can be
stored without the other; two faults are a failed retry, or a crash after one.
POSTs share nothing but the order of their batches in a partition, on which no
property depends, so one is enough. *Error stream*: three logs and two ends let a
group begin behind the first log, commit or not, and begin again in another
process; browsers do not influence each other. *Searches*: requests share no
state, so one is enough; each limit, size and page is smaller than what it cuts,
two spans have the same duration and others the same time, so ties happen, and a
walk of pages of one has up to four pages with arrivals in between.

`CHECK_DEADLOCK FALSE` is set where the system may stop: when all documents of
the bulk indexer are settled and the module is destroyed, when the clock and
the requests of the query model are used up, when all messages are consumed, when every
application is up, when the POSTs are answered and handled, and when a request of
`Searches` is answered.

### Fairness

- `BulkIndexer`: timers fire (`TimerFires`, `DrainTurn`), the end of the drain
  loop is noticed (`DrainEnds`), and every request settles, because the
  Elasticsearch client gives each a timeout (`SettlesFor`). Nothing is assumed of
  the callers: consumers may stop, and the module need never be destroyed.
- `Aggregator`: every request is answered or fails, the interval keeps firing,
  and the scheduler (ECS, a container restart policy) starts a process that is
  down and ends one that is stopping. Faults are finite in number, so a cycle is
  left alone in the end; neither the clock, nor spans, nor rollovers, nor writes whose
  answer was lost are fair.
- `LogPipeline`: the scheduler restarts a process, the group assigns a partition
  nobody has, a member notices that it lost one (`Release`), reads on
  (`HandlerStep`) and commits, and the documents of each message are settled
  (`SettlesSomeOf`, as `DocumentSink` promises). Faults are finite in number.
- `StorageBootstrap`: the scheduler starts a process that is down (`Start`) and
  every request is answered (`AppStep`). Faults are finite in number; refusals are
  not bounded, as it is part of `AllComeUp` that they come to an end.
- `Delivery`: the scheduler restarts the producer server (`Start`), kafkajs settles
  a POST, as each attempt is answered or times out (`Settles`), and the stream
  processor reads on (`Handle`, by the fairness of `LogPipeline`). Faults are
  finite in number.
- `ErrorStream`: the scheduler keeps one process running (`FirstStart`), the group
  assigns a partition nobody has, a member notices that it lost one (`Release`)
  and reads on (`HandleErrorLog`). Nothing is assumed of browsers, of commits, or
  of a second process.
- `MetricsQuery` and `Searches` state no liveness and no fairness.

### What the violations show

1. `size` of the search for roll-up documents counts buckets, but there is one
   document for each bucket *and environment*. Without an environment in the query
   the newest documents are cut off silently (`MCMetricsQueryTruncation.cfg`).
2. `parseStatus` looks for the number 2, but the decoder writes the status code by
   its name, as `parseSpanKind` next to it expects of the kind. A span that failed
   is stored as `OK` (`MCDeliveryStatus.cfg`), and so is missing from every error
   rate. With a comparison of the name the property holds.
3. `resolveSlowThreshold` reads the percentile under `"95"`, Elasticsearch keys it
   `"95.0"`, as the other methods of the class know. The threshold is always null,
   and `status=SLOW` filters nothing (`MCSearchesSlow.cfg`). With the other key the
   property holds.

What the decoder and Elasticsearch return is the behaviour of libraries: `toJSON`
of protobufjs, and the keys of a percentiles aggregation.

Four more disagreements with a text of the repository can be reproduced with the
configurations below. They are not among the listed runs; each is found by TLC in
a few seconds.

- `MCBulkIndexerDestroy.cfg`, `DestroyWaitsForFlushes`: `onModuleDestroy` looks at
  the buffer only. When the last flush has emptied it, the module is destroyed with
  the request in flight; the comment on `flushRemaining` promises to wait for it.
- `MCAggregatorRework.cfg`, `NeverReaggregates`: `saveCheckpoint` overwrites without
  comparing. In a rolling deployment the old process can take the checkpoint back,
  and closed minutes are done again; the aggregator's README says they are not. What
  the checkpoint covers stays true (`MCAggregatorOverlap.cfg`).
- `MCAggregatorRollover.cfg`, `OneDocumentPerBucket`: `create` with an `_id` is
  unique in one backing index only. A retry after a rollover stores a second
  document, and a query counts both. `CountsOnce` says that nothing else does.
- `MCMetricsQuerySeam.cfg`, `MissesAtMostOneBucket`: a window off the minute loses
  the bucket it begins in, and the part of a bucket before the split: up to two
  buckets, where the README promises an error of one minute at most.

A fifth, `MCLogPipelineNull.cfg` with `ConsumesEverything`, needs a message that the
producer server cannot write: the span controller does not check that the parsed
body is an object, as the log controller does. For `null`, `validateSync` throws a
`TypeError`, kafkajs delivers the message again, and the partition stands still.

### Observations without a property

Met while modelling; no text of the repository promises otherwise, or only a name
does.

- `sendLogs` (`producerServer/kafka/kafka.service.ts:159`) keys logs by their trace
  where its comment says the name of the service.
- A log without `service_name`, and a span of a kind other than SERVER, CLIENT and
  INTERNAL, is answered with 202 and left out, the one by the producer server, the
  other by the consumer's DTO. Such spans are no reports in `ReportedSpans`.
- One span without a start time fails the whole POST with 500.
- Copies multiply: each attempt of the producer that was carried out, times each
  redelivery (`CopiesWithinFaults` is the bound).
- `normalizeEnvironmentFilter` is applied to queries for spans, not to queries for
  logs and not when a document is stored, so a trace asked for with `prod` finds
  neither spans stored as `prod` nor logs stored as `production`.
- The overview counts spans of every kind as requests, and applies its limit to the
  services before the name filter and before `sort_by`; so do the endpoints.
- A walk through pages of a window that was not given moves with the clock, and may
  skip and repeat; `PagesSkipNothing` is about windows that were.
- A page beyond the first 10,000 hits (the DTOs take any page, sizes up to 1000 or 10,000)
  is refused by Elasticsearch and fails the request; in `Searches` this is `Fail`.
- Groups of a terms aggregation are counted exactly in the models; Elasticsearch
  approximates over several shards.
- The browsers of one instance of the error stream miss what another one reads,
  though `emitErrorLog` is said to push to all subscribers.

## 4. Proofs

`BulkIndexerProofs`, for every set of documents, sizes and limits: `TypeCorrect`,
`NeverStranded`, `FullBufferWaits`, `AtMostMaxParallelFlushes`,
`DocumentsConserved`, `OversizedAfterStall`, and `ImplementsSinkSafety`, which
maps each step to one of `DocumentSink` or a stutter. Five actions call
`TriggerFlush` with fields their callers have changed, so the invariant `IInv` is
a conjunction of parts stated of *arguments*; one lemma for each part says what
`TriggerFlush` makes of it, and an action only shows that its call starts from
arguments for which it holds. `IInv` adds to the properties that an empty buffer
has no pending flag, without which a pending flag could be left without a flush that
resets it. That `bufferedBytes` is the sum of the sizes in the buffer is part of
`FullBufferWaitsForSlot`; an append adds its size to the sum (`BytesOfAppend`), by
induction over the length of the list (`SetInduction`, `SumsExist`, `SumsAgree`). The assumptions are
`LimitsAssumption` (the clamps of the constructor) and `SizeAssumption`.

`AggregatorProofs`, for every set of services and environments, lookback, limits and
bounds: `TypeCorrect`, `CheckpointKeepsPromise` and `DocumentsTrue` (no document counts
spans that do not exist, only closed buckets have documents) for any number of
instances, and, with one instance (`OneInstance`), `OneBucketAtATime` and `NoRework`.
`CheckpointKeepsPromise` is the most important one. That everything below the
checkpoint is covered is not inductive. It needs that what a cycle has read, or a lost
bulk request holds, is true of a *closed* bucket whose on-time spans can no longer
change (`DocsTrue`), that a cycle saves only what is stored (`SavedAfterStored`), that
documents stay true as late spans arrive (`RollupTrue`), and that everything is covered
below each checkpoint that a cycle or a lost write may still save (`PromiseInv`): then it
does not matter who overwrites whom. The two theorems about one instance rest on
`CheckpointInv`: as long as no lost write came out of turn, the cycle stands at the next
bucket, or at the one before when a late write has saved it already (`AtPosition`, for
which a tick during a cycle must be refused: `OneCyclePerInstance`), no lost write is for
a later bucket (`LateBehind`), and a cycle without a checkpoint begins no earlier than
those before it (`FirstBehind`). TLC checked each invariant on the small instances
before it was proved.

`LogPipelineProofs`, for any number of processes, partitions, messages and
faults: `TypeCorrect`, `CommitsAreAccountedFor`, `DocumentsInOnePlace` and
`RepeatsAreBounded`. That committed messages were handled is not inductive: `IInv` adds
that everything below *any* process's position was handled (`HandledBelow`), that the
document of a log which waits for the forwarder was enqueued already
(`IngestedBeforeForward`), and that the owner stands at or after the committed offset
(`OwnersAhead`). The lemmas the steps share are that nothing which was done is forgotten
(`Grows`), that a position moves only over a handled message, to the committed offset,
or away (`Moves`), and that a commit is the owner's position (`Commits`).
`RepeatsAreBounded`, that a message is handled at most once more than there were faults
(`HandledOncePerAssignment`), is a counting argument: the deliveries that were made of a
message, the processes that still come to it (`Coming`), and the one to come where its
partition has no owner (`Due`), are together no more than the faults and one (`Times`).
A handler's step turns a coming delivery into a made one, an assignment a due one into
a coming one, and only a fault adds one. So it rests on what the handlers do when
something fails: one that did not go on without a producer would leave its process
coming, and handle the message over and over. The
assumption is `LogPipelineAssumption`, which gives the constants their types.

`StorageBootstrapProofs`, for any placement of applications in processes and any
number of data streams: `TypeCorrect`, `ReadyMeansComplete` and
`OneRefusalPerResource`. The last needs two facts besides the types and
`PlanPassedExists`: what was refused exists (`RefusedExists`), and an application
that was refused a resource never asks for its creation again (`FirstAttempt`).
That a refusal means the resource exists rests on `TemplateFirst`: a stream is
refused without its template only by an application whose plan has passed the
template. The assumption is `BootstrapAssumption`.

`ErrorStreamProofs`, for any number of processes, browsers, partitions, logs and
rebalances: `TypeCorrect`, `CommitsBehindPushes` and `PushesInOrder`. `IInv` adds
to the types and `CommittedWasPushed` that everything below *any* process's
position was pushed or skipped (`PushedBelow`), also below the position of a member
that has lost the partition, and that nothing is missing below a log that was
pushed (`NoGaps`). From `NoGaps` alone follows that a log pushed for the first time
comes after those that were pushed. Most steps only take positions away
(`QuietStep`); `Assign`, `Commit` and `HandleErrorLog` have a lemma each. The
assumption is `ErrorStreamAssumption`.

`MetricsQueryProofs`, for any number of clients, any windows and any sizes of
buckets, quanta and caches: `TypeCorrect`, `OnlyAskedCounted`, `CountedOnce` and
`NothingDueMissed`. What belongs to a query depends on its environment and window
alone, and the key of a cache entry tells both. So `IInv` says of a cache entry what
it says of a request: all it holds belongs to its query (`RequestsTrue`,
`CachesTrue`), where what it was made from was true (`RollupTrue`, `StagesTrue`), and
the documents lie before the seam and the raw spans after it. `CountedOnce` does not
assume that there is one document for a bucket and environment. It is shown of the
aggregator's steps what there is: one in each index (`OneInEachIndex`), as a bulk create
meets the conflict; what a cycle or a lost write holds is of one closed bucket
(`WriteTrue`); and, while nothing has failed, no document at or beyond the checkpoint but
those of the cycle that is about to save (`NoFault`), so none is stored twice.
`FreshInv` adds that an answer has
all that was known in time, however late it is used. `NothingDueMissed` has two
hypotheses. `DocumentsFit`: the size of a search for documents suffices for one
document of each environment in each bucket. It holds of the instance of
`MCMetricsQuery.cfg`; it does not of `MCMetricsQueryTruncation.cfg`, which shows that
without it the theorem is false. And `[]NoneRepeated`: no retry stored a second document
of a bucket and environment, which would take the place of another one in that size.
The assumption is `MetricsQueryAssumption`.

`DeliveryProofs`, for any number of POSTs, bodies, partitions, attempts and mishaps:
`TypeCorrect`, `CopiesBounded` and `KeepsToTelemetry`. What a POST sends is made by
flattening and filtering lists of any length (`FlattenFacts`, `PartFacts`,
`PartInjective`), and one lemma, `TopicSteps`, says of all steps of the producer that
a partition grows by at most one batch, whose messages belong there, were not
acknowledged before, and come once. That a bag has no more copies than faults allow
is not inductive: `IInv` counts what is in the topic (`TopicCopies`: one copy for each
failed attempt, one more when it was acknowledged) and bounds each bag by what was
read so far and, for each mishap, the copies in the topic (`Handled`).
`KeepsToTelemetry` is the safety half of `ImplementsTelemetry`. Its core is
`ReportIsReported`: an event that a DTO takes is a report that can be read from the
POST, through the transformation and without it. It needs that stored and lost
messages are events (`OnlyEvents`), and of a request what `IsTraceData` says: lists,
one attribute for each key (OpenTelemetry demands it), and no kind that has the name
of an event's kind already. These are in `ProducerAssumption`. `SelectSeq` is built into
the prover without a definition, so the models write `Array.filter` as `filter`.

`SearchesProofs`, for any documents, queries, sizes and limits: `TypeCorrect`,
`TracesTrue`, `PagesTrue` and `LimitsFair`. That an order of the hits has each of them
once (`SortedOrders`) is a matter of counting: a list without repetitions that is as
long as a finite set is many has all of it. `TracesTrue` needs only that each of the
two searches of a trace is true by itself (`TraceKept`). `PagesSkipNothing` says
something about the last page alone; `WalkKept` says of every page that what it has
not shown yet has at least as many documents before it as the pages so far had places.
That is kept because documents that arrive can only put more before it, and a
document without ties has one place in all orders (`Place`), so the next page shows it or is full of
what comes before. `LeavesOutOnlyLessBusy` is inductive: what is left out gave
way to a full top, and groups only grow (`GroupsGrow`). The assumption is
`SearchesAssumption`: the checks of the DTOs (no size, page or limit below 1, the
values of `sort`) and that documents have the fields they are sorted by.

Induction over the length of a list is not out of reach where the hypothesis is a
set: the subsets of the natural numbers are well-founded by a fact of the library
(`LeastNumber`, `SetInduction`), and `FlattenSeq` and `BytesOf` are defined by recursive
functions, whose equations can be shown to have a solution (`FlattensExists`,
`SumsExist`).

Only model-checked: everything under fairness (`DrainTerminates`, `CatchesUp`,
`ConsumesEverything`, `AllComeUp`, `OnlyProcessShowsAll`, the liveness parts of
`DocumentSink` and `Telemetry`), which is
beyond the prover.

## 5. Not modelled

- Protobuf decoding, index mappings, percentiles other than the SLOW threshold, the
  order of the items of an overview, totals, and the full text search of logs: data
  the properties do not tell apart. Nanosecond times lose precision in `parseInt`;
  the model computes with the exact ones.
- HTTP fields, labels and `etc` of events; the DTOs strip `etc`.
- The throughput tracker, which only feeds a log line; the pass-through stores of
  the producer server, `app_api`, generators, infrastructure files: no state of
  their own.
- That a crash loses the documents a process holds is in the model (`lost`), not a
  property: the services say that a handler returns before its document is stored.
- What the parser of the error stream refuses: the forwarder, the only writer of
  its topic, has validated the log with the same DTO.
- The composition of `ErrorStream` with `Delivery`: the product is too large for
  TLC, and the two meet only in the topic, whose copies `CopiesWithinFaults` bounds
  and whose order of arrival nothing depends on.
- `OPENSEARCH_ISM_POLICY` may give all data streams the same ISM policy; the model
  has one for each, as the default has. A policy is in the model because its
  creation can be refused, not for what it does to the stream.
- An environment that is called "all" shares the cache key of a query without
  one; `AnyEnvironment` is assumed not to be an environment.

## 6. Plan

In this order; each with its MC module, mutants and, where it says so, proofs.

1. `BulkIndexer` with `DocumentSink` and proofs - done.
2. `Aggregator` with proofs - done.
3. `MetricsQuery` with proofs - done.
4. `LogPipeline` on top of `DocumentSink`, with proofs - done.
5. `StorageBootstrap` with proofs - done.
6. `SpanTransform`, `Producer` and `Delivery` with `Telemetry`, with proofs - done.
7. `ErrorStream` with proofs - done.
8. `Searches` with proofs - done.
