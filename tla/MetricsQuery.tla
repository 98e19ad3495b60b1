---------------------------- MODULE MetricsQuery ----------------------------
(***************************************************************************)
(* GET /services/{serviceName}/metrics of the query API                    *)
(* (backend/src/query-api/service-metrics): ServiceMetricsService with     *)
(* MetricsQueryNormalizerService, MetricsCacheService and                  *)
(* RollupMetricsReadRepository.                                            *)
(*                                                                         *)
(* A request for a long window is answered from two sources: documents of  *)
(* the metrics data stream for the older part, raw spans for the last      *)
(* Threshold.  Two Redis caches stand in front, one of whole answers and   *)
(* one of the older part.  The question is what an answer counts.          *)
(*                                                                         *)
(* The model follows one service.  Time is counted in ticks.  A step ends  *)
(* where the code awaits Redis or Elasticsearch, and anything may happen   *)
(* between two steps of a request.  An answer is kept as the spans it      *)
(* counts instead of their numbers and latencies; `metric`, which only     *)
(* selects series of the answer, is left out.  The aggregator that fills   *)
(* the data stream appears as far as it decides what documents there can   *)
(* be: one process of it, which always finds a checkpoint.                 *)
(***************************************************************************)
EXTENDS Integers, FiniteSets, FiniteSetsExt

CONSTANTS
    Clients,        \* who asks; one request at a time each
    Environments,   \* the environments spans are sent from
    AnyEnvironment, \* the query does not name one
    Queried,        \* the values of `environment` that are asked for
    Intervals,      \* the values of `interval`
    Windows,        \* the explicit from/to pairs that are asked for
    Bucket,         \* ROLLUP_BUCKET_MINUTES
    Threshold,      \* ROLLUP_THRESHOLD_MINUTES
    Quantum,        \* METRICS_QUANTIZATION_SECONDS
    DefaultWindow,  \* SERVICE_METRICS_DEFAULT_WINDOW_MINUTES
    ResponseTtl,    \* METRICS_CACHE_TTL_SECONDS
    RollupTtl,      \* ROLLUP_CACHE_TTL_SECONDS
    MaxRollupBuckets, \* ROLLUP_MAX_QUERY_BUCKETS
    Start,          \* the time at which the model begins
    Past,           \* the spans indexed by then
    PastRolledUpTo, \* the aggregator's checkpoint then
    NewSpans,       \* bound: the names of the spans indexed later
    Delays,         \* bound: how long after it happened a span is indexed
    MaxIndex,       \* bound: the rollovers of the metrics data stream
    MaxFaults,      \* bound: the cycles of the aggregator that fail
    MaxRequests,    \* bound: the requests in all
    Horizon         \* bound: the clock stops here

ASSUME MetricsQueryAssumption ==
    /\ Bucket \in Nat \ {0} /\ Quantum \in Nat \ {0}
    /\ Threshold \in Nat \ {0} /\ DefaultWindow \in Nat \ {0}
    /\ ResponseTtl \in Nat \ {0} /\ RollupTtl \in Nat
    /\ MaxRollupBuckets \in Nat /\ MaxRollupBuckets >= 500
    /\ PastRolledUpTo \in Nat /\ PastRolledUpTo % Bucket = 0 /\ PastRolledUpTo <= Start
    /\ Start \in Nat /\ Horizon \in Nat /\ Start <= Horizon
    /\ \A s \in Past : s.time \in 0..Start /\ s.seen \in 0..Start /\ s.env \in Environments
    /\ Delays \subseteq Nat
    /\ MaxIndex \in Nat /\ MaxFaults \in Nat
    /\ Windows \subseteq Int \X Int
    /\ AnyEnvironment \notin Environments
    /\ Queried \subseteq Environments \cup {AnyEnvironment}

VARIABLES
    now,            \* the clock
    spans,          \* the SERVER spans that are searchable
    rollup,         \* the documents of the metrics data stream
    writeIndex,     \* the write index of that data stream
    rolledUpTo,     \* the aggregator's checkpoint
    cycle,          \* what the aggregator is at
    inFlight,       \* its writes that were never answered and may yet be carried out
    faults,         \* the cycles of it that failed
    responseCache,  \* Redis, keys of METRICS_CACHE_PREFIX
    rollupCache,    \* Redis, keys of ROLLUP_CACHE_PREFIX
    requests,       \* the request each client waits for, or the answer it has
    asked           \* the number of requests so far

aggregatorVars == <<rolledUpTo, cycle, inFlight, faults>>
dataVars       == <<spans, rollup, writeIndex, aggregatorVars>>
cacheVars      == <<responseCache, rollupCache>>
vars           == <<now, dataVars, cacheVars, requests, asked>>

Floor(t) == t - (t % Bucket)

\* What the aggregator makes of a bucket when it knows these spans: a document
\* for each environment.
DocumentsOf(b, known) ==
    {[bucket |-> b, env |-> e, counts |-> {s \in known : s.env = e /\ Floor(s.time) = b}] :
        e \in {s.env : s \in {s \in known : Floor(s.time) = b}}}

\* A document in an index of the data stream, searchable from a time on.
Stored(d, index, time) ==
    [bucket |-> d.bucket, env |-> d.env, counts |-> d.counts, index |-> index, stored |-> time]

Idle == [at |-> "idle"]

Init ==
    /\ now = Start
    /\ spans = Past
    /\ rolledUpTo = PastRolledUpTo
    /\ rollup = UNION {{Stored(d, 0, b + Bucket) : d \in DocumentsOf(b, Past)} :
                          b \in {b \in 0..(PastRolledUpTo - 1) : b % Bucket = 0}}
    /\ writeIndex = 0
    /\ cycle = [at |-> "aggregate", bucket |-> PastRolledUpTo, docs |-> {}]
    /\ inFlight = {}
    /\ faults = 0
    /\ responseCache = {}
    /\ rollupCache = {}
    /\ requests = [c \in Clients |-> Idle]
    /\ asked = 0

-----------------------------------------------------------------------------
(* The world around the service.                                            *)

\* Time passes, and Redis forgets what has expired.
Tick ==
    /\ now < Horizon
    /\ now' = now + 1
    /\ responseCache' = {e \in responseCache : e.expires > now'}
    /\ rollupCache' = {e \in rollupCache : e.expires > now'}
    /\ UNCHANGED <<dataVars, requests, asked>>

\* A span becomes searchable, some time after it happened.
SpanIndexed(id, time, env) ==
    /\ \A s \in spans : s.id # id
    /\ now - time \in Delays
    /\ spans' = spans \cup {[id |-> id, time |-> time, env |-> env, seen |-> now]}
    /\ UNCHANGED <<now, rollup, writeIndex, aggregatorVars, cacheVars, requests, asked>>

\* The metrics data stream gets a new write index.
Rollover ==
    /\ writeIndex < MaxIndex
    /\ writeIndex' = writeIndex + 1
    /\ UNCHANGED <<now, spans, rollup, aggregatorVars, cacheVars, requests, asked>>

-----------------------------------------------------------------------------
(* The aggregator.                                                          *)

\* A cycle begins at the checkpoint, whatever the last one was going to do.
Plan ==
    /\ cycle.at = "aggregate"
    /\ cycle' = [cycle EXCEPT !.bucket = rolledUpTo]
    /\ UNCHANGED <<now, spans, rollup, writeIndex, rolledUpTo, inFlight, faults,
                   cacheVars, requests, asked>>

\* The aggregation of a closed bucket answers.
Aggregate ==
    /\ cycle.at = "aggregate"
    /\ cycle.bucket + Bucket <= now
    /\ LET docs == DocumentsOf(cycle.bucket, spans)
       IN  cycle' = [cycle EXCEPT !.at = IF docs = {} THEN "save" ELSE "store", !.docs = docs]
    /\ UNCHANGED <<now, spans, rollup, writeIndex, rolledUpTo, inFlight, faults,
                   cacheVars, requests, asked>>

FaultyFresh(docs) == {Stored(d, writeIndex, now) : d \in docs}

\* What a bulk create adds: a document has the _id of its bucket and its
\* environment, and one that the write index has is a conflict that is ignored.
Fresh(docs) ==
    {Stored(d, writeIndex, now) :
        d \in {d \in docs : \A r \in rollup :
                  ~(r.index = writeIndex /\ r.bucket = d.bucket /\ r.env = d.env)}}

BulkCreate ==
    /\ cycle.at = "store"
    /\ rollup' = rollup \cup Fresh(cycle.docs)
    /\ cycle' = [cycle EXCEPT !.at = "save", !.docs = {}]
    /\ UNCHANGED <<now, spans, writeIndex, rolledUpTo, inFlight, faults, cacheVars, requests, asked>>

\* The cycle goes on with the next window, unless Plan begins another.
SaveCheckpoint ==
    /\ cycle.at = "save"
    /\ rolledUpTo' = cycle.bucket + Bucket
    /\ cycle' = [cycle EXCEPT !.at = "aggregate", !.bucket = cycle.bucket + Bucket]
    /\ UNCHANGED <<now, spans, rollup, writeIndex, inFlight, faults, cacheVars, requests, asked>>

\* A step of the cycle throws, or the process dies and is started again.
CycleFails ==
    /\ faults < MaxFaults
    /\ faults' = faults + 1
    /\ inFlight' = inFlight \cup {[at |-> at, bucket |-> cycle.bucket, docs |-> cycle.docs, id |-> faults] :
                                   at \in {cycle.at} \ {"aggregate"}}
    /\ cycle' = [at |-> "aggregate", bucket |-> rolledUpTo, docs |-> {}]
    /\ UNCHANGED <<now, spans, rollup, writeIndex, rolledUpTo, cacheVars, requests, asked>>

\* A write without an answer is carried out after all, of a bulk request
\* perhaps only a part.
LateWrite(w) ==
    /\ inFlight' = inFlight \ {w}
    /\ \/ /\ w.at = "store"
          /\ \E stored \in SUBSET Fresh(w.docs) : rollup' = rollup \cup stored
          /\ UNCHANGED rolledUpTo
       \/ /\ w.at = "save"
          /\ rolledUpTo' = w.bucket + Bucket
          /\ UNCHANGED rollup
    /\ UNCHANGED <<now, spans, writeIndex, cycle, faults, cacheVars, requests, asked>>

AggregatorStep ==
    \/ Plan
    \/ Aggregate
    \/ BulkCreate
    \/ SaveCheckpoint
    \/ CycleFails
    \/ \E w \in inFlight : LateWrite(w)

-----------------------------------------------------------------------------
(* How a query is normalised, keyed and split.                              *)

Quantize(t) == t - (t % Quantum)

\* Without from and to: a sliding window that ends at the last full quantum.
SlidingQuery(env, interval) ==
    [env |-> env, interval |-> interval, sliding |-> TRUE,
     from |-> Quantize(now) - DefaultWindow, to |-> Quantize(now)]

ExplicitQuery(env, interval, window) ==
    [env |-> env, interval |-> interval, sliding |-> FALSE,
     from |-> window[1], to |-> window[2]]

FaultyResponseKey(q) == [interval |-> q.interval, from |-> q.from, to |-> q.to]

\* MetricsCacheService.buildKey.
ResponseKey(q) == [env |-> q.env, interval |-> q.interval, from |-> q.from, to |-> q.to]

Split(q) == q.to - Threshold

FaultyRollupKey(q) == [env |-> q.env]

\* buildRollupCacheKey: the documents do not depend on the interval.
RollupKey(q) == [env |-> q.env, from |-> q.from, to |-> Split(q)]

\* buildFetchPlan: short (and empty) windows are read from raw spans alone.
UsesRollup(q) == q.to - q.from > Threshold

RawFrom(q) == IF UsesRollup(q) THEN Split(q) ELSE q.from

\* Where a request goes once the plan is made.
FirstFetch(q) ==
    IF ~UsesRollup(q) THEN "raw" ELSE IF q.sliding THEN "rollupLookup" ELSE "rollupSearch"

-----------------------------------------------------------------------------
(* What Elasticsearch and Redis answer.                                     *)

Matches(q, env) == q.env \in {AnyEnvironment, env}

FaultySearchTo(q) == Split(q)

SearchTo(q) == Floor(Split(q))

\* RollupMetricsReadRepository.search, oldest first and at most `size`
\* documents, and the filter fetchRollupBuckets puts on the result.
RollupMatches(q) ==
    {d \in rollup : Matches(q, d.env) /\ Floor(q.from) <= d.bucket /\ d.bucket < SearchTo(q)}

SearchSize(q) == Min({MaxRollupBuckets, (SearchTo(q) - Floor(q.from)) \div Bucket + 5})

SearchResults(q) ==
    {found \in SUBSET RollupMatches(q) :
        /\ Cardinality(found) = Min({SearchSize(q), Cardinality(RollupMatches(q))})
        /\ \A d \in found, rest \in RollupMatches(q) \ found : d.bucket <= rest.bucket}

InWindow(q, docs) == {d \in docs : q.from <= d.bucket /\ d.bucket < Split(q)}

\* SpanRepository.aggregateServiceMetrics: both ends of the range are included.
RawMatches(q) ==
    IF q.from = q.to
      THEN {}
      ELSE {s \in spans : Matches(q, s.env) /\ RawFrom(q) <= s.time /\ s.time <= q.to}

FaultyPut(cache, key, value, ttl) ==
    cache \cup {[key |-> key, value |-> value, expires |-> now + ttl]}

\* SET key value EX ttl.
Put(cache, key, value, ttl) ==
    {e \in cache : e.key # key} \cup {[key |-> key, value |-> value, expires |-> now + ttl]}

-----------------------------------------------------------------------------
(* The steps of a request.                                                  *)

Becomes(c, r) == requests' = [requests EXCEPT ![c] = r]

Request(q) ==
    [at |-> IF q.sliding THEN "lookup" ELSE FirstFetch(q),
     query |-> q, knownBy |-> IF q.sliding THEN q.to ELSE now, docs |-> {}, raw |-> {}]

\* getMetrics is called, up to its first await.
Ask(c) ==
    /\ requests[c].at \in {"idle", "answered"}
    /\ \E env \in Queried, interval \in Intervals :
           \/ Becomes(c, Request(SlidingQuery(env, interval)))
           \/ \E window \in Windows : Becomes(c, Request(ExplicitQuery(env, interval, window)))
    /\ asked < MaxRequests
    /\ asked' = asked + 1
    /\ UNCHANGED <<now, dataVars, cacheVars>>

\* The answer cache has the key.
LookupHits(c) ==
    LET r == requests[c]
    IN  /\ r.at = "lookup"
        /\ \E e \in responseCache :
               /\ e.key = ResponseKey(r.query)
               /\ Becomes(c, [r EXCEPT !.at = "answered", !.docs = e.value.docs, !.raw = e.value.raw])
        /\ UNCHANGED <<now, dataVars, cacheVars, asked>>

\* It has not, or Redis fails, which counts as a miss.
LookupMisses(c) ==
    LET r == requests[c]
    IN  /\ r.at = "lookup"
        /\ Becomes(c, [r EXCEPT !.at = FirstFetch(r.query)])
        /\ UNCHANGED <<now, dataVars, cacheVars, asked>>

RollupLookupHits(c) ==
    LET r == requests[c]
    IN  /\ r.at = "rollupLookup"
        /\ RollupTtl > 0
        /\ \E e \in rollupCache :
               /\ e.key = RollupKey(r.query)
               /\ Becomes(c, [r EXCEPT !.at = "raw", !.docs = e.value])
        /\ UNCHANGED <<now, dataVars, cacheVars, asked>>

\* Also the way of a window whose older part holds no full bucket.
RollupLookupMisses(c) ==
    LET r == requests[c]
    IN  /\ r.at = "rollupLookup"
        /\ Becomes(c, [r EXCEPT !.at = "rollupSearch"])
        /\ UNCHANGED <<now, dataVars, cacheVars, asked>>

\* The search for roll-up documents answers; without a full bucket to search
\* for it is left out.
RollupSearch(c) ==
    LET r == requests[c]
        q == r.query
    IN  /\ r.at = "rollupSearch"
        /\ \/ /\ SearchTo(q) <= Floor(q.from)
              /\ Becomes(c, [r EXCEPT !.at = "raw"])
           \/ /\ SearchTo(q) > Floor(q.from)
              /\ \E found \in SearchResults(q) :
                     Becomes(c, [r EXCEPT !.at = IF q.sliding /\ RollupTtl > 0 THEN "rollupStore" ELSE "raw",
                                          !.docs = InWindow(q, found)])
        /\ UNCHANGED <<now, dataVars, cacheVars, asked>>

\* metricsCache.set of the older part; a failure of Redis is ignored.
RollupStore(c) ==
    LET r == requests[c]
    IN  /\ r.at = "rollupStore"
        /\ \/ rollupCache' = Put(rollupCache, RollupKey(r.query), r.docs, RollupTtl)
           \/ UNCHANGED rollupCache
        /\ Becomes(c, [r EXCEPT !.at = "raw"])
        /\ UNCHANGED <<now, dataVars, responseCache, asked>>

\* The aggregation of raw spans answers, and the two parts are merged.
RawSearch(c) ==
    LET r == requests[c]
    IN  /\ r.at = "raw"
        /\ Becomes(c, [r EXCEPT !.at = IF r.query.sliding THEN "store" ELSE "answered",
                                !.raw = RawMatches(r.query)])
        /\ UNCHANGED <<now, dataVars, cacheVars, asked>>

\* metricsCache.set of the answer, which is then returned.
Store(c) ==
    LET r == requests[c]
    IN  /\ r.at = "store"
        /\ \/ responseCache' = Put(responseCache, ResponseKey(r.query),
                                   [docs |-> r.docs, raw |-> r.raw], ResponseTtl)
           \/ UNCHANGED responseCache
        /\ Becomes(c, [r EXCEPT !.at = "answered"])
        /\ UNCHANGED <<now, dataVars, rollupCache, asked>>

\* A search fails, and with it the request.
SearchFails(c) ==
    /\ requests[c].at \in {"rollupSearch", "raw"}
    /\ Becomes(c, Idle)
    /\ UNCHANGED <<now, dataVars, cacheVars, asked>>

RequestStep(c) ==
    \/ Ask(c)
    \/ LookupHits(c)
    \/ LookupMisses(c)
    \/ RollupLookupHits(c)
    \/ RollupLookupMisses(c)
    \/ RollupSearch(c)
    \/ RollupStore(c)
    \/ RawSearch(c)
    \/ Store(c)
    \/ SearchFails(c)

Next ==
    \/ Tick
    \/ \E id \in NewSpans, time \in 0..Horizon, env \in Environments : SpanIndexed(id, time, env)
    \/ Rollover
    \/ AggregatorStep
    \/ \E c \in Clients : RequestStep(c)

Spec == Init /\ [][Next]_vars

-----------------------------------------------------------------------------
(* Properties.                                                              *)

Answered == {requests[c] : c \in {c \in Clients : requests[c].at = "answered"}}

Counted(r) == r.raw \cup UNION {d.counts : d \in r.docs}

Asked(q, s) == Matches(q, s.env) /\ q.from <= s.time /\ s.time <= q.to

Query == [env : Queried, interval : Intervals, sliding : BOOLEAN, from : Int, to : Int]

Stages ==
    {"lookup", "rollupLookup", "rollupSearch", "rollupStore", "raw", "store", "answered"}

Drafts == [bucket : 0..now, env : Environments, counts : SUBSET spans]

\* The clock, the stores, the aggregator, the caches and the requests have their types; a cache has
\* one entry for a key.
TypeOK ==
    /\ now \in Start..Horizon
    /\ \A s \in spans : s.time \in 0..now /\ s.seen \in 0..now /\ s.env \in Environments
    /\ rolledUpTo \in 0..now /\ rolledUpTo % Bucket = 0
    /\ \A d \in rollup :
          /\ d.bucket \in 0..now /\ d.bucket % Bucket = 0 /\ d.index \in 0..writeIndex
          /\ d.stored \in 0..now /\ d.env \in Environments /\ d.counts \subseteq spans
    /\ writeIndex \in 0..MaxIndex /\ faults \in 0..MaxFaults
    /\ cycle \in [at : {"aggregate", "store", "save"}, bucket : 0..now, docs : SUBSET Drafts]
    /\ inFlight \subseteq
          [at : {"store", "save"}, bucket : 0..now, docs : SUBSET Drafts, id : 0..MaxFaults]
    /\ \A w \in {cycle} \cup inFlight : w.bucket % Bucket = 0
    /\ responseCache \subseteq
          [key : [env : Queried, interval : Intervals, from : Int, to : Int],
           value : [docs : SUBSET rollup, raw : SUBSET spans], expires : Int]
    /\ rollupCache \subseteq
          [key : [env : Queried, from : Int, to : Int], value : SUBSET rollup, expires : Int]
    /\ \A cache \in {responseCache, rollupCache} :
          \A e1, e2 \in cache : e1.key = e2.key => e1 = e2
    /\ requests \in [Clients ->
          {Idle} \cup [at : Stages, query : Query, knownBy : 0..now,
                      docs : SUBSET rollup, raw : SUBSET spans]]

\* One span has two documents only if a bucket was rolled up again, after a
\* failure, and stored in another index than before.
Repeated(d1, d2) ==
    faults > 0 /\ d1.bucket = d2.bucket /\ d1.env = d2.env /\ d1.index # d2.index

\* No span is counted from a document and from the raw spans, wherever the window
\* and its split fall in a bucket and whichever parts come from a cache.  It is
\* counted from two documents only if the aggregator failed and tried the bucket
\* again when the data stream had rolled over: nothing else repeats a document,
\* no retry in the same index, no late span and no checkpoint written late.
CountsOnce ==
    \A r \in Answered :
        /\ \A d \in r.docs : d.counts \cap r.raw = {}
        /\ \A d1, d2 \in r.docs :
              d1 # d2 => d1.counts \cap d2.counts = {} \/ Repeated(d1, d2)

\* An answer counts only spans of the environment and the window it was asked
\* for, also when it, or its older part, was computed for another request.
CountsOnlyAsked == \A r \in Answered : \A s \in Counted(r) : Asked(r.query, s)

\* What an answer may not miss, as of the time the request began or, for a
\* sliding window, of the end of the window, less than a quantum earlier,
\* however long the caches keep their entries: the raw spans that were
\* searchable by then, and the documents of full buckets that were stored.
MustCount(r) ==
    LET q == r.query
    IN  {s \in spans : /\ q.from < q.to /\ Asked(q, s)
                       /\ RawFrom(q) <= s.time /\ s.seen < r.knownBy}
        \cup UNION {d.counts : d \in {d \in rollup : /\ UsesRollup(q) /\ Matches(q, d.env)
                                                   /\ q.from <= d.bucket /\ d.bucket < Floor(Split(q))
                                                   /\ d.stored < r.knownBy}}

CountsWhatItMust == \A r \in Answered : MustCount(r) \subseteq Counted(r)

\* The README: roll-up documents are aligned to buckets, so an answer may be
\* wrong by one bucket at most.
MissesAtMostOneBucket ==
    \A r \in Answered :
        Cardinality({s.time : s \in {s \in spans : Asked(r.query, s) /\ s.seen <= s.time} \ Counted(r)})
            <= Bucket

=============================================================================
