------------------------- MODULE MetricsQueryProofs -------------------------
(***************************************************************************)
(* What holds of the answers of the service metrics query for every number *)
(* of clients, every window and every size of buckets, quanta and caches.  *)
(*                                                                         *)
(* The argument does not follow the caches through time.  What belongs to  *)
(* a query depends on its environment and its window alone, and the key of *)
(* a cache entry tells both, so that an entry is as good as a request: all *)
(* that either holds belongs to its query (IInv), and it holds all of that *)
(* which was known in time (FreshInv).                                     *)
(***************************************************************************)
EXTENDS MetricsQuery, FiniteSetTheorems, TLAPS

-----------------------------------------------------------------------------
(* Buckets: the multiples of Bucket.                                        *)

LEMMA Division ==
    ASSUME NEW t \in Int
    PROVE  /\ t \div Bucket \in Int
           /\ t = Bucket * (t \div Bucket) + (t % Bucket)
           /\ t % Bucket \in 0..(Bucket - 1)
<1> DEFINE B == Bucket
<1>1. B \in Int /\ B > 0
    BY MetricsQueryAssumption
<1> HIDE DEF B
<1>2. t \div B \in Int /\ t % B \in 0..(B - 1)
    BY <1>1
<1>3. t = B * (t \div B) + (t % B)
    BY <1>1, SMTT(30)
<1> QED BY <1>2, <1>3 DEF B

\* A multiple is a product.
LEMMA Quotient ==
    ASSUME NEW a \in Int, a % Bucket = 0
    PROVE  \E k \in Int : a = Bucket * k
<1> DEFINE k == a \div Bucket  product == Bucket * k  rest == a % Bucket
<1>1. k \in Int /\ a = product + rest /\ rest = 0 /\ product \in Int
    BY Division, MetricsQueryAssumption
<1> HIDE DEF product, rest
<1>2. a = product
    BY <1>1
<1> QED BY <1>1, <1>2 DEF product

LEMMA Multiple ==
    ASSUME NEW k \in Int
    PROVE  (Bucket * k) % Bucket = 0
<1> DEFINE B == Bucket
<1>1. B \in Int /\ B > 0
    BY MetricsQueryAssumption
<1> HIDE DEF B
<1>2. (B * k) % B = 0
    BY <1>1
<1> QED BY <1>2 DEF B

LEMMA FloorFacts ==
    ASSUME NEW t \in Int
    PROVE  /\ Floor(t) \in Int
           /\ Floor(t) <= t
           /\ t < Floor(t) + Bucket
           /\ Floor(t) % Bucket = 0
<1> DEFINE B == Bucket  k == t \div B  rest == t % B
<1>1. B \in Int /\ B > 0
    BY MetricsQueryAssumption
<1>2. k \in Int /\ t = B * k + rest /\ rest \in 0..(B - 1) /\ (B * k) % B = 0
    BY Division, Multiple
<1>3. Floor(t) = t - rest
    BY DEF Floor
<1> HIDE DEF B, k, rest
<1>4. t - rest = B * k
    BY <1>1, <1>2
<1>5. t - rest \in Int /\ t - rest <= t /\ t < t - rest + B
    BY <1>1, <1>2
<1>6. (t - rest) % B = 0
    BY <1>2, <1>4
<1> QED BY <1>3, <1>5, <1>6 DEF B

LEMMA MultiplesApart ==
    ASSUME NEW a \in Int, NEW b \in Int, a % Bucket = 0, b % Bucket = 0, a < b
    PROVE  a + Bucket <= b
<1> DEFINE B == Bucket
<1>1. B \in Int /\ B > 0
    BY MetricsQueryAssumption
<1>2. PICK k \in Int, l \in Int : a = B * k /\ b = B * l
    BY Quotient
<1> HIDE DEF B
<1>3. k < l
    BY <1>1, <1>2
<1>4. B * (k + 1) <= B * l
    BY <1>1, <1>2, <1>3
<1>5. B * (k + 1) = B * k + B
    BY <1>1, <1>2
<1> QED BY <1>2, <1>4, <1>5 DEF B

LEMMA NextMultiple ==
    ASSUME NEW a \in Int, a % Bucket = 0
    PROVE  (a + Bucket) % Bucket = 0
<1> DEFINE B == Bucket
<1>1. B \in Int /\ B > 0
    BY MetricsQueryAssumption
<1>2. PICK k \in Int : a = B * k
    BY Quotient
<1> HIDE DEF B
<1>3. a + B = B * (k + 1) /\ k + 1 \in Int
    BY <1>1, <1>2
<1>4. (B * (k + 1)) % B = 0
    BY <1>2, Multiple DEF B
<1> QED BY <1>3, <1>4 DEF B

-----------------------------------------------------------------------------
(* The inductive invariant.  A query is anything with an environment, from  *)
(* and to: one that was asked, or what the key of a cache entry tells of it. *)

\* What the key of an entry of the roll-up cache tells of the query.
QueryOf(key) == [env |-> key.env, from |-> key.from, to |-> key.to + Threshold]

\* The documents that belong to the older part of a query's window.
Older(q) ==
    {d \in rollup : /\ UsesRollup(q) /\ Matches(q, d.env)
                    /\ q.from <= d.bucket /\ d.bucket < Floor(Split(q))}

\* The spans that belong to the rest of it.
Newer(q) == {s \in spans : Matches(q, s.env) /\ RawFrom(q) <= s.time /\ s.time <= q.to}

DocsTrue(q, docs) == docs \subseteq Older(q)

RawTrue(q, raw) == raw \subseteq Newer(q)

DocsFresh(q, known, docs) == {d \in Older(q) : d.stored < known} \subseteq docs

RawFresh(q, known, raw) == {s \in Newer(q) : q.from < q.to /\ s.seen < known} \subseteq raw

\* A document counts spans of its environment and its bucket.  It is the only one in
\* its index, and the only one of all as long as nothing has failed.
CountsTrue(d) == \A s \in d.counts : s.env = d.env /\ Floor(s.time) = d.bucket

OneInEachIndex ==
    \A d1, d2 \in rollup :
        d1.index = d2.index /\ d1.bucket = d2.bucket /\ d1.env = d2.env => d1 = d2

NoneRepeated ==
    \A d1, d2 \in rollup : d1.bucket = d2.bucket /\ d1.env = d2.env => d1 = d2

RollupTrue ==
    /\ \A d \in rollup : CountsTrue(d)
    /\ OneInEachIndex
    /\ faults = 0 => NoneRepeated

\* What the aggregator is about to write, or wrote without an answer, are documents
\* of a closed bucket, one for an environment.
WriteTrue(w) ==
    /\ w.at # "aggregate" => w.bucket + Bucket <= now
    /\ w.at # "store" => w.docs = {}
    /\ \A d \in w.docs : CountsTrue(d) /\ d.bucket = w.bucket
    /\ \A d1, d2 \in w.docs : d1.env = d2.env => d1 = d2

\* As long as nothing has failed, the checkpoint is where the aggregator is, and there
\* are no documents beyond.
NoFault ==
    /\ inFlight = {}
    /\ cycle.bucket = rolledUpTo
    /\ \A d \in rollup : d.bucket < rolledUpTo \/ (d.bucket = rolledUpTo /\ cycle.at = "save")

AggregatorTrue ==
    /\ WriteTrue(cycle)
    /\ \A w \in inFlight : WriteTrue(w)
    /\ faults = 0 => NoFault

Asking == {c \in Clients : requests[c].at # "idle"}

\* Where a request stands tells what kind of query it has.
StagesTrue ==
    \A c \in Asking :
        LET r == requests[c]
        IN  /\ r.at \in {"rollupLookup", "rollupSearch", "rollupStore"} => UsesRollup(r.query)
            /\ r.at \in {"lookup", "rollupLookup", "rollupStore", "store"} => r.query.sliding
            /\ r.query.sliding => r.knownBy = r.query.to

\* What a request or a cache holds belongs to the query it is for.
RequestsTrue ==
    \A c \in Asking :
        LET r == requests[c] IN DocsTrue(r.query, r.docs) /\ RawTrue(r.query, r.raw)

CachesTrue ==
    /\ \A e \in responseCache : DocsTrue(e.key, e.value.docs) /\ RawTrue(e.key, e.value.raw)
    /\ \A e \in rollupCache : DocsTrue(QueryOf(e.key), e.value)

IInv == TypeOK /\ RollupTrue /\ AggregatorTrue /\ StagesTrue /\ RequestsTrue /\ CachesTrue

\* How long the windows are that are asked for.
Lengths == {DefaultWindow} \cup {window[2] - window[1] : window \in Windows}

\* And it has all of that which was known in time.
RequestsFresh ==
    \A c \in Asking :
        LET r == requests[c]
        IN  /\ r.query.to - r.query.from \in Lengths
            /\ r.at \in {"rollupStore", "raw", "store", "answered"} => DocsFresh(r.query, r.knownBy, r.docs)
            /\ r.at \in {"store", "answered"} => RawFresh(r.query, r.knownBy, r.raw)

CachesFresh ==
    /\ \A e \in responseCache :
          /\ e.key.to <= now
          /\ DocsFresh(e.key, e.key.to, e.value.docs) /\ RawFresh(e.key, e.key.to, e.value.raw)
    /\ \A e \in rollupCache :
          /\ QueryOf(e.key).to <= now
          /\ DocsFresh(QueryOf(e.key), QueryOf(e.key).to, e.value)

FreshInv == RequestsFresh /\ CachesFresh

-----------------------------------------------------------------------------
(* The parts of TypeOK.                                                     *)

DocumentTypes ==
    \A d \in rollup :
        /\ d.bucket \in 0..now /\ d.bucket % Bucket = 0 /\ d.index \in 0..writeIndex
        /\ d.stored \in 0..now /\ d.env \in Environments /\ d.counts \subseteq spans

Cycles == [at : {"aggregate", "store", "save"}, bucket : 0..now, docs : SUBSET Drafts]

Writes == [at : {"store", "save"}, bucket : 0..now, docs : SUBSET Drafts, id : 0..MaxFaults]

AggregatorTypes ==
    /\ rolledUpTo \in 0..now /\ rolledUpTo % Bucket = 0
    /\ writeIndex \in 0..MaxIndex /\ faults \in 0..MaxFaults
    /\ cycle \in Cycles /\ cycle.bucket % Bucket = 0
    /\ inFlight \subseteq Writes
    /\ \A w \in inFlight : w.bucket % Bucket = 0

SpanTypes ==
    /\ now \in Start..Horizon
    /\ \A s \in spans : s.time \in 0..now /\ s.seen \in 0..now /\ s.env \in Environments

WorldTypes == SpanTypes /\ DocumentTypes /\ AggregatorTypes

ResponseEntries ==
    [key : [env : Queried, interval : Intervals, from : Int, to : Int],
     value : [docs : SUBSET rollup, raw : SUBSET spans], expires : Int]

RollupEntries ==
    [key : [env : Queried, from : Int, to : Int], value : SUBSET rollup, expires : Int]

OneEach(cache) == \A e1, e2 \in cache : e1.key = e2.key => e1 = e2

CacheTypes ==
    /\ responseCache \subseteq ResponseEntries /\ OneEach(responseCache)
    /\ rollupCache \subseteq RollupEntries /\ OneEach(rollupCache)

Records ==
    [at : Stages, query : Query, knownBy : 0..now, docs : SUBSET rollup, raw : SUBSET spans]

RequestTypes == requests \in [Clients -> {Idle} \cup Records]

LEMMA TypeParts == TypeOK <=> WorldTypes /\ CacheTypes /\ RequestTypes
<1>1. TypeOK => WorldTypes
    BY DEF TypeOK, WorldTypes, SpanTypes, DocumentTypes, AggregatorTypes, Cycles, Writes
<1>2. TypeOK => CacheTypes /\ RequestTypes
    BY DEF TypeOK, CacheTypes, RequestTypes, ResponseEntries, RollupEntries, OneEach, Records
<1>3. ASSUME WorldTypes, CacheTypes, RequestTypes PROVE TypeOK
    <2>1. \A w \in {cycle} \cup inFlight : w.bucket % Bucket = 0
        BY <1>3 DEF WorldTypes, AggregatorTypes
    <2>2. \A cache \in {responseCache, rollupCache} : OneEach(cache)
        BY <1>3 DEF CacheTypes
    <2> QED BY <1>3, <2>1, <2>2 DEF TypeOK, WorldTypes, SpanTypes, DocumentTypes, AggregatorTypes, Cycles,
               Writes, CacheTypes, RequestTypes, ResponseEntries, RollupEntries, OneEach, Records
<1> QED BY <1>1, <1>2, <1>3

\* The clock and the constants are numbers.
LEMMA Numbers ==
    ASSUME TypeOK
    PROVE  /\ now \in Nat /\ rolledUpTo \in Nat /\ Start \in Nat /\ Horizon \in Nat
           /\ Bucket \in Nat \ {0} /\ Quantum \in Nat \ {0} /\ Threshold \in Nat \ {0}
           /\ DefaultWindow \in Nat \ {0} /\ ResponseTtl \in Nat \ {0} /\ RollupTtl \in Nat
BY MetricsQueryAssumption DEF TypeOK

\* A client that waits or has an answer has a record.
LEMMA AskingHasRecord ==
    ASSUME TypeOK, NEW c \in Clients, requests[c].at # "idle"
    PROVE  /\ c \in Asking
           /\ requests[c] \in Records
           /\ requests[c].query \in Query
<1>1. requests[c] \in {Idle} \cup Records
    BY TypeParts DEF RequestTypes
<1>2. requests[c] # Idle
    BY DEF Idle
<1> QED BY <1>1, <1>2 DEF Records, Asking

LEMMA FieldsOfQuery ==
    ASSUME NEW q \in Query
    PROVE  /\ q.env \in Queried /\ q.interval \in Intervals /\ q.sliding \in BOOLEAN
           /\ q.from \in Int /\ q.to \in Int /\ Split(q) \in Int
BY MetricsQueryAssumption DEF Query, Split

-----------------------------------------------------------------------------
(* Time passes, spans arrive, the aggregator works.                         *)

\* What was true of a request or an entry stays true as the stores grow.
LEMMA WorldGrows ==
    ASSUME IInv, WorldTypes', rollup \subseteq rollup', spans \subseteq spans', now <= now',
           responseCache' \subseteq responseCache, rollupCache' \subseteq rollupCache,
           requests' = requests, RollupTrue', AggregatorTrue'
    PROVE  IInv'
<1> USE DEF IInv
<1>1. CacheTypes /\ RequestTypes
    BY TypeParts
<1>2. CacheTypes'
    <2>1. ResponseEntries \subseteq ResponseEntries' /\ RollupEntries \subseteq RollupEntries'
        BY DEF ResponseEntries, RollupEntries
    <2> QED BY <1>1, <2>1 DEF CacheTypes, OneEach
<1>3. RequestTypes'
    <2>1. now \in Nat /\ now' \in Nat
        BY MetricsQueryAssumption, Numbers DEF WorldTypes, SpanTypes
    <2>2. Records \subseteq Records'
        BY <2>1 DEF Records
    <2> QED BY <1>1, <2>2 DEF RequestTypes
<1>4. TypeOK'
    BY <1>2, <1>3, TypeParts, PTL
<1>5. \A q : Older(q) \subseteq Older(q)' /\ Newer(q) \subseteq Newer(q)'
    BY DEF Older, Newer
<1>6. StagesTrue' /\ RequestsTrue' /\ CachesTrue'
    BY <1>5 DEF StagesTrue, RequestsTrue, CachesTrue, Asking, DocsTrue, RawTrue
<1> QED BY <1>4, <1>6

\* The world is as it was, apart from the time and the spans.
LEMMA DocumentsStay ==
    ASSUME IInv, WorldTypes, now <= now', now' \in Nat, spans \subseteq spans',
           UNCHANGED <<rollup, writeIndex, aggregatorVars>>
    PROVE  DocumentTypes' /\ AggregatorTypes' /\ RollupTrue' /\ AggregatorTrue'
<1>1. now \in Nat /\ 0..now \subseteq 0..now' /\ Drafts \subseteq Drafts'
    <2>1. now \in Nat /\ 0..now \subseteq 0..now'
        BY Numbers DEF IInv
    <2> QED BY <2>1 DEF Drafts
<1>2. Cycles \subseteq Cycles' /\ Writes \subseteq Writes'
    BY <1>1 DEF Cycles, Writes
<1>3. DocumentTypes'
    BY <1>1 DEF WorldTypes, DocumentTypes
<1>4. AggregatorTypes'
    BY <1>1, <1>2 DEF WorldTypes, AggregatorTypes, aggregatorVars
<1>5. RollupTrue'
    BY DEF IInv, RollupTrue, CountsTrue, OneInEachIndex, NoneRepeated, aggregatorVars
<1>6. AggregatorTrue'
    <2>1. cycle.bucket \in Nat /\ \A w \in inFlight : w.bucket \in Nat
        BY DEF WorldTypes, AggregatorTypes, Cycles, Writes
    <2>2. ASSUME NEW w, WriteTrue(w), w.bucket \in Nat
          PROVE  WriteTrue(w)'
        BY <1>1, <2>2, MetricsQueryAssumption DEF WriteTrue, CountsTrue
    <2>3. WriteTrue(cycle)' /\ \A w \in inFlight' : WriteTrue(w)'
        BY <2>1, <2>2 DEF IInv, AggregatorTrue, aggregatorVars
    <2> QED BY <2>3 DEF IInv, AggregatorTrue, NoFault, aggregatorVars
<1> QED BY <1>3, <1>4, <1>5, <1>6

LEMMA TickStep ==
    ASSUME IInv, Tick
    PROVE  IInv'
<1>1. now \in Nat /\ WorldTypes
    BY Numbers, TypeParts DEF IInv
<1>2. now' = now + 1 /\ now' <= Horizon /\ UNCHANGED dataVars
    BY <1>1, MetricsQueryAssumption DEF Tick
<1>3. SpanTypes'
    BY <1>1, <1>2, MetricsQueryAssumption DEF WorldTypes, SpanTypes, dataVars
<1>4. DocumentTypes' /\ AggregatorTypes' /\ RollupTrue' /\ AggregatorTrue'
    BY <1>1, <1>2, DocumentsStay DEF dataVars
<1> QED BY <1>1, <1>2, <1>3, <1>4, WorldGrows DEF Tick, dataVars, WorldTypes

LEMMA SpanIndexedStep ==
    ASSUME IInv, NEW id \in NewSpans, NEW time \in 0..Horizon, NEW env \in Environments,
           SpanIndexed(id, time, env)
    PROVE  IInv'
<1>1. now \in Nat /\ WorldTypes
    BY Numbers, TypeParts DEF IInv
<1> DEFINE s == [id |-> id, time |-> time, env |-> env, seen |-> now]
<1>2. now - time \in Nat
    BY MetricsQueryAssumption DEF SpanIndexed
<1>3. s.time \in 0..now /\ s.seen \in 0..now /\ s.env \in Environments
    BY <1>1, <1>2, MetricsQueryAssumption
<1> HIDE DEF s
<1>4. /\ spans' = spans \cup {s}
      /\ UNCHANGED <<now, rollup, writeIndex, aggregatorVars, cacheVars, requests>>
    BY DEF SpanIndexed, s
<1>5. SpanTypes'
    BY <1>1, <1>3, <1>4 DEF WorldTypes, SpanTypes
<1>6. DocumentTypes' /\ AggregatorTypes' /\ RollupTrue' /\ AggregatorTrue'
    BY <1>1, <1>4, DocumentsStay
<1> QED BY <1>1, <1>4, <1>5, <1>6, WorldGrows DEF cacheVars, WorldTypes

LEMMA RolloverStep ==
    ASSUME IInv, Rollover
    PROVE  IInv'
<1>1. now \in Nat /\ WorldTypes
    BY Numbers, TypeParts DEF IInv
<1>2. /\ writeIndex < MaxIndex /\ writeIndex' = writeIndex + 1
      /\ UNCHANGED <<now, spans, rollup, aggregatorVars, cacheVars, requests>>
    BY DEF Rollover
<1>3. writeIndex \in Nat /\ writeIndex' \in 0..MaxIndex /\ 0..writeIndex \subseteq 0..writeIndex'
    BY <1>1, <1>2, MetricsQueryAssumption DEF WorldTypes, AggregatorTypes
<1>4. SpanTypes' /\ DocumentTypes'
    BY <1>1, <1>2, <1>3 DEF WorldTypes, SpanTypes, DocumentTypes
<1>5. AggregatorTypes'
    BY <1>1, <1>2, <1>3 DEF WorldTypes, AggregatorTypes, Cycles, Writes, Drafts, aggregatorVars
<1>6. RollupTrue' /\ AggregatorTrue'
    BY <1>2 DEF IInv, RollupTrue, CountsTrue, OneInEachIndex, NoneRepeated, AggregatorTrue, WriteTrue,
                NoFault, aggregatorVars
<1> QED BY <1>1, <1>2, <1>4, <1>5, <1>6, WorldGrows DEF cacheVars, WorldTypes

-----------------------------------------------------------------------------
(* The aggregator works.                                                    *)

\* What the aggregator makes of a bucket: a document for an environment, of spans of
\* the bucket.
LEMMA DocumentFields ==
    ASSUME NEW b, NEW known, NEW d \in DocumentsOf(b, known)
    PROVE  /\ d.bucket = b
           /\ d.counts = {s \in known : s.env = d.env /\ Floor(s.time) = b}
           /\ \E s \in known : s.env = d.env
           /\ d = [bucket |-> b, env |-> d.env,
                   counts |-> {s \in known : s.env = d.env /\ Floor(s.time) = b}]
<1>1. PICK e \in {s.env : s \in {s \in known : Floor(s.time) = b}} :
          d = [bucket |-> b, env |-> e, counts |-> {s \in known : s.env = e /\ Floor(s.time) = b}]
    BY DEF DocumentsOf
<1>2. \E s \in known : s.env = e
    OBVIOUS
<1> QED BY <1>1, <1>2

\* The aggregator turns to something else; the stores are as they were.
LEMMA AggregatorMoves ==
    ASSUME IInv, UNCHANGED <<now, spans, rollup, writeIndex, cacheVars, requests>>,
           AggregatorTypes', AggregatorTrue', faults' = 0 => faults = 0
    PROVE  IInv'
<1>1. now \in Nat /\ WorldTypes
    BY Numbers, TypeParts DEF IInv
<1>2. WorldTypes'
    BY <1>1 DEF WorldTypes, SpanTypes, DocumentTypes
<1>3. RollupTrue'
    BY DEF IInv, RollupTrue, CountsTrue, OneInEachIndex, NoneRepeated
<1> QED BY <1>1, <1>2, <1>3, WorldGrows DEF cacheVars

LEMMA PlanStep ==
    ASSUME IInv, Plan
    PROVE  IInv'
<1>1. /\ cycle.at = "aggregate" /\ cycle' = [cycle EXCEPT !.bucket = rolledUpTo]
      /\ UNCHANGED <<now, spans, rollup, writeIndex, rolledUpTo, inFlight, faults, cacheVars, requests>>
    BY DEF Plan
<1>2. AggregatorTypes /\ AggregatorTrue
    BY TypeParts DEF IInv, WorldTypes
<1>3. cycle'.at = "aggregate" /\ cycle'.bucket = rolledUpTo /\ cycle'.docs = {} /\ cycle' \in Cycles
    <2>1. cycle \in Cycles /\ rolledUpTo \in 0..now
        BY <1>2 DEF AggregatorTypes
    <2>2. cycle.docs = {}
        BY <1>1, <1>2 DEF AggregatorTrue, WriteTrue
    <2> QED BY <1>1, <2>1, <2>2 DEF Cycles
<1>4. AggregatorTypes'
    BY <1>1, <1>2, <1>3 DEF AggregatorTypes, Cycles, Writes, Drafts
<1>5. AggregatorTrue'
    BY <1>1, <1>2, <1>3 DEF AggregatorTrue, WriteTrue, NoFault, CountsTrue
<1> QED BY <1>1, <1>4, <1>5, AggregatorMoves

LEMMA AggregateStep ==
    ASSUME IInv, Aggregate
    PROVE  IInv'
<1> DEFINE b == cycle.bucket  docs == DocumentsOf(b, spans)
           at == IF docs = {} THEN "save" ELSE "store"
<1>1. /\ cycle.at = "aggregate" /\ b + Bucket <= now
      /\ cycle' = [cycle EXCEPT !.at = at, !.docs = docs]
      /\ UNCHANGED <<now, spans, rollup, writeIndex, rolledUpTo, inFlight, faults, cacheVars, requests>>
    BY DEF Aggregate
<1>2. AggregatorTypes /\ AggregatorTrue /\ SpanTypes
    BY TypeParts DEF IInv, WorldTypes
<1>3. b \in 0..now
    BY <1>2 DEF AggregatorTypes, Cycles
<1>4. \A d \in docs : /\ d.bucket = b /\ d.env \in Environments /\ d.counts \subseteq spans
                      /\ CountsTrue(d) /\ d \in Drafts
    <2> SUFFICES ASSUME NEW d \in docs
                 PROVE  /\ d.bucket = b /\ d.env \in Environments /\ d.counts \subseteq spans
                        /\ CountsTrue(d) /\ d \in Drafts
        OBVIOUS
    <2>1. d.env \in Environments
        BY <1>2, DocumentFields DEF SpanTypes
    <2>2. /\ d.bucket = b /\ d.counts = {s \in spans : s.env = d.env /\ Floor(s.time) = b}
          /\ d = [bucket |-> b, env |-> d.env,
                  counts |-> {s \in spans : s.env = d.env /\ Floor(s.time) = b}]
        BY DocumentFields
    <2> HIDE DEF docs
    <2>3. d.counts \subseteq spans /\ CountsTrue(d)
        BY <2>2 DEF CountsTrue
    <2>4. d \in Drafts
        BY <1>3, <2>1, <2>2 DEF Drafts
    <2> QED BY <2>1, <2>2, <2>3, <2>4
<1>5. \A d1, d2 \in docs : d1.env = d2.env => d1 = d2
    <2> DEFINE Doc(e) == [bucket |-> b, env |-> e, counts |-> {s \in spans : s.env = e /\ Floor(s.time) = b}]
    <2>1. \A d \in docs : d = Doc(d.env)
        BY DocumentFields
    <2> HIDE DEF Doc, docs
    <2> QED BY <2>1
<1>6. at \in {"save", "store"} /\ (at # "store" => docs = {})
    OBVIOUS
<1> HIDE DEF docs, at
<1>7. cycle' \in Cycles /\ cycle'.at = at /\ cycle'.bucket = b /\ cycle'.docs = docs
    BY <1>1, <1>2, <1>4, <1>6 DEF AggregatorTypes, Cycles
<1>8. AggregatorTypes'
    BY <1>1, <1>2, <1>7 DEF AggregatorTypes, Cycles, Writes, Drafts
<1>9. WriteTrue(cycle)'
    BY <1>1, <1>4, <1>5, <1>6, <1>7 DEF WriteTrue, CountsTrue
<1>10. AggregatorTrue'
    BY <1>1, <1>2, <1>7, <1>9 DEF AggregatorTrue, WriteTrue, NoFault, CountsTrue
<1> QED BY <1>1, <1>8, <1>10, AggregatorMoves

LEMMA SaveCheckpointStep ==
    ASSUME IInv, SaveCheckpoint
    PROVE  IInv'
<1> DEFINE next == cycle.bucket + Bucket
<1>1. /\ cycle.at = "save" /\ rolledUpTo' = next
      /\ cycle' = [cycle EXCEPT !.at = "aggregate", !.bucket = next]
      /\ UNCHANGED <<now, spans, rollup, writeIndex, inFlight, faults, cacheVars, requests>>
    BY DEF SaveCheckpoint
<1>2. AggregatorTypes /\ AggregatorTrue /\ DocumentTypes /\ now \in Nat /\ Bucket \in Nat \ {0}
    BY TypeParts, Numbers DEF IInv, WorldTypes
<1>3. cycle.bucket \in 0..now /\ cycle.bucket % Bucket = 0 /\ next <= now /\ cycle.docs = {}
    <2>1. cycle.bucket \in 0..now /\ cycle.bucket % Bucket = 0
        BY <1>2 DEF AggregatorTypes, Cycles
    <2>2. next <= now /\ cycle.docs = {}
        BY <1>1, <1>2 DEF AggregatorTrue, WriteTrue
    <2> QED BY <2>1, <2>2
<1>4. next \in 0..now /\ next % Bucket = 0
    BY <1>2, <1>3, NextMultiple
<1>5. cycle' \in Cycles /\ cycle'.at = "aggregate" /\ cycle'.bucket = next /\ cycle'.docs = {}
    <2> HIDE DEF next
    <2> QED BY <1>1, <1>2, <1>3, <1>4 DEF AggregatorTypes, Cycles
<1>6. \A d \in rollup : d.bucket \in Nat
    BY <1>2 DEF DocumentTypes
<1>7. faults = 0 => NoFault'
    <2> SUFFICES ASSUME faults = 0 PROVE NoFault'
        OBVIOUS
    <2>1. /\ inFlight = {} /\ cycle.bucket = rolledUpTo
          /\ \A d \in rollup : d.bucket < rolledUpTo \/ d.bucket = rolledUpTo
        BY <1>2 DEF AggregatorTrue, NoFault
    <2>2. \A d \in rollup : d.bucket < next
        BY <1>2, <1>3, <1>6, <2>1
    <2> HIDE DEF next
    <2> QED BY <1>1, <1>5, <2>1, <2>2 DEF NoFault
<1> HIDE DEF next
<1>8. AggregatorTypes'
    BY <1>1, <1>2, <1>4, <1>5 DEF AggregatorTypes, Cycles, Writes, Drafts
<1>9. AggregatorTrue'
    BY <1>1, <1>2, <1>5, <1>7 DEF AggregatorTrue, WriteTrue, CountsTrue
<1> QED BY <1>1, <1>8, <1>9, AggregatorMoves

LEMMA CycleFailsStep ==
    ASSUME IInv, CycleFails
    PROVE  IInv'
<1> DEFINE Lost(at) == [at |-> at, bucket |-> cycle.bucket, docs |-> cycle.docs, id |-> faults]
<1>1. /\ faults < MaxFaults /\ faults' = faults + 1
      /\ inFlight' = inFlight \cup {Lost(at) : at \in {cycle.at} \ {"aggregate"}}
      /\ cycle' = [at |-> "aggregate", bucket |-> rolledUpTo, docs |-> {}]
      /\ UNCHANGED <<now, spans, rollup, writeIndex, rolledUpTo, cacheVars, requests>>
    BY DEF CycleFails
<1>2. AggregatorTypes /\ AggregatorTrue /\ now \in Nat
    BY TypeParts, Numbers DEF IInv, WorldTypes
<1>3. faults \in Nat /\ faults' \in 0..MaxFaults /\ faults' # 0
    BY <1>1, <1>2, MetricsQueryAssumption DEF AggregatorTypes
<1>4. \A w \in inFlight' :
          w \in inFlight \/ (cycle.at \in {"store", "save"} /\ w = Lost(cycle.at))
    BY <1>1, <1>2 DEF AggregatorTypes, Cycles
<1>5. cycle.at \in {"store", "save"} =>
          /\ Lost(cycle.at) \in Writes /\ Lost(cycle.at).bucket % Bucket = 0
          /\ WriteTrue(Lost(cycle.at))
    BY <1>2 DEF AggregatorTypes, Cycles, Writes, AggregatorTrue, WriteTrue
<1>6. cycle' \in Cycles /\ cycle'.bucket % Bucket = 0 /\ WriteTrue(cycle')
    BY <1>1, <1>2 DEF AggregatorTypes, Cycles, WriteTrue
<1> HIDE DEF Lost
<1>7. AggregatorTypes'
    BY <1>1, <1>2, <1>3, <1>4, <1>5, <1>6 DEF AggregatorTypes, Cycles, Writes, Drafts
<1>8. WriteTrue(cycle)' /\ \A w \in inFlight' : WriteTrue(w)'
    BY <1>1, <1>2, <1>4, <1>5, <1>6 DEF AggregatorTrue, WriteTrue, CountsTrue
<1> QED BY <1>1, <1>3, <1>7, <1>8, AggregatorMoves DEF AggregatorTrue

\* What a bulk create leaves in the data stream.
LEMMA DocumentsCreated ==
    ASSUME IInv, NEW w, WriteTrue(w), w.docs \subseteq Drafts, w.bucket \in 0..now,
           w.bucket % Bucket = 0, NEW stored \in SUBSET Fresh(w.docs),
           rollup' = rollup \cup stored, UNCHANGED <<now, spans, writeIndex>>
    PROVE  /\ DocumentTypes'
           /\ \A d \in rollup' : CountsTrue(d)'
           /\ OneInEachIndex'
           /\ \A d \in stored : d.bucket = w.bucket /\ d.stored = now
           /\ \A d1, d2 \in stored : d1.env = d2.env => d1 = d2
<1>1. DocumentTypes /\ AggregatorTypes /\ RollupTrue /\ now \in Nat /\ writeIndex \in 0..writeIndex
    BY TypeParts, Numbers, MetricsQueryAssumption DEF IInv, WorldTypes, AggregatorTypes
<1>2. \A d \in stored : \E x \in w.docs :
          /\ d = Stored(x, writeIndex, now)
          /\ \A r \in rollup : ~(r.index = writeIndex /\ r.bucket = x.bucket /\ r.env = x.env)
    BY DEF Fresh
<1>3. \A x \in w.docs : /\ x.bucket = w.bucket /\ x.env \in Environments /\ x.counts \subseteq spans
                        /\ CountsTrue(x)
    BY DEF WriteTrue, Drafts
<1>4. \A x : LET d == Stored(x, writeIndex, now)
             IN  /\ d.bucket = x.bucket /\ d.env = x.env /\ d.counts = x.counts
                 /\ d.index = writeIndex /\ d.stored = now
    BY DEF Stored
<1>5. \A d \in stored : /\ d.bucket = w.bucket /\ d.index = writeIndex /\ d.stored = now
                        /\ d.env \in Environments /\ d.counts \subseteq spans /\ CountsTrue(d)
                        /\ \A r \in rollup :
                              ~(r.index = writeIndex /\ r.bucket = d.bucket /\ r.env = d.env)
    BY <1>2, <1>3, <1>4 DEF CountsTrue
<1>6. \A d1, d2 \in stored : d1.env = d2.env => d1 = d2
    <2> SUFFICES ASSUME NEW d1 \in stored, NEW d2 \in stored, d1.env = d2.env PROVE d1 = d2
        OBVIOUS
    <2>1. PICK x1 \in w.docs, x2 \in w.docs :
              d1 = Stored(x1, writeIndex, now) /\ d2 = Stored(x2, writeIndex, now)
        BY <1>2
    <2>2. x1.env = x2.env
        BY <1>4, <2>1
    <2> QED BY <2>1, <2>2 DEF WriteTrue
<1>7. DocumentTypes'
    BY <1>1, <1>5 DEF DocumentTypes
<1>8. \A d \in rollup' : CountsTrue(d)'
    BY <1>1, <1>5 DEF RollupTrue, CountsTrue
<1>9. OneInEachIndex'
    <2> SUFFICES ASSUME NEW d1 \in rollup', NEW d2 \in rollup', d1.index = d2.index,
                        d1.bucket = d2.bucket, d1.env = d2.env
                 PROVE  d1 = d2
        BY DEF OneInEachIndex
    <2>1. CASE d1 \in rollup /\ d2 \in rollup
        BY <1>1, <2>1 DEF RollupTrue, OneInEachIndex
    <2>2. CASE d1 \in stored /\ d2 \in stored
        BY <1>6, <2>2
    <2>3. ~(d1 \in rollup /\ d2 \in stored) /\ ~(d1 \in stored /\ d2 \in rollup)
        BY <1>5
    <2> QED BY <2>1, <2>2, <2>3
<1> QED BY <1>5, <1>6, <1>7, <1>8, <1>9

LEMMA BulkCreateStep ==
    ASSUME IInv, BulkCreate
    PROVE  IInv'
<1>1. /\ cycle.at = "store" /\ rollup' = rollup \cup Fresh(cycle.docs)
      /\ cycle' = [cycle EXCEPT !.at = "save", !.docs = {}]
      /\ UNCHANGED <<now, spans, writeIndex, rolledUpTo, inFlight, faults, cacheVars, requests>>
    BY DEF BulkCreate
<1>2. /\ AggregatorTypes /\ AggregatorTrue /\ RollupTrue /\ DocumentTypes /\ SpanTypes
      /\ now \in Nat /\ rolledUpTo \in Nat
    BY TypeParts, Numbers DEF IInv, WorldTypes
<1>3. /\ WriteTrue(cycle) /\ cycle.docs \subseteq Drafts /\ cycle.bucket \in 0..now
      /\ cycle.bucket % Bucket = 0
    BY <1>2 DEF AggregatorTrue, AggregatorTypes, Cycles
<1> DEFINE stored == Fresh(cycle.docs)
<1>4. /\ DocumentTypes' /\ (\A d \in rollup' : CountsTrue(d)') /\ OneInEachIndex'
      /\ \A d \in stored : d.bucket = cycle.bucket
      /\ \A d1, d2 \in stored : d1.env = d2.env => d1 = d2
    <2>1. stored \in SUBSET stored
        OBVIOUS
    <2> QED BY <1>1, <1>3, <2>1, DocumentsCreated
<1>5. rollup' = rollup \cup stored
    BY <1>1
<1> HIDE DEF stored
<1>6. cycle' \in Cycles /\ cycle'.at = "save" /\ cycle'.bucket = cycle.bucket /\ cycle'.docs = {}
    BY <1>1, <1>2 DEF AggregatorTypes, Cycles
<1>7. WorldTypes'
    BY <1>1, <1>2, <1>4, <1>6 DEF WorldTypes, SpanTypes, AggregatorTypes, Cycles, Writes, Drafts
<1>8. faults = 0 => NoneRepeated' /\ NoFault'
    <2> SUFFICES ASSUME faults = 0 PROVE NoneRepeated' /\ NoFault'
        OBVIOUS
    <2>1. /\ NoneRepeated /\ inFlight = {} /\ cycle.bucket = rolledUpTo
          /\ \A d \in rollup : d.bucket < rolledUpTo
        BY <1>1, <1>2 DEF RollupTrue, AggregatorTrue, NoFault
    <2>2. \A d \in rollup : \A e \in stored : d.bucket # e.bucket
        BY <1>2, <1>4, <2>1 DEF DocumentTypes
    <2>3. NoneRepeated'
        BY <1>4, <1>5, <2>1, <2>2 DEF NoneRepeated
    <2>4. NoFault'
        BY <1>1, <1>4, <1>5, <1>6, <2>1 DEF NoFault
    <2> QED BY <2>3, <2>4
<1>9. RollupTrue'
    BY <1>1, <1>4, <1>8 DEF RollupTrue
<1>10. AggregatorTrue'
    BY <1>1, <1>2, <1>3, <1>6, <1>8 DEF AggregatorTrue, WriteTrue, CountsTrue
<1> QED BY <1>1, <1>2, <1>5, <1>7, <1>9, <1>10, WorldGrows DEF cacheVars

LEMMA LateWriteStep ==
    ASSUME IInv, NEW w \in inFlight, LateWrite(w)
    PROVE  IInv'
<1>1. /\ inFlight' = inFlight \ {w}
      /\ UNCHANGED <<now, spans, writeIndex, cycle, faults, cacheVars, requests>>
    BY DEF LateWrite
<1>2. /\ AggregatorTypes /\ AggregatorTrue /\ RollupTrue /\ DocumentTypes /\ SpanTypes
      /\ now \in Nat /\ Bucket \in Nat \ {0}
    BY TypeParts, Numbers DEF IInv, WorldTypes
<1>3. /\ WriteTrue(w) /\ w.docs \subseteq Drafts /\ w.bucket \in 0..now
      /\ w.bucket % Bucket = 0 /\ w.at \in {"store", "save"}
    BY <1>2 DEF AggregatorTrue, AggregatorTypes, Writes
<1>4. faults # 0
    BY <1>2 DEF AggregatorTrue, NoFault
<1>5. AggregatorTrue'
    BY <1>1, <1>2, <1>4 DEF AggregatorTrue, WriteTrue, CountsTrue
<1>6. CASE w.at = "save" /\ rolledUpTo' = w.bucket + Bucket /\ UNCHANGED rollup
    <2>1. rolledUpTo' \in 0..now /\ rolledUpTo' % Bucket = 0
        BY <1>2, <1>3, <1>6, NextMultiple DEF WriteTrue
    <2>2. AggregatorTypes'
        BY <1>1, <1>2, <2>1 DEF AggregatorTypes, Cycles, Writes, Drafts
    <2> QED BY <1>1, <1>4, <1>5, <1>6, <2>2, AggregatorMoves
<1>7. ASSUME NEW stored \in SUBSET Fresh(w.docs), rollup' = rollup \cup stored, UNCHANGED rolledUpTo
      PROVE  IInv'
    <2>1. DocumentTypes' /\ (\A d \in rollup' : CountsTrue(d)') /\ OneInEachIndex'
        BY <1>1, <1>3, <1>7, DocumentsCreated
    <2>2. WorldTypes'
        BY <1>1, <1>2, <1>7, <2>1 DEF WorldTypes, SpanTypes, AggregatorTypes, Cycles, Writes, Drafts
    <2>3. RollupTrue'
        BY <1>1, <1>4, <2>1 DEF RollupTrue
    <2> QED BY <1>1, <1>2, <1>5, <1>7, <2>2, <2>3, WorldGrows DEF cacheVars
<1> QED BY <1>6, <1>7 DEF LateWrite

LEMMA AggregatorSteps ==
    ASSUME IInv, AggregatorStep
    PROVE  IInv'
BY PlanStep, AggregateStep, BulkCreateStep, SaveCheckpointStep, CycleFailsStep, LateWriteStep
   DEF AggregatorStep

-----------------------------------------------------------------------------
(* The steps of a request.                                                  *)

LEMMA QuantizeFacts ==
    ASSUME NEW t \in Nat
    PROVE  Quantize(t) \in 0..t
<1> DEFINE Q == Quantum  k == t \div Q  rest == t % Q
<1>1. Q \in Int /\ Q > 0
    BY MetricsQueryAssumption
<1>2. k \in Int /\ rest \in 0..(Q - 1) /\ t = Q * k + rest
    <2> HIDE DEF Q
    <2>1. t \div Q \in Int /\ t % Q \in 0..(Q - 1)
        BY <1>1
    <2>2. t = Q * (t \div Q) + (t % Q)
        BY <1>1, SMTT(30)
    <2> QED BY <2>1, <2>2
<1>3. Quantize(t) = t - rest
    BY DEF Quantize
<1> HIDE DEF Q, k, rest
<1>4. k >= 0
    <2> SUFFICES ASSUME k + 1 <= 0 PROVE FALSE
        BY <1>2
    <2>1. Q * (k + 1) <= 0 /\ Q * (k + 1) = Q * k + Q
        BY <1>1, <1>2
    <2> QED BY <1>1, <1>2, <2>1
<1>5. Q * k >= 0
    BY <1>1, <1>2, <1>4
<1> QED BY <1>1, <1>2, <1>3, <1>5

\* The conditions on a record that a request goes on with.
StageTrue(r) ==
    /\ r.at \in {"rollupLookup", "rollupSearch", "rollupStore"} => UsesRollup(r.query)
    /\ r.at \in {"lookup", "rollupLookup", "rollupStore", "store"} => r.query.sliding
    /\ r.query.sliding => r.knownBy = r.query.to

RecordTrue(r) == StageTrue(r) /\ DocsTrue(r.query, r.docs) /\ RawTrue(r.query, r.raw)

LEMMA AskingIsTrue ==
    ASSUME IInv, NEW c \in Clients, requests[c].at # "idle"
    PROVE  RecordTrue(requests[c])
BY AskingHasRecord DEF IInv, StagesTrue, RequestsTrue, RecordTrue, StageTrue

LEMMA WorldStays ==
    ASSUME WorldTypes, RollupTrue, AggregatorTrue, UNCHANGED <<now, dataVars>>
    PROVE  WorldTypes' /\ RollupTrue' /\ AggregatorTrue'
<1>1. WorldTypes'
    BY DEF WorldTypes, SpanTypes, DocumentTypes, AggregatorTypes, Cycles, Writes, Drafts, dataVars,
           aggregatorVars
<1>2. RollupTrue'
    BY DEF RollupTrue, CountsTrue, OneInEachIndex, NoneRepeated, dataVars, aggregatorVars
<1>3. AggregatorTrue'
    BY DEF AggregatorTrue, WriteTrue, CountsTrue, NoFault, dataVars, aggregatorVars
<1> QED BY <1>1, <1>2, <1>3

\* A request becomes a record that is true, or ends; the caches stay good.
LEMMA RequestMoves ==
    ASSUME IInv, NEW c \in Clients, NEW r \in {Idle} \cup Records, Becomes(c, r),
           r # Idle => RecordTrue(r),
           UNCHANGED <<now, dataVars>>, CacheTypes', CachesTrue'
    PROVE  IInv'
<1> USE DEF IInv
<1>1. WorldTypes /\ RequestTypes /\ RollupTrue /\ AggregatorTrue
    BY TypeParts
<1>2. WorldTypes' /\ RollupTrue' /\ AggregatorTrue'
    BY <1>1, WorldStays
<1>3. requests' = [requests EXCEPT ![c] = r]
    BY DEF Becomes
<1>4. Records' = Records
    BY DEF Records, dataVars
<1>5. RequestTypes'
    BY <1>1, <1>3, <1>4 DEF RequestTypes
<1>6. TypeOK'
    BY <1>2, <1>5, TypeParts, PTL
<1>7. \A q : Older(q)' = Older(q) /\ Newer(q)' = Newer(q)
    BY DEF Older, Newer, dataVars
<1>8. \A d \in Clients : requests'[d] = IF d = c THEN r ELSE requests[d]
    BY <1>1, <1>3 DEF RequestTypes
<1>9. Idle.at = "idle"
    BY DEF Idle
<1>10. \A d \in Asking' : RecordTrue(requests'[d])
    BY <1>8, <1>9, AskingIsTrue DEF Asking
<1>11. StagesTrue' /\ RequestsTrue'
    BY <1>7, <1>10 DEF StagesTrue, RequestsTrue, RecordTrue, StageTrue, DocsTrue, RawTrue
<1> QED BY <1>2, <1>6, <1>11

LEMMA CachesStay ==
    ASSUME IInv, UNCHANGED <<dataVars, cacheVars>>
    PROVE  CacheTypes' /\ CachesTrue'
<1>1. CacheTypes /\ CachesTrue
    BY TypeParts DEF IInv
<1>2. \A q : Older(q)' = Older(q) /\ Newer(q)' = Newer(q)
    BY DEF Older, Newer, dataVars
<1> QED BY <1>1, <1>2 DEF CacheTypes, CachesTrue, OneEach, ResponseEntries, RollupEntries, DocsTrue,
                       RawTrue, dataVars, cacheVars

\* Putting an entry keeps one for each key.
LEMMA PutFacts ==
    ASSUME NEW cache, OneEach(cache), NEW key, NEW value, NEW ttl
    PROVE  /\ OneEach(Put(cache, key, value, ttl))
           /\ \A e \in Put(cache, key, value, ttl) :
                 e \in cache \/ e = [key |-> key, value |-> value, expires |-> now + ttl]
BY DEF Put, OneEach

\* A query that was not answered from a cache has nothing yet.
LEMMA NewRequest ==
    ASSUME IInv, NEW q \in Query, q.sliding => q.to \in 0..now
    PROVE  Request(q) \in Records /\ RecordTrue(Request(q))
<1> DEFINE r == Request(q)
<1>1. now \in Nat
    BY Numbers DEF IInv
<1>2. FirstFetch(q) \in {"raw", "rollupLookup", "rollupSearch"}
    BY DEF FirstFetch
<1>3. /\ r.at = (IF q.sliding THEN "lookup" ELSE FirstFetch(q))
      /\ r.query = q /\ r.knownBy = (IF q.sliding THEN q.to ELSE now)
      /\ r.docs = {} /\ r.raw = {}
    BY DEF Request
<1>4. r \in Records
    <2>1. (IF q.sliding THEN "lookup" ELSE FirstFetch(q)) \in Stages
        BY <1>2 DEF Stages
    <2>2. (IF q.sliding THEN q.to ELSE now) \in 0..now
        BY <1>1
    <2> QED BY <2>1, <2>2 DEF Request, Records
<1>5. StageTrue(r)
    <2> HIDE DEF r
    <2> QED BY <1>3 DEF StageTrue, FirstFetch
<1>6. DocsTrue(r.query, r.docs) /\ RawTrue(r.query, r.raw)
    BY <1>3 DEF DocsTrue, RawTrue
<1> QED BY <1>4, <1>5, <1>6 DEF RecordTrue

LEMMA QueriesAsked ==
    ASSUME TypeOK, NEW env \in Queried, NEW interval \in Intervals
    PROVE  /\ SlidingQuery(env, interval) \in Query
           /\ SlidingQuery(env, interval).to = Quantize(now)
           /\ Quantize(now) \in 0..now
           /\ \A window \in Windows : /\ ExplicitQuery(env, interval, window) \in Query
                                      /\ ~ExplicitQuery(env, interval, window).sliding
<1>1. now \in Nat /\ DefaultWindow \in Nat
    BY Numbers
<1>2. Quantize(now) \in 0..now
    BY <1>1, QuantizeFacts
<1>3. Quantize(now) \in Int /\ Quantize(now) - DefaultWindow \in Int
    BY <1>1, <1>2
<1>4. \A window \in Windows : window[1] \in Int /\ window[2] \in Int
    BY MetricsQueryAssumption
<1> QED BY <1>2, <1>3, <1>4 DEF SlidingQuery, ExplicitQuery, Query

LEMMA AskStep ==
    ASSUME IInv, NEW c \in Clients, Ask(c)
    PROVE  IInv'
<1>1. PICK env \in Queried, interval \in Intervals :
          \/ Becomes(c, Request(SlidingQuery(env, interval)))
          \/ \E window \in Windows : Becomes(c, Request(ExplicitQuery(env, interval, window)))
    BY DEF Ask
<1>2. PICK q \in Query : Becomes(c, Request(q)) /\ (q.sliding => q.to \in 0..now)
    BY <1>1, QueriesAsked DEF IInv
<1>3. Request(q) \in Records /\ RecordTrue(Request(q))
    BY <1>2, NewRequest
<1> QED BY <1>2, <1>3, RequestMoves, CachesStay DEF Ask

\* What a query may use depends on its environment and its window alone.
LEMMA SameWindow ==
    ASSUME NEW p, NEW q, p.env = q.env, p.from = q.from, p.to = q.to
    PROVE  /\ Older(p) = Older(q) /\ Newer(p) = Newer(q)
           /\ UsesRollup(p) <=> UsesRollup(q)
BY DEF Older, Newer, UsesRollup, RawFrom, Split, Matches

\* A key tells of its query what counts.
LEMMA KeyOfQuery ==
    ASSUME NEW q \in Query
    PROVE  /\ Older(ResponseKey(q)) = Older(q) /\ Newer(ResponseKey(q)) = Newer(q)
           /\ Older(QueryOf(RollupKey(q))) = Older(q)
           /\ ResponseKey(q) \in [env : Queried, interval : Intervals, from : Int, to : Int]
           /\ RollupKey(q) \in [env : Queried, from : Int, to : Int]
           /\ ResponseKey(q).to = q.to /\ QueryOf(RollupKey(q)).to = q.to
<1>1. q.to - Threshold + Threshold = q.to /\ Split(q) \in Int
    BY FieldsOfQuery, MetricsQueryAssumption DEF Split
<1>2. /\ ResponseKey(q).env = q.env /\ ResponseKey(q).from = q.from /\ ResponseKey(q).to = q.to
      /\ ResponseKey(q) \in [env : Queried, interval : Intervals, from : Int, to : Int]
    BY FieldsOfQuery DEF ResponseKey
<1>3. /\ QueryOf(RollupKey(q)).env = q.env /\ QueryOf(RollupKey(q)).from = q.from
      /\ QueryOf(RollupKey(q)).to = q.to
      /\ RollupKey(q) \in [env : Queried, from : Int, to : Int]
    BY <1>1, FieldsOfQuery DEF RollupKey, QueryOf, Split
<1> QED BY <1>2, <1>3, SameWindow

LEMMA LookupHitsStep ==
    ASSUME IInv, NEW c \in Clients, LookupHits(c)
    PROVE  IInv'
<1> DEFINE r == requests[c]
<1>1. PICK e \in responseCache :
          /\ e.key = ResponseKey(r.query)
          /\ Becomes(c, [r EXCEPT !.at = "answered", !.docs = e.value.docs, !.raw = e.value.raw])
    BY DEF LookupHits
<1>2. r \in Records /\ r.query \in Query /\ StageTrue(r)
    BY AskingHasRecord, AskingIsTrue DEF LookupHits, IInv, RecordTrue
<1>3. e.value.docs \subseteq rollup /\ e.value.raw \subseteq spans
    BY TypeParts DEF IInv, CacheTypes, ResponseEntries
<1>4. DocsTrue(r.query, e.value.docs) /\ RawTrue(r.query, e.value.raw)
    BY <1>1, <1>2, KeyOfQuery DEF IInv, CachesTrue, DocsTrue, RawTrue
<1> DEFINE n == [r EXCEPT !.at = "answered", !.docs = e.value.docs, !.raw = e.value.raw]
<1>5. n \in Records
    BY <1>2, <1>3 DEF Records, Stages
<1>6. /\ n.at = "answered" /\ n.query = r.query /\ n.knownBy = r.knownBy
      /\ n.docs = e.value.docs /\ n.raw = e.value.raw
    BY <1>2 DEF Records
<1>7. Becomes(c, n)
    BY <1>1
<1> HIDE DEF n, r
<1>8. RecordTrue(n)
    BY <1>2, <1>4, <1>6 DEF RecordTrue, StageTrue
<1> QED BY <1>5, <1>7, <1>8, RequestMoves, CachesStay DEF LookupHits

\* A request that goes on with what it has.
LEMMA GoesOn ==
    ASSUME IInv, NEW c \in Clients, requests[c].at # "idle", NEW at \in Stages,
           at \in {"rollupLookup", "rollupSearch", "rollupStore"} => UsesRollup(requests[c].query),
           at \in {"lookup", "rollupLookup", "rollupStore", "store"} => requests[c].query.sliding,
           Becomes(c, [requests[c] EXCEPT !.at = at]),
           UNCHANGED <<now, dataVars>>, CacheTypes', CachesTrue'
    PROVE  IInv'
<1> DEFINE r == requests[c]  n == [r EXCEPT !.at = at]
<1>1. r \in Records /\ RecordTrue(r)
    BY AskingHasRecord, AskingIsTrue DEF IInv
<1>2. n \in Records
    BY <1>1 DEF Records
<1>3. n.at = at /\ n.query = r.query /\ n.knownBy = r.knownBy /\ n.docs = r.docs /\ n.raw = r.raw
    BY <1>1 DEF Records
<1>4. RecordTrue(n)
    <2> HIDE DEF n
    <2> QED BY <1>1, <1>3 DEF RecordTrue, StageTrue
<1> QED BY <1>2, <1>4, RequestMoves

LEMMA LookupMissesStep ==
    ASSUME IInv, NEW c \in Clients, LookupMisses(c)
    PROVE  IInv'
<1> DEFINE q == requests[c].query
<1>1. q.sliding /\ requests[c].at # "idle"
    BY AskingIsTrue DEF LookupMisses, RecordTrue, StageTrue
<1>2. FirstFetch(q) \in {"raw", "rollupLookup"} /\ FirstFetch(q) \in Stages
    BY <1>1 DEF FirstFetch, Stages
<1>3. FirstFetch(q) = "rollupLookup" => UsesRollup(q)
    BY DEF FirstFetch
<1>4. Becomes(c, [requests[c] EXCEPT !.at = FirstFetch(q)]) /\ UNCHANGED <<now, dataVars, cacheVars>>
    BY DEF LookupMisses
<1> HIDE DEF q
<1> QED BY <1>1, <1>2, <1>3, <1>4, GoesOn, CachesStay DEF q

LEMMA RollupLookupMissesStep ==
    ASSUME IInv, NEW c \in Clients, RollupLookupMisses(c)
    PROVE  IInv'
<1>1. UsesRollup(requests[c].query) /\ requests[c].at # "idle"
    BY AskingIsTrue DEF RollupLookupMisses, RecordTrue, StageTrue
<1>2. "rollupSearch" \in Stages
    BY DEF Stages
<1> QED BY <1>1, <1>2, GoesOn, CachesStay DEF RollupLookupMisses

\* A request that goes on with other documents for the older part.
LEMMA GoesOnWithDocs ==
    ASSUME IInv, NEW c \in Clients, requests[c].at # "idle", NEW at \in Stages, NEW docs,
           docs \subseteq rollup, DocsTrue(requests[c].query, docs),
           at \in {"rollupLookup", "rollupSearch", "rollupStore"} => UsesRollup(requests[c].query),
           at \in {"lookup", "rollupLookup", "rollupStore", "store"} => requests[c].query.sliding,
           Becomes(c, [requests[c] EXCEPT !.at = at, !.docs = docs]),
           UNCHANGED <<now, dataVars, cacheVars>>
    PROVE  IInv'
<1> DEFINE r == requests[c]  n == [r EXCEPT !.at = at, !.docs = docs]
<1>1. r \in Records /\ RecordTrue(r)
    BY AskingHasRecord, AskingIsTrue DEF IInv
<1>2. n \in Records
    BY <1>1 DEF Records
<1>3. n.at = at /\ n.query = r.query /\ n.knownBy = r.knownBy /\ n.docs = docs /\ n.raw = r.raw
    BY <1>1 DEF Records
<1>4. RecordTrue(n)
    <2> HIDE DEF n
    <2> QED BY <1>1, <1>3 DEF RecordTrue, StageTrue
<1> QED BY <1>2, <1>4, RequestMoves, CachesStay

LEMMA RollupLookupHitsStep ==
    ASSUME IInv, NEW c \in Clients, RollupLookupHits(c)
    PROVE  IInv'
<1> DEFINE r == requests[c]
<1>1. PICK e \in rollupCache :
          e.key = RollupKey(r.query) /\ Becomes(c, [r EXCEPT !.at = "raw", !.docs = e.value])
    BY DEF RollupLookupHits
<1>2. r.query \in Query /\ r.at # "idle"
    BY AskingHasRecord DEF RollupLookupHits, IInv
<1>3. e.value \subseteq rollup
    BY TypeParts DEF IInv, CacheTypes, RollupEntries
<1>4. DocsTrue(r.query, e.value)
    BY <1>1, <1>2, KeyOfQuery DEF IInv, CachesTrue, DocsTrue
<1>5. "raw" \in Stages
    BY DEF Stages
<1> QED BY <1>1, <1>2, <1>3, <1>4, <1>5, GoesOnWithDocs DEF RollupLookupHits

LEMMA RollupSearchStep ==
    ASSUME IInv, NEW c \in Clients, RollupSearch(c)
    PROVE  IInv'
<1> DEFINE r == requests[c]  q == r.query
           at == IF q.sliding /\ RollupTtl > 0 THEN "rollupStore" ELSE "raw"
<1>1. UsesRollup(q) /\ r.at # "idle" /\ UNCHANGED <<now, dataVars, cacheVars>>
    BY AskingIsTrue DEF RollupSearch, RecordTrue, StageTrue
<1>2. "raw" \in Stages /\ at \in Stages
    BY DEF Stages
<1>3. CASE Becomes(c, [r EXCEPT !.at = "raw"])
    BY <1>1, <1>2, <1>3, GoesOn, CachesStay
<1>4. CASE \E found \in SearchResults(q) : Becomes(c, [r EXCEPT !.at = at, !.docs = InWindow(q, found)])
    <2>1. PICK found \in SearchResults(q) : Becomes(c, [r EXCEPT !.at = at, !.docs = InWindow(q, found)])
        BY <1>4
    <2>2. found \subseteq RollupMatches(q)
        BY DEF SearchResults
    <2>3. InWindow(q, found) \subseteq Older(q) /\ InWindow(q, found) \subseteq rollup
        BY <1>1, <2>2 DEF InWindow, RollupMatches, SearchTo, Older
    <2>4. at = "rollupStore" => q.sliding
        OBVIOUS
    <2>5. at \in {"raw", "rollupStore"}
        OBVIOUS
    <2> HIDE DEF at, q
    <2> QED BY <1>1, <1>2, <2>1, <2>3, <2>4, <2>5, GoesOnWithDocs DEF DocsTrue, q
<1> QED BY <1>3, <1>4 DEF RollupSearch

LEMMA RollupStoreStep ==
    ASSUME IInv, NEW c \in Clients, RollupStore(c)
    PROVE  IInv'
<1> DEFINE r == requests[c]  q == r.query
<1>1. /\ r \in Records /\ r.at # "idle" /\ q \in Query /\ "raw" \in Stages
      /\ DocsTrue(q, r.docs) /\ r.docs \subseteq rollup
    BY AskingHasRecord, AskingIsTrue DEF RollupStore, IInv, RecordTrue, Stages, Records
<1>2. UNCHANGED <<now, dataVars, responseCache>> /\ Becomes(c, [r EXCEPT !.at = "raw"])
    BY DEF RollupStore
<1>3. CacheTypes' /\ CachesTrue'
    <2>1. CASE UNCHANGED rollupCache
        BY <1>2, <2>1, CachesStay DEF cacheVars
    <2>2. CASE rollupCache' = Put(rollupCache, RollupKey(q), r.docs, RollupTtl)
        <3> DEFINE e == [key |-> RollupKey(q), value |-> r.docs, expires |-> now + RollupTtl]
        <3>1. CacheTypes /\ CachesTrue /\ now + RollupTtl \in Int
            BY TypeParts, Numbers DEF IInv
        <3>2. OneEach(rollupCache') /\ \A f \in rollupCache' : f \in rollupCache \/ f = e
            BY <2>2, <3>1, PutFacts DEF CacheTypes
        <3>3. e \in RollupEntries /\ DocsTrue(QueryOf(e.key), e.value)
            BY <1>1, <3>1, KeyOfQuery DEF RollupEntries, DocsTrue
        <3>4. ResponseEntries' = ResponseEntries /\ RollupEntries' = RollupEntries
            BY <1>2 DEF ResponseEntries, RollupEntries, dataVars
        <3>5. \A p : Older(p)' = Older(p) /\ Newer(p)' = Newer(p)
            BY <1>2 DEF Older, Newer, dataVars
        <3> HIDE DEF e
        <3>6. CacheTypes'
            BY <1>2, <3>1, <3>2, <3>3, <3>4 DEF CacheTypes, OneEach
        <3>7. CachesTrue'
            BY <1>2, <3>1, <3>2, <3>3, <3>5 DEF CachesTrue, DocsTrue, RawTrue
        <3> QED BY <3>6, <3>7
    <2> QED BY <2>1, <2>2 DEF RollupStore
<1> QED BY <1>1, <1>2, <1>3, GoesOn

LEMMA RawSearchStep ==
    ASSUME IInv, NEW c \in Clients, RawSearch(c)
    PROVE  IInv'
<1> DEFINE r == requests[c]  q == r.query
           n == [r EXCEPT !.at = IF q.sliding THEN "store" ELSE "answered", !.raw = RawMatches(q)]
<1>1. r \in Records /\ RecordTrue(r)
    BY AskingHasRecord, AskingIsTrue DEF RawSearch, IInv
<1>2. RawMatches(q) \subseteq Newer(q) /\ RawMatches(q) \subseteq spans
    BY DEF RawMatches, Newer
<1>3. n \in Records
    BY <1>1, <1>2 DEF Records, Stages
<1>4. /\ n.at = (IF q.sliding THEN "store" ELSE "answered") /\ n.query = q
      /\ n.knownBy = r.knownBy /\ n.docs = r.docs /\ n.raw = RawMatches(q)
    BY <1>1 DEF Records
<1>5. RecordTrue(n)
    <2> HIDE DEF n
    <2> QED BY <1>1, <1>2, <1>4 DEF RecordTrue, StageTrue, RawTrue
<1> QED BY <1>3, <1>5, RequestMoves, CachesStay DEF RawSearch

LEMMA StoreStep ==
    ASSUME IInv, NEW c \in Clients, Store(c)
    PROVE  IInv'
<1> DEFINE r == requests[c]  q == r.query  value == [docs |-> r.docs, raw |-> r.raw]
<1>1. /\ r \in Records /\ r.at # "idle" /\ q \in Query /\ "answered" \in Stages
      /\ DocsTrue(q, r.docs) /\ RawTrue(q, r.raw)
      /\ r.docs \subseteq rollup /\ r.raw \subseteq spans
    BY AskingHasRecord, AskingIsTrue DEF Store, IInv, RecordTrue, Stages, Records
<1>2. UNCHANGED <<now, dataVars, rollupCache>> /\ Becomes(c, [r EXCEPT !.at = "answered"])
    BY DEF Store
<1>3. CacheTypes' /\ CachesTrue'
    <2>1. CASE UNCHANGED responseCache
        BY <1>2, <2>1, CachesStay DEF cacheVars
    <2>2. CASE responseCache' = Put(responseCache, ResponseKey(q), value, ResponseTtl)
        <3> DEFINE e == [key |-> ResponseKey(q), value |-> value, expires |-> now + ResponseTtl]
        <3>1. CacheTypes /\ CachesTrue /\ now + ResponseTtl \in Int
            BY TypeParts, Numbers DEF IInv
        <3>2. OneEach(responseCache') /\ \A f \in responseCache' : f \in responseCache \/ f = e
            BY <2>2, <3>1, PutFacts DEF CacheTypes
        <3>3. value \in [docs : SUBSET rollup, raw : SUBSET spans]
            BY <1>1
        <3>4. e \in ResponseEntries /\ DocsTrue(e.key, e.value.docs) /\ RawTrue(e.key, e.value.raw)
            BY <1>1, <3>1, <3>3, KeyOfQuery DEF ResponseEntries, DocsTrue, RawTrue
        <3>5. ResponseEntries' = ResponseEntries /\ RollupEntries' = RollupEntries
            BY <1>2 DEF ResponseEntries, RollupEntries, dataVars
        <3>6. \A p : Older(p)' = Older(p) /\ Newer(p)' = Newer(p)
            BY <1>2 DEF Older, Newer, dataVars
        <3> HIDE DEF e
        <3>7. CacheTypes'
            BY <1>2, <3>1, <3>2, <3>4, <3>5 DEF CacheTypes, OneEach
        <3>8. CachesTrue'
            BY <1>2, <3>1, <3>2, <3>4, <3>6 DEF CachesTrue, DocsTrue, RawTrue
        <3> QED BY <3>7, <3>8
    <2> QED BY <2>1, <2>2 DEF Store
<1> QED BY <1>1, <1>2, <1>3, GoesOn

LEMMA SearchFailsStep ==
    ASSUME IInv, NEW c \in Clients, SearchFails(c)
    PROVE  IInv'
BY RequestMoves, CachesStay DEF SearchFails

-----------------------------------------------------------------------------
(* The invariant holds.                                                     *)

LEMMA InvInit == Init => IInv
<1> SUFFICES ASSUME Init PROVE IInv
    OBVIOUS
<1>1. /\ Start \in Nat /\ Horizon \in Nat /\ Start <= Horizon /\ Bucket \in Nat \ {0}
      /\ PastRolledUpTo \in Nat /\ PastRolledUpTo % Bucket = 0 /\ PastRolledUpTo <= Start
      /\ \A s \in Past : s.time \in 0..Start /\ s.seen \in 0..Start /\ s.env \in Environments
    BY MetricsQueryAssumption
<1>2. /\ now = Start /\ spans = Past /\ rolledUpTo = PastRolledUpTo
      /\ responseCache = {} /\ rollupCache = {} /\ requests = [c \in Clients |-> Idle]
    BY DEF Init
<1> DEFINE Doc(b, e) == [bucket |-> b, env |-> e, index |-> 0, stored |-> b + Bucket,
                         counts |-> {s \in Past : s.env = e /\ Floor(s.time) = b}]
<1>3. \A d \in rollup : \E b \in 0..(PastRolledUpTo - 1) :
          b % Bucket = 0 /\ \E x \in DocumentsOf(b, Past) : d = Stored(x, 0, b + Bucket)
    BY DEF Init
<1>4. \A d \in rollup :
          /\ d.bucket \in 0..(PastRolledUpTo - 1) /\ d.bucket % Bucket = 0
          /\ d.stored = d.bucket + Bucket /\ d.env \in Environments /\ d.index = 0
          /\ d.counts = {s \in Past : s.env = d.env /\ Floor(s.time) = d.bucket}
          /\ d = Doc(d.bucket, d.env)
    <2> SUFFICES ASSUME NEW d \in rollup, NEW b \in 0..(PastRolledUpTo - 1), b % Bucket = 0,
                        NEW x \in DocumentsOf(b, Past), d = Stored(x, 0, b + Bucket)
                 PROVE  /\ d.bucket = b /\ d.stored = b + Bucket /\ d.env \in Environments /\ d.index = 0
                        /\ d.counts = {s \in Past : s.env = d.env /\ Floor(s.time) = b}
                        /\ d = Doc(b, d.env)
        BY <1>3
    <2>1. /\ x.bucket = b /\ x.env \in Environments
          /\ x.counts = {s \in Past : s.env = x.env /\ Floor(s.time) = b}
        BY <1>1, DocumentFields
    <2> QED BY <2>1 DEF Stored
<1> HIDE DEF Doc
<1>5. \A d \in rollup : d.bucket + Bucket <= PastRolledUpTo
    BY <1>1, <1>4, MultiplesApart
<1>6. WorldTypes
    <2>1. SpanTypes
        BY <1>1, <1>2 DEF SpanTypes
    <2>2. DocumentTypes
        BY <1>1, <1>2, <1>4, <1>5 DEF DocumentTypes, Init
    <2>3. AggregatorTypes
        BY <1>1, <1>2, MetricsQueryAssumption DEF AggregatorTypes, Cycles, Init
    <2> QED BY <2>1, <2>2, <2>3 DEF WorldTypes
<1>7. RollupTrue
    <2>1. \A d \in rollup : CountsTrue(d)
        BY <1>4 DEF CountsTrue
    <2>2. NoneRepeated
        BY <1>4 DEF NoneRepeated
    <2> QED BY <2>1, <2>2 DEF RollupTrue, NoneRepeated, OneInEachIndex
<1>71. AggregatorTrue
    <2>1. cycle = [at |-> "aggregate", bucket |-> PastRolledUpTo, docs |-> {}] /\ inFlight = {}
        BY DEF Init
    <2>2. WriteTrue(cycle)
        BY <2>1 DEF WriteTrue
    <2>3. NoFault
        BY <1>1, <1>2, <1>4, <2>1 DEF NoFault
    <2> QED BY <2>1, <2>2, <2>3 DEF AggregatorTrue
<1>8. CacheTypes /\ RequestTypes /\ CachesTrue
    BY <1>2 DEF CacheTypes, RequestTypes, CachesTrue, OneEach
<1>9. StagesTrue /\ RequestsTrue
    BY <1>2 DEF StagesTrue, RequestsTrue, Asking, Idle
<1> QED BY <1>6, <1>7, <1>71, <1>8, <1>9, TypeParts DEF IInv

LEMMA StutterStep ==
    ASSUME IInv, UNCHANGED vars
    PROVE  IInv'
<1>1. WorldTypes' /\ RollupTrue' /\ AggregatorTrue'
    BY TypeParts, WorldStays DEF vars, IInv
<1>2. now <= now' /\ UNCHANGED <<spans, rollup, responseCache, rollupCache, requests>>
    BY Numbers DEF vars, dataVars, cacheVars, IInv
<1> QED BY <1>1, <1>2, WorldGrows

LEMMA InvStep ==
    ASSUME IInv, [Next]_vars
    PROVE  IInv'
<1>1. ASSUME NEW c \in Clients, RequestStep(c)
      PROVE  IInv'
    BY <1>1, AskStep, LookupHitsStep, LookupMissesStep, RollupLookupHitsStep, RollupLookupMissesStep,
       RollupSearchStep, RollupStoreStep, RawSearchStep, StoreStep, SearchFailsStep DEF RequestStep
<1> QED BY <1>1, TickStep, SpanIndexedStep, RolloverStep, AggregatorSteps, StutterStep DEF Next

LEMMA Invariance == Spec => []IInv
BY InvInit, InvStep, PTL DEF Spec

\* Whatever is cached, forgotten, rolled up or fails, the clock, the stores, the caches
\* and the requests have their types, and a Redis key has one value.
THEOREM TypeCorrect == Spec => []TypeOK
BY Invariance, PTL DEF IInv

\* An answer of getMetrics counts only spans of the environment and the window it was
\* asked for, whichever of its parts came out of a cache.
THEOREM OnlyAskedCounted == Spec => []CountsOnlyAsked
<1>1. IInv => CountsOnlyAsked
    <2> SUFFICES ASSUME IInv, NEW c \in Clients, requests[c].at = "answered",
                        NEW s \in Counted(requests[c])
                 PROVE  Asked(requests[c].query, s)
        BY DEF CountsOnlyAsked, Answered
    <2> DEFINE r == requests[c]  q == r.query
    <2>1. q \in Query /\ DocsTrue(q, r.docs) /\ RawTrue(q, r.raw)
        BY AskingHasRecord, AskingIsTrue DEF IInv, RecordTrue
    <2>2. q.from \in Int /\ q.to \in Int /\ Split(q) \in Int /\ Threshold \in Nat \ {0} /\ Bucket \in Nat \ {0}
        BY <2>1, FieldsOfQuery, MetricsQueryAssumption
    <2>3. Split(q) = q.to - Threshold /\ (UsesRollup(q) <=> q.to - q.from > Threshold)
        BY DEF Split, UsesRollup
    <2>4. WorldTypes /\ RollupTrue
        BY TypeParts DEF IInv
    <2>5. CASE s \in r.raw
        <3>1. s.time \in Int
            BY <2>1, <2>4, <2>5, Numbers DEF IInv, WorldTypes, SpanTypes, RawTrue, Newer
        <3> QED BY <2>1, <2>2, <2>3, <2>5, <3>1 DEF RawTrue, Newer, RawFrom, Asked
    <2>6. ASSUME NEW d \in r.docs, s \in d.counts
          PROVE  Asked(q, s)
        <3>1. /\ d \in rollup /\ Matches(q, d.env) /\ q.from <= d.bucket
              /\ d.bucket < Floor(Split(q))
            BY <2>1, <2>6 DEF DocsTrue, Older
        <3>2. /\ s.env = d.env /\ Floor(s.time) = d.bucket /\ s.time \in Int
              /\ d.bucket \in Int /\ d.bucket % Bucket = 0
            BY <2>4, <2>6, <3>1, Numbers DEF IInv, WorldTypes, SpanTypes, DocumentTypes, RollupTrue, CountsTrue
        <3>3. d.bucket <= s.time /\ s.time < d.bucket + Bucket
            BY <3>2, FloorFacts
        <3>4. /\ Floor(Split(q)) \in Int /\ Floor(Split(q)) <= Split(q)
              /\ d.bucket + Bucket <= Floor(Split(q))
            BY <2>2, <3>1, <3>2, FloorFacts, MultiplesApart
        <3> HIDE DEF r, q
        <3>5. q.from <= s.time /\ s.time <= q.to
            BY <2>2, <2>3, <3>1, <3>2, <3>3, <3>4
        <3> QED BY <3>1, <3>2, <3>5 DEF Asked, Matches
    <2> QED BY <2>5, <2>6 DEF Counted
<1> QED BY <1>1, Invariance, PTL

\* No span is counted from a document and from the raw spans, wherever window and split
\* fall in a bucket and whatever came from a cache.  From two documents it is counted only
\* if the aggregator failed and rolled the bucket up again after a rollover.
THEOREM CountedOnce == Spec => []CountsOnce
<1>1. IInv => CountsOnce
    <2> SUFFICES ASSUME IInv, NEW c \in Clients, requests[c].at = "answered"
                 PROVE  /\ \A d \in requests[c].docs : d.counts \cap requests[c].raw = {}
                        /\ \A d1, d2 \in requests[c].docs :
                              d1 # d2 => d1.counts \cap d2.counts = {} \/ Repeated(d1, d2)
        BY DEF CountsOnce, Answered
    <2> DEFINE r == requests[c]  q == r.query
    <2>1. q \in Query /\ DocsTrue(q, r.docs) /\ RawTrue(q, r.raw)
        BY AskingHasRecord, AskingIsTrue DEF IInv, RecordTrue
    <2>2. Split(q) \in Int /\ Bucket \in Nat \ {0}
        BY <2>1, FieldsOfQuery, MetricsQueryAssumption
    <2>3. WorldTypes /\ RollupTrue
        BY TypeParts DEF IInv
    <2>4. ASSUME NEW d \in r.docs, NEW s \in d.counts, s \in r.raw
          PROVE  FALSE
        <3>1. d \in rollup /\ UsesRollup(q) /\ d.bucket < Floor(Split(q))
            BY <2>1 DEF DocsTrue, Older
        <3>2. /\ Floor(s.time) = d.bucket /\ s.time \in Int
              /\ d.bucket \in Int /\ d.bucket % Bucket = 0
            BY <2>3, <3>1, Numbers DEF IInv, WorldTypes, SpanTypes, DocumentTypes, RollupTrue, CountsTrue
        <3>3. Split(q) <= s.time
            BY <2>1, <2>4, <3>1 DEF RawTrue, Newer, RawFrom
        <3>4. /\ s.time < d.bucket + Bucket /\ d.bucket + Bucket <= Floor(Split(q))
              /\ Floor(Split(q)) \in Int /\ Floor(Split(q)) <= Split(q)
            BY <2>2, <3>1, <3>2, FloorFacts, MultiplesApart
        <3> HIDE DEF r, q
        <3> QED BY <2>2, <3>2, <3>3, <3>4
    <2>5. ASSUME NEW d1 \in r.docs, NEW d2 \in r.docs, d1 # d2, NEW s \in d1.counts, s \in d2.counts
          PROVE  Repeated(d1, d2)
        <3>1. d1 \in rollup /\ d2 \in rollup /\ d1.env = d2.env /\ d1.bucket = d2.bucket
            BY <2>1, <2>3, <2>5 DEF RollupTrue, CountsTrue, DocsTrue, Older
        <3>2. d1.index # d2.index
            BY <2>3, <2>5, <3>1 DEF RollupTrue, OneInEachIndex
        <3>3. faults # 0
            BY <2>3, <2>5, <3>1 DEF RollupTrue, NoneRepeated
        <3>4. faults \in Nat
            BY <2>3 DEF WorldTypes, AggregatorTypes
        <3> QED BY <3>1, <3>2, <3>3, <3>4 DEF Repeated
    <2> QED BY <2>4, <2>5
<1> QED BY <1>1, Invariance, PTL

-----------------------------------------------------------------------------
(* No answer misses what it must count, as long as a search for documents   *)
(* may return all there are.  It asks for one document for each bucket and  *)
(* five more, and for MaxRollupBuckets at most; there is one for each       *)
(* environment too, which matters for queries that do not name one.         *)

Width == IF AnyEnvironment \in Queried THEN Cardinality(Environments) ELSE 1

DocumentsFit ==
    /\ IsFiniteSet(Environments)
    /\ \A length \in Lengths :
           LET buckets == length \div Bucket + 1
           IN  buckets * Width <= MaxRollupBuckets /\ buckets * (Width - 1) <= 5

LEMMA MinOfTwo ==
    ASSUME NEW a \in Int, NEW b \in Int
    PROVE  Min({a, b}) = IF a <= b THEN a ELSE b
<1> DEFINE m == IF a <= b THEN a ELSE b
<1>1. m \in {a, b} /\ \A y \in {a, b} : m <= y
    OBVIOUS
<1>2. \A x \in {a, b} : (\A y \in {a, b} : x <= y) => x = m
    OBVIOUS
<1> HIDE DEF m
<1>3. (CHOOSE x \in {a, b} : \A y \in {a, b} : x <= y) = m
    BY <1>1, <1>2
<1> QED BY <1>3 DEF Min, m

\* A product grows with its first factor.
LEMMA MoreBuckets ==
    ASSUME NEW n \in Nat, NEW m \in Nat, n <= m, NEW w \in Nat, NEW limit \in Int,
           m * w <= limit, m * (w - 1) <= 5
    PROVE  n * w \in Nat /\ n * w <= limit /\ n * w <= n + 5
<1>1. n * w <= m * w /\ n * w \in Nat
    OBVIOUS
<1>2. CASE w = 0
    BY <1>1, <1>2
<1>3. CASE w # 0
    <2>1. w - 1 \in Nat /\ n * w = n * (w - 1) + n
        BY <1>3
    <2> DEFINE v == w - 1
    <2>2. v \in Nat /\ n * v <= m * v /\ n * v \in Int /\ m * v \in Int
        <3>1. v \in Nat
            BY <2>1
        <3> HIDE DEF v
        <3> QED BY <3>1
    <2> QED BY <1>1, <2>1, <2>2
<1> QED BY <1>2, <1>3

LEMMA QuotientOfMultiple ==
    ASSUME NEW k \in Int
    PROVE  (Bucket * k) \div Bucket = k
<1> DEFINE B == Bucket
<1>1. B \in Int /\ B > 0
    BY MetricsQueryAssumption
<1>2. (B * k) % B = 0 /\ B * k \in Int
    BY <1>1, Multiple
<1>3. PICK l \in Int : l = (B * k) \div B /\ B * k = B * l + 0
    BY <1>2, Division
<1> HIDE DEF B
<1>4. B * k = B * l
    BY <1>1, <1>3
<1>5. ~(k < l) /\ ~(l < k)
    BY <1>1, <1>3, <1>4
<1> QED BY <1>3, <1>5 DEF B

\* How many buckets the older part of a window touches.
LEMMA BucketsOfWindow ==
    ASSUME NEW from \in Int, NEW to \in Int,
           NEW lo \in Int, NEW hi \in Int, lo < hi,
           Floor(from) = Bucket * lo, Floor(to - Threshold) = Bucket * hi
    PROVE  hi - lo <= (to - from) \div Bucket + 1
<1> DEFINE B == Bucket  l == (to - from) \div B  rest == (to - from) % B
<1>1. B \in Int /\ B > 0 /\ Threshold \in Int /\ Threshold > 0
    BY MetricsQueryAssumption
<1>2. l \in Int /\ to - from = B * l + rest /\ rest \in 0..(B - 1)
    BY Division
<1>3. from < B * lo + B /\ B * hi <= to - Threshold
    BY <1>1, FloorFacts
<1> HIDE DEF B, l, rest
<1>4. B * hi < B * lo + B * l + B + B
    <2>1. B * hi \in Int /\ B * lo \in Int /\ B * l \in Int
        BY <1>1, <1>2
    <2> QED BY <1>1, <1>2, <1>3, <2>1
<1>5. B * (hi - lo) < B * (l + 2)
    <2>1. B * (hi - lo) = B * hi - B * lo /\ B * (l + 2) = B * l + B + B
        BY <1>1, <1>2
    <2> QED BY <1>1, <1>2, <1>4, <2>1
<1>6. hi - lo < l + 2
    BY <1>1, <1>2, <1>5
<1> QED BY <1>2, <1>6 DEF B, l

\* A search may return all documents that match.
LEMMA FewDocuments ==
    ASSUME TypeOK, NoneRepeated, DocumentsFit, NEW q \in Query, q.to - q.from \in Lengths,
           UsesRollup(q), SearchTo(q) > Floor(q.from)
    PROVE  /\ IsFiniteSet(RollupMatches(q))
           /\ Min({SearchSize(q), Cardinality(RollupMatches(q))}) = Cardinality(RollupMatches(q))
<1> DEFINE B == Bucket
           from == Floor(q.from)  to == SearchTo(q)
           envs == IF q.env = AnyEnvironment THEN Environments ELSE {q.env}
           matches == RollupMatches(q)
<1>1. /\ q.from \in Int /\ q.to \in Int /\ Split(q) \in Int /\ B \in Int /\ B > 0
      /\ from \in Int /\ to \in Int /\ from % B = 0 /\ to % B = 0
    BY FieldsOfQuery, FloorFacts, MetricsQueryAssumption DEF SearchTo
<1>2. PICK lo \in Int, hi \in Int : from = B * lo /\ to = B * hi
    BY <1>1, Quotient
<1>3. lo < hi
    <2> HIDE DEF B, from, to
    <2>1. B * lo < B * hi
        BY <1>1, <1>2 DEF from, to
    <2> QED BY <1>1, <1>2, <2>1
<1>4. hi - lo <= (q.to - q.from) \div B + 1
    BY <1>1, <1>2, <1>3, BucketsOfWindow DEF SearchTo, Split
<1>5. (to - from) \div B = hi - lo
    <2>1. to - from = B * (hi - lo)
        <3> HIDE DEF B, from, to
        <3> QED BY <1>1, <1>2
    <2>2. (B * (hi - lo)) \div B = hi - lo
        BY QuotientOfMultiple
    <2> QED BY <2>1, <2>2
<1>6. IsFiniteSet(envs) /\ Cardinality(envs) \in Nat /\ Cardinality(envs) <= Width /\ Width \in Nat
    <2>1. IsFiniteSet(Environments) /\ Cardinality(Environments) \in Nat
        BY FS_CardinalityType DEF DocumentsFit
    <2>2. CASE q.env = AnyEnvironment
        BY <2>1, <2>2, FieldsOfQuery DEF Width
    <2>3. CASE q.env # AnyEnvironment
        <3>1. q.env \in Environments
            BY <2>3, FieldsOfQuery, MetricsQueryAssumption
        <3>2. Cardinality(Environments) >= 1
            BY <2>1, <3>1, FS_EmptySet
        <3>3. IsFiniteSet({q.env}) /\ Cardinality({q.env}) = 1
            BY FS_Singleton
        <3>4. envs = {q.env}
            BY <2>3
        <3> QED BY <2>1, <3>2, <3>3, <3>4 DEF Width
    <2> QED BY <2>2, <2>3
<1> DEFINE places == (lo..(hi - 1)) \X envs
           place == [d \in matches |-> <<d.bucket \div B, d.env>>]
<1>7. \A d \in matches : /\ d \in rollup /\ d.env \in envs /\ d.bucket \in Int /\ d.bucket % B = 0
                         /\ from <= d.bucket /\ d.bucket < to
    <2>1. WorldTypes
        BY TypeParts
    <2> QED BY <2>1, Numbers DEF RollupMatches, Matches, WorldTypes, DocumentTypes
<1>8. \A d \in matches : \E k \in lo..(hi - 1) : d.bucket = B * k /\ d.bucket \div B = k
    <2> SUFFICES ASSUME NEW d \in matches
                 PROVE  \E k \in lo..(hi - 1) : d.bucket = B * k /\ d.bucket \div B = k
        OBVIOUS
    <2>1. PICK k \in Int : d.bucket = B * k
        BY <1>7, Quotient
    <2>2. d.bucket \div B = k
        BY <2>1, QuotientOfMultiple
    <2>3. lo <= k /\ k < hi
        <3>1. B * lo <= B * k /\ B * k < B * hi
            BY <1>2, <1>7, <2>1
        <3> HIDE DEF B
        <3> QED BY <1>1, <1>2, <2>1, <3>1
    <2> QED BY <1>2, <2>1, <2>2, <2>3
<1>9. place \in Injection(matches, places)
    <2> HIDE DEF matches, envs, B
    <2>1. place \in [matches -> places]
        BY <1>7, <1>8 DEF matches
    <2>2. \A d1, d2 \in matches : place[d1] = place[d2] => d1 = d2
        <3> SUFFICES ASSUME NEW d1 \in matches, NEW d2 \in matches, place[d1] = place[d2]
                     PROVE  d1 = d2
            OBVIOUS
        <3>1. d1.bucket \div B = d2.bucket \div B /\ d1.env = d2.env
            OBVIOUS
        <3>2. d1.bucket = d2.bucket
            BY <1>8, <3>1
        <3> QED BY <1>7, <3>1, <3>2 DEF NoneRepeated
    <2> HIDE DEF place, places
    <2> QED BY <2>1, <2>2 DEF Injection, IsInjective
<1>10. IsFiniteSet(lo..(hi - 1)) /\ Cardinality(lo..(hi - 1)) = hi - lo
    BY <1>2, <1>3, FS_Interval
<1>11. IsFiniteSet(places) /\ Cardinality(places) = (hi - lo) * Cardinality(envs)
    <2> HIDE DEF envs
    <2> QED BY <1>6, <1>10, FS_Product
<1>12. /\ IsFiniteSet(matches) /\ Cardinality(matches) \in Nat
       /\ Cardinality(matches) <= (hi - lo) * Cardinality(envs)
    <2> HIDE DEF places, place, matches, envs
    <2> QED BY <1>9, <1>11, FS_Injection, FS_CardinalityType
<1>13. (hi - lo) * Cardinality(envs) <= (hi - lo) * Width
    <2> DEFINE n == hi - lo  c == Cardinality(envs)  w == Width
    <2>1. n \in Nat /\ c \in Nat /\ w \in Nat /\ c <= w
        BY <1>2, <1>3, <1>6
    <2> HIDE DEF n, c, w
    <2>2. n * c <= n * w
        BY <2>1
    <2> QED BY <2>2 DEF n, c, w
<1>14. /\ (hi - lo) * Width \in Nat
       /\ (hi - lo) * Width <= MaxRollupBuckets /\ (hi - lo) * Width <= hi - lo + 5
    <2> DEFINE n == hi - lo  m == (q.to - q.from) \div B + 1
    <2>1. m \in Int /\ n \in Nat /\ n <= m
        BY <1>1, <1>2, <1>3, <1>4, Division
    <2>2. m \in Nat
        BY <2>1
    <2>3. m * Width <= MaxRollupBuckets /\ m * (Width - 1) <= 5
        BY DEF DocumentsFit
    <2>4. MaxRollupBuckets \in Int
        BY MetricsQueryAssumption
    <2> HIDE DEF m, n
    <2>5. n * Width \in Nat /\ n * Width <= MaxRollupBuckets /\ n * Width <= n + 5
        BY <1>6, <2>1, <2>2, <2>3, <2>4, MoreBuckets
    <2> QED BY <2>5 DEF n
<1>15. SearchSize(q) \in Int /\ Cardinality(matches) <= SearchSize(q)
    <2> DEFINE card == Cardinality(matches)  n == hi - lo
               product == (hi - lo) * Width  smaller == (hi - lo) * Cardinality(envs)
    <2>1. /\ card \in Nat /\ n \in Int /\ MaxRollupBuckets \in Int
          /\ card <= smaller /\ smaller <= product /\ product \in Nat /\ smaller \in Int
          /\ product <= MaxRollupBuckets /\ product <= n + 5
        BY <1>2, <1>6, <1>12, <1>13, <1>14, MetricsQueryAssumption
    <2>2. SearchSize(q) = Min({MaxRollupBuckets, n + 5})
        BY <1>5 DEF SearchSize
    <2> HIDE DEF card, n, product, smaller, matches
    <2>3. SearchSize(q) = IF MaxRollupBuckets <= n + 5 THEN MaxRollupBuckets ELSE n + 5
        BY <2>1, <2>2, MinOfTwo
    <2> QED BY <2>1, <2>3 DEF card
<1> HIDE DEF matches
<1>16. Min({SearchSize(q), Cardinality(matches)}) = Cardinality(matches)
    BY <1>12, <1>15, MinOfTwo
<1> QED BY <1>12, <1>16 DEF matches

\* A document that is stored and a span that is indexed now were not known before.
LEMMA WorldGrowsFresh ==
    ASSUME IInv, FreshInv, WorldTypes', now <= now',
           rollup \subseteq rollup', \A d \in rollup' \ rollup : d.stored = now,
           spans \subseteq spans', \A s \in spans' \ spans : s.seen = now,
           responseCache' \subseteq responseCache, rollupCache' \subseteq rollupCache,
           requests' = requests
    PROVE  FreshInv'
<1>1. now \in Nat /\ now' \in Nat
    BY MetricsQueryAssumption, Numbers DEF IInv, WorldTypes, SpanTypes
<1>2. ASSUME NEW q, NEW known \in Int, known <= now
      PROVE  /\ \A docs : DocsFresh(q, known, docs) => DocsFresh(q, known, docs)'
             /\ \A raw : RawFresh(q, known, raw) => RawFresh(q, known, raw)'
    <2>1. {d \in Older(q)' : d.stored < known} \subseteq {d \in Older(q) : d.stored < known}
        BY <1>1, <1>2 DEF Older
    <2>2. {s \in Newer(q)' : q.from < q.to /\ s.seen < known}
              \subseteq {s \in Newer(q) : q.from < q.to /\ s.seen < known}
        BY <1>1, <1>2 DEF Newer
    <2> QED BY <2>1, <2>2 DEF DocsFresh, RawFresh
<1>3. RequestsFresh'
    <2> SUFFICES ASSUME NEW c \in Asking,
                        requests[c].query.to - requests[c].query.from \in Lengths
                 PROVE  /\ DocsFresh(requests[c].query, requests[c].knownBy, requests[c].docs)
                            => DocsFresh(requests[c].query, requests[c].knownBy, requests[c].docs)'
                        /\ RawFresh(requests[c].query, requests[c].knownBy, requests[c].raw)
                            => RawFresh(requests[c].query, requests[c].knownBy, requests[c].raw)'
        BY DEF FreshInv, RequestsFresh, Asking
    <2>1. requests[c].knownBy \in 0..now
        BY AskingHasRecord DEF IInv, Asking, Records
    <2>2. requests[c].knownBy \in Int /\ requests[c].knownBy <= now
        BY <1>1, <2>1
    <2> QED BY <1>2, <2>2
<1>4. CachesFresh'
    <2>1. ASSUME NEW e \in responseCache'
          PROVE  /\ e.key.to <= now'
                 /\ DocsFresh(e.key, e.key.to, e.value.docs)'
                 /\ RawFresh(e.key, e.key.to, e.value.raw)'
        <3>1. e \in responseCache /\ e.key.to \in Int
            BY <2>1, TypeParts DEF IInv, CacheTypes, ResponseEntries
        <3>2. e.key.to <= now /\ DocsFresh(e.key, e.key.to, e.value.docs) /\ RawFresh(e.key, e.key.to, e.value.raw)
            BY <3>1 DEF FreshInv, CachesFresh
        <3> QED BY <1>1, <1>2, <3>1, <3>2
    <2>2. ASSUME NEW e \in rollupCache'
          PROVE  /\ QueryOf(e.key).to <= now'
                 /\ DocsFresh(QueryOf(e.key), QueryOf(e.key).to, e.value)'
        <3>1. e \in rollupCache /\ QueryOf(e.key).to \in Int
            BY <2>2, TypeParts, Numbers DEF IInv, CacheTypes, RollupEntries, QueryOf
        <3>2. QueryOf(e.key).to <= now /\ DocsFresh(QueryOf(e.key), QueryOf(e.key).to, e.value)
            BY <3>1 DEF FreshInv, CachesFresh
        <3> QED BY <1>1, <1>2, <3>1, <3>2
    <2> QED BY <2>1, <2>2 DEF CachesFresh
<1> QED BY <1>3, <1>4 DEF FreshInv

LEMMA WorldFresh ==
    ASSUME IInv, FreshInv,
           \/ Tick
           \/ \E id \in NewSpans, time \in 0..Horizon, env \in Environments : SpanIndexed(id, time, env)
           \/ Rollover
           \/ AggregatorStep
           \/ UNCHANGED vars
    PROVE  FreshInv'
<1>1. now \in Nat
    BY Numbers DEF IInv
<1>2. WorldTypes'
    <2>1. IInv'
        BY TickStep, SpanIndexedStep, RolloverStep, AggregatorSteps, StutterStep
    <2> QED BY <2>1, TypeParts, PTL DEF IInv
<1>3. CASE Tick
    BY <1>1, <1>2, <1>3, WorldGrowsFresh DEF Tick, dataVars
<1>4. CASE \E id \in NewSpans, time \in 0..Horizon, env \in Environments : SpanIndexed(id, time, env)
    BY <1>1, <1>2, <1>4, WorldGrowsFresh DEF SpanIndexed, cacheVars
<1>5. CASE Rollover
    BY <1>1, <1>2, <1>5, WorldGrowsFresh DEF Rollover, cacheVars
<1>7. CASE AggregatorStep
    <2>1. \A docs : \A d \in Fresh(docs) : d.stored = now
        BY DEF Fresh, Stored
    <2>2. /\ UNCHANGED <<now, spans, cacheVars, requests>>
          /\ rollup \subseteq rollup' /\ \A d \in rollup' \ rollup : d.stored = now
        BY <1>7, <2>1 DEF AggregatorStep, Plan, Aggregate, BulkCreate, SaveCheckpoint, CycleFails, LateWrite
    <2> QED BY <1>1, <1>2, <2>2, WorldGrowsFresh DEF cacheVars
<1>6. CASE UNCHANGED vars
    BY <1>1, <1>2, <1>6, WorldGrowsFresh DEF vars, dataVars, cacheVars
<1> QED BY <1>3, <1>4, <1>5, <1>6, <1>7

RecordFresh(r) ==
    /\ r.query.to - r.query.from \in Lengths
    /\ r.at \in {"rollupStore", "raw", "store", "answered"} => DocsFresh(r.query, r.knownBy, r.docs)
    /\ r.at \in {"store", "answered"} => RawFresh(r.query, r.knownBy, r.raw)

\* What is known of a client that waits or has an answer.
LEMMA AskingIsFresh ==
    ASSUME IInv, FreshInv, NEW c \in Clients, requests[c].at # "idle"
    PROVE  /\ requests[c] \in Records /\ requests[c].query \in Query
           /\ StageTrue(requests[c]) /\ RecordFresh(requests[c])
BY AskingHasRecord, AskingIsTrue DEF IInv, FreshInv, RequestsFresh, RecordTrue, RecordFresh

\* A request becomes a record that is fresh, or ends; the caches stay fresh.
LEMMA RequestMovesFresh ==
    ASSUME IInv, FreshInv, NEW c \in Clients, NEW r, Becomes(c, r), r # Idle => RecordFresh(r),
           UNCHANGED <<now, dataVars>>, CachesFresh'
    PROVE  FreshInv'
<1>1. \A d \in Clients : requests'[d] = IF d = c THEN r ELSE requests[d]
    BY TypeParts DEF IInv, RequestTypes, Becomes
<1>2. Idle.at = "idle"
    BY DEF Idle
<1>3. \A d \in Asking' : RecordFresh(requests'[d])
    BY <1>1, <1>2, AskingIsFresh DEF Asking
<1>4. \A q : Older(q)' = Older(q) /\ Newer(q)' = Newer(q)
    BY DEF Older, Newer, dataVars
<1>5. RequestsFresh'
    BY <1>3, <1>4 DEF RequestsFresh, RecordFresh, DocsFresh, RawFresh
<1> QED BY <1>5 DEF FreshInv

LEMMA CachesStayFresh ==
    ASSUME FreshInv, UNCHANGED <<now, dataVars, cacheVars>>
    PROVE  CachesFresh'
<1>1. \A q : Older(q)' = Older(q) /\ Newer(q)' = Newer(q)
    BY DEF Older, Newer, dataVars
<1> QED BY <1>1 DEF FreshInv, CachesFresh, DocsFresh, RawFresh, dataVars, cacheVars

\* A window that is answered from raw spans has no older part.
LEMMA NoOlderPart ==
    ASSUME NEW q, ~UsesRollup(q)
    PROVE  \A known, docs : DocsFresh(q, known, docs)
BY DEF DocsFresh, Older

LEMMA LengthsAsked ==
    ASSUME TypeOK, NEW env \in Queried, NEW interval \in Intervals
    PROVE  /\ SlidingQuery(env, interval).to - SlidingQuery(env, interval).from \in Lengths
           /\ \A window \in Windows :
                  ExplicitQuery(env, interval, window).to - ExplicitQuery(env, interval, window).from
                      \in Lengths
<1>1. Quantize(now) \in Int /\ DefaultWindow \in Int
    BY Numbers, QuantizeFacts
<1>2. Quantize(now) - (Quantize(now) - DefaultWindow) = DefaultWindow
    BY <1>1
<1> QED BY <1>2 DEF SlidingQuery, ExplicitQuery, Lengths

LEMMA AskFresh ==
    ASSUME IInv, FreshInv, NEW c \in Clients, Ask(c)
    PROVE  FreshInv'
<1>1. PICK env \in Queried, interval \in Intervals :
          \/ Becomes(c, Request(SlidingQuery(env, interval)))
          \/ \E window \in Windows : Becomes(c, Request(ExplicitQuery(env, interval, window)))
    BY DEF Ask
<1>2. PICK q \in Query : Becomes(c, Request(q)) /\ q.to - q.from \in Lengths
    BY <1>1, QueriesAsked, LengthsAsked DEF IInv
<1> DEFINE r == Request(q)
<1>3. r.at = (IF q.sliding THEN "lookup" ELSE FirstFetch(q)) /\ r.query = q
    BY DEF Request
<1>4. FirstFetch(q) \in {"raw", "rollupLookup", "rollupSearch"} /\ (FirstFetch(q) = "raw" => ~UsesRollup(q))
    BY DEF FirstFetch
<1> HIDE DEF r
<1>5. RecordFresh(r)
    BY <1>2, <1>3, <1>4, NoOlderPart DEF RecordFresh
<1> QED BY <1>2, <1>5, RequestMovesFresh, CachesStayFresh DEF Ask, r

LEMMA LookupHitsFresh ==
    ASSUME IInv, FreshInv, NEW c \in Clients, LookupHits(c)
    PROVE  FreshInv'
<1> DEFINE r == requests[c]  q == r.query
<1>1. PICK e \in responseCache :
          /\ e.key = ResponseKey(q)
          /\ Becomes(c, [r EXCEPT !.at = "answered", !.docs = e.value.docs, !.raw = e.value.raw])
    BY DEF LookupHits
<1>2. r \in Records /\ q \in Query /\ StageTrue(r) /\ RecordFresh(r) /\ r.at = "lookup"
    BY AskingIsFresh DEF LookupHits
<1>3. r.knownBy = q.to /\ ResponseKey(q).to = q.to /\ ResponseKey(q).from = q.from
    BY <1>2 DEF StageTrue, ResponseKey
<1>4. DocsFresh(q, q.to, e.value.docs) /\ RawFresh(q, q.to, e.value.raw)
    BY <1>1, <1>2, <1>3, KeyOfQuery DEF FreshInv, CachesFresh, DocsFresh, RawFresh
<1> DEFINE n == [r EXCEPT !.at = "answered", !.docs = e.value.docs, !.raw = e.value.raw]
<1>5. n.query = q /\ n.knownBy = r.knownBy /\ n.docs = e.value.docs /\ n.raw = e.value.raw
    BY <1>2 DEF Records
<1> HIDE DEF n
<1>6. RecordFresh(n)
    <2> HIDE DEF r
    <2> QED BY <1>2, <1>3, <1>4, <1>5 DEF RecordFresh
<1> QED BY <1>1, <1>6, RequestMovesFresh, CachesStayFresh DEF LookupHits, n

\* A request that goes on with these documents for the older part.
LEMMA GoesOnFresh ==
    ASSUME IInv, FreshInv, NEW c \in Clients, requests[c].at # "idle",
           NEW at \in {"rollupLookup", "rollupSearch", "rollupStore", "raw"}, NEW docs,
           at \in {"rollupStore", "raw"} => DocsFresh(requests[c].query, requests[c].knownBy, docs),
           Becomes(c, [requests[c] EXCEPT !.at = at, !.docs = docs]),
           UNCHANGED <<now, dataVars>>, CachesFresh'
    PROVE  FreshInv'
<1> DEFINE r == requests[c]  n == [r EXCEPT !.at = at, !.docs = docs]
<1>1. r \in Records /\ RecordFresh(r)
    BY AskingIsFresh
<1>2. n.at = at /\ n.query = r.query /\ n.knownBy = r.knownBy /\ n.docs = docs
    BY <1>1 DEF Records
<1>3. RecordFresh(n)
    <2> HIDE DEF n
    <2> QED BY <1>1, <1>2 DEF RecordFresh
<1> QED BY <1>3, RequestMovesFresh

\* Or with those it has.
LEMMA KeepsDocs ==
    ASSUME IInv, NEW c \in Clients, requests[c].at # "idle", NEW at
    PROVE  [requests[c] EXCEPT !.at = at] = [requests[c] EXCEPT !.at = at, !.docs = requests[c].docs]
BY AskingHasRecord DEF IInv, Records

LEMMA LookupMissesFresh ==
    ASSUME IInv, FreshInv, NEW c \in Clients, LookupMisses(c)
    PROVE  FreshInv'
<1> DEFINE r == requests[c]  q == r.query
<1>1. r.at # "idle" /\ Becomes(c, [r EXCEPT !.at = FirstFetch(q)])
    BY DEF LookupMisses
<1>2. /\ FirstFetch(q) \in {"rollupLookup", "rollupSearch", "rollupStore", "raw"}
      /\ FirstFetch(q) \in {"rollupStore", "raw"} => ~UsesRollup(q)
    BY DEF FirstFetch
<1>3. Becomes(c, [r EXCEPT !.at = FirstFetch(q), !.docs = r.docs])
    BY <1>1, KeepsDocs
<1> QED BY <1>1, <1>2, <1>3, NoOlderPart, GoesOnFresh, CachesStayFresh DEF LookupMisses

LEMMA RollupLookupHitsFresh ==
    ASSUME IInv, FreshInv, NEW c \in Clients, RollupLookupHits(c)
    PROVE  FreshInv'
<1> DEFINE r == requests[c]  q == r.query
<1>1. PICK e \in rollupCache :
          e.key = RollupKey(q) /\ Becomes(c, [r EXCEPT !.at = "raw", !.docs = e.value])
    BY DEF RollupLookupHits
<1>2. q \in Query /\ StageTrue(r) /\ r.at = "rollupLookup"
    BY AskingIsFresh DEF RollupLookupHits
<1>3. r.knownBy = q.to /\ QueryOf(RollupKey(q)).to = q.to
    BY <1>2, KeyOfQuery DEF StageTrue
<1>4. DocsFresh(q, q.to, e.value)
    BY <1>1, <1>2, <1>3, KeyOfQuery DEF FreshInv, CachesFresh, DocsFresh
<1> QED BY <1>1, <1>2, <1>3, <1>4, GoesOnFresh, CachesStayFresh DEF RollupLookupHits

LEMMA RollupLookupMissesFresh ==
    ASSUME IInv, FreshInv, NEW c \in Clients, RollupLookupMisses(c)
    PROVE  FreshInv'
<1> DEFINE r == requests[c]
<1>1. r.at # "idle" /\ Becomes(c, [r EXCEPT !.at = "rollupSearch", !.docs = r.docs])
    BY KeepsDocs DEF RollupLookupMisses
<1> QED BY <1>1, GoesOnFresh, CachesStayFresh DEF RollupLookupMisses

LEMMA RollupSearchFresh ==
    ASSUME DocumentsFit, NoneRepeated, IInv, FreshInv, NEW c \in Clients, RollupSearch(c)
    PROVE  FreshInv'
<1> DEFINE r == requests[c]  q == r.query
           at == IF q.sliding /\ RollupTtl > 0 THEN "rollupStore" ELSE "raw"
<1>1. /\ r.at # "idle" /\ UNCHANGED <<now, dataVars, cacheVars>>
      /\ q \in Query /\ UsesRollup(q) /\ q.to - q.from \in Lengths
    BY AskingIsFresh DEF RollupSearch, StageTrue, RecordFresh
<1>2. /\ q.from \in Int /\ Split(q) \in Int /\ SearchTo(q) \in Int /\ Floor(q.from) \in Int
      /\ Floor(q.from) <= q.from /\ SearchTo(q) <= Split(q) /\ SearchTo(q) = Floor(Split(q))
    BY <1>1, FieldsOfQuery, FloorFacts DEF SearchTo
<1>3. \A d \in Older(q) : /\ d \in rollup /\ Matches(q, d.env) /\ d.bucket \in Int
                          /\ q.from <= d.bucket /\ d.bucket < SearchTo(q)
    <2>1. \A d \in rollup : d.bucket \in Int
        BY TypeParts, Numbers DEF IInv, WorldTypes, DocumentTypes
    <2> QED BY <1>2, <2>1 DEF Older
<1>4. CASE SearchTo(q) <= Floor(q.from) /\ Becomes(c, [r EXCEPT !.at = "raw"])
    <2>1. Older(q) = {}
        BY <1>2, <1>3, <1>4
    <2>2. Becomes(c, [r EXCEPT !.at = "raw", !.docs = r.docs])
        BY <1>1, <1>4, KeepsDocs
    <2>3. DocsFresh(q, r.knownBy, r.docs)
        BY <2>1 DEF DocsFresh
    <2> QED BY <1>1, <2>2, <2>3, GoesOnFresh, CachesStayFresh
<1>5. CASE /\ SearchTo(q) > Floor(q.from)
           /\ \E found \in SearchResults(q) : Becomes(c, [r EXCEPT !.at = at, !.docs = InWindow(q, found)])
    <2>1. PICK found \in SearchResults(q) : Becomes(c, [r EXCEPT !.at = at, !.docs = InWindow(q, found)])
        BY <1>5
    <2>2. found = RollupMatches(q)
        <3>1. /\ found \subseteq RollupMatches(q)
              /\ Cardinality(found) = Min({SearchSize(q), Cardinality(RollupMatches(q))})
            BY DEF SearchResults
        <3>2. IsFiniteSet(RollupMatches(q)) /\ Cardinality(found) = Cardinality(RollupMatches(q))
            BY <1>1, <1>5, <3>1, FewDocuments DEF IInv
        <3> QED BY <3>1, <3>2, FS_Subset
    <2>3. Older(q) \subseteq InWindow(q, found)
        BY <1>2, <1>3, <2>2 DEF RollupMatches, InWindow
    <2>4. DocsFresh(q, r.knownBy, InWindow(q, found))
        BY <2>3 DEF DocsFresh
    <2>5. at \in {"rollupLookup", "rollupSearch", "rollupStore", "raw"}
        OBVIOUS
    <2> HIDE DEF at
    <2> QED BY <1>1, <2>1, <2>4, <2>5, GoesOnFresh, CachesStayFresh
<1> QED BY <1>4, <1>5 DEF RollupSearch

LEMMA RollupStoreFresh ==
    ASSUME IInv, FreshInv, NEW c \in Clients, RollupStore(c)
    PROVE  FreshInv'
<1> DEFINE r == requests[c]  q == r.query
<1>1. /\ r \in Records /\ r.at = "rollupStore" /\ q \in Query /\ StageTrue(r) /\ RecordFresh(r)
      /\ UNCHANGED <<now, dataVars, responseCache>>
      /\ Becomes(c, [r EXCEPT !.at = "raw", !.docs = r.docs])
    BY AskingIsFresh, KeepsDocs DEF RollupStore
<1>2. DocsFresh(q, r.knownBy, r.docs) /\ r.knownBy = q.to /\ r.knownBy <= now
    BY <1>1, Numbers DEF RecordFresh, StageTrue, Records, IInv
<1>3. CachesFresh'
    <2>1. CASE UNCHANGED rollupCache
        BY <1>1, <2>1, CachesStayFresh DEF cacheVars
    <2>2. CASE rollupCache' = Put(rollupCache, RollupKey(q), r.docs, RollupTtl)
        <3> DEFINE e == [key |-> RollupKey(q), value |-> r.docs, expires |-> now + RollupTtl]
        <3>1. \A f \in rollupCache' : f \in rollupCache \/ f = e
            BY <2>2 DEF Put
        <3>2. QueryOf(e.key).to <= now /\ DocsFresh(QueryOf(e.key), QueryOf(e.key).to, e.value)
            BY <1>1, <1>2, KeyOfQuery DEF DocsFresh
        <3>3. \A p : Older(p)' = Older(p) /\ Newer(p)' = Newer(p)
            BY <1>1 DEF Older, Newer, dataVars
        <3> HIDE DEF e
        <3> QED BY <1>1, <3>1, <3>2, <3>3 DEF FreshInv, CachesFresh, DocsFresh, RawFresh
    <2> QED BY <2>1, <2>2 DEF RollupStore
<1> QED BY <1>1, <1>2, <1>3, GoesOnFresh

LEMMA RawSearchFresh ==
    ASSUME IInv, FreshInv, NEW c \in Clients, RawSearch(c)
    PROVE  FreshInv'
<1> DEFINE r == requests[c]  q == r.query
           n == [r EXCEPT !.at = IF q.sliding THEN "store" ELSE "answered", !.raw = RawMatches(q)]
<1>1. r \in Records /\ r.at = "raw" /\ q \in Query /\ RecordFresh(r)
    BY AskingIsFresh DEF RawSearch
<1>2. n.query = q /\ n.knownBy = r.knownBy /\ n.docs = r.docs /\ n.raw = RawMatches(q)
    BY <1>1 DEF Records
<1>3. q.from < q.to => RawMatches(q) = Newer(q)
    BY <1>1, FieldsOfQuery DEF RawMatches, Newer
<1>4. RawFresh(q, r.knownBy, RawMatches(q))
    BY <1>3 DEF RawFresh
<1>5. RecordFresh(n)
    <2> HIDE DEF n
    <2> QED BY <1>1, <1>2, <1>4 DEF RecordFresh
<1> QED BY <1>5, RequestMovesFresh, CachesStayFresh DEF RawSearch

LEMMA StoreFresh ==
    ASSUME IInv, FreshInv, NEW c \in Clients, Store(c)
    PROVE  FreshInv'
<1> DEFINE r == requests[c]  q == r.query  value == [docs |-> r.docs, raw |-> r.raw]
           n == [r EXCEPT !.at = "answered"]
<1>1. /\ r \in Records /\ r.at = "store" /\ q \in Query /\ StageTrue(r) /\ RecordFresh(r)
      /\ UNCHANGED <<now, dataVars, rollupCache>> /\ Becomes(c, n)
    BY AskingIsFresh DEF Store
<1>2. /\ DocsFresh(q, r.knownBy, r.docs) /\ RawFresh(q, r.knownBy, r.raw)
      /\ r.knownBy = q.to /\ r.knownBy <= now
    BY <1>1, Numbers DEF RecordFresh, StageTrue, Records, IInv
<1>3. CachesFresh'
    <2>1. CASE UNCHANGED responseCache
        BY <1>1, <2>1, CachesStayFresh DEF cacheVars
    <2>2. CASE responseCache' = Put(responseCache, ResponseKey(q), value, ResponseTtl)
        <3> DEFINE e == [key |-> ResponseKey(q), value |-> value, expires |-> now + ResponseTtl]
        <3>1. \A f \in responseCache' : f \in responseCache \/ f = e
            BY <2>2 DEF Put
        <3>2. ResponseKey(q).to = q.to /\ ResponseKey(q).from = q.from
            BY DEF ResponseKey
        <3>3. /\ e.key.to <= now
              /\ DocsFresh(e.key, e.key.to, e.value.docs) /\ RawFresh(e.key, e.key.to, e.value.raw)
            BY <1>1, <1>2, <3>2, KeyOfQuery DEF DocsFresh, RawFresh
        <3>4. \A p : Older(p)' = Older(p) /\ Newer(p)' = Newer(p)
            BY <1>1 DEF Older, Newer, dataVars
        <3> HIDE DEF e
        <3> QED BY <1>1, <3>1, <3>3, <3>4 DEF FreshInv, CachesFresh, DocsFresh, RawFresh
    <2> QED BY <2>1, <2>2 DEF Store
<1>4. n.query = q /\ n.knownBy = r.knownBy /\ n.docs = r.docs /\ n.raw = r.raw
    BY <1>1 DEF Records
<1>5. RecordFresh(n)
    <2> HIDE DEF n, r
    <2> QED BY <1>1, <1>2, <1>4 DEF RecordFresh
<1> HIDE DEF n
<1> QED BY <1>1, <1>3, <1>5, RequestMovesFresh

LEMMA SearchFailsFresh ==
    ASSUME IInv, FreshInv, NEW c \in Clients, SearchFails(c)
    PROVE  FreshInv'
BY RequestMovesFresh, CachesStayFresh DEF SearchFails

LEMMA FreshStep ==
    ASSUME DocumentsFit, NoneRepeated, IInv, FreshInv, [Next]_vars
    PROVE  FreshInv'
<1>1. ASSUME NEW c \in Clients, RequestStep(c)
      PROVE  FreshInv'
    BY <1>1, AskFresh, LookupHitsFresh, LookupMissesFresh, RollupLookupHitsFresh, RollupLookupMissesFresh,
       RollupSearchFresh, RollupStoreFresh, RawSearchFresh, StoreFresh, SearchFailsFresh DEF RequestStep
<1> QED BY <1>1, WorldFresh DEF Next

LEMMA FreshInit == Init => FreshInv
BY DEF Init, FreshInv, RequestsFresh, CachesFresh, Asking, Idle

\* Where a search may return all documents that match, an answer of getMetrics misses
\* neither a raw span nor a document of a full bucket that was there when the request
\* began or, for a sliding window, when the window ended, however long the caches keep
\* their entries.  Without that condition it may: the search is cut off, oldest first.
\* The documents of a bucket that was rolled up twice take the places of others, and so
\* the behaviours are those without.
THEOREM NothingDueMissed == DocumentsFit => (Spec /\ []NoneRepeated => []CountsWhatItMust)
<1> SUFFICES ASSUME DocumentsFit PROVE Spec /\ []NoneRepeated => []CountsWhatItMust
    OBVIOUS
<1>1. IInv /\ FreshInv => CountsWhatItMust
    <2> SUFFICES ASSUME IInv, FreshInv, NEW c \in Clients, requests[c].at = "answered",
                        NEW s \in MustCount(requests[c])
                 PROVE  s \in Counted(requests[c])
        BY DEF CountsWhatItMust, Answered
    <2> DEFINE r == requests[c]  q == r.query
    <2>1. DocsFresh(q, r.knownBy, r.docs) /\ RawFresh(q, r.knownBy, r.raw)
        BY AskingIsFresh DEF RecordFresh
    <2>2. CASE s \in {s_1 \in spans : /\ q.from < q.to /\ Asked(q, s_1)
                                     /\ RawFrom(q) <= s_1.time /\ s_1.seen < r.knownBy}
        BY <2>1, <2>2 DEF RawFresh, Newer, Asked, Counted
    <2>3. ASSUME NEW d \in rollup, UsesRollup(q), Matches(q, d.env), q.from <= d.bucket,
                 d.bucket < Floor(Split(q)), d.stored < r.knownBy, s \in d.counts
          PROVE  s \in Counted(r)
        BY <2>1, <2>3 DEF DocsFresh, Older, Counted
    <2> QED BY <2>2, <2>3 DEF MustCount
<1>2. Spec /\ []NoneRepeated => []FreshInv
    BY Invariance, FreshInit, FreshStep, PTL DEF Spec
<1> QED BY <1>1, <1>2, Invariance, PTL

=============================================================================
