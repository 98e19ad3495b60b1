------------------------------ MODULE Searches ------------------------------
(***************************************************************************)
(* The stateless requests of the query API: a trace with its logs, pages   *)
(* of spans, logs and root spans, the overview of the services, and the    *)
(* endpoints of a service with their recent traces.                        *)
(*                                                                         *)
(* A request keeps nothing between its awaits but its own local variables, *)
(* so the module follows one request, while spans and logs keep arriving   *)
(* in Elasticsearch.  A search is one step of it.  Elasticsearch orders    *)
(* hits with the same sort key as it likes, and differently each time.     *)
(*                                                                         *)
(* A query has an endpoint, terms, the exact values asked for (only those  *)
(* that were given), from and to, and, where the endpoint takes them,      *)
(* range, size, sort, limit, names, slow and percentile, with their        *)
(* defaults filled in.  The DTOs have checked it.                          *)
(***************************************************************************)
EXTENDS Integers, Sequences, FiniteSets, SequencesExt

CONSTANTS
    Documents,      \* the spans and logs that may be stored
    Doc,            \* Doc[d]: its type and fields
    NoParent,       \* parent of a root span
    Queries,        \* what may be asked
    NoQuery,        \* before anything is asked
    Alias,          \* Alias[text]: the environment that an alias stands for
    NoThreshold,    \* null, where a threshold would be
    NoTime,         \* from or to of a query that does not give it
    ShortWindow, LongWindow,    \* 15 and 60 minutes
    SpanSize, LogSize,          \* 500 and 200 documents of a trace
    EnvLimit,                   \* 5 environments of a service in the overview
    NumberText,     \* NumberText[n]: String(n) in JavaScript
    DoubleText,     \* DoubleText[n]: n as Elasticsearch writes it, "95.0" for 95
    MaxTime         \* bound: the clock

Paged == {"spans", "serviceTraces", "logs"}

\* Documents have the fields they are sorted by.  The DTOs let no size or limit below 1
\* through, and logs are sorted by their time alone.
ASSUME SearchesAssumption ==
    /\ ShortWindow \in Nat /\ LongWindow \in Nat /\ MaxTime \in Nat
    /\ SpanSize \in Nat \ {0} /\ LogSize \in Nat \ {0} /\ EnvLimit \in Nat \ {0}
    /\ IsFiniteSet(Documents)
    /\ \A d \in Documents :
           Doc[d].at \in Int /\ (Doc[d].type = "span" => Doc[d].duration \in Int)
    /\ NoQuery \notin Queries
    /\ \A q \in Queries :
           /\ q.endpoint \in Paged =>
                  /\ q.size \in Nat \ {0}
                  /\ q.sort \in {"start_time_asc", "start_time_desc"} \cup
                         IF q.endpoint = "logs" THEN {} ELSE {"duration_asc", "duration_desc"}
           /\ q.endpoint \in {"overview", "endpoints", "endpointTraces"} => q.limit \in Nat \ {0}

VARIABLES
    stored,     \* the documents a search finds
    now,        \* the clock
    stage,      \* how far the request is
    query,      \* what was asked, or NoQuery
    window,     \* the time range of the query
    result,     \* what the request has so far, field by field
    known       \* history: the documents stored when it was asked

vars == <<stored, now, stage, query, window, result, known>>

-----------------------------------------------------------------------------
(* What the repositories search for.                                        *)

Of(type) == {d \in stored : Doc[d].type = type}

HasTerms(d, terms) == \A field \in DOMAIN terms : Doc[d][field] = terms[field]

\* buildTimeRangeFilter.
InWindow(d, time) == time.from <= Doc[d].at /\ Doc[d].at <= time.to

\* buildDurationRangeFilter; a bound that is not given is not in range.
InDurationRange(d, range) ==
    /\ "min" \in DOMAIN range => range.min <= Doc[d].duration
    /\ "max" \in DOMAIN range => Doc[d].duration <= range.max

\* normalizeEnvironmentFilter: aliases are for queries alone, and logs are not asked
\* through them.
normalizeEnvironmentFilter(terms) ==
    IF "environment" \notin DOMAIN terms THEN terms
    ELSE [terms EXCEPT !.environment = IF @ \in DOMAIN Alias THEN Alias[@] ELSE @]

Server == [kind |-> "SERVER"]
Root   == [parent |-> NoParent]

\* The spans and the logs with the terms of a query.
TermSpans(q) == {d \in Of("span") : HasTerms(d, normalizeEnvironmentFilter(q.terms))}
TermLogs(q)  == {d \in Of("log") : HasTerms(d, q.terms)}

\* Those that count as requests.
ServerSpans(q) == {d \in TermSpans(q) : HasTerms(d, Server) /\ InWindow(d, window)}

-----------------------------------------------------------------------------
(* How they order, cut and group what they find.                            *)

\* resolveSort.
SortKey(d, sort) ==
    CASE sort = "duration_desc"   -> 0 - Doc[d].duration
      [] sort = "duration_asc"    -> Doc[d].duration
      [] sort = "start_time_desc" -> 0 - Doc[d].at
      [] sort = "start_time_asc"  -> Doc[d].at

\* All orders in which Elasticsearch may give the hits.
Sorted(hits, sort) ==
    {s \in SetToSeqs(hits) :
        \A m, n \in DOMAIN s : m < n => SortKey(s[m], sort) <= SortKey(s[n], sort)}

Least(a, b) == IF a < b THEN a ELSE b

FaultyCut(s, skipped, size) == SubSeq(s, skipped + 1, Least(skipped + size + 1, Len(s)))

Cut(s, skipped, size) == SubSeq(s, skipped + 1, Least(skipped + size, Len(s)))

FaultySkipped(page, size) == page * size

\* The offset of a page.
Skipped(page, size) == (page - 1) * size

\* The first in another order than that of the counts.
FaultyTopGroups(groups, count, limit) ==
    {top \in SUBSET groups : Cardinality(top) = Least(limit, Cardinality(groups))}

\* A terms aggregation: the groups with most documents.
TopGroups(groups, count, limit) ==
    {top \in SUBSET groups :
        /\ Cardinality(top) = Least(limit, Cardinality(groups))
        /\ \A g \in top, other \in groups \ top : count[g] >= count[other]}

ByField(hits, field) ==
    [value \in {Doc[d][field] : d \in hits} |-> {d \in hits : Doc[d][field] = value}]

Summary(hits) ==
    [count |-> Cardinality(hits), errors |-> Cardinality({d \in hits : Doc[d].status = "ERROR"})]

Counts(groups) == [value \in DOMAIN groups |-> Cardinality(groups[value])]

Tops(groups, limit) == TopGroups(DOMAIN groups, Counts(groups), limit)

\* Elasticsearch's percentile of the durations, by nearest rank.
Percentile(hits, p) ==
    CHOOSE x \in {Doc[d].duration : d \in hits} :
        /\ 100 * Cardinality({d \in hits : Doc[d].duration <= x}) >= p * Cardinality(hits)
        /\ 100 * Cardinality({d \in hits : Doc[d].duration < x}) < p * Cardinality(hits)

-----------------------------------------------------------------------------
(* The methods of the repositories: what a search may return.               *)

\* ApmLogRepository and SpanRepository.findByTraceId.
findByTraceId(hits, size) == {Cut(s, 0, size) : s \in Sorted(hits, "start_time_asc")}

\* A page of searchSpans, searchServiceTraces or searchLogs.
Page(hits, q, page) == {Cut(s, Skipped(page, q.size), q.size) : s \in Sorted(hits, q.sort)}

searchSpans(q, page) ==
    Page({d \in TermSpans(q) : InWindow(d, window) /\ InDurationRange(d, q.range)}, q, page)

searchServiceTraces(q, page) ==
    Page({d \in ServerSpans(q) : HasTerms(d, Root) /\ InDurationRange(d, q.range)}, q, page)

searchLogs(q, page) == Page({d \in TermLogs(q) : InWindow(d, window)}, q, page)

\* The busiest services and, of each, the busiest environments, of spans of every
\* kind; the name filter comes after the limit.
aggregateServiceOverview(q) ==
    LET services == ByField({d \in TermSpans(q) : InWindow(d, window)}, "service")
        envs     == [s \in DOMAIN services |-> ByField(services[s], "environment")]
        Picks(top) == {f \in [top -> SUBSET {Doc[d].environment : d \in stored}] :
                          \A s \in top : f[s] \in Tops(envs[s], EnvLimit)}
        Items(top, f) == UNION {{<<s, e, Summary(envs[s][e])>> : e \in f[s]} : s \in top \cap q.names}
    IN  UNION {{Items(top, f) : f \in Picks(top)} : top \in Tops(services, q.limit)}

\* The same of the endpoints of a service, by the name of their spans.
aggregateEndpointMetrics(q) ==
    LET endpoints == ByField(ServerSpans(q), "name")
    IN  {{<<e, Summary(endpoints[e])>> : e \in top \cap q.names} : top \in Tops(endpoints, q.limit)}

\* findRecentTracesByEndpoint: the latest spans, from the threshold on if there is one.
\* A threshold of 0 counts as none.
findRecentTracesByEndpoint(q, threshold) ==
    LET hits == IF threshold \in {NoThreshold, 0} THEN ServerSpans(q)
                ELSE {d \in ServerSpans(q) : threshold <= Doc[d].duration}
    IN  {Cut(s, 0, q.limit) : s \in Sorted(hits, "start_time_desc")}

\* Elasticsearch's answer to the percentile aggregation: from texts to numbers.
Percentiles(hits, p) ==
    IF hits = {} THEN DoubleText[p] :> NoThreshold ELSE DoubleText[p] :> Percentile(hits, p)

\* resolveSlowThreshold looks the percentile up by its text in JavaScript.
resolveSlowThreshold(q) ==
    LET values == Percentiles(ServerSpans(q), q.percentile)
        text   == NumberText[q.percentile]
    IN  IF text \in DOMAIN values THEN values[text] ELSE NoThreshold

-----------------------------------------------------------------------------

Init ==
    /\ stored = {}
    /\ now = 0
    /\ stage = "idle"
    /\ query = NoQuery
    /\ window = NoTime
    /\ result = <<>>
    /\ known = {}

IndexDocument(d) ==
    /\ d \notin stored
    /\ stored' = stored \cup {d}
    /\ UNCHANGED <<now, stage, query, window, result, known>>

Tick ==
    /\ now < MaxTime
    /\ now' = now + 1
    /\ UNCHANGED <<stored, stage, query, window, result, known>>

\* resolveTimeRange, with the fallback of the endpoint.
resolveTimeRange(q) ==
    LET fallback == IF q.endpoint \in {"spans", "logs"} THEN ShortWindow ELSE LongWindow
        to       == IF q.to = NoTime THEN now ELSE q.to
    IN  [from |-> IF q.from = NoTime THEN to - fallback ELSE q.from, to |-> to]

Ask(q) ==
    /\ stage = "idle"
    /\ stage' = "asked"
    /\ query' = q
    /\ window' = resolveTimeRange(q)
    /\ result' = IF q.endpoint \in Paged THEN [pages |-> <<>>] ELSE <<>>
    /\ known' = stored
    /\ UNCHANGED <<stored, now>>

\* A step of a request to an endpoint.
At(endpoint) ==
    /\ stage = "asked"
    /\ query.endpoint = endpoint
    /\ UNCHANGED <<stored, now, query, window, known>>

Has(field) == field \in DOMAIN result

Gets(field, values) ==
    \E v \in values :
        result' = [f \in {field} \cup DOMAIN result |-> IF f = field THEN v ELSE result[f]]

\* getTrace: the two searches run side by side.
FindSpans ==
    /\ At("trace") /\ ~Has("spans")
    /\ Gets("spans", findByTraceId(TermSpans(query), SpanSize))
    /\ UNCHANGED stage

FindLogs ==
    /\ At("trace") /\ ~Has("logs")
    /\ Gets("logs", findByTraceId(TermLogs(query), LogSize))
    /\ UNCHANGED stage

FaultyAnswerTrace ==
    /\ At("trace") /\ Has("spans") /\ Has("logs")
    /\ stage' = IF result.spans = <<>> \/ result.logs = <<>> THEN "notFound" ELSE "answered"
    /\ UNCHANGED result

AnswerTrace ==
    /\ At("trace") /\ Has("spans") /\ Has("logs")
    /\ stage' = IF result.spans = <<>> /\ result.logs = <<>> THEN "notFound" ELSE "answered"
    /\ UNCHANGED result

\* getOverview and getEndpointMetrics; the order of the items is left out.
GetOverview ==
    /\ At("overview")
    /\ Gets("items", aggregateServiceOverview(query))
    /\ stage' = "answered"

GetEndpointMetrics ==
    /\ At("endpoints")
    /\ Gets("items", aggregateEndpointMetrics(query))
    /\ stage' = "answered"

\* getEndpointTraces: with status SLOW there is a search before the search.
GetSlowThreshold ==
    /\ At("endpointTraces") /\ query.slow /\ ~Has("threshold")
    /\ Gets("threshold", {resolveSlowThreshold(query)})
    /\ UNCHANGED stage

GetEndpointTraces ==
    /\ At("endpointTraces") /\ (query.slow => Has("threshold"))
    /\ Gets("traces", findRecentTracesByEndpoint(query,
                          IF query.slow THEN result.threshold ELSE NoThreshold))
    /\ stage' = "answered"

Answer(pages) ==
    /\ \E page \in pages : result' = [pages |-> Append(result.pages, page)]
    /\ stage' = "answered"

NextNumber == Len(result.pages) + 1

\* search of SpanSearchService, ServiceTraceService and LogSearchService; the total
\* of hits is left out.
GetSpans         == At("spans") /\ Answer(searchSpans(query, NextNumber))
GetServiceTraces == At("serviceTraces") /\ Answer(searchServiceTraces(query, NextNumber))
GetLogs          == At("logs") /\ Answer(searchLogs(query, NextNumber))

\* A client that walks through the pages asks for the next one until one is not full.
\* A window that was not given is another one then.
NextPage ==
    /\ stage = "answered" /\ query.endpoint \in Paged
    /\ Len(Last(result.pages)) = query.size
    /\ stage' = "asked"
    /\ window' = resolveTimeRange(query)
    /\ UNCHANGED <<stored, now, query, result, known>>

\* A search fails, and the request with it.
Fail ==
    /\ stage = "asked"
    /\ stage' = "failed"
    /\ UNCHANGED <<stored, now, query, window, result, known>>

Next ==
    \/ \E d \in Documents : IndexDocument(d)
    \/ Tick
    \/ \E q \in Queries : Ask(q)
    \/ FindSpans \/ FindLogs \/ AnswerTrace
    \/ GetOverview \/ GetEndpointMetrics
    \/ GetSlowThreshold \/ GetEndpointTraces
    \/ GetSpans \/ GetServiceTraces \/ GetLogs
    \/ NextPage
    \/ Fail

Spec == Init /\ [][Next]_vars

-----------------------------------------------------------------------------
(* Properties.                                                              *)

Found(hits, size) == hits \in Seq(stored) /\ Len(hits) <= size

\* The fields have their types; what was found are documents that are stored, and not
\* more of them than the size asked for.
TypeOK ==
    /\ known \subseteq stored /\ stored \subseteq Documents
    /\ now \in 0..MaxTime
    /\ stage \in {"idle", "asked", "answered", "notFound", "failed"}
    /\ stage = "idle" <=> query = NoQuery
    /\ stage # "idle" => query \in Queries
    /\ Has("spans") => Found(result.spans, SpanSize)
    /\ Has("logs") => Found(result.logs, LogSize)
    /\ Has("traces") => Found(result.traces, query.limit)
    /\ Has("pages") =>
           /\ result.pages \in Seq(Seq(stored))
           /\ \A n \in DOMAIN result.pages : Found(result.pages[n], query.size)

Answered(endpoints) == stage = "answered" /\ query.endpoint \in endpoints

\* The documents in an answer leave out nothing that was stored when it was asked, but
\* what is later than all of a full answer.
LeavesOutOnlyLater(answer, wanted, size) ==
    \A d \in wanted \ Range(answer) :
        Len(answer) = size /\ \A e \in Range(answer) : Doc[e].at <= Doc[d].at

\* A trace that is answered has what was stored of it when it was asked for, and 404
\* means that nothing was, though its two searches see different moments.
TraceAnswerTrue ==
    /\ Answered({"trace"}) =>
           /\ LeavesOutOnlyLater(result.spans, TermSpans(query) \cap known, SpanSize)
           /\ LeavesOutOnlyLater(result.logs, TermLogs(query) \cap known, LogSize)
    /\ stage = "notFound" => (TermSpans(query) \cup TermLogs(query)) \cap known = {}

\* What a walk through the pages looks for, and what its pages have shown.
Wanted ==
    CASE query.endpoint = "logs"          -> {d \in TermLogs(query) : InWindow(d, window)}
      [] query.endpoint = "spans"         ->
             {d \in TermSpans(query) : InWindow(d, window) /\ InDurationRange(d, query.range)}
      [] query.endpoint = "serviceTraces" ->
             {d \in ServerSpans(query) : HasTerms(d, Root) /\ InDurationRange(d, query.range)}

Shown == UNION {Range(result.pages[n]) : n \in DOMAIN result.pages}

Tied(d) == \E e \in Wanted \ {d} : SortKey(e, query.sort) = SortKey(d, query.sort)

\* While documents arrive, a walk to the last page of a window that was given in full
\* skips no document that was there before, unless its place among others with
\* the same sort key is Elasticsearch's choice.
PagesSkipNothing ==
    /\ Answered(Paged)
    /\ query.from # NoTime /\ query.to # NoTime
    /\ Len(Last(result.pages)) < query.size
    => \A d \in Wanted \cap known : d \in Shown \/ Tied(d)

\* What an overview or a list of endpoints counts, by which field.
GroupField == IF query.endpoint = "overview" THEN "service" ELSE "name"

Grouped ==
    IF query.endpoint = "overview" THEN {d \in TermSpans(query) : InWindow(d, window)}
    ELSE ServerSpans(query)

\* The groups that are now at least as busy as another was when it was asked.
AsBusyAs(g) ==
    LET groups == ByField(Grouped, GroupField)
        before == ByField(Grouped \cap known, GroupField)
    IN  {other \in DOMAIN groups \ {g} : Cardinality(groups[other]) >= Cardinality(before[g])}

\* The services of an overview, or the endpoints of a service, that an answer leaves
\* out though they had requests when it was asked: each gives way to as many that
\* are at least as busy as the limit says, wanted or not.
LeavesOutOnlyLessBusy ==
    Answered({"overview", "endpoints"}) =>
        LET before == DOMAIN ByField(Grouped \cap known, GroupField)
        IN  \A g \in (before \cap query.names) \ {item[1] : item \in result.items} :
                Cardinality(AsBusyAs(g)) >= query.limit

\* The comment of findRecentTracesByEndpoint: with status SLOW only spans from the
\* percentile on.
SlowTracesAreSlow ==
    Answered({"endpointTraces"}) /\ query.slow /\ stored = known =>
        \A d \in Range(result.traces) :
            Percentile(ServerSpans(query), query.percentile) <= Doc[d].duration

=============================================================================
