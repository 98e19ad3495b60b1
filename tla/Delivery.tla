------------------------------ MODULE Delivery ------------------------------
(***************************************************************************)
(* The way of a report through panopticon: the producer server, Kafka, the *)
(* stream processor, and then Elasticsearch and, for an error log, the     *)
(* topic apm.logs.error, from where ErrorStream goes on.                   *)
(*                                                                         *)
(* The producer server is the module Producer.  The stream processor is    *)
(* what LogPipeline shows of it: each message is handled at least once and *)
(* in the order of its partition, and a document that was handed over is   *)
(* stored, or lost with the process or a failed bulk request.              *)
(***************************************************************************)
EXTENDS Producer

CONSTANTS
    MaxMishaps      \* bound: redeliveries, lost documents, failed forwards

ASSUME DeliveryAssumption == MaxMishaps \in Nat

VARIABLES
    place,      \* how many messages of a partition were handled
    stored,     \* the bag of messages whose documents were stored
    forwarded,  \* the bag of messages in apm.logs.error
    lost,       \* history: the messages whose document was lost once
    mishaps     \* history: how much of this went wrong

processorVars == <<place, stored, forwarded, lost, mishaps>>
vars == <<producerVars, processorVars>>

Event(m) == Messages[posted[m[1]]][m[2]]

BodyOf(m) == Body[posted[m[1]]]

Init ==
    /\ ProducerInit
    /\ place = [p \in Partitions |-> 0]
    /\ stored = EmptyBag
    /\ forwarded = EmptyBag
    /\ lost = {}
    /\ mishaps = 0

Mishap == mishaps < MaxMishaps /\ mishaps' = mishaps + 1

-----------------------------------------------------------------------------
(* What the consumers take as an event.                                     *)

IsSet(text) == text \notin {Absent, ""}

\* The level is written in capitals before it is checked.
UpperLevel(level) ==
    LET capitals == [debug |-> "DEBUG", info |-> "INFO", warn |-> "WARN", error |-> "ERROR"]
    IN  IF level \in DOMAIN capitals THEN capitals[level] ELSE level

\* LogEventDto.
ValidLog(event) ==
    /\ IsSet(event.service_name) /\ IsSet(event.environment) /\ IsSet(event.message)
    /\ UpperLevel(event.level) \in {"DEBUG", "INFO", "WARN", "ERROR"}

FaultyValidSpan(event) ==
    /\ IsSet(event.service_name) /\ IsSet(event.environment) /\ IsSet(event.name)
    /\ IsSet(event.trace_id) /\ IsSet(event.span_id) /\ IsSet(event.parent_span_id)
    /\ event.kind \in {"SERVER", "CLIENT", "INTERNAL"}
    /\ event.duration_ms # Missing
    /\ event.status \in {"OK", "ERROR"}

\* SpanEventDto: no messaging spans, and a duration, so a span that has ended.
ValidSpan(event) ==
    /\ IsSet(event.service_name) /\ IsSet(event.environment) /\ IsSet(event.name)
    /\ IsSet(event.trace_id) /\ IsSet(event.span_id)
    /\ event.kind \in {"SERVER", "CLIENT", "INTERNAL"}
    /\ event.duration_ms # Missing
    /\ event.status \in {"OK", "ERROR"}

Valid(m) == IF BodyOf(m).path = "logs" THEN ValidLog(Event(m)) ELSE ValidSpan(Event(m))

IsErrorLog(m) == BodyOf(m).path = "logs" /\ UpperLevel(Event(m).level) = "ERROR"

-----------------------------------------------------------------------------
(* The stream processor.                                                    *)

Current(p) == topic[p][place[p] + 1]

Handles(p) ==
    /\ place[p] < Len(topic[p])
    /\ place' = [place EXCEPT ![p] = @ + 1]
    /\ UNCHANGED producerVars

Kept(bag, m) == bag (+) SetToBag({m})

\* A message that is no event is skipped, for good.
Refuse(p) ==
    /\ Handles(p)
    /\ ~Valid(Current(p))
    /\ UNCHANGED <<stored, forwarded, lost, mishaps>>

\* A span, or a log that is not forwarded.
Store(p) ==
    /\ Handles(p)
    /\ Valid(Current(p)) /\ ~IsErrorLog(Current(p))
    /\ stored' = Kept(stored, Current(p))
    /\ UNCHANGED <<forwarded, lost, mishaps>>

\* An error log is forwarded too.
StoreAndForward(p) ==
    /\ Handles(p)
    /\ Valid(Current(p)) /\ IsErrorLog(Current(p))
    /\ stored' = Kept(stored, Current(p))
    /\ forwarded' = Kept(forwarded, Current(p))
    /\ UNCHANGED <<lost, mishaps>>

\* The message is handled and its document lost: a crash, or a bulk request that
\* stores only a part.
Lose(p) ==
    /\ Handles(p)
    /\ Valid(Current(p))
    /\ Mishap
    /\ lost' = lost \cup {Current(p)}
    /\ \/ UNCHANGED forwarded
       \/ IsErrorLog(Current(p)) /\ forwarded' = Kept(forwarded, Current(p))
    /\ UNCHANGED stored

\* An attempt to forward fails: in the end it is given up, or the next attempt comes
\* after one that was carried out all the same.
ForwardFails(p) ==
    /\ Handles(p)
    /\ Valid(Current(p)) /\ IsErrorLog(Current(p))
    /\ Mishap
    /\ stored' = Kept(stored, Current(p))
    /\ \/ UNCHANGED forwarded
       \/ forwarded' = Kept(Kept(forwarded, Current(p)), Current(p))
    /\ UNCHANGED lost

\* A crash or a rebalance before the offset is committed.
Redeliver(p) ==
    /\ place[p] > 0
    /\ Mishap
    /\ \E k \in 0..(place[p] - 1) : place' = [place EXCEPT ![p] = k]
    /\ UNCHANGED <<producerVars, stored, forwarded, lost>>

Handle(p) == Refuse(p) \/ Store(p) \/ StoreAndForward(p)

ProcessorStep(p) == Handle(p) \/ Lose(p) \/ ForwardFails(p) \/ Redeliver(p)

-----------------------------------------------------------------------------

Next ==
    \/ ProducerNext /\ UNCHANGED processorVars
    \/ \E p \in Partitions : ProcessorStep(p)

Spec == Init /\ [][Next]_vars

\* The stream processor reads on.
FairSpec == Spec /\ ProducerFairness /\ \A p \in Partitions : WF_vars(Handle(p))

-----------------------------------------------------------------------------
(* The abstract view.                                                       *)

\* What a service reports: a log, or a span that its OpenTelemetry SDK ended.
LogReport(event) ==
    [kind |-> UpperLevel(event.level), service |-> event.service_name,
     environment |-> event.environment, trace |-> event.trace_id, id |-> event.message]

SpanReport(event) ==
    [kind |-> event.kind, service |-> event.service_name, environment |-> event.environment,
     trace |-> event.trace_id, id |-> event.span_id, parent |-> event.parent_span_id,
     at |-> event.timestamp, took |-> event.duration_ms]

Report(m) == IF BodyOf(m).path = "logs" THEN LogReport(Event(m)) ELSE SpanReport(Event(m))

\* A resource is named by the value of the one attribute, or has no name.
Named(resource, key) ==
    LET names == {a.value : a \in {a \in Range(resource.attributes) : a.key = key}} \ {Absent, ""}
    IN  IF names = {} THEN "unknown" ELSE CHOOSE name \in names : TRUE

ReportedKinds ==
    [SPAN_KIND_SERVER |-> "SERVER", SPAN_KIND_CLIENT |-> "CLIENT", SPAN_KIND_INTERNAL |-> "INTERNAL"]

\* Said of the request as it came, not of what the code makes of it: the spans of
\* the three kinds that have all they need and are not of a middleware.
ReportedSpans(data) ==
    UNION {
        LET resource == data.resourceSpans[n]
        IN  {[kind |-> ReportedKinds[span.kind], service |-> Named(resource, "service.name"),
              environment |-> Named(resource, "deployment.environment"),
              trace |-> Hex[span.traceId], id |-> Hex[span.spanId],
              parent |-> IF span.parentSpanId = Absent THEN Absent ELSE Hex[span.parentSpanId],
              at |-> span.start \div NanosPerMilli, took |-> span.end - span.start] :
                span \in {s \in UNION {Range(scope) : scope \in Range(resource.scopeSpans)} :
                            /\ s.name \notin Middleware \cup {Absent}
                            /\ s.kind \in DOMAIN ReportedKinds
                            /\ s.traceId # Absent /\ s.spanId # Absent /\ s.end # Missing}} :
        n \in DOMAIN data.resourceSpans}

Reports(b) ==
    IF Body[b].rawBody /\ Body[b].path = "traces" THEN ReportedSpans(Body[b].data)
    ELSE IF Body[b].path = "logs" THEN {LogReport(e) : e \in {e \in Range(Body[b].data) : ValidLog(e)}}
    ELSE {SpanReport(e) : e \in {e \in Range(Body[b].data) : ValidSpan(e)}}

AllReports == [b \in DOMAIN Body |-> Reports(b)]

ReportsIn(states) == UNION {AllReports[posted[r]] : r \in {r \in Requests : request[r] \in states}}

Abstract == INSTANCE Telemetry WITH
    offered  <- ReportsIn({"sending", "accepted", "failed", "cut"}),
    promised <- ReportsIn({"accepted"}),
    kept     <- {Report(m) : m \in BagToSet(stored)},
    missing  <- {Report(m) : m \in lost}

-----------------------------------------------------------------------------
(* Properties.                                                              *)

\* The fields have their types, the stream processor is not ahead of the topics, and
\* only error logs are forwarded.
TypeOK ==
    /\ ProducerTypeOK
    /\ place \in [Partitions -> Nat] /\ \A p \in Partitions : place[p] <= Len(topic[p])
    /\ IsABag(stored) /\ BagToSet(stored) \subseteq SentMessages
    /\ IsABag(forwarded) /\ BagToSet(forwarded) \subseteq SentMessages
    /\ \A m \in BagToSet(forwarded) : Valid(m) /\ IsErrorLog(m)
    /\ lost \subseteq SentMessages
    /\ mishaps \in 0..MaxMishaps

\* Nothing is repeated by itself: each attempt that failed puts at most one more copy
\* of a message into Kafka, and each redelivery stores and forwards each copy at most
\* once more.
CopiesWithinFaults ==
    \A bag \in {stored, forwarded} : \A m \in BagToSet(bag) :
        bag[m] <= (1 + faults) * (1 + mishaps)

\* The pipeline as a whole keeps the promise of Telemetry: what a POST reported, read
\* from the POST and not from what the code made of it, is stored after the 202
\* unless a document was lost, and nothing else is stored.
ImplementsTelemetry ==
    Abstract!Safety /\ Abstract!Settlement(UNION Range(AllReports))

\* A span that its service reported as failed is stored as failed.
ErrorSpansStoredAsErrors ==
    \A m \in BagToSet(stored) :
        BodyOf(m).path = "traces" /\ BodyOf(m).rawBody =>
            \A resource \in Range(BodyOf(m).data.resourceSpans) :
                \A span \in UNION {Range(scope) : scope \in Range(resource.scopeSpans)} :
                    span.code = "STATUS_CODE_ERROR" /\ Event(m).span_id = base64ToHex(span.spanId)
                        => Event(m).status = "ERROR"

=============================================================================
