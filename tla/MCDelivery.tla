----------------------------- MODULE MCDelivery -----------------------------
(***************************************************************************)
(* An instance of Delivery: one POST, of logs or of spans.                 *)
(***************************************************************************)
EXTENDS Delivery, TLC

MCHex == [b1 |-> "h1", b2 |-> "h2", b3 |-> "h3", b4 |-> "h4", t1 |-> "x1", t2 |-> "x2"]

AttributeList(service, environment) ==
    <<[key |-> "host.name", value |-> "h"], [key |-> "service.name", value |-> service],
      [key |-> "deployment.environment", value |-> environment]>>

Span(trace, id, name, kind, code) ==
    [traceId |-> trace, spanId |-> id, parentSpanId |-> Absent, name |-> name, kind |-> kind,
     start |-> 7, end |-> 9, code |-> code]

\* A failed server span, a middleware span, one that sends to a queue and, of a
\* resource without an environment, a client span.
MCSpans ==
    [resourceSpans |-> <<
        [attributes |-> AttributeList("shop", "prod"),
         scopeSpans |-> << <<Span("t1", "b1", "GET /", "SPAN_KIND_SERVER", "STATUS_CODE_ERROR"),
                             Span("t1", "b2", "middleware", "SPAN_KIND_INTERNAL", Absent)>>,
                           <<Span("t2", "b3", "publish", "SPAN_KIND_PRODUCER", Absent)>> >>],
        [attributes |-> <<[key |-> "service.name", value |-> "shop"]>>,
         scopeSpans |-> << <<[Span("t1", "b4", "SELECT", "SPAN_KIND_CLIENT", "STATUS_CODE_OK")
                                 EXCEPT !.parentSpanId = "b1"]>> >>] >>]

LogEvent(service, level, trace, message) ==
    [service_name |-> service, environment |-> "prod", level |-> level, trace_id |-> trace,
     message |-> message]

MCLogs ==
    <<LogEvent("shop", "error", "x1", "failed"), LogEvent(Absent, "INFO", "x1", "no name"),
      LogEvent("shop", "ERROR", "x1", "failed again"), LogEvent("shop", "fatal", "x2", "no level")>>

\* Spans of clients that send JSON, one of which names the trace in OpenTelemetry's
\* way: it is keyed by that name, and no event for the stream processor.
MCJson ==
    LET span == transformSpan(Span("t1", "b1", "GET /", "SPAN_KIND_SERVER", Absent), "shop", "prod")
    IN  <<span, [span EXCEPT !.trace_id = Absent] @@ [traceId |-> "x2"]>>

\* A span without a start time behind a good one.
MCBroken ==
    [resourceSpans |-> <<
        [attributes |-> AttributeList("shop", "prod"),
         scopeSpans |-> << <<Span("t1", "b1", "GET /", "SPAN_KIND_SERVER", Absent),
                             [Span("t1", "b2", "SELECT", "SPAN_KIND_CLIENT", Absent)
                                 EXCEPT !.start = Missing]>> >>] >>]

MCBody ==
    [logs   |-> [path |-> "logs", rawBody |-> FALSE, data |-> MCLogs],
     spans  |-> [path |-> "traces", rawBody |-> TRUE, data |-> MCSpans],
     json   |-> [path |-> "traces", rawBody |-> FALSE, data |-> MCJson],
     broken |-> [path |-> "traces", rawBody |-> TRUE, data |-> MCBroken]]

MCPartitionFor == [x1 |-> 0, x2 |-> 1, unknown |-> 0]

=============================================================================
