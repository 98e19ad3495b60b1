--------------------------- MODULE SpanTransform ---------------------------
(***************************************************************************)
(* What the producer server makes of a POST of OpenTelemetry spans         *)
(* (producerServer/src/utils/span-transformer.ts, protobuf-decoder.ts).    *)
(*                                                                         *)
(* The input is the request as ProtobufDecoder returns it: toJSON() of     *)
(* protobufjs writes enums by their names and leaves out fields that are   *)
(* not set.  Here a text that is not set is Absent, a number Missing.      *)
(*                                                                         *)
(*   traceData [resourceSpans |-> sequence of                              *)
(*                 [attributes, scopeSpans |-> sequence of sequences of    *)
(*                                             spans]]                     *)
(*   attribute [key, value]                                                *)
(*   span      [traceId, spanId, parentSpanId, name, kind, start, end,     *)
(*              code]        start and end in nanoseconds                  *)
(*                                                                         *)
(* The HTTP fields of an event are left out, and etc, which the consumers  *)
(* strip.                                                                  *)
(***************************************************************************)
EXTENDS Integers, Sequences, SequencesExt

CONSTANTS
    Hex,            \* Hex[b]: the bytes of the base64 text b, in hexadecimal
    Middleware,     \* the span names that begin with "middleware", in any case
    NanosPerMilli   \* 1_000_000

ASSUME SpanTransformAssumption ==
    /\ NanosPerMilli \in Nat \ {0}
    /\ \A a, b \in DOMAIN Hex : Hex[a] = Hex[b] => a = b

Absent  == "absent"
Missing == -1

IsList(list) == list \in Seq(Range(list))

\* A request as it is described above.  OpenTelemetry lets a key appear once among
\* the attributes of a resource, and its names of kinds are not those of an event.
IsTraceData(traceData) ==
    /\ IsList(traceData.resourceSpans)
    /\ \A resource \in Range(traceData.resourceSpans) :
          /\ IsList(resource.attributes) /\ IsList(resource.scopeSpans)
          /\ \A a1, a2 \in Range(resource.attributes) : a1.key = a2.key => a1 = a2
          /\ \A scope \in Range(resource.scopeSpans) :
                IsList(scope) /\ \A span \in Range(scope) : span.kind \notin {"SERVER", "CLIENT", "INTERNAL"}

\* Array.filter.
filter(list, Test(_)) ==
    FlattenSeq([n \in DOMAIN list |-> IF Test(list[n]) THEN <<list[n]>> ELSE <<>>])

\* base64ToHex; an id that is not set becomes the empty text.
base64ToHex(id) == IF id = Absent THEN "" ELSE Hex[id]

\* nanoToISO, to the millisecond, for a time that is set; it throws for others.
nanoToISO(nano) == nano \div NanosPerMilli

\* calculateDuration.  The division keeps the fraction, so the number of
\* nanoseconds stands for it; NaN, which JSON writes as null, is Missing.
calculateDuration(startNano, endNano) ==
    IF endNano = Missing THEN Missing ELSE endNano - startNano

\* getAttributeValue: the first attribute of that key.
getAttributeValue(attributes, key) ==
    LET found == SelectInSeq(attributes, LAMBDA a : a.key = key)
    IN  IF found = 0 THEN Absent ELSE attributes[found].value

\* The value, or "unknown" when there is none or an empty one.
KnownValue(attributes, key) ==
    LET value == getAttributeValue(attributes, key)
    IN  IF value \in {Absent, ""} THEN "unknown" ELSE value

KindMap ==
    [SPAN_KIND_UNSPECIFIED |-> "UNSPECIFIED", SPAN_KIND_INTERNAL |-> "INTERNAL",
     SPAN_KIND_SERVER |-> "SERVER", SPAN_KIND_CLIENT |-> "CLIENT",
     SPAN_KIND_PRODUCER |-> "PRODUCER", SPAN_KIND_CONSUMER |-> "CONSUMER"]

parseSpanKind(kind) == IF kind \in DOMAIN KindMap THEN KindMap[kind] ELSE kind

\* parseStatus compares with the number 2 and the text '2'.  The decoder writes
\* the code by its name, so the comparison with a number is never true.
parseStatus(code) == IF code = "2" THEN "ERROR" ELSE "OK"

transformSpan(span, serviceName, environment) ==
    [type           |-> "span",
     timestamp      |-> nanoToISO(span.start),
     service_name   |-> serviceName,
     environment    |-> environment,
     trace_id       |-> base64ToHex(span.traceId),
     span_id        |-> base64ToHex(span.spanId),
     parent_span_id |-> IF span.parentSpanId = Absent THEN Absent
                        ELSE base64ToHex(span.parentSpanId),
     name           |-> span.name,
     kind           |-> parseSpanKind(span.kind),
     duration_ms    |-> calculateDuration(span.start, span.end),
     status         |-> parseStatus(span.code)]

\* The spans of a resource that are sent on.
KeptSpans(resource) ==
    filter(FlattenSeq(resource.scopeSpans), LAMBDA span : span.name \notin Middleware)

\* transformTraceData, when it does not throw.
transformTraceData(traceData) ==
    LET Transform(resource) ==
            LET service     == KnownValue(resource.attributes, "service.name")
                environment == KnownValue(resource.attributes, "deployment.environment")
                kept        == KeptSpans(resource)
            IN  [n \in DOMAIN kept |-> transformSpan(kept[n], service, environment)]
    IN  FlattenSeq([n \in DOMAIN traceData.resourceSpans |-> Transform(traceData.resourceSpans[n])])

\* One span that is kept and has no start time makes transformTraceData throw,
\* and with it the whole POST.
TransformThrows(traceData) ==
    \E n \in DOMAIN traceData.resourceSpans :
        \E span \in ToSet(KeptSpans(traceData.resourceSpans[n])) : span.start = Missing

=============================================================================
