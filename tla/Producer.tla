------------------------------ MODULE Producer ------------------------------
(***************************************************************************)
(* The producer server (producerServer/src/kafka): POSTs of logs and of    *)
(* spans become messages of apm.logs and apm.spans, and a POST is answered *)
(* when kafkajs has an acknowledgement for each of them.                   *)
(*                                                                         *)
(* kafkajs (external) sends the messages of a POST in one batch for each   *)
(* partition, tries again what has no acknowledgement, at most MaxRetries  *)
(* times, and has no sequence numbers to tell a repetition by, because     *)
(* idempotent is false.  With acks = 1 an acknowledged batch is in the     *)
(* log of its partition.                                                   *)
(***************************************************************************)
EXTENDS SpanTransform, FiniteSets

CONSTANTS
    Requests,       \* the POSTs
    Body,           \* Body[b]: what a POST may be, [path, rawBody, data], see below
    NoBody,         \* the body of a POST that is yet to come
    PartitionFor,   \* PartitionFor[k]: the number the partitioner gives to key k
    MaxRetries,     \* retry.retries of the producer, 3 in the code
    MaxFaults       \* bound: failed attempts and crashes in all

\* rawBody says whether the body came as protobuf, which only /v1/traces looks
\* at; data is then a request of SpanTransform, and else the events themselves.
ASSUME ProducerAssumption ==
    /\ NoBody \notin DOMAIN Body
    /\ \A b \in DOMAIN Body :
          /\ Body[b].path \in {"logs", "traces"} /\ Body[b].rawBody \in BOOLEAN
          /\ IF Body[b].path = "traces" /\ Body[b].rawBody
               THEN IsTraceData(Body[b].data)
               ELSE IsList(Body[b].data)
    /\ MaxRetries \in Nat /\ MaxFaults \in Nat

VARIABLES
    connected,  \* the process runs, and with it its Kafka producer
    request,    \* the state of each POST
    posted,     \* what was posted
    acked,      \* the partitions that have acknowledged their batch of a POST
    retries,    \* how often a POST was tried again
    topic,      \* the log of each partition: pairs of a POST and a message number
    faults      \* history: how much went wrong so far

producerVars == <<connected, request, posted, acked, retries, topic, faults>>

topicConfigs == [logs |-> "apm.logs", traces |-> "apm.spans"]

Partitions == {topicConfigs[path] : path \in {"logs", "traces"}} \X Range(PartitionFor)

Fault == faults < MaxFaults /\ faults' = faults + 1

-----------------------------------------------------------------------------
(* What a POST sends.                                                       *)

\* ingestLogs: a protobuf body is decoded and transformed, any other is sent as
\* it is.
Spans(body) == IF body.rawBody THEN transformTraceData(body.data) ELSE body.data

\* The transformation may throw, and only before anything is sent.
Throws(body) == body.path = "traces" /\ body.rawBody /\ TransformThrows(body.data)

\* sendLogs leaves out logs without a service name, silently.
NormalLogs(data) ==
    filter(data, LAMBDA log : log.service_name \notin {Absent, ""})

\* The messages of sendLogs or sendSpans for each body, in order.
Messages ==
    [b \in DOMAIN Body |-> IF Throws(Body[b]) THEN <<>>
                           ELSE IF Body[b].path = "logs" THEN NormalLogs(Body[b].data)
                           ELSE Spans(Body[b])]

\* JavaScript's ||, on texts, and a field of a JSON object that may lack it.
Or(text, other) == IF text \in {Absent, ""} THEN other ELSE text
Field(event, name) == IF name \in DOMAIN event THEN event[name] ELSE Absent

\* Both kinds are keyed by their trace, also logs, whose comment says the name
\* of the service.  Only sendSpans looks for the name traceId too.
Key(path, event) ==
    LET traceId == IF path = "traces" THEN Field(event, "traceId") ELSE Absent
    IN  Or(Field(event, "trace_id"), Or(traceId, "unknown"))

\* The partition of each message.
PartitionOf ==
    [b \in DOMAIN Body |-> [n \in DOMAIN Messages[b] |->
        <<topicConfigs[Body[b].path], PartitionFor[Key(Body[b].path, Messages[b][n])]>>]]

\* The partitions a body needs.
Targets == [b \in DOMAIN Body |-> Range(PartitionOf[b])]

\* The numbers of its messages for a partition.
NumbersFor ==
    [b \in DOMAIN Body |-> [p \in Partitions |->
        filter([n \in DOMAIN Messages[b] |-> n], LAMBDA n : PartitionOf[b][n] = p)]]

Needed(r) == IF posted[r] = NoBody THEN {} ELSE Targets[posted[r]]

Unacknowledged(r) == Needed(r) \ acked[r]

\* The batch of a POST for a partition.
Batch(r, p) ==
    LET numbers == NumbersFor[posted[r]][p] IN [k \in DOMAIN numbers |-> <<r, numbers[k]>>]

\* The brokers carry out a part of the batches.
Appended(r, parts) ==
    [p \in Partitions |-> IF p \in parts THEN topic[p] \o Batch(r, p) ELSE topic[p]]

-----------------------------------------------------------------------------

ProducerInit ==
    /\ connected = FALSE
    /\ request = [r \in Requests |-> "new"]
    /\ posted = [r \in Requests |-> NoBody]
    /\ acked = [r \in Requests |-> {}]
    /\ retries = [r \in Requests |-> 0]
    /\ topic = [p \in Partitions |-> <<>>]
    /\ faults = 0

Becomes(r, state) == request' = [request EXCEPT ![r] = state]

\* onModuleInit connects.  When it cannot, it throws and the process ends before
\* it listens, which changes nothing here.
Start ==
    /\ ~connected
    /\ connected' = TRUE
    /\ UNCHANGED <<request, posted, acked, retries, topic, faults>>

\* A POST arrives: the handler runs up to its await of producer.send.  As the
\* server listens only after onModuleInit, sendMessage finds isConnected true.
Post(r, b) ==
    /\ connected
    /\ request[r] = "new"
    /\ Becomes(r, IF Throws(Body[b]) THEN "failed" ELSE "sending")
    /\ posted' = [posted EXCEPT ![r] = b]
    /\ UNCHANGED <<connected, acked, retries, topic, faults>>

FaultyAcknowledge(r, p) ==
    /\ request[r] = "sending"
    /\ p \in Needed(r)
    /\ topic' = Appended(r, {p})
    /\ acked' = [acked EXCEPT ![r] = @ \cup {p}]
    /\ UNCHANGED <<connected, request, posted, retries, faults>>

\* A broker appends a batch and acknowledges it.
Acknowledge(r, p) ==
    /\ request[r] = "sending"
    /\ p \in Unacknowledged(r)
    /\ topic' = Appended(r, {p})
    /\ acked' = [acked EXCEPT ![r] = @ \cup {p}]
    /\ UNCHANGED <<connected, request, posted, retries, faults>>

\* An attempt ends without an acknowledgement of each batch, some of which may
\* have been carried out all the same.
AttemptEnds(r, parts) ==
    /\ request[r] = "sending"
    /\ Unacknowledged(r) # {}
    /\ Fault
    /\ topic' = Appended(r, parts)

FaultyRetryForever(r, parts) ==
    /\ AttemptEnds(r, parts)
    /\ retries' = [retries EXCEPT ![r] = @ + 1]
    /\ UNCHANGED <<connected, request, posted, acked>>

Retry(r, parts) ==
    /\ AttemptEnds(r, parts)
    /\ retries[r] < MaxRetries
    /\ retries' = [retries EXCEPT ![r] = @ + 1]
    /\ UNCHANGED <<connected, request, posted, acked>>

\* The error is not one to try again for, or was so too often: sendMessage
\* throws it again, and the POST is answered with 500.
GiveUp(r, parts) ==
    /\ AttemptEnds(r, parts)
    /\ Becomes(r, "failed")
    /\ UNCHANGED <<connected, posted, acked, retries>>

\* producer.send returns and the POST is answered with 202.
Accept(r) ==
    /\ request[r] = "sending"
    /\ Unacknowledged(r) = {}
    /\ Becomes(r, "accepted")
    /\ UNCHANGED <<connected, posted, acked, retries, topic, faults>>

\* The process ends, by a crash or by SIGTERM: main.ts enables no shutdown hooks,
\* so onModuleDestroy is not run.  The POSTs under way stay without an answer; as
\* maxInFlightRequests is 1, a broker has one batch at most that it may yet
\* carry out.
Crash ==
    LET open == {r \in Requests : request[r] = "sending"}
        Pending(p) == {<<>>} \cup {Batch(r, p) : r \in {r \in open : p \in Unacknowledged(r)}}
        parts == UNION {Unacknowledged(r) : r \in open}
    IN  /\ connected
        /\ Fault
        /\ connected' = FALSE
        /\ request' = [r \in Requests |-> IF r \in open THEN "cut" ELSE request[r]]
        /\ \E last \in [parts -> UNION {Pending(p) : p \in parts}] :
               /\ \A p \in parts : last[p] \in Pending(p)
               /\ topic' = [p \in Partitions |-> IF p \in parts THEN topic[p] \o last[p] ELSE topic[p]]
        /\ UNCHANGED <<posted, acked, retries>>

RequestStep(r) ==
    \/ \E b \in DOMAIN Body : Post(r, b)
    \/ \E p \in Partitions : Acknowledge(r, p)
    \/ \E parts \in SUBSET Unacknowledged(r) : Retry(r, parts) \/ GiveUp(r, parts)
    \/ Accept(r)

ProducerNext == Start \/ Crash \/ \E r \in Requests : RequestStep(r)

\* The scheduler restarts the process, and kafkajs settles a request: an attempt
\* is answered, or its timeout ends it.
Settles(r) == (\E p \in Partitions : Acknowledge(r, p)) \/ Accept(r)

ProducerFairness ==
    WF_producerVars(Start) /\ \A r \in Requests : WF_producerVars(Settles(r))

ProducerSpec == ProducerInit /\ [][ProducerNext]_producerVars /\ ProducerFairness

-----------------------------------------------------------------------------
(* Properties.                                                              *)

States == {"new", "sending", "accepted", "failed", "cut"}

\* The messages that were in a POST: the POST and a number.
SentMessages ==
    UNION {{<<r, n>> : n \in DOMAIN Messages[posted[r]]} : r \in {r \in Requests : posted[r] # NoBody}}

Route(m) == PartitionOf[posted[m[1]]][m[2]]

\* The fields have their types, only a process that runs has POSTs under way, and
\* a partition holds messages that belong there.
ProducerTypeOK ==
    /\ connected \in BOOLEAN
    /\ request \in [Requests -> States]
    /\ posted \in [Requests -> DOMAIN Body \cup {NoBody}]
    /\ acked \in [Requests -> SUBSET Partitions]
    /\ retries \in [Requests -> 0..MaxRetries]
    /\ \A r \in Requests : /\ acked[r] \subseteq Needed(r)
                           /\ request[r] = "sending" => connected
                           /\ request[r] = "new" <=> posted[r] = NoBody
    /\ topic \in [Partitions -> Seq(SentMessages)]
    /\ \A p \in Partitions : \A m \in Range(topic[p]) : Route(m) = p
    /\ faults \in 0..MaxFaults

=============================================================================
