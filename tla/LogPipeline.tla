---------------------------- MODULE LogPipeline ----------------------------
(***************************************************************************)
(* The consumers of the stream processor                                   *)
(* (backend/src/stream-processor/log-consumer, span-consumer and           *)
(* apm/*-ingest) between Kafka and the bulk indexer, with the forwarder    *)
(* that copies error logs to their own topic.                              *)
(*                                                                         *)
(* A handler hands its document to the indexer and does not wait for it,   *)
(* so Kafka may take the message as consumed while the document is still   *)
(* in memory.  The indexer is the DocumentSink it is shown to implement.   *)
(* The consumer group is modelled as the code uses it: offsets are         *)
(* committed automatically some time after their handlers have returned, a *)
(* partition goes to one member, which begins at the committed offset, and *)
(* a member that has lost a partition may go on with it until it notices.  *)
(*                                                                         *)
(* main.ts starts both consumers in one process and enables no shutdown    *)
(* hooks, so SIGTERM ends the process as a crash does.                     *)
(***************************************************************************)
EXTENDS Integers, Sequences, FiniteSets

CONSTANTS
    Instances,      \* the stream processors of the two consumer groups
    Partitions,     \* the partitions of apm.logs and apm.spans
    NoOne,          \* the owner of a partition without one
    Log,            \* Log[p]: the kinds of the messages of partition p
    MaxFaults       \* bound: crashes, evictions and failed requests in all

\* What a message is: without a body or refused by parsePayload; a message of
\* apm.spans whose body is the JSON value null; a span, or a log that is not to
\* be forwarded; a log of level ERROR.
Kinds == {"refused", "null", "event", "error"}

ASSUME LogPipelineAssumption ==
    /\ NoOne \notin Instances
    /\ Log \in [Partitions -> Seq(Kinds)]
    /\ MaxFaults \in Nat

Unassigned == -1

VARIABLES
    alive,      \* the processes that run
    forwarder,  \* this.producer # undefined in the forwarder of each process
    owner,      \* the group member each partition is assigned to
    position,   \* the offset each process will handle next
    forwarding, \* where a handler waits for the forwarder
    committed,  \* the committed offset of each partition
    waiting,    \* the documents the indexers have not settled
    accepted,   \* history: the documents the indexers were handed
    indexed,    \* history: those Elasticsearch stored
    dropped,    \* history: those given up
    lost,       \* history: those that went down with a process
    forwarded,  \* the messages that reached the error topic
    givenUp,    \* history: the error logs a handler did not get forwarded
    faults      \* history: how much went wrong so far

groupVars   == <<owner, position, forwarding, committed>>
sinkVars    == <<waiting, accepted, indexed, dropped>>
forwardVars == <<forwarded, givenUp>>
vars == <<alive, forwarder, groupVars, sinkVars, lost, forwardVars, faults>>

\* One time that a message is handled; a document of the indexer.
Delivery(i, p, offset, nth) == [by |-> i, part |-> p, offset |-> offset, nth |-> nth]

Sink == INSTANCE DocumentSink WITH
            Documents <- [by : Instances, part : Partitions, offset : Nat, nth : Nat]

Init ==
    /\ alive = {}
    /\ forwarder = [i \in Instances |-> FALSE]
    /\ owner = [p \in Partitions |-> NoOne]
    /\ position = [i \in Instances |-> [p \in Partitions |-> Unassigned]]
    /\ forwarding = [i \in Instances |-> [p \in Partitions |-> FALSE]]
    /\ committed = [p \in Partitions |-> 0]
    /\ Sink!Init
    /\ lost = {}
    /\ forwarded = {}
    /\ givenUp = {}
    /\ faults = 0

Fault == faults < MaxFaults /\ faults' = faults + 1

Kind(p, offset) == Log[p][offset + 1]

IsEvent(p, offset) == Kind(p, offset) \in {"event", "error"}

-----------------------------------------------------------------------------
(* Processes and the consumer group.                                        *)

\* A process starts.  The forwarder connects once, in its onModuleInit; when
\* that fails it does without a producer as long as the process lives.
Start(i) ==
    /\ i \notin alive
    /\ alive' = alive \cup {i}
    /\ \/ forwarder' = [forwarder EXCEPT ![i] = TRUE] /\ UNCHANGED faults
       \/ forwarder' = [forwarder EXCEPT ![i] = FALSE] /\ Fault
    /\ UNCHANGED <<groupVars, sinkVars, lost, forwardVars>>

MoveTo(i, p, offset) == position' = [position EXCEPT ![i][p] = offset]

\* A member gets a partition and begins at the committed offset.
Assign(i, p) ==
    /\ i \in alive
    /\ owner[p] = NoOne
    /\ position[i][p] = Unassigned
    /\ owner' = [owner EXCEPT ![p] = i]
    /\ MoveTo(i, p, committed[p])
    /\ UNCHANGED <<alive, forwarder, forwarding, committed, sinkVars, lost, forwardVars, faults>>

\* The group takes a partition from a member: a rebalance, or a missed session.
Evict(p) ==
    /\ owner[p] # NoOne
    /\ Fault
    /\ owner' = [owner EXCEPT ![p] = NoOne]
    /\ UNCHANGED <<alive, forwarder, position, forwarding, committed, sinkVars, lost, forwardVars>>

\* The member notices, between two messages.
Release(i, p) ==
    /\ position[i][p] # Unassigned
    /\ owner[p] # i
    /\ ~forwarding[i][p]
    /\ MoveTo(i, p, Unassigned)
    /\ UNCHANGED <<alive, forwarder, owner, forwarding, committed, sinkVars, lost, forwardVars, faults>>

FaultyCommit(i, p) ==
    /\ owner[p] = i
    /\ committed' = [committed EXCEPT ![p] = IF forwarding[i][p] THEN position[i][p] + 1 ELSE position[i][p]]
    /\ UNCHANGED <<alive, forwarder, owner, position, forwarding, sinkVars, lost, forwardVars, faults>>

\* kafkajs commits the offsets of the handlers that have returned.
Commit(i, p) ==
    /\ owner[p] = i
    /\ committed' = [committed EXCEPT ![p] = position[i][p]]
    /\ UNCHANGED <<alive, forwarder, owner, position, forwarding, sinkVars, lost, forwardVars, faults>>

-----------------------------------------------------------------------------
(* The handlers, handleLogEvent and handleSpanEvent.                        *)

\* A handler may be called for the next message of the partition.
Deliverable(i, p) == position[i][p] \in 0..(Len(Log[p]) - 1) /\ ~forwarding[i][p]

FaultySkip(i, p) ==
    /\ Deliverable(i, p)
    /\ Kind(p, position[i][p]) = "refused"
    /\ UNCHANGED vars

\* A message without a body, or one that parsePayload refuses, is skipped.  The
\* span controller has no check for a body that is null: validateSync throws on
\* it, no InvalidSpanEventError but a TypeError that the handler throws again,
\* and kafkajs delivers the message anew.  Nothing changes, and no action here
\* is for it.
Skip(i, p) ==
    /\ Deliverable(i, p)
    /\ Kind(p, position[i][p]) = "refused"
    /\ MoveTo(i, p, position[i][p] + 1)
    /\ UNCHANGED <<alive, forwarder, owner, forwarding, committed, sinkVars, lost, forwardVars, faults>>

EarlierDeliveries(p, offset) == {d \in accepted : d.part = p /\ d.offset = offset}

\* LogIngestService.ingest or SpanIngestService.ingest, up to enqueue.
Ingest(i, p) ==
    LET offset == position[i][p]
    IN  Sink!Accept(Delivery(i, p, offset, Cardinality(EarlierDeliveries(p, offset))))

\* A span, or a log that is not forwarded: the handler returns.
Handle(i, p) ==
    /\ Deliverable(i, p)
    /\ Kind(p, position[i][p]) = "event"
    /\ Ingest(i, p)
    /\ MoveTo(i, p, position[i][p] + 1)
    /\ UNCHANGED <<alive, forwarder, owner, forwarding, committed, lost, forwardVars, faults>>

FaultyHandleError(i, p) ==
    /\ Deliverable(i, p)
    /\ Kind(p, position[i][p]) = "error"
    /\ Ingest(i, p)
    /\ forwarding' = [forwarding EXCEPT ![i][p] = forwarder[i]]
    /\ UNCHANGED <<alive, forwarder, owner, position, committed, lost, forwardVars, faults>>

\* An error log: the handler waits for the forwarder, which returns at once
\* when it has no producer.
HandleError(i, p) ==
    /\ Deliverable(i, p)
    /\ Kind(p, position[i][p]) = "error"
    /\ Ingest(i, p)
    /\ \/ /\ forwarder[i]
          /\ forwarding' = [forwarding EXCEPT ![i][p] = TRUE]
          /\ UNCHANGED <<position, givenUp>>
       \/ /\ ~forwarder[i]
          /\ MoveTo(i, p, position[i][p] + 1)
          /\ givenUp' = givenUp \cup {<<p, position[i][p]>>}
          /\ UNCHANGED forwarding
    /\ UNCHANGED <<alive, forwarder, owner, committed, lost, forwarded, faults>>

\* producer.send settles, and with it the handler.
ForwardReturns(i, p) ==
    /\ forwarding[i][p]
    /\ forwarding' = [forwarding EXCEPT ![i][p] = FALSE]
    /\ MoveTo(i, p, position[i][p] + 1)

ForwardAnswers(i, p) ==
    /\ ForwardReturns(i, p)
    /\ forwarded' = forwarded \cup {<<p, position[i][p]>>}
    /\ UNCHANGED <<alive, forwarder, owner, committed, sinkVars, lost, givenUp, faults>>

FaultyForwardFails(i, p) ==
    /\ forwarding[i][p]
    /\ Fault
    /\ MoveTo(i, p, position[i][p] + 1)
    /\ givenUp' = givenUp \cup {<<p, position[i][p]>>}
    /\ UNCHANGED <<alive, forwarder, owner, forwarding, committed, sinkVars, lost, forwarded>>

\* It fails, whether or not the broker has the message; forward only logs it.
ForwardFails(i, p) ==
    /\ ForwardReturns(i, p)
    /\ Fault
    /\ givenUp' = givenUp \cup {<<p, position[i][p]>>}
    /\ forwarded' \in {forwarded, forwarded \cup {<<p, position[i][p]>>}}
    /\ UNCHANGED <<alive, forwarder, owner, committed, sinkVars, lost>>

HandlerStep(i, p) ==
    \/ Skip(i, p)
    \/ Handle(i, p)
    \/ HandleError(i, p)
    \/ ForwardAnswers(i, p)
    \/ ForwardFails(i, p)

-----------------------------------------------------------------------------
(* The indexer, and the end of a process.                                   *)

Held(i) == {d \in waiting : d.by = i}

FaultySettle(i) ==
    \E group \in SUBSET Held(i) : \E stored \in SUBSET group :
        /\ group # {}
        /\ waiting' = waiting \ group
        /\ indexed' = indexed \cup stored
        /\ UNCHANGED <<accepted, dropped>>
        /\ UNCHANGED <<alive, forwarder, groupVars, lost, forwardVars, faults>>

\* A bulk request settles.
Settle(i) ==
    \E group \in SUBSET Held(i) : \E stored \in SUBSET group :
        /\ group # {}
        /\ Sink!Settle(group, stored)
        /\ UNCHANGED <<alive, forwarder, groupVars, lost, forwardVars, faults>>

\* A crash, or SIGTERM: what the process holds is lost, but for the requests
\* that are carried out all the same.
End(i) ==
    /\ i \in alive
    /\ Fault
    /\ alive' = alive \ {i}
    /\ owner' = [p \in Partitions |-> IF owner[p] = i THEN NoOne ELSE owner[p]]
    /\ position' = [position EXCEPT ![i] = [p \in Partitions |-> Unassigned]]
    /\ forwarding' = [forwarding EXCEPT ![i] = [p \in Partitions |-> FALSE]]
    /\ \E stored \in SUBSET Held(i) :
           /\ waiting' = waiting \ Held(i)
           /\ indexed' = indexed \cup stored
           /\ lost' = lost \cup (Held(i) \ stored)
    /\ \E sent \in SUBSET {p \in Partitions : forwarding[i][p]} :
           forwarded' = forwarded \cup {<<p, position[i][p]>> : p \in sent}
    /\ UNCHANGED <<forwarder, committed, accepted, dropped, givenUp>>

Next ==
    \/ \E i \in Instances : Start(i) \/ Settle(i) \/ End(i)
    \/ \E p \in Partitions : Evict(p)
    \/ \E i \in Instances, p \in Partitions :
           Assign(i, p) \/ Release(i, p) \/ Commit(i, p) \/ HandlerStep(i, p)

Spec == Init /\ [][Next]_vars

(* Fairness: the scheduler keeps the processes running, the group assigns   *)
(* what nobody has, a member reads on and commits, and the requests of the  *)
(* indexer and of the forwarder end.                                        *)
SettlesSomeOf(i, p, offset) ==
    Settle(i) /\ \E d \in waiting \ waiting' : d.part = p /\ d.offset = offset

Fairness ==
    /\ \A i \in Instances : WF_vars(Start(i))
    /\ \A p \in Partitions : WF_vars(\E i \in Instances : Assign(i, p))
    /\ \A i \in Instances, p \in Partitions :
           WF_vars(Release(i, p)) /\ WF_vars(Commit(i, p)) /\ WF_vars(HandlerStep(i, p))
    /\ \A i \in Instances, p \in Partitions : \A offset \in 0..(Len(Log[p]) - 1) :
           WF_vars(SettlesSomeOf(i, p, offset))

FairSpec == Spec /\ Fairness

-----------------------------------------------------------------------------
(* Properties.                                                              *)

Deliveries == [by : Instances, part : Partitions, offset : Nat, nth : Nat]

Offsets(p) == 0..Len(Log[p])

Messages == Partitions \X Nat

\* Only a running process has positions, and who waits for the forwarder stands
\* at an error log.
PlacesOK ==
    \A i \in Instances, p \in Partitions :
        /\ position[i][p] \in Offsets(p) \cup {Unassigned}
        /\ position[i][p] # Unassigned => i \in alive
        /\ forwarding[i][p] => /\ position[i][p] \in 0..(Len(Log[p]) - 1)
                               /\ Kind(p, position[i][p]) = "error"

\* The fields have their types.
TypeOK ==
    /\ alive \subseteq Instances
    /\ forwarder \in [Instances -> BOOLEAN]
    /\ owner \in [Partitions -> alive \cup {NoOne}]
    /\ position \in [Instances -> [Partitions -> Int]]
    /\ forwarding \in [Instances -> [Partitions -> BOOLEAN]]
    /\ committed \in [Partitions -> Nat] /\ \A p \in Partitions : committed[p] \in Offsets(p)
    /\ waiting \subseteq Deliveries /\ accepted \subseteq Deliveries
    /\ indexed \subseteq Deliveries /\ dropped \subseteq Deliveries /\ lost \subseteq Deliveries
    /\ forwarded \subseteq Messages /\ givenUp \subseteq Messages
    /\ faults \in 0..MaxFaults
    /\ PlacesOK

Known == waiting \cup indexed \cup dropped \cup lost

\* What a handler that has returned has done with its message.
Ingested(p, offset) == \E d \in Known : d.part = p /\ d.offset = offset

Handled(p, offset) ==
    /\ IsEvent(p, offset) => Ingested(p, offset)
    /\ Kind(p, offset) = "error" => <<p, offset>> \in forwarded \cup givenUp

\* Whatever crashed, was taken away or is done twice, a committed offset is
\* the end of messages that were handled to the end: each event has a document
\* that is stored, given up, still held, or went down with its process, and
\* each error log was forwarded, or a handler tried in vain.
CommittedIsAccountedFor ==
    \A p \in Partitions : \A offset \in 0..(committed[p] - 1) : Handled(p, offset)

\* A message is handled once for each time that its partition was given to a
\* member, which takes a crash or a rebalance: no failure inside a handler makes
\* Kafka deliver it again, neither of the forwarder, with or without a producer,
\* nor of the indexer, and a member that goes on with a lost partition repeats
\* no more than the new one.
HandledOncePerAssignment ==
    \A p \in Partitions : \A offset \in 0..(Len(Log[p]) - 1) :
        Cardinality(EarlierDeliveries(p, offset)) <= 1 + faults

\* Every document a process was handed stays in one place, also across the
\* end of the process.
DocumentsConserved ==
    /\ accepted = Known
    /\ waiting \cap (indexed \cup dropped \cup lost) = {}
    /\ indexed \cap (dropped \cup lost) = {}
    /\ dropped \cap lost = {}

\* In the end every message of the topics is consumed and no document waits: no
\* message, member or crash blocks a partition, and an invalid one is skipped.
ConsumesEverything ==
    <>[](waiting = {} /\ \A p \in Partitions : committed[p] = Len(Log[p]))

=============================================================================
