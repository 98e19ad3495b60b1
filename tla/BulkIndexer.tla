---------------------------- MODULE BulkIndexer ----------------------------
(***************************************************************************)
(* BulkIndexerService of the stream processor                              *)
(* (backend/src/stream-processor/common/bulk-indexer.service.ts).          *)
(*                                                                         *)
(* The service buffers documents and writes them to Elasticsearch in       *)
(* _bulk requests.  A request is started when the buffer is full, when the *)
(* flush timer fires, when another request settles, or while the module is *)
(* being destroyed; at most MaxParallelFlushes of them are in flight.      *)
(*                                                                         *)
(* Node runs one callback at a time, so a step of the specification is one *)
(* callback: a call of enqueue, a timer callback, the finally handler of a *)
(* flush, or one turn of the drain loop.  What is abstracted: a document   *)
(* is a model value with a size, the delay of a timer is "some time        *)
(* later", and the answer of Elasticsearch is the subset of the batch that *)
(* it stored (everything, a part when response.errors is set, or nothing   *)
(* or anything when the request itself fails: all end in the same code).   *)
(***************************************************************************)
EXTENDS Integers, Sequences, FiniteSets, SequencesExt

CONSTANTS
    Documents,           \* the documents the consumers will hand over
    Size,                \* Size[d]: the bytes the bulk request needs for d
    MaxBatchSize,        \* BULK_BATCH_SIZE
    MaxBatchBytes,       \* BULK_BATCH_BYTES_MB, in the unit of Size
    MaxParallelFlushes   \* BULK_MAX_PARALLEL_FLUSHES

\* The constructor clamps the three limits to at least 1; a document is never
\* empty, because the action line alone takes some bytes.
ASSUME LimitsAssumption ==
    /\ MaxBatchSize \in Nat \ {0}
    /\ MaxBatchBytes \in Nat \ {0}
    /\ MaxParallelFlushes \in Nat \ {0}

ASSUME SizeAssumption == Size \in [Documents -> Nat \ {0}]

VARIABLES
    buffer,            \* this.buffer
    bufferedBytes,     \* this.bufferedBytes
    flushTimer,        \* this.flushTimer # null
    inFlightFlushes,   \* this.inFlightFlushes
    pendingFlush,      \* this.pendingFlush
    requests,          \* the batches whose executeFlush has not settled
    lifecycle,         \* how far onModuleDestroy has come
    accepted,          \* history: the documents enqueue has taken
    indexed,           \* history: the documents Elasticsearch stored
    dropped            \* history: the documents given up after a failed flush

queueVars   == <<buffer, bufferedBytes, flushTimer, inFlightFlushes, pendingFlush, requests>>
historyVars == <<accepted, indexed, dropped>>
vars        == <<queueVars, lifecycle, historyVars>>

Lifecycles == {"running", "draining", "destroyed"}

Init ==
    /\ buffer = <<>>
    /\ bufferedBytes = 0
    /\ flushTimer = FALSE
    /\ inFlightFlushes = 0
    /\ pendingFlush = FALSE
    /\ requests = {}
    /\ lifecycle = "running"
    /\ accepted = {}
    /\ indexed = {}
    /\ dropped = {}

-----------------------------------------------------------------------------
(* The private methods.  Each takes the values the fields have at the call, *)
(* since its caller may already have changed some in the same callback.     *)
(* A definition called Faulty... is the next one with a mistake in it: the  *)
(* properties are checked to notice the difference.                         *)

FaultyShouldFlushBySize(buf, bytes) ==
    \/ Len(buf) > MaxBatchSize
    \/ bytes > MaxBatchBytes

ShouldFlushBySize(buf, bytes) ==
    \/ Len(buf) >= MaxBatchSize
    \/ bytes >= MaxBatchBytes

\* The timer after ensureFlushTimer: armed once there is something to flush.
EnsureFlushTimer(buf, timer) == timer \/ buf # <<>>

FaultyDrainKeepsBatch(buf, reqs) ==
    /\ requests' = reqs \cup {buf}
    /\ buffer' = buf
    /\ bufferedBytes' = 0
    /\ flushTimer' = FALSE

\* drainBuffer, and the batch it returns leaving as one bulk request.  The
\* flush timer is cleared together with the buffer.
DrainBuffer(buf, reqs) ==
    /\ requests' = reqs \cup {buf}
    /\ buffer' = <<>>
    /\ bufferedBytes' = 0
    /\ flushTimer' = FALSE

\* The queue of documents is left as it is.
KeepBuffer(buf, bytes, timer, reqs) ==
    /\ requests' = reqs
    /\ buffer' = buf
    /\ bufferedBytes' = bytes
    /\ flushTimer' = timer

FaultyTriggerOneTooMany(buf, bytes, timer, reqs, flights, pending) ==
    \/ /\ flights > MaxParallelFlushes
       /\ inFlightFlushes' = flights
       /\ pendingFlush' = TRUE
       /\ KeepBuffer(buf, bytes, timer, reqs)
    \/ /\ flights <= MaxParallelFlushes
       /\ inFlightFlushes' = flights + 1
       /\ pendingFlush' = pending
       /\ DrainBuffer(buf, reqs)

FaultyTriggerForgetsPending(buf, bytes, timer, reqs, flights, pending) ==
    \/ /\ flights >= MaxParallelFlushes
       /\ inFlightFlushes' = flights
       /\ pendingFlush' = pending
       /\ KeepBuffer(buf, bytes, timer, reqs)
    \/ /\ flights < MaxParallelFlushes
       /\ inFlightFlushes' = flights + 1
       /\ pendingFlush' = pending
       /\ DrainBuffer(buf, reqs)

\* triggerFlush: an empty buffer is left alone; at the limit only the pending
\* flag is raised; otherwise the whole buffer leaves, whatever its size.
TriggerFlush(buf, bytes, timer, reqs, flights, pending) ==
    \/ /\ buf = <<>>
       /\ inFlightFlushes' = flights
       /\ pendingFlush' = pending
       /\ KeepBuffer(buf, bytes, timer, reqs)
    \/ /\ buf # <<>>
       /\ flights >= MaxParallelFlushes
       /\ inFlightFlushes' = flights
       /\ pendingFlush' = TRUE
       /\ KeepBuffer(buf, bytes, timer, reqs)
    \/ /\ buf # <<>>
       /\ flights < MaxParallelFlushes
       /\ inFlightFlushes' = flights + 1
       /\ pendingFlush' = pending
       /\ DrainBuffer(buf, reqs)

-----------------------------------------------------------------------------
(* The callbacks.                                                           *)

\* enqueue(streamKey, document), called by a Kafka handler.  Nothing stops the
\* consumers while the module is being destroyed, so neither does the guard.
Enqueue(d) ==
    /\ d \notin accepted
    /\ accepted' = accepted \cup {d}
    /\ UNCHANGED <<lifecycle, indexed, dropped>>
    /\ LET buf   == Append(buffer, d)
           bytes == bufferedBytes + Size[d]
       IN  \/ /\ ShouldFlushBySize(buf, bytes)
              /\ TriggerFlush(buf, bytes, flushTimer, requests, inFlightFlushes, pendingFlush)
           \/ /\ ~ShouldFlushBySize(buf, bytes)
              /\ KeepBuffer(buf, bytes, EnsureFlushTimer(buf, flushTimer), requests)
              /\ UNCHANGED <<inFlightFlushes, pendingFlush>>

\* The callback of the flush timer: this.flushTimer = null, then triggerFlush.
TimerFires ==
    /\ flushTimer
    /\ TriggerFlush(buffer, bufferedBytes, FALSE, requests, inFlightFlushes, pendingFlush)
    /\ UNCHANGED <<lifecycle, historyVars>>

FaultyFinallyIgnoresPending(reqs) ==
    /\ inFlightFlushes' = inFlightFlushes - 1
    /\ pendingFlush' = FALSE
    /\ KeepBuffer(buffer, bufferedBytes, flushTimer, reqs)

FaultyFinallyKeepsCounter(reqs) ==
    \/ /\ pendingFlush
       /\ TriggerFlush(buffer, bufferedBytes, flushTimer, reqs, inFlightFlushes, FALSE)
    \/ /\ ~pendingFlush
       /\ UNCHANGED <<inFlightFlushes, pendingFlush>>
       /\ KeepBuffer(buffer, bufferedBytes, EnsureFlushTimer(buffer, flushTimer), reqs)

\* The finally handler of a flush; reqs are the requests left in flight.
FlushFinally(reqs) ==
    LET flights == inFlightFlushes - 1
    IN  \/ /\ pendingFlush
           /\ TriggerFlush(buffer, bufferedBytes, flushTimer, reqs, flights, FALSE)
        \/ /\ ~pendingFlush
           /\ ShouldFlushBySize(buffer, bufferedBytes)
           /\ TriggerFlush(buffer, bufferedBytes, flushTimer, reqs, flights, FALSE)
        \/ /\ ~pendingFlush
           /\ ~ShouldFlushBySize(buffer, bufferedBytes)
           /\ inFlightFlushes' = flights
           /\ pendingFlush' = FALSE
           /\ KeepBuffer(buffer, bufferedBytes, EnsureFlushTimer(buffer, flushTimer), reqs)

\* executeFlush settles: Elasticsearch stored some of the batch, the rest is
\* logged and given up, and the finally handler runs.
FlushSettles(batch) ==
    /\ batch \in requests
    /\ \E stored \in SUBSET Range(batch) :
           /\ indexed' = indexed \cup stored
           /\ dropped' = dropped \cup (Range(batch) \ stored)
    /\ FlushFinally(requests \ {batch})
    /\ UNCHANGED <<lifecycle, accepted>>

\* onModuleDestroy with a non-empty buffer: flushRemaining makes its first
\* turn and sleeps.
DestroyDrains ==
    /\ lifecycle = "running"
    /\ buffer # <<>>
    /\ lifecycle' = "draining"
    /\ TriggerFlush(buffer, bufferedBytes, flushTimer, requests, inFlightFlushes, pendingFlush)
    /\ UNCHANGED historyVars

\* onModuleDestroy with an empty buffer returns at once.
DestroyReturns ==
    /\ lifecycle = "running"
    /\ buffer = <<>>
    /\ lifecycle' = "destroyed"
    /\ UNCHANGED <<queueVars, historyVars>>

\* A later turn of the loop in flushRemaining, 50 ms after the one before.
DrainTurn ==
    /\ lifecycle = "draining"
    /\ buffer # <<>>
    /\ TriggerFlush(buffer, bufferedBytes, flushTimer, requests, inFlightFlushes, pendingFlush)
    /\ UNCHANGED <<lifecycle, historyVars>>

\* The loop condition of flushRemaining is false: onModuleDestroy returns.
DrainEnds ==
    /\ lifecycle = "draining"
    /\ buffer = <<>>
    /\ inFlightFlushes = 0
    /\ lifecycle' = "destroyed"
    /\ UNCHANGED <<queueVars, historyVars>>

Next ==
    \/ \E d \in Documents : Enqueue(d)
    \/ TimerFires
    \/ \E batch \in requests : FlushSettles(batch)
    \/ DestroyDrains
    \/ DestroyReturns
    \/ DrainTurn
    \/ DrainEnds

Spec == Init /\ [][Next]_vars

-----------------------------------------------------------------------------
(* Fairness.  Node runs every timer that is due, and the Elasticsearch      *)
(* client settles every request within its requestTimeout.  Nobody has to   *)
(* call enqueue or onModuleDestroy.                                         *)

SettlesFor(d) == \E batch \in requests : d \in Range(batch) /\ FlushSettles(batch)

Fairness ==
    /\ WF_vars(TimerFires)
    /\ \A d \in Documents : WF_vars(SettlesFor(d))
    /\ WF_vars(DrainTurn)
    /\ WF_vars(DrainEnds)

FairSpec == Spec /\ Fairness

-----------------------------------------------------------------------------
(* Properties.                                                              *)

Batches == {batch \in Seq(Documents) : batch # <<>>}

\* The fields have the types the class declares, and the flush counter stays
\* between zero and the configured limit.
TypeOK ==
    /\ buffer \in Seq(Documents)
    /\ bufferedBytes \in Nat
    /\ flushTimer \in BOOLEAN
    /\ inFlightFlushes \in 0..MaxParallelFlushes
    /\ pendingFlush \in BOOLEAN
    /\ requests \subseteq Batches
    /\ lifecycle \in Lifecycles
    /\ accepted \subseteq Documents
    /\ indexed \subseteq Documents
    /\ dropped \subseteq Documents

\* A buffered document is never stranded: as long as the buffer holds one,
\* the timer is armed or a flush is in flight whose finally handler will look
\* at the buffer again.  triggerFlush, drainBuffer (which clears the timer)
\* and the finally handler must cooperate for that.
NoLostWakeup == buffer # <<>> => flushTimer \/ inFlightFlushes > 0

\* The bytes the documents of a list need.
BytesOf(documents) ==
    LET bytes[n \in 0..Len(documents)] ==
            IF n = 0 THEN 0 ELSE bytes[n - 1] + Size[documents[n]]
    IN  bytes[Len(documents)]

\* Between two callbacks a full buffer is never idle: it waits only because
\* every slot is taken, and the pending flag remembers that it waits.  The
\* flag is never left over once a slot is free or the buffer is empty.  The
\* counter of bytes that decides with the length what is full has not drifted:
\* it is what the buffer holds, whatever was drained, deferred or refused.
FullBufferWaitsForSlot ==
    /\ bufferedBytes = BytesOf(buffer)
    /\ ShouldFlushBySize(buffer, bufferedBytes) => pendingFlush
    /\ pendingFlush => buffer # <<>> /\ inFlightFlushes = MaxParallelFlushes

\* The counter is the number of bulk requests Elasticsearch really has from
\* this process, which is what maxParallelFlushes promises to limit.
ParallelBound ==
    /\ IsFiniteSet(requests)
    /\ Cardinality(requests) = inFlightFlushes
    /\ inFlightFlushes <= MaxParallelFlushes

\* No document is lost or sent twice by the service itself: an accepted one is
\* in exactly one of the buffer, one batch in flight, or the settled ones,
\* and it is once in its batch.
NoRepeats(batch) == \A i, j \in DOMAIN batch : batch[i] = batch[j] => i = j

InFlight == UNION {Range(batch) : batch \in requests}

EachDocumentInOnePlace ==
    /\ accepted = Range(buffer) \cup InFlight \cup indexed \cup dropped
    /\ Range(buffer) \cap InFlight = {}
    /\ (Range(buffer) \cup InFlight) \cap (indexed \cup dropped) = {}
    /\ indexed \cap dropped = {}
    /\ \A b1, b2 \in requests : Range(b1) \cap Range(b2) # {} => b1 = b2
    /\ NoRepeats(buffer)
    /\ \A batch \in requests : NoRepeats(batch)

\* A batch with more documents than BULK_BATCH_SIZE leaves only when all slots
\* were taken before: enqueue never waits, so a slow Elasticsearch makes the
\* batches grow, and nothing else does.
OversizedOnlyAfterStall ==
    [][\A batch \in requests' \ requests :
           Len(batch) > MaxBatchSize => inFlightFlushes = MaxParallelFlushes]_vars

\* The service keeps the promise of DocumentSink, including that every
\* document is settled in the end.
Sink == INSTANCE DocumentSink WITH waiting <- Range(buffer) \cup InFlight

ImplementsSink == Sink!Spec

\* A drain that has begun ends, once the consumers run dry.
DrainTerminates == lifecycle = "draining" ~> lifecycle = "destroyed"

\* The comment on flushRemaining: at the end of the process the service waits
\* until all remaining buffers and flushes are finished.  onModuleDestroy
\* returns at once when only the buffer is empty.
DestroyWaitsForFlushes ==
    [][lifecycle # "destroyed" /\ lifecycle' = "destroyed"
           => buffer = <<>> /\ inFlightFlushes = 0]_vars

=============================================================================
