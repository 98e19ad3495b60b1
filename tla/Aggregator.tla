----------------------------- MODULE Aggregator -----------------------------
(***************************************************************************)
(* The roll-up worker (backend/src/aggregator): AggregatorRunner drives    *)
(* MinuteWindowPlanner, SpanMinuteAggregationService,                      *)
(* RollupMetricsRepository and RollupCheckpointService.                    *)
(*                                                                         *)
(* Time is counted in buckets: bucket b is the interval [b, b+1) and       *)
(* `closed` is floorToBucket(now).  This is exact, because the planner     *)
(* only uses multiples of the bucket length: a lookback of L ms aligned    *)
(* down to a bucket is Lookback buckets, with Lookback = ceil(L / bucket). *)
(*                                                                         *)
(* A step ends where the code awaits Elasticsearch, so a running cycle is  *)
(* a record with the await it stands at, and everything else may happen    *)
(* between two of its steps: spans arrive, the write index of the metrics  *)
(* data stream rolls over, the process dies, or a second instance, started *)
(* by a rolling deployment, does the same work.  A write whose answer was  *)
(* lost stays in flight: it is carried out at any later time, or never.    *)
(***************************************************************************)
EXTENDS Integers, FiniteSets, FiniteSetsExt

CONSTANTS
    Instances,          \* the aggregator processes that may be alive at a time
    Services,               \* the services that send spans
    Environments,           \* the environments they send them from
    Lookback,               \* ROLLUP_INITIAL_LOOKBACK_MINUTES, in buckets
    MaxServiceBuckets,      \* ROLLUP_MAX_SERVICE_BUCKETS, the size of the outer terms aggregation
    MaxEnvironmentBuckets,  \* ROLLUP_MAX_ENV_BUCKETS, the size of the one nested in it
    StartBucket,            \* floorToBucket(now) when the system is first started
    Horizon,                \* bound: the clock stops here
    MaxSpans,               \* bound: the spans that arrive in all
    MaxIndex,               \* bound: rollovers of the metrics data stream
    MaxFaults               \* bound: failed requests, crashes and shutdowns in all

ASSUME AggregatorAssumption ==
    /\ Lookback \in Nat
    /\ MaxServiceBuckets \in Nat \ {0} /\ MaxEnvironmentBuckets \in Nat \ {0}
    /\ StartBucket \in Nat \ {0}
    /\ Horizon \in Nat /\ Horizon >= StartBucket
    /\ MaxSpans \in Nat /\ MaxIndex \in Nat /\ MaxFaults \in Nat
    /\ IsFiniteSet(Services) /\ IsFiniteSet(Environments)

\* A document is about a service in an environment.
Keys == Services \X Environments

Buckets == 0..Horizon

NoCheckpoint == -1

VARIABLES
    closed,      \* floorToBucket(now)
    onTime,      \* the SERVER spans of a bucket and key indexed before it closed
    late,        \* those indexed after it closed
    rollup,      \* the documents of the metrics data stream
    writeIndex,  \* the backing index new documents go to
    checkpoint,  \* lastRolledUpAt, NoCheckpoint when the document does not exist
    rolledUpTo,  \* history: the highest checkpoint there ever was
    outOfTurn,   \* history: a checkpoint write was carried out when its turn was over
    first,       \* history: where the windows of a cycle that found no checkpoint began
    inFlight,    \* the writes whose answer was lost and that may still be carried out
    phase,       \* how far each instance is between start and exit
    running,     \* this.running of each instance
    cycles,      \* the calls of executeCycle in progress
    faults       \* history: how much went wrong so far

worldVars == <<closed, onTime, late, writeIndex>>
checkpointVars == <<checkpoint, rolledUpTo, outOfTurn>>
storeVars == <<rollup, checkpointVars>>
vars == <<worldVars, storeVars, first, inFlight, phase, running, cycles, faults>>

Phases == {"down", "starting", "ticking", "stopping"}

Init ==
    /\ closed = StartBucket
    /\ onTime = [b \in Buckets |-> [k \in Keys |-> 0]]
    /\ late = [b \in Buckets |-> [k \in Keys |-> 0]]
    /\ rollup = {}
    /\ writeIndex = 0
    /\ checkpoint = NoCheckpoint
    /\ rolledUpTo = NoCheckpoint
    /\ outOfTurn = FALSE
    /\ first = 0
    /\ inFlight = {}
    /\ phase = [i \in Instances |-> "down"]
    /\ running = [i \in Instances |-> FALSE]
    /\ cycles = {}
    /\ faults = 0

-----------------------------------------------------------------------------
(* The world around the worker.                                             *)

Count(b, k) == onTime[b][k] + late[b][k]

TotalSpans == MapThenSumSet(LAMBDA bk : Count(bk[1], bk[2]), Buckets \X Keys)

\* A minute ends.
BucketCloses ==
    /\ closed < Horizon
    /\ closed' = closed + 1
    /\ UNCHANGED <<onTime, late, writeIndex, storeVars, first, inFlight, phase, running, cycles, faults>>

\* A span becomes searchable: of the open bucket, or late, of a closed one.
SpanIndexed(b, k) ==
    /\ TotalSpans < MaxSpans
    /\ \/ b = closed /\ onTime' = [onTime EXCEPT ![b][k] = @ + 1] /\ UNCHANGED late
       \/ b < closed /\ late' = [late EXCEPT ![b][k] = @ + 1] /\ UNCHANGED onTime
    /\ UNCHANGED <<closed, writeIndex, storeVars, first, inFlight, phase, running, cycles, faults>>

\* ILM or ISM gives the data stream a new write index (max_age, max size).
Rollover ==
    /\ writeIndex < MaxIndex
    /\ writeIndex' = writeIndex + 1
    /\ UNCHANGED <<closed, onTime, late, storeVars, first, inFlight, phase, running, cycles, faults>>

-----------------------------------------------------------------------------
(* The two stores a cycle writes to.                                       *)

\* The documents a bulk create adds: the others already have their _id in the
\* write index, a version conflict that bulkCreate ignores.
Fresh(c) ==
    {[index |-> writeIndex, bucket |-> c.bucket, key |-> d.key, count |-> d.count] :
        d \in {d \in c.docs :
                 \A r \in rollup : ~(r.index = writeIndex /\ r.bucket = c.bucket /\ r.key = d.key)}}

\* saveCheckpoint overwrites whatever the document holds.
WriteCheckpoint(c) ==
    /\ checkpoint' = c.bucket + 1
    /\ rolledUpTo' = Max({rolledUpTo, c.bucket + 1})

\* The writes among the requests that some cycles wait for.
Requests(cs) ==
    {[owner |-> c.owner, at |-> c.at, bucket |-> c.bucket, docs |-> c.docs, id |-> faults] :
        c \in {c \in cs : c.at \in {"store", "save"}}}

\* The bucket that is to be rolled up next.
Position == IF checkpoint = NoCheckpoint THEN first ELSE checkpoint

\* A write whose answer was lost is carried out after all: of a bulk request
\* perhaps only some documents are, the checkpoint is overwritten.
LateWrite(r) ==
    /\ inFlight' = inFlight \ {r}
    /\ \/ /\ r.at = "store"
          /\ \E stored \in SUBSET Fresh(r) : rollup' = rollup \cup stored
          /\ UNCHANGED checkpointVars
       \/ /\ r.at = "save"
          /\ WriteCheckpoint(r)
          /\ outOfTurn' = (outOfTurn \/ r.bucket \notin {Position, Position - 1})
          /\ UNCHANGED rollup
    /\ UNCHANGED <<worldVars, first, phase, running, cycles, faults>>

Fault == faults < MaxFaults /\ faults' = faults + 1

-----------------------------------------------------------------------------
(* Start and end of a process.                                              *)

\* A call of executeCycle that passes the running guard, up to the await of
\* loadLastCheckpoint.  The planner has read the clock by then.
NewCycle(i, isFirst) ==
    [owner |-> i, first |-> isFirst, at |-> "plan", bucket |-> 0, until |-> closed, docs |-> {}]

\* AggregatorRunner.onModuleInit calls executeCycle before it sets the interval.
Start(i) ==
    /\ phase[i] = "down"
    /\ phase' = [phase EXCEPT ![i] = "starting"]
    /\ running' = [running EXCEPT ![i] = TRUE]
    /\ cycles' = cycles \cup {NewCycle(i, TRUE)}
    /\ UNCHANGED <<worldVars, storeVars, first, inFlight, faults>>

FaultyTimerTick(i) ==
    /\ phase[i] = "ticking"
    /\ Cardinality(cycles) < 2
    /\ running' = [running EXCEPT ![i] = TRUE]
    /\ cycles' = cycles \cup {NewCycle(i, FALSE)}
    /\ UNCHANGED <<worldVars, storeVars, first, inFlight, phase, faults>>

\* The interval fires.  While a cycle is running the call returns at once.
TimerTick(i) ==
    /\ phase[i] = "ticking"
    /\ ~running[i]
    /\ running' = [running EXCEPT ![i] = TRUE]
    /\ cycles' = cycles \cup {NewCycle(i, FALSE)}
    /\ UNCHANGED <<worldVars, storeVars, first, inFlight, phase, faults>>

ProcessGone(i) ==
    /\ phase' = [phase EXCEPT ![i] = "down"]
    /\ running' = [running EXCEPT ![i] = FALSE]
    /\ cycles' = {c \in cycles : c.owner # i}
    /\ inFlight' = inFlight \cup Requests({c \in cycles : c.owner = i})

\* The process dies; the request it was waiting for may still be carried out.
Crash(i) ==
    /\ phase[i] # "down"
    /\ Fault
    /\ ProcessGone(i)
    /\ UNCHANGED <<worldVars, storeVars, first>>

\* SIGTERM: onModuleDestroy clears the interval and waits for nothing.
Shutdown(i) ==
    /\ phase[i] = "ticking"
    /\ Fault
    /\ phase' = [phase EXCEPT ![i] = "stopping"]
    /\ UNCHANGED <<worldVars, storeVars, first, inFlight, running, cycles>>

\* Nest has run its hooks; a cycle in progress goes down with the process.
Exit(i) ==
    /\ phase[i] = "stopping"
    /\ ProcessGone(i)
    /\ UNCHANGED <<worldVars, storeVars, first, faults>>

-----------------------------------------------------------------------------
(* The steps of a cycle.                                                    *)

\* The finally block.  onModuleInit goes on to set the interval.
EndCycle(c) ==
    /\ cycles' = cycles \ {c}
    /\ running' = [running EXCEPT ![c.owner] = FALSE]
    /\ phase' = [phase EXCEPT ![c.owner] = IF c.first THEN "ticking" ELSE @]

Becomes(c, d) == cycles' = (cycles \ {c}) \cup {d} /\ UNCHANGED <<running, phase>>

FaultyTurnTo(c, b) ==
    IF b <= c.until
      THEN Becomes(c, [c EXCEPT !.at = "aggregate", !.bucket = b, !.docs = {}])
      ELSE EndCycle(c)

\* The cycle turns to a window, if there is still a closed one.
TurnTo(c, b) ==
    IF b + 1 <= c.until
      THEN Becomes(c, [c EXCEPT !.at = "aggregate", !.bucket = b, !.docs = {}])
      ELSE EndCycle(c)

FaultyFirstWindow(until) ==
    IF checkpoint = NoCheckpoint THEN Max({0, until - Lookback}) ELSE checkpoint + 1

FaultyFirstWindowFromLookback(until) == Max({0, until - Lookback})

\* plan: where the windows begin.  The checkpoint is the end of the last one.
FirstWindow(until) ==
    IF checkpoint = NoCheckpoint THEN Max({0, until - Lookback}) ELSE checkpoint

\* loadLastCheckpoint answers, and the windows up to c.until are planned.
PlanAnswers(c) ==
    /\ c.at = "plan"
    /\ TurnTo(c, FirstWindow(c.until))
    /\ first' = IF checkpoint = NoCheckpoint THEN Max({first, FirstWindow(c.until)}) ELSE first
    /\ UNCHANGED <<worldVars, storeVars, inFlight, faults>>

\* It fails: executeCycle rejects, which the interval logs and which ends the
\* process when it happens in onModuleInit.
PlanFails(c) ==
    /\ c.at = "plan"
    /\ Fault
    /\ \/ c.first /\ ProcessGone(c.owner)
       \/ ~c.first /\ EndCycle(c) /\ UNCHANGED inFlight
    /\ UNCHANGED <<worldVars, storeVars, first>>

\* What a terms aggregation of a given size returns: the buckets with the most
\* documents.
Top(terms, size, docCount) ==
    {top \in SUBSET terms :
        /\ Cardinality(top) = Min({size, Cardinality(terms)})
        /\ \A t \in top, other \in terms \ top : docCount[t] >= docCount[other]}

ActiveKeys(b) == {k \in Keys : Count(b, k) > 0}

ActiveServices(b) == {k[1] : k \in ActiveKeys(b)}

ActiveEnvironments(b, s) == {e \in Environments : <<s, e>> \in ActiveKeys(b)}

ServiceCount(b, s) == MapThenSumSet(LAMBDA e : Count(b, <<s, e>>), Environments)

TopServices(b) ==
    Top(ActiveServices(b), MaxServiceBuckets, [s \in Services |-> ServiceCount(b, s)])

TopEnvironments(b, s) ==
    Top(ActiveEnvironments(b, s), MaxEnvironmentBuckets, [e \in Environments |-> Count(b, <<s, e>>)])

\* The services of a bucket, and of each of them the environments.
TopKeys(b) ==
    {{k \in Keys : k[1] \in services /\ k[2] \in envs[k[1]]} :
        services \in TopServices(b),
        envs \in {envs \in [Services -> SUBSET Environments] :
                     \A s \in Services : envs[s] \in TopEnvironments(b, s)}}

\* aggregate answers.  Without documents bulkCreate is left out.
AggregateAnswers(c) ==
    /\ c.at = "aggregate"
    /\ \E top \in TopKeys(c.bucket) :
           LET docs == {[key |-> k, count |-> Count(c.bucket, k)] : k \in top}
           IN  Becomes(c, [c EXCEPT !.at = IF docs = {} THEN "save" ELSE "store", !.docs = docs])
    /\ UNCHANGED <<worldVars, storeVars, first, inFlight, faults>>

FaultyStoreAnswers(c) ==
    /\ c.at = "store"
    /\ \E stored \in SUBSET Fresh(c) : rollup' = rollup \cup stored
    /\ Becomes(c, [c EXCEPT !.at = "save", !.docs = {}])
    /\ UNCHANGED <<worldVars, checkpointVars, first, inFlight, faults>>

\* bulkCreate answers without an error that blocks.
StoreAnswers(c) ==
    /\ c.at = "store"
    /\ rollup' = rollup \cup Fresh(c)
    /\ Becomes(c, [c EXCEPT !.at = "save", !.docs = {}])
    /\ UNCHANGED <<worldVars, checkpointVars, first, inFlight, faults>>

\* saveCheckpoint answers, and the cycle goes on with the next window.
SaveAnswers(c) ==
    /\ c.at = "save"
    /\ WriteCheckpoint(c)
    /\ TurnTo(c, c.bucket + 1)
    /\ UNCHANGED <<worldVars, rollup, outOfTurn, first, inFlight, faults>>

\* aggregate, bulkCreate or saveCheckpoint throws: the cycle returns, to try
\* the same window in a later one.
WindowFails(c) ==
    /\ c.at \in {"aggregate", "store", "save"}
    /\ Fault
    /\ inFlight' = inFlight \cup Requests({c})
    /\ EndCycle(c)
    /\ UNCHANGED <<worldVars, storeVars, first>>

CycleStep(c) ==
    \/ PlanAnswers(c)
    \/ PlanFails(c)
    \/ AggregateAnswers(c)
    \/ StoreAnswers(c)
    \/ SaveAnswers(c)
    \/ WindowFails(c)

Next ==
    \/ BucketCloses
    \/ \E b \in Buckets, k \in Keys : SpanIndexed(b, k)
    \/ Rollover
    \/ \E r \in inFlight : LateWrite(r)
    \/ \E i \in Instances : Start(i) \/ TimerTick(i) \/ Crash(i) \/ Shutdown(i) \/ Exit(i)
    \/ \E c \in cycles : CycleStep(c)

Spec == Init /\ [][Next]_vars

(* Fairness: every request is answered or fails, the interval keeps firing, *)
(* and a process that is down or told to stop is replaced by the scheduler. *)
(* Nothing is assumed of the clock, of spans, of rollovers or of a write    *)
(* whose answer was lost.                                                   *)
InstanceStep(i) == \E c \in cycles : c.owner = i /\ CycleStep(c)

Fairness ==
    \A i \in Instances :
        /\ WF_vars(InstanceStep(i))
        /\ WF_vars(TimerTick(i))
        /\ WF_vars(Start(i))
        /\ WF_vars(Exit(i))

FairSpec == Spec /\ Fairness

-----------------------------------------------------------------------------
(* Properties.                                                              *)

Documents == [index : 0..MaxIndex, bucket : Buckets, key : Keys, count : Nat \ {0}]

Cycles ==
    [owner : Instances, first : BOOLEAN, at : {"plan", "aggregate", "store", "save"},
     bucket : Buckets, until : Buckets, docs : SUBSET [key : Keys, count : Nat \ {0}]]

LateRequests ==
    [owner : Instances, at : {"store", "save"}, bucket : Buckets,
     docs : SUBSET [key : Keys, count : Nat \ {0}], id : 0..MaxFaults]

\* The fields and the stored documents have their types.
TypeOK ==
    /\ closed \in Buckets
    /\ onTime \in [Buckets -> [Keys -> Nat]]
    /\ late \in [Buckets -> [Keys -> Nat]]
    /\ rollup \in SUBSET Documents
    /\ writeIndex \in 0..MaxIndex
    /\ checkpoint \in Buckets \cup {NoCheckpoint}
    /\ rolledUpTo \in Buckets \cup {NoCheckpoint}
    /\ outOfTurn \in BOOLEAN
    /\ first \in Buckets
    /\ inFlight \subseteq LateRequests
    /\ phase \in [Instances -> Phases]
    /\ running \in [Instances -> BOOLEAN]
    /\ cycles \subseteq Cycles
    /\ faults \in 0..MaxFaults

\* A bucket with more services or environments than the terms aggregations
\* return is only covered in part.
Fits(b) ==
    /\ Cardinality(ActiveServices(b)) <= MaxServiceBuckets
    /\ \A s \in Services : Cardinality(ActiveEnvironments(b, s)) <= MaxEnvironmentBuckets

\* The checkpoint is a promise: whatever failed, crashed, was retried, was
\* carried out late or ran twice before, every key that had spans when a bucket
\* below it closed has a document for that bucket, and the document counts at
\* least those spans and none that does not exist.  The promise begins where the
\* last cycle began that found no checkpoint.
RollupCoversOnTimeSpans ==
    \A b \in first..(checkpoint - 1), k \in Keys :
        onTime[b][k] > 0 /\ Fits(b) =>
            \E r \in rollup : /\ r.bucket = b /\ r.key = k
                              /\ onTime[b][k] <= r.count /\ r.count <= Count(b, k)

\* With one instance the checkpoint moves over one bucket at a time and never
\* back, across cycles, failures, restarts and lost answers, until a write
\* whose answer was lost is carried out when the checkpoint has gone on without it.
CheckpointAdvancesByOne ==
    [][checkpoint' # checkpoint /\ checkpoint # NoCheckpoint /\ ~outOfTurn' =>
        checkpoint' = checkpoint + 1]_vars

\* The README: once a minute has been processed, recording its end prevents
\* that it is aggregated again.  So no cycle turns to a bucket below the
\* highest checkpoint there has been, under the same condition.
Reaggregates == \E c \in cycles' \ cycles : c.at = "aggregate" /\ c.bucket < rolledUpTo'

NeverReaggregates == [][~outOfTurn' => ~Reaggregates]_vars

\* Every bucket that closes is rolled up in the end, and once and for all: no
\* write of another cycle, instance or time takes the checkpoint below it again.
CatchesUp == \A b \in Buckets : closed > b ~> [](checkpoint > b)

\* The README: a key that already exists is skipped, so a bucket and key have
\* one document, whatever was retried.
OneDocumentPerBucket ==
    \A r1, r2 \in rollup : r1.bucket = r2.bucket /\ r1.key = r2.key => r1 = r2

=============================================================================
