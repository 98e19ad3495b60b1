-------------------------- MODULE AggregatorProofs --------------------------
(***************************************************************************)
(* Theorems about Aggregator.                                              *)
(*                                                                         *)
(* TypeCorrect, DocumentsTrue and CheckpointKeepsPromise hold for any      *)
(* number of instances: whatever a cycle, or a write whose answer was      *)
(* lost, may still save as the checkpoint is covered already.  The others  *)
(* are about the deployment the worker is written for, one instance at a   *)
(* time: as long as no write came out of turn, the one cycle there can be  *)
(* stands at the bucket that is to be rolled up next, or, when a late      *)
(* write has saved the checkpoint for it, at the one before.               *)
(***************************************************************************)
EXTENDS Aggregator, FiniteSetTheorems, TLAPS

-----------------------------------------------------------------------------
(* Facts about the operators.                                               *)

LEMMA MaxOfTwo ==
    ASSUME NEW a \in Int, NEW b \in Int
    PROVE  Max({a, b}) = IF a >= b THEN a ELSE b
<1> DEFINE m == IF a >= b THEN a ELSE b
<1>1. m \in {a, b} /\ \A y \in {a, b} : m >= y
    OBVIOUS
<1>2. \A x \in {a, b} : (\A y \in {a, b} : x >= y) => x = m
    OBVIOUS
<1> HIDE DEF m
<1>3. (CHOOSE x \in {a, b} : \A y \in {a, b} : x >= y) = m
    BY <1>1, <1>2
<1> QED BY <1>3 DEF Max, m

LEMMA MinOfTwo ==
    ASSUME NEW a \in Int, NEW b \in Int
    PROVE  Min({a, b}) = IF a <= b THEN a ELSE b
<1> DEFINE m == IF a <= b THEN a ELSE b
<1>1. m \in {a, b} /\ \A y \in {a, b} : m <= y
    OBVIOUS
<1>2. \A x \in {a, b} : (\A y \in {a, b} : x <= y) => x = m
    OBVIOUS
<1> HIDE DEF m
<1>3. (CHOOSE x \in {a, b} : \A y \in {a, b} : x <= y) = m
    BY <1>1, <1>2
<1> QED BY <1>3 DEF Min, m

\* A cycle begins at a bucket of the model.
LEMMA FirstWindowInBuckets ==
    ASSUME TypeOK, NEW until \in Buckets
    PROVE  FirstWindow(until) \in Buckets
<1>1. until - Lookback \in Int /\ until - Lookback <= Horizon /\ Horizon \in Nat
    BY AggregatorAssumption DEF Buckets
<1>2. Max({0, until - Lookback}) = IF 0 >= until - Lookback THEN 0 ELSE until - Lookback
    BY <1>1, MaxOfTwo
<1>3. Max({0, until - Lookback}) \in Buckets
    BY <1>1, <1>2 DEF Buckets
<1>4. checkpoint \in Buckets \cup {NoCheckpoint}
    BY DEF TypeOK
<1> QED BY <1>3, <1>4 DEF FirstWindow

LEMMA CountInNat ==
    ASSUME TypeOK, NEW b \in Buckets, NEW k \in Keys
    PROVE  /\ onTime[b][k] \in Nat
           /\ late[b][k] \in Nat
           /\ Count(b, k) \in Nat
           /\ onTime[b][k] <= Count(b, k)
BY DEF TypeOK, Count

\* Counting a span changes one number of the table.
LEMMA Increment ==
    ASSUME NEW t \in [Buckets -> [Keys -> Nat]], NEW b \in Buckets, NEW k \in Keys,
           NEW u, u = [t EXCEPT ![b][k] = @ + 1]
    PROVE  /\ u \in [Buckets -> [Keys -> Nat]]
           /\ \A b2 \in Buckets, k2 \in Keys :
                 u[b2][k2] = IF b2 = b /\ k2 = k THEN t[b][k] + 1 ELSE t[b2][k2]
<1> DEFINE row == [t[b] EXCEPT ![k] = t[b][k] + 1]
<1>1. row \in [Keys -> Nat]
    OBVIOUS
<1>2. u = [t EXCEPT ![b] = row]
    OBVIOUS
<1>3. \A k2 \in Keys : row[k2] = IF k2 = k THEN t[b][k] + 1 ELSE t[b][k2]
    OBVIOUS
<1> HIDE DEF row
<1> QED BY <1>1, <1>2, <1>3

LEMMA ActiveFinite ==
    ASSUME NEW b
    PROVE  /\ IsFiniteSet(ActiveServices(b)) /\ Cardinality(ActiveServices(b)) \in Nat
           /\ \A s : /\ IsFiniteSet(ActiveEnvironments(b, s))
                    /\ Cardinality(ActiveEnvironments(b, s)) \in Nat
<1>1. ActiveServices(b) \subseteq Services
    BY DEF ActiveServices, ActiveKeys, Keys
<1>2. \A s : ActiveEnvironments(b, s) \subseteq Environments
    BY DEF ActiveEnvironments
<1> QED BY <1>1, <1>2, AggregatorAssumption, FS_Subset, FS_CardinalityType

\* A terms aggregation whose size is not exceeded returns every term.
LEMMA AllTerms ==
    ASSUME NEW terms, IsFiniteSet(terms), NEW size \in Nat, Cardinality(terms) <= size,
           NEW top \in SUBSET terms, Cardinality(top) = Min({size, Cardinality(terms)})
    PROVE  top = terms
<1>1. Cardinality(terms) \in Nat
    BY FS_CardinalityType
<1>2. Min({size, Cardinality(terms)}) = Cardinality(terms)
    BY <1>1, MinOfTwo
<1> QED BY <1>2, FS_Subset

\* The aggregation returns only keys with spans, and all of them unless there
\* are too many.
LEMMA TopKeysActive ==
    ASSUME NEW b, NEW top \in TopKeys(b)
    PROVE  top \subseteq ActiveKeys(b) /\ (Fits(b) => top = ActiveKeys(b))
<1>1. PICK services \in TopServices(b), envs \in [Services -> SUBSET Environments] :
        /\ \A s \in Services : envs[s] \in TopEnvironments(b, s)
        /\ top = {k \in Keys : k[1] \in services /\ k[2] \in envs[k[1]]}
    BY DEF TopKeys
<1>2. /\ services \in SUBSET ActiveServices(b)
      /\ Cardinality(services) = Min({MaxServiceBuckets, Cardinality(ActiveServices(b))})
    BY <1>1 DEF TopServices, Top
<1>3. \A s \in Services :
        /\ envs[s] \in SUBSET ActiveEnvironments(b, s)
        /\ Cardinality(envs[s]) = Min({MaxEnvironmentBuckets, Cardinality(ActiveEnvironments(b, s))})
    BY <1>1 DEF TopEnvironments, Top
<1>4. \A k \in Keys : k[1] \in Services /\ k[2] \in Environments /\ k = <<k[1], k[2]>>
    BY DEF Keys
<1>5. top \subseteq ActiveKeys(b)
    BY <1>1, <1>3, <1>4 DEF ActiveEnvironments
<1>6. ASSUME Fits(b) PROVE ActiveKeys(b) \subseteq top
    <2>1. services = ActiveServices(b)
        BY <1>2, <1>6, ActiveFinite, AllTerms, AggregatorAssumption DEF Fits
    <2>2. \A s \in Services : envs[s] = ActiveEnvironments(b, s)
        <3> SUFFICES ASSUME NEW s \in Services PROVE envs[s] = ActiveEnvironments(b, s)
            OBVIOUS
        <3>1. /\ IsFiniteSet(ActiveEnvironments(b, s))
              /\ Cardinality(ActiveEnvironments(b, s)) <= MaxEnvironmentBuckets
            BY <1>6, ActiveFinite DEF Fits
        <3> QED BY <1>3, <3>1, AllTerms, AggregatorAssumption
    <2>3. \A k \in ActiveKeys(b) : k \in Keys
        BY DEF ActiveKeys
    <2> SUFFICES ASSUME NEW k \in ActiveKeys(b) PROVE k \in top
        OBVIOUS
    <2>4. k[1] \in ActiveServices(b)
        BY DEF ActiveServices
    <2>5. k[2] \in ActiveEnvironments(b, k[1])
        BY <1>4, <2>3 DEF ActiveEnvironments
    <2> QED BY <1>1, <1>4, <2>1, <2>2, <2>3, <2>4, <2>5
<1> QED BY <1>5, <1>6

-----------------------------------------------------------------------------
(* The inductive invariant.                                                 *)

\* A cycle belongs to a process that is up and knows it is running; it works
\* on a bucket that has closed.
CycleOrder ==
    \A c \in cycles :
        /\ running[c.owner]
        /\ phase[c.owner] # "down"
        /\ c.until <= closed
        /\ c.at # "plan" => c.bucket + 1 <= c.until

OneCyclePerInstance == \A c, d \in cycles : c.owner = d.owner => c = d

\* What was written, and what may still be, is about buckets that have closed.
WriteOrder == checkpoint <= closed /\ \A r \in inFlight : r.bucket + 1 <= closed

TypeInv == TypeOK /\ CycleOrder /\ OneCyclePerInstance /\ WriteOrder

OneInstance == \A i, j \in Instances : i = j

\* With one instance, and no write carried out of turn: the cycle stands at the
\* bucket that is next, or, saved by a late write already, at the one before,
\* and no write in flight is for a later bucket.
AtPosition ==
    \A c \in cycles : c.at # "plan" =>
        /\ c.bucket \in {Position, Position - 1}
        /\ \A r \in inFlight : r.at = "save" => r.bucket <= c.bucket

LateBehind == \A r \in inFlight : r.at = "save" => r.bucket <= Position

TurnInv == ~outOfTurn => AtPosition /\ LateBehind /\ rolledUpTo = checkpoint

LookbackFrom(until) == Max({0, until - Lookback})

\* A cycle that finds no checkpoint begins no earlier than those before it.
FirstBehind ==
    /\ first <= LookbackFrom(closed)
    /\ \A c \in cycles : c.at = "plan" => first <= LookbackFrom(c.until)

CheckpointInv == TurnInv /\ FirstBehind

\* n is a possible count for bucket b and key k.
Truthful(b, k, n) == onTime[b][k] <= n /\ n <= Count(b, k)

Due(b, k) == onTime[b][k] > 0 /\ Fits(b)

Covered(b) ==
    \A k \in Keys :
        Due(b, k) => \E r \in rollup : r.bucket = b /\ r.key = k /\ Truthful(b, k, r.count)

RollupTrue == \A r \in rollup : r.bucket < closed /\ Truthful(r.bucket, r.key, r.count)

TrueDocs(b, docs) ==
    /\ \A d \in docs : Truthful(b, d.key, d.count)
    /\ \A k \in Keys : Due(b, k) => \E d \in docs : d.key = k

DocsTrue == \A c \in cycles \cup inFlight : c.at = "store" => TrueDocs(c.bucket, c.docs)

SavedAfterStored == \A c \in cycles : c.at = "save" => Covered(c.bucket)

StoreInv == RollupTrue /\ DocsTrue /\ SavedAfterStored

CoveredUpTo(n) == \A b \in first..(n - 1) : Covered(b)

\* The buckets below the checkpoint are covered, and so are those below every
\* checkpoint that a cycle or a late write may save.
PromiseInv ==
    /\ CoveredUpTo(checkpoint)
    /\ \A c \in cycles : c.at # "plan" => CoveredUpTo(c.bucket)
    /\ \A r \in inFlight : r.at = "save" => CoveredUpTo(r.bucket + 1)

IInv == TypeInv /\ StoreInv /\ PromiseInv

-----------------------------------------------------------------------------
(* Types, and the cycles in progress.                                       *)

LEMMA TypeInit == Init => TypeInv
<1> SUFFICES ASSUME Init PROVE TypeInv
    OBVIOUS
<1>1. TypeOK
    <2>1. 0 \in Buckets /\ StartBucket \in Buckets /\ 0 \in 0..MaxIndex /\ 0 \in 0..MaxFaults
        BY AggregatorAssumption DEF Buckets
    <2>2. outOfTurn \in BOOLEAN /\ "down" \in Phases
        BY DEF Init, Phases
    <2> QED BY <2>1, <2>2 DEF Init, TypeOK
<1>2. CycleOrder /\ OneCyclePerInstance
    BY DEF Init, CycleOrder, OneCyclePerInstance
<1>3. WriteOrder
    BY AggregatorAssumption DEF Init, WriteOrder, NoCheckpoint
<1> QED BY <1>1, <1>2, <1>3 DEF TypeInv

\* The part of TypeInv that a change of the cycles touches.
CycleTypes ==
    /\ cycles \subseteq Cycles
    /\ phase \in [Instances -> Phases]
    /\ running \in [Instances -> BOOLEAN]
    /\ CycleOrder
    /\ OneCyclePerInstance

\* A cycle that goes on keeps its owner and the clock reading of its start.
LEMMA TypeOfBecomes ==
    ASSUME TypeInv, NEW c \in cycles, NEW d \in Cycles,
           d.owner = c.owner, d.until = c.until, d.bucket + 1 <= d.until,
           Becomes(c, d), UNCHANGED closed
    PROVE  CycleTypes'
<1>1. cycles' = (cycles \ {c}) \cup {d} /\ UNCHANGED <<phase, running>>
    BY DEF Becomes
<1> QED BY <1>1 DEF CycleTypes, TypeInv, TypeOK, CycleOrder, OneCyclePerInstance

LEMMA TypeOfEndCycle ==
    ASSUME TypeInv, NEW c \in cycles, EndCycle(c), UNCHANGED closed
    PROVE  CycleTypes'
BY DEF EndCycle, CycleTypes, TypeInv, TypeOK, CycleOrder, OneCyclePerInstance, Cycles, Phases

LEMMA TypeOfProcessGone ==
    ASSUME TypeInv, NEW i \in Instances, ProcessGone(i), UNCHANGED closed
    PROVE  CycleTypes'
BY DEF ProcessGone, CycleTypes, TypeInv, TypeOK, CycleOrder, OneCyclePerInstance, Cycles, Phases

LEMMA TypeOfNewCycle ==
    ASSUME TypeInv, NEW i \in Instances, NEW f \in BOOLEAN,
           phase[i] = "down" \/ ~running[i],
           cycles' = cycles \cup {NewCycle(i, f)},
           running' = [running EXCEPT ![i] = TRUE],
           phase' \in [Instances -> Phases], phase'[i] # "down",
           \A j \in Instances \ {i} : phase'[j] = phase[j],
           UNCHANGED closed
    PROVE  CycleTypes'
<1>1. NewCycle(i, f) \in Cycles
    BY AggregatorAssumption DEF NewCycle, Cycles, TypeInv, TypeOK, Buckets
<1>2. \A c \in cycles : c.owner # i
    BY DEF TypeInv, CycleOrder
<1>3. \A c \in cycles : c.owner \in Instances
    BY DEF TypeInv, TypeOK, Cycles
<1> DEFINE n == NewCycle(i, f)
<1>4. n.owner = i /\ n.at = "plan" /\ n.until = closed
    BY DEF NewCycle
<1>5. running \in [Instances -> BOOLEAN] /\ closed \in Nat
    BY AggregatorAssumption DEF TypeInv, TypeOK, Buckets
<1> HIDE DEF n
<1>6. cycles' = cycles \cup {n} /\ n \in Cycles
    BY <1>1 DEF n
<1>7. CycleOrder'
    BY <1>2, <1>3, <1>4, <1>5, <1>6 DEF TypeInv, CycleOrder
<1>8. OneCyclePerInstance'
    BY <1>2, <1>4, <1>6 DEF TypeInv, OneCyclePerInstance
<1> QED BY <1>5, <1>6, <1>7, <1>8 DEF CycleTypes, TypeInv, TypeOK

LEMMA TypeOfTurnTo ==
    ASSUME TypeInv, NEW c \in cycles, NEW b \in Nat, TurnTo(c, b), UNCHANGED closed
    PROVE  CycleTypes'
<1>1. c \in Cycles
    BY DEF TypeInv, TypeOK
<1>2. CASE b + 1 <= c.until
    <2> DEFINE d == [c EXCEPT !.at = "aggregate", !.bucket = b, !.docs = {}]
    <2>1. d \in Cycles /\ d.owner = c.owner /\ d.until = c.until /\ d.bucket = b
        <3>1. b \in Buckets
            BY <1>1, <1>2, AggregatorAssumption DEF Cycles, Buckets
        <3> QED BY <1>1, <3>1 DEF Cycles
    <2>2. Becomes(c, d)
        BY <1>2 DEF TurnTo
    <2> QED BY <2>1, <2>2, <1>2, TypeOfBecomes
<1>3. CASE ~(b + 1 <= c.until)
    BY <1>3, TypeOfEndCycle DEF TurnTo
<1> QED BY <1>2, <1>3

\* The documents of a bulk create are documents of the data stream.
LEMMA FreshType ==
    ASSUME TypeInv, NEW c \in cycles
    PROVE  Fresh(c) \subseteq Documents
BY DEF Fresh, Documents, TypeInv, TypeOK, Cycles

\* A bulk request whose answer is lost carries the documents of its cycle.
LEMMA LateFreshType ==
    ASSUME TypeInv, NEW r \in inFlight
    PROVE  Fresh(r) \subseteq Documents
BY DEF Fresh, Documents, TypeInv, TypeOK, LateRequests

\* The part of TypeInv that a write touches.
StoreTypes ==
    /\ rollup \in SUBSET Documents
    /\ checkpoint \in Buckets \cup {NoCheckpoint}
    /\ checkpoint <= closed
    /\ rolledUpTo \in Buckets \cup {NoCheckpoint}
    /\ outOfTurn \in BOOLEAN

\* The part that the requests in flight touch.
LateTypes ==
    /\ inFlight \subseteq LateRequests
    /\ \A r \in inFlight : r.bucket + 1 <= closed

LEMMA TypeOfWriteCheckpoint ==
    ASSUME TypeInv, NEW c, c.bucket \in Buckets, c.bucket + 1 <= closed, WriteCheckpoint(c),
           outOfTurn' \in BOOLEAN, UNCHANGED <<rollup, closed>>
    PROVE  StoreTypes'
<1>1. c.bucket + 1 \in Buckets
    BY AggregatorAssumption DEF TypeInv, TypeOK, Buckets
<1>2. rolledUpTo \in Int /\ c.bucket + 1 \in Int
    BY <1>1 DEF TypeInv, TypeOK, Buckets, NoCheckpoint
<1>3. Max({rolledUpTo, c.bucket + 1}) \in {rolledUpTo, c.bucket + 1}
    BY <1>2, MaxOfTwo
<1> QED BY <1>1, <1>3 DEF WriteCheckpoint, StoreTypes, TypeInv, TypeOK

\* A cycle past "plan" works on a bucket that has closed.
LEMMA CycleBucketClosed ==
    ASSUME TypeInv, NEW c \in cycles, c.at # "plan"
    PROVE  c.bucket \in Buckets /\ c.bucket \in Nat /\ c.bucket + 1 <= closed
<1>1. c.bucket \in Nat /\ c.until \in Nat /\ closed \in Nat /\ c.bucket \in Buckets
    BY AggregatorAssumption DEF TypeInv, TypeOK, Cycles, Buckets
<1>2. c.bucket + 1 <= c.until /\ c.until <= closed
    BY DEF TypeInv, CycleOrder
<1> QED BY <1>1, <1>2

LEMMA TypeOfRequests ==
    ASSUME TypeInv, NEW cs \in SUBSET cycles, inFlight' = inFlight \cup Requests(cs),
           UNCHANGED closed
    PROVE  LateTypes'
<1>1. ASSUME NEW r \in Requests(cs) PROVE r \in LateRequests /\ r.bucket + 1 <= closed
    <2>1. PICK c \in cs : /\ c.at \in {"store", "save"}
                          /\ r = [owner |-> c.owner, at |-> c.at, bucket |-> c.bucket,
                                  docs |-> c.docs, id |-> faults]
        BY DEF Requests
    <2>2. c \in Cycles /\ c.bucket + 1 <= closed
        BY <2>1, CycleBucketClosed DEF TypeInv, TypeOK
    <2>3. faults \in 0..MaxFaults
        BY DEF TypeInv, TypeOK
    <2> QED BY <2>1, <2>2, <2>3 DEF Cycles, LateRequests
<1>2. inFlight \subseteq LateRequests /\ \A r \in inFlight : r.bucket + 1 <= closed
    BY DEF TypeInv, TypeOK, WriteOrder
<1> QED BY <1>1, <1>2 DEF LateTypes

-----------------------------------------------------------------------------
(* Every step keeps TypeInv.                                                *)

LEMMA TypeFromParts ==
    ASSUME CycleTypes', StoreTypes', LateTypes', closed' \in Buckets, writeIndex' \in 0..MaxIndex,
           onTime' \in [Buckets -> [Keys -> Nat]], late' \in [Buckets -> [Keys -> Nat]],
           first' \in Buckets, faults' \in 0..MaxFaults
    PROVE  TypeInv'
BY DEF TypeInv, TypeOK, WriteOrder, CycleTypes, StoreTypes, LateTypes

LEMMA TypeStep ==
    ASSUME TypeInv, [Next]_vars
    PROVE  TypeInv'
<1>1. CycleTypes /\ StoreTypes /\ LateTypes
    BY DEF TypeInv, TypeOK, WriteOrder, CycleTypes, StoreTypes, LateTypes
<1>2. /\ closed \in Buckets /\ writeIndex \in 0..MaxIndex /\ faults \in 0..MaxFaults
      /\ onTime \in [Buckets -> [Keys -> Nat]] /\ late \in [Buckets -> [Keys -> Nat]]
      /\ first \in Buckets
    BY DEF TypeInv, TypeOK
<1>3. /\ CycleTypes' /\ StoreTypes' /\ LateTypes' /\ UNCHANGED worldVars
      /\ first' \in Buckets /\ faults' \in 0..MaxFaults
      => TypeInv'
    BY <1>2, TypeFromParts DEF worldVars
<1>4. UNCHANGED storeVars /\ closed' \in {closed, closed + 1} => StoreTypes'
    BY <1>1, <1>2, AggregatorAssumption
       DEF storeVars, checkpointVars, StoreTypes, Buckets, NoCheckpoint
<1>0. UNCHANGED inFlight /\ closed' \in {closed, closed + 1} => LateTypes'
    BY <1>1, <1>2 DEF LateTypes, LateRequests, Buckets
<1>5. Fault => faults' \in 0..MaxFaults
    BY <1>2, AggregatorAssumption DEF Fault
<1>6. CASE UNCHANGED vars
    <2>1. CycleTypes'
        BY <1>1, <1>6 DEF vars, worldVars, CycleTypes, CycleOrder, OneCyclePerInstance
    <2> QED BY <1>0, <1>2, <1>3, <1>4, <1>6, <2>1 DEF vars, worldVars
<1>7. CASE BucketCloses
    <2>1. closed' \in Buckets /\ closed' = closed + 1
        BY <1>2, <1>7, AggregatorAssumption DEF BucketCloses, Buckets
    <2>2. CycleTypes'
        BY <1>1, <1>2, <1>7, <2>1
           DEF BucketCloses, CycleTypes, CycleOrder, OneCyclePerInstance, Cycles, Buckets
    <2> QED BY <1>0, <1>2, <1>4, <1>7, <2>1, <2>2, TypeFromParts DEF BucketCloses
<1>8. CASE \E b \in Buckets, k \in Keys : SpanIndexed(b, k)
    <2>1. PICK b \in Buckets, k \in Keys : SpanIndexed(b, k)
        BY <1>8
    <2>2. onTime' \in [Buckets -> [Keys -> Nat]] /\ late' \in [Buckets -> [Keys -> Nat]]
        <3>1. CASE b = closed /\ onTime' = [onTime EXCEPT ![b][k] = @ + 1] /\ UNCHANGED late
            BY <1>2, <3>1, Increment
        <3>2. CASE b < closed /\ late' = [late EXCEPT ![b][k] = @ + 1] /\ UNCHANGED onTime
            BY <1>2, <3>2, Increment
        <3> QED BY <2>1, <3>1, <3>2 DEF SpanIndexed
    <2>3. CycleTypes'
        BY <1>1, <2>1 DEF SpanIndexed, CycleTypes, CycleOrder, OneCyclePerInstance
    <2> QED BY <1>0, <1>2, <1>4, <2>1, <2>2, <2>3, TypeFromParts DEF SpanIndexed
<1>9. CASE Rollover
    <2>1. CycleTypes'
        BY <1>1, <1>9 DEF Rollover, CycleTypes, CycleOrder, OneCyclePerInstance
    <2>2. writeIndex' \in 0..MaxIndex
        BY <1>2, <1>9, AggregatorAssumption DEF Rollover
    <2> QED BY <1>0, <1>2, <1>4, <1>9, <2>1, <2>2, TypeFromParts DEF Rollover
<1>21. ASSUME NEW r \in inFlight, LateWrite(r) PROVE TypeInv'
    <2>1. CycleTypes'
        BY <1>1, <1>21 DEF LateWrite, worldVars, CycleTypes, CycleOrder, OneCyclePerInstance
    <2>2. LateTypes'
        BY <1>1, <1>21 DEF LateWrite, LateTypes, worldVars
    <2>3. ASSUME r.at = "store" PROVE StoreTypes'
        BY <1>1, <1>21, <2>3, LateFreshType
           DEF LateWrite, StoreTypes, checkpointVars, worldVars
    <2>4. ASSUME r.at = "save" PROVE StoreTypes'
        <3>1. r.bucket \in Buckets /\ r.bucket + 1 <= closed
            BY <1>1 DEF LateTypes, LateRequests
        <3>2. outOfTurn' \in BOOLEAN /\ WriteCheckpoint(r) /\ UNCHANGED <<rollup, closed>>
            BY <1>21, <2>4 DEF LateWrite, worldVars
        <3> QED BY <3>1, <3>2, TypeOfWriteCheckpoint
    <2>5. StoreTypes'
        BY <1>21, <2>3, <2>4 DEF LateWrite
    <2> QED BY <1>2, <1>3, <1>21, <2>1, <2>2, <2>5 DEF LateWrite
<1>10. ASSUME NEW i \in Instances, Start(i) PROVE TypeInv'
    <2>1. phase' \in [Instances -> Phases] /\ phase'[i] = "starting"
          /\ \A j \in Instances \ {i} : phase'[j] = phase[j]
        BY <1>1, <1>10 DEF Start, CycleTypes, Phases
    <2>2. CycleTypes'
        BY <1>10, <2>1, TypeOfNewCycle DEF Start, worldVars
    <2> QED BY <1>0, <1>2, <1>3, <1>4, <1>10, <2>2 DEF Start, worldVars
<1>11. ASSUME NEW i \in Instances, TimerTick(i) PROVE TypeInv'
    <2>1. CycleTypes'
        BY <1>1, <1>11, TypeOfNewCycle DEF TimerTick, worldVars, CycleTypes
    <2> QED BY <1>0, <1>2, <1>3, <1>4, <1>11, <2>1 DEF TimerTick, worldVars
<1>12. ASSUME NEW i \in Instances, Crash(i) PROVE TypeInv'
    <2>1. CycleTypes'
        BY <1>12, TypeOfProcessGone DEF Crash, worldVars
    <2>2. LateTypes'
        BY <1>12, TypeOfRequests DEF Crash, ProcessGone, worldVars
    <2> QED BY <1>2, <1>3, <1>4, <1>5, <1>12, <2>1, <2>2 DEF Crash, worldVars
<1>13. ASSUME NEW i \in Instances, Shutdown(i) PROVE TypeInv'
    <2>1. CycleTypes'
        BY <1>1, <1>13
           DEF Shutdown, worldVars, CycleTypes, CycleOrder, OneCyclePerInstance, Phases, Cycles
    <2> QED BY <1>0, <1>2, <1>3, <1>4, <1>5, <1>13, <2>1 DEF Shutdown, worldVars
<1>14. ASSUME NEW i \in Instances, Exit(i) PROVE TypeInv'
    <2>1. CycleTypes'
        BY <1>14, TypeOfProcessGone DEF Exit, worldVars
    <2>2. LateTypes'
        BY <1>14, TypeOfRequests DEF Exit, ProcessGone, worldVars
    <2> QED BY <1>2, <1>3, <1>4, <1>14, <2>1, <2>2 DEF Exit, worldVars
<1>15. ASSUME NEW c \in cycles, PlanAnswers(c) PROVE TypeInv'
    <2>1. c.until \in Buckets
        BY DEF TypeInv, TypeOK, Cycles
    <2>2. FirstWindow(c.until) \in Nat
        BY <2>1, FirstWindowInBuckets DEF TypeInv, Buckets
    <2>3. CycleTypes'
        BY <1>15, <2>2, TypeOfTurnTo DEF PlanAnswers, worldVars
    <2>4. first' \in Buckets
        <3>1. FirstWindow(c.until) \in Buckets /\ first \in Int /\ FirstWindow(c.until) \in Int
            BY <1>2, <2>1, FirstWindowInBuckets DEF TypeInv, Buckets
        <3>2. Max({first, FirstWindow(c.until)}) \in {first, FirstWindow(c.until)}
            BY <3>1, MaxOfTwo
        <3> QED BY <1>2, <1>15, <3>1, <3>2 DEF PlanAnswers
    <2> QED BY <1>0, <1>2, <1>3, <1>4, <1>15, <2>3, <2>4 DEF PlanAnswers, worldVars
<1>16. ASSUME NEW c \in cycles, PlanFails(c) PROVE TypeInv'
    <2>1. c.owner \in Instances
        BY DEF TypeInv, TypeOK, Cycles
    <2>2. CycleTypes'
        BY <1>16, <2>1, TypeOfProcessGone, TypeOfEndCycle DEF PlanFails, worldVars
    <2>3. LateTypes'
        <3>1. {d \in cycles : d.owner = c.owner} \in SUBSET cycles /\ UNCHANGED closed
            BY <1>16 DEF PlanFails, worldVars
        <3>2. ProcessGone(c.owner) => LateTypes'
            BY <3>1, TypeOfRequests DEF ProcessGone
        <3> QED BY <1>0, <1>16, <3>1, <3>2 DEF PlanFails
    <2> QED BY <1>2, <1>3, <1>4, <1>5, <1>16, <2>2, <2>3 DEF PlanFails, worldVars
<1>17. ASSUME NEW c \in cycles, AggregateAnswers(c) PROVE TypeInv'
    <2> DEFINE Docs(top) == {[key |-> k, count |-> Count(c.bucket, k)] : k \in top}
    <2> DEFINE Next2(docs) == [c EXCEPT !.at = IF docs = {} THEN "save" ELSE "store", !.docs = docs]
    <2>1. PICK top \in TopKeys(c.bucket) : Becomes(c, Next2(Docs(top)))
        BY <1>17 DEF AggregateAnswers
    <2>2. c \in Cycles /\ c.bucket \in Buckets
        BY DEF TypeInv, TypeOK, Cycles
    <2>3. Docs(top) \in SUBSET [key : Keys, count : Nat \ {0}]
        <3>1. \A k \in top : k \in Keys /\ Count(c.bucket, k) \in Nat \ {0}
            BY <2>2, CountInNat, TopKeysActive DEF ActiveKeys, TypeInv
        <3> QED BY <3>1
    <2> DEFINE docs == Docs(top)
    <2> HIDE DEF docs, Docs
    <2>4. /\ Next2(docs) \in Cycles /\ Next2(docs).owner = c.owner
          /\ Next2(docs).until = c.until /\ Next2(docs).bucket = c.bucket
        BY <2>2, <2>3 DEF Cycles, docs
    <2>5. c.bucket + 1 <= c.until
        BY <1>17 DEF AggregateAnswers, TypeInv, CycleOrder
    <2>6. Becomes(c, Next2(docs))
        BY <2>1 DEF docs
    <2>7. UNCHANGED <<worldVars, storeVars, first, inFlight, faults>>
        BY <1>17 DEF AggregateAnswers
    <2> HIDE DEF Next2
    <2>8. CycleTypes'
        BY <2>4, <2>5, <2>6, <2>7, TypeOfBecomes DEF worldVars
    <2> QED BY <1>0, <1>2, <1>3, <1>4, <2>7, <2>8 DEF worldVars
<1>18. ASSUME NEW c \in cycles, StoreAnswers(c) PROVE TypeInv'
    <2> DEFINE d == [c EXCEPT !.at = "save", !.docs = {}]
    <2>1. d \in Cycles /\ d.owner = c.owner /\ d.until = c.until /\ d.bucket = c.bucket
        BY DEF TypeInv, TypeOK, Cycles
    <2>2. c.bucket + 1 <= c.until
        BY <1>18 DEF StoreAnswers, TypeInv, CycleOrder
    <2>3. CycleTypes'
        BY <1>18, <2>1, <2>2, TypeOfBecomes DEF StoreAnswers, worldVars
    <2>4. StoreTypes'
        BY <1>1, <1>18, FreshType DEF StoreAnswers, StoreTypes, checkpointVars, worldVars
    <2> QED BY <1>0, <1>2, <1>3, <1>18, <2>3, <2>4 DEF StoreAnswers, worldVars
<1>19. ASSUME NEW c \in cycles, SaveAnswers(c) PROVE TypeInv'
    <2>1. c.bucket + 1 \in Nat
        BY AggregatorAssumption DEF TypeInv, TypeOK, Cycles, Buckets
    <2>2. CycleTypes'
        BY <1>19, <2>1, TypeOfTurnTo DEF SaveAnswers, worldVars
    <2>3. StoreTypes'
        BY <1>2, <1>19, TypeOfWriteCheckpoint, CycleBucketClosed
           DEF SaveAnswers, worldVars, TypeInv, TypeOK
    <2> QED BY <1>0, <1>2, <1>3, <1>19, <2>2, <2>3 DEF SaveAnswers, worldVars
<1>20. ASSUME NEW c \in cycles, WindowFails(c) PROVE TypeInv'
    <2>1. CycleTypes'
        BY <1>20, TypeOfEndCycle DEF WindowFails, worldVars
    <2>2. LateTypes'
        BY <1>20, TypeOfRequests DEF WindowFails, worldVars
    <2> QED BY <1>2, <1>3, <1>4, <1>5, <1>20, <2>1, <2>2 DEF WindowFails, worldVars
<1> QED
    BY <1>6, <1>7, <1>8, <1>9, <1>10, <1>11, <1>12, <1>13, <1>14, <1>15, <1>16, <1>17,
       <1>18, <1>19, <1>20, <1>21 DEF Next, CycleStep

\* The fields, the documents and the cycles in progress have their types, with
\* any number of instances: no cycle leaves the buckets that have closed.
THEOREM TypeCorrect == Spec => []TypeOK
<1>1. Init => TypeInv
    BY TypeInit
<1>2. TypeInv /\ [Next]_vars => TypeInv'
    BY TypeStep
<1>3. TypeInv => TypeOK
    BY DEF TypeInv
<1> QED BY <1>1, <1>2, <1>3, PTL DEF Spec

-----------------------------------------------------------------------------
(* One instance: the checkpoint.                                            *)

LEMMA OnlyCycle ==
    ASSUME OneInstance, TypeInv, NEW c \in cycles, NEW d \in cycles
    PROVE  c = d
BY DEF OneInstance, TypeInv, TypeOK, OneCyclePerInstance, Cycles

\* A process that goes takes the only cycle with it.
LEMMA GoneOrEnded ==
    ASSUME OneInstance, TypeInv, NEW c \in cycles, EndCycle(c) \/ ProcessGone(c.owner)
    PROVE  cycles' = {}
BY OnlyCycle DEF EndCycle, ProcessGone

\* The cycle turns to a window, the only one there is, or there is none.
LEMMA TurnedOrEnded ==
    ASSUME OneInstance, TypeInv, NEW c \in cycles, NEW b, TurnTo(c, b)
    PROVE  \A d \in cycles' : d.at = "aggregate" /\ d.bucket = b /\ b + 1 <= c.until
<1>1. CASE b + 1 <= c.until
    <2> DEFINE d == [c EXCEPT !.at = "aggregate", !.bucket = b, !.docs = {}]
    <2>1. cycles' = (cycles \ {c}) \cup {d}
        BY <1>1 DEF TurnTo, Becomes
    <2>2. d.at = "aggregate" /\ d.bucket = b
        BY DEF TypeInv, TypeOK, Cycles
    <2> HIDE DEF d
    <2>3. cycles' = {d}
        BY <2>1, OnlyCycle
    <2> QED BY <1>1, <2>2, <2>3
<1>2. CASE ~(b + 1 <= c.until)
    BY <1>2, OnlyCycle DEF TurnTo, EndCycle
<1> QED BY <1>1, <1>2

LEMMA LookbackMonotone ==
    ASSUME NEW u \in Int, NEW v \in Int, u <= v
    PROVE  /\ LookbackFrom(u) \in Int /\ LookbackFrom(v) \in Int
           /\ LookbackFrom(u) <= LookbackFrom(v)
<1>1. u - Lookback \in Int /\ v - Lookback \in Int /\ u - Lookback <= v - Lookback
    BY AggregatorAssumption
<1>2. /\ Max({0, u - Lookback}) = IF 0 >= u - Lookback THEN 0 ELSE u - Lookback
      /\ Max({0, v - Lookback}) = IF 0 >= v - Lookback THEN 0 ELSE v - Lookback
    BY <1>1, MaxOfTwo
<1> QED BY <1>1, <1>2 DEF LookbackFrom

AdvanceStep ==
    checkpoint' # checkpoint /\ checkpoint # NoCheckpoint /\ ~outOfTurn' =>
        checkpoint' = checkpoint + 1

\* Only a late write sets outOfTurn, and nothing clears it.
LEMMA OutOfTurnStays ==
    ASSUME [Next]_vars, ~outOfTurn'
    PROVE  ~outOfTurn
BY DEF Next, CycleStep, vars, storeVars, checkpointVars, BucketCloses, SpanIndexed, Rollover,
       LateWrite, Start, TimerTick, Crash, Shutdown, Exit, PlanAnswers, PlanFails,
       AggregateAnswers, StoreAnswers, SaveAnswers, WindowFails

\* A checkpoint is written in turn: it stays or moves on by one bucket.
LEMMA WrittenInTurn ==
    ASSUME TypeInv, rolledUpTo = checkpoint, NEW c, c.bucket \in Nat,
           c.bucket \in {Position, Position - 1}, WriteCheckpoint(c)
    PROVE  /\ AdvanceStep
           /\ rolledUpTo' = checkpoint'
           /\ Position' = c.bucket + 1
           /\ Position \in Int /\ Position <= Position'
<1>1. checkpoint \in Int /\ first \in Int /\ c.bucket + 1 \in Nat
    BY DEF TypeInv, TypeOK, Buckets, NoCheckpoint
<1>2. checkpoint' = c.bucket + 1 /\ rolledUpTo' = Max({rolledUpTo, c.bucket + 1})
    BY DEF WriteCheckpoint
<1>3. Position' = c.bucket + 1
    BY <1>1, <1>2 DEF Position, NoCheckpoint
<1>4. CASE checkpoint = NoCheckpoint
    <2>1. rolledUpTo \in Int /\ c.bucket + 1 >= rolledUpTo
        BY <1>1, <1>4 DEF NoCheckpoint
    <2>2. Max({rolledUpTo, c.bucket + 1}) = c.bucket + 1
        BY <1>1, <2>1, MaxOfTwo
    <2> QED BY <1>1, <1>2, <1>3, <1>4, <2>2 DEF AdvanceStep, Position
<1>5. CASE checkpoint # NoCheckpoint
    <2>1. Position = checkpoint
        BY <1>5 DEF Position
    <2>2. c.bucket + 1 = checkpoint \/ c.bucket + 1 = checkpoint + 1
        BY <1>1, <2>1
    <2>3. rolledUpTo \in Int /\ c.bucket + 1 >= rolledUpTo
        BY <1>1, <2>2
    <2>4. Max({rolledUpTo, c.bucket + 1}) = c.bucket + 1
        BY <1>1, <2>3, MaxOfTwo
    <2> QED BY <1>1, <1>2, <1>3, <2>1, <2>2, <2>4 DEF AdvanceStep
<1> QED BY <1>4, <1>5

\* The requests that a step may add to those in flight are those of its cycle.
LEMMA RequestsOfCycle ==
    ASSUME NEW cs, NEW r \in Requests(cs)
    PROVE  \E c \in cs : c.at = r.at /\ c.bucket = r.bucket /\ c.docs = r.docs
BY DEF Requests

\* Most steps leave the checkpoint alone, put nothing in flight and bring no
\* cycle past "plan".
Quiet ==
    /\ UNCHANGED <<checkpointVars, first>>
    /\ inFlight' \subseteq inFlight
    /\ closed' \in {closed, closed + 1}
    /\ \A c \in cycles' : c \in cycles \/ (c.at = "plan" /\ c.until = closed)

LEMMA QuietCheckpoint ==
    ASSUME TypeInv, CheckpointInv, Quiet
    PROVE  CheckpointInv' /\ AdvanceStep
<1>1. closed \in Int /\ closed' \in Int /\ closed <= closed'
    BY DEF Quiet, TypeInv, TypeOK, Buckets
<1>2. /\ checkpoint' = checkpoint /\ rolledUpTo' = rolledUpTo /\ (outOfTurn' <=> outOfTurn)
      /\ first' = first
    BY DEF Quiet, checkpointVars
<1>3. Position' = Position
    BY <1>2 DEF Position
<1>4. TurnInv'
    BY <1>2, <1>3 DEF Quiet, CheckpointInv, TurnInv, AtPosition, LateBehind
<1>5. first <= LookbackFrom(closed')
    <2>1. first \in Int
        BY DEF TypeInv, TypeOK, Buckets
    <2> QED BY <1>1, <2>1, LookbackMonotone DEF CheckpointInv, FirstBehind
<1>6. FirstBehind'
    BY <1>2, <1>5 DEF Quiet, CheckpointInv, FirstBehind, LookbackFrom
<1> QED BY <1>2, <1>4, <1>6 DEF CheckpointInv, AdvanceStep

\* When the cycle ends, its request may be put in flight.
LEMMA GoneCheckpoint ==
    ASSUME OneInstance, TypeInv, CheckpointInv, cycles' = {},
           UNCHANGED <<checkpointVars, first, closed>>,
           inFlight' \subseteq inFlight \cup Requests(cycles)
    PROVE  CheckpointInv' /\ AdvanceStep
<1>1. /\ checkpoint' = checkpoint /\ rolledUpTo' = rolledUpTo /\ (outOfTurn' <=> outOfTurn)
      /\ first' = first /\ closed' = closed
    BY DEF checkpointVars
<1>2. Position' = Position
    BY <1>1 DEF Position
<1>3. ASSUME ~outOfTurn PROVE LateBehind'
    <2> SUFFICES ASSUME NEW r \in inFlight', r.at = "save" PROVE r.bucket <= Position
        BY <1>2 DEF LateBehind
    <2>1. CASE r \in inFlight
        BY <1>3, <2>1 DEF CheckpointInv, TurnInv, LateBehind
    <2>2. CASE r \in Requests(cycles)
        <3>1. PICK c \in cycles : c.at = "save" /\ c.bucket = r.bucket
            BY <2>2, RequestsOfCycle
        <3>2. c.bucket \in {Position, Position - 1}
            BY <1>3, <3>1 DEF CheckpointInv, TurnInv, AtPosition
        <3>3. Position \in Int
            BY DEF Position, TypeInv, TypeOK, Buckets, NoCheckpoint
        <3> QED BY <3>1, <3>2, <3>3
    <2> QED BY <2>1, <2>2
<1>4. TurnInv'
    BY <1>1, <1>3 DEF CheckpointInv, TurnInv, AtPosition
<1>5. FirstBehind'
    BY <1>1 DEF CheckpointInv, FirstBehind, LookbackFrom
<1> QED BY <1>1, <1>4, <1>5 DEF CheckpointInv, AdvanceStep

LEMMA PlanCheckpoint ==
    ASSUME OneInstance, TypeInv, CheckpointInv, NEW c \in cycles, PlanAnswers(c)
    PROVE  CheckpointInv' /\ AdvanceStep
<1>1. /\ checkpoint' = checkpoint /\ rolledUpTo' = rolledUpTo /\ (outOfTurn' <=> outOfTurn)
      /\ inFlight' = inFlight /\ closed' = closed
      /\ TurnTo(c, FirstWindow(c.until)) /\ c.at = "plan"
      /\ first' = IF checkpoint = NoCheckpoint THEN Max({first, FirstWindow(c.until)}) ELSE first
    BY DEF PlanAnswers, worldVars, storeVars, checkpointVars
<1>2. /\ first \in Int /\ c.until \in Int /\ closed \in Int /\ c.until <= closed
      /\ c.until \in Buckets
    BY DEF TypeInv, TypeOK, CycleOrder, Cycles, Buckets
<1>3. FirstWindow(c.until) \in Int
    BY <1>2, FirstWindowInBuckets DEF TypeInv, Buckets
<1>4. first <= LookbackFrom(c.until)
    BY <1>1 DEF CheckpointInv, FirstBehind
<1>5. ASSUME checkpoint = NoCheckpoint
      PROVE  FirstWindow(c.until) = LookbackFrom(c.until) /\ first' = LookbackFrom(c.until)
    <2>1. FirstWindow(c.until) = LookbackFrom(c.until)
        BY <1>5 DEF FirstWindow, LookbackFrom
    <2>2. Max({first, FirstWindow(c.until)}) = FirstWindow(c.until)
        BY <1>2, <1>3, <1>4, <2>1, MaxOfTwo
    <2> QED BY <1>1, <1>5, <2>1, <2>2
<1>6. Position' = FirstWindow(c.until) /\ Position <= Position'
    <2>1. CASE checkpoint = NoCheckpoint
        BY <1>1, <1>4, <1>5, <2>1 DEF Position
    <2>2. CASE checkpoint # NoCheckpoint
        <3>1. checkpoint \in Int
            BY DEF TypeInv, TypeOK, Buckets, NoCheckpoint
        <3> QED BY <1>1, <2>2, <3>1 DEF Position, FirstWindow
    <2> QED BY <2>1, <2>2
<1>7. Position \in Int /\ Position' \in Int
    BY <1>2, <1>3, <1>6 DEF Position, TypeInv, TypeOK, Buckets, NoCheckpoint
<1>8. \A d \in cycles' : d.at = "aggregate" /\ d.bucket = FirstWindow(c.until)
    BY <1>1, TurnedOrEnded
<1>9. ASSUME ~outOfTurn PROVE AtPosition' /\ LateBehind'
    <2>1. \A r \in inFlight' : r.at = "save" => r.bucket <= Position'
        <3> SUFFICES ASSUME NEW r \in inFlight, r.at = "save" PROVE r.bucket <= Position'
            BY <1>1
        <3>1. r.bucket \in Int
            BY DEF TypeInv, TypeOK, LateRequests, Buckets
        <3>2. r.bucket <= Position
            BY <1>9 DEF CheckpointInv, TurnInv, LateBehind
        <3> QED BY <1>6, <1>7, <3>1, <3>2
    <2> QED BY <1>6, <1>8, <2>1 DEF AtPosition, LateBehind
<1>10. TurnInv'
    BY <1>1, <1>9 DEF CheckpointInv, TurnInv
<1>11. first' <= LookbackFrom(closed)
    <2>1. CASE checkpoint = NoCheckpoint
        BY <1>2, <1>5, <2>1, LookbackMonotone
    <2>2. CASE checkpoint # NoCheckpoint
        BY <1>1, <2>2 DEF CheckpointInv, FirstBehind
    <2> QED BY <2>1, <2>2
<1>12. FirstBehind'
    BY <1>1, <1>8, <1>11 DEF FirstBehind, LookbackFrom
<1> QED BY <1>1, <1>10, <1>12 DEF CheckpointInv, AdvanceStep

LEMMA SaveCheckpoint ==
    ASSUME OneInstance, TypeInv, CheckpointInv, NEW c \in cycles, SaveAnswers(c)
    PROVE  CheckpointInv' /\ AdvanceStep
<1>1. /\ c.at = "save" /\ WriteCheckpoint(c) /\ TurnTo(c, c.bucket + 1)
      /\ (outOfTurn' <=> outOfTurn) /\ first' = first /\ inFlight' = inFlight /\ closed' = closed
    BY DEF SaveAnswers, worldVars
<1>2. \A d \in cycles' : d.at = "aggregate" /\ d.bucket = c.bucket + 1
    BY <1>1, TurnedOrEnded
<1>3. FirstBehind'
    BY <1>1, <1>2 DEF CheckpointInv, FirstBehind, LookbackFrom
<1>4. ASSUME ~outOfTurn
      PROVE  AdvanceStep /\ AtPosition' /\ LateBehind' /\ rolledUpTo' = checkpoint'
    <2>1. c.bucket \in Nat /\ c.bucket \in {Position, Position - 1} /\ rolledUpTo = checkpoint
        BY <1>1, <1>4, CycleBucketClosed DEF CheckpointInv, TurnInv, AtPosition
    <2>2. /\ AdvanceStep /\ rolledUpTo' = checkpoint'
          /\ Position' = c.bucket + 1 /\ Position \in Int /\ Position <= Position'
        BY <1>1, <2>1, WrittenInTurn
    <2>3. \A r \in inFlight' : r.at = "save" => r.bucket <= Position'
        <3> SUFFICES ASSUME NEW r \in inFlight, r.at = "save" PROVE r.bucket <= Position'
            BY <1>1
        <3>1. r.bucket \in Int
            BY DEF TypeInv, TypeOK, LateRequests, Buckets
        <3>2. r.bucket <= c.bucket
            BY <1>1, <1>4 DEF CheckpointInv, TurnInv, AtPosition
        <3> QED BY <2>1, <2>2, <3>1, <3>2
    <2> QED BY <1>2, <2>2, <2>3 DEF AtPosition, LateBehind
<1> QED BY <1>1, <1>3, <1>4 DEF CheckpointInv, TurnInv, AdvanceStep

LEMMA LateCheckpoint ==
    ASSUME TypeInv, CheckpointInv, NEW r \in inFlight, LateWrite(r), r.at = "save"
    PROVE  CheckpointInv' /\ AdvanceStep
<1>1. /\ WriteCheckpoint(r) /\ inFlight' = inFlight \ {r}
      /\ outOfTurn' = (outOfTurn \/ r.bucket \notin {Position, Position - 1})
      /\ first' = first /\ cycles' = cycles /\ closed' = closed
    BY DEF LateWrite, worldVars
<1>2. FirstBehind'
    BY <1>1 DEF CheckpointInv, FirstBehind, LookbackFrom
<1>3. ASSUME ~outOfTurn'
      PROVE  AdvanceStep /\ AtPosition' /\ LateBehind' /\ rolledUpTo' = checkpoint'
    <2>1. ~outOfTurn /\ r.bucket \in {Position, Position - 1}
        BY <1>1, <1>3
    <2>2. rolledUpTo = checkpoint /\ AtPosition /\ LateBehind
        BY <2>1 DEF CheckpointInv, TurnInv
    <2>3. r.bucket \in Nat
        BY DEF TypeInv, TypeOK, LateRequests, Buckets
    <2>4. /\ AdvanceStep /\ rolledUpTo' = checkpoint'
          /\ Position' = r.bucket + 1 /\ Position \in Int /\ Position <= Position'
        BY <1>1, <2>1, <2>2, <2>3, WrittenInTurn
    <2>5. \A q \in inFlight' : q.at = "save" => q.bucket <= Position'
        <3> SUFFICES ASSUME NEW q \in inFlight, q.at = "save" PROVE q.bucket <= Position'
            BY <1>1
        <3>1. q.bucket \in Int /\ q.bucket <= Position
            BY <2>2 DEF LateBehind, TypeInv, TypeOK, LateRequests, Buckets
        <3> QED BY <2>3, <2>4, <3>1
    <2>6. ASSUME NEW c \in cycles, c.at # "plan"
          PROVE  c.bucket \in {Position', Position' - 1}
        <3>1. c.bucket \in {Position, Position - 1} /\ r.bucket <= c.bucket
            BY <2>2, <2>6 DEF AtPosition
        <3>2. c.bucket \in Int
            BY <2>6, CycleBucketClosed
        <3> QED BY <2>1, <2>3, <2>4, <3>1, <3>2
    <2>7. \A c \in cycles, q \in inFlight' :
            c.at # "plan" /\ q.at = "save" => q.bucket <= c.bucket
        BY <1>1, <2>2 DEF AtPosition
    <2>8. AtPosition'
        BY <1>1, <2>6, <2>7 DEF AtPosition
    <2>9. LateBehind'
        BY <2>5 DEF LateBehind
    <2> QED BY <2>4, <2>8, <2>9
<1> QED BY <1>2, <1>3 DEF CheckpointInv, TurnInv, AdvanceStep

LEMMA CheckpointStep ==
    ASSUME OneInstance, TypeInv, CheckpointInv, [Next]_vars
    PROVE  CheckpointInv' /\ AdvanceStep
<1>1. CASE \/ UNCHANGED vars \/ BucketCloses \/ Rollover
           \/ \E b \in Buckets, k \in Keys : SpanIndexed(b, k)
    <2>1. Quiet
        BY <1>1 DEF Quiet, vars, worldVars, storeVars, BucketCloses, Rollover, SpanIndexed
    <2> QED BY <2>1, QuietCheckpoint
<1>2. ASSUME NEW i \in Instances, Start(i) \/ TimerTick(i) \/ Shutdown(i)
      PROVE  CheckpointInv' /\ AdvanceStep
    <2>1. Quiet
        BY <1>2 DEF Quiet, Start, TimerTick, Shutdown, NewCycle, worldVars, storeVars
    <2> QED BY <2>1, QuietCheckpoint
<1>3. ASSUME NEW i \in Instances, Crash(i) \/ Exit(i) PROVE CheckpointInv' /\ AdvanceStep
    <2>1. /\ UNCHANGED <<checkpointVars, first, closed>>
          /\ cycles' = {c \in cycles : c.owner # i}
          /\ inFlight' = inFlight \cup Requests({c \in cycles : c.owner = i})
        BY <1>3 DEF Crash, Exit, ProcessGone, worldVars, storeVars
    <2>2. \A c \in cycles : c.owner = i
        BY DEF OneInstance, TypeInv, TypeOK, Cycles
    <2>3. cycles' = {} /\ {c \in cycles : c.owner = i} = cycles
        BY <2>1, <2>2
    <2>4. inFlight' \subseteq inFlight \cup Requests(cycles)
        BY <2>1, <2>3
    <2> QED BY <2>1, <2>3, <2>4, GoneCheckpoint
<1>4. ASSUME NEW c \in cycles, PlanFails(c) PROVE CheckpointInv' /\ AdvanceStep
    <2>1. UNCHANGED <<checkpointVars, first, closed>> /\ cycles' = {}
        BY <1>4, GoneOrEnded DEF PlanFails, worldVars, storeVars
    <2>2. inFlight' \subseteq inFlight \cup Requests(cycles)
        <3>1. Requests({d \in cycles : d.owner = c.owner}) \subseteq Requests(cycles)
            BY DEF Requests
        <3> QED BY <1>4, <3>1 DEF PlanFails, ProcessGone
    <2> QED BY <2>1, <2>2, GoneCheckpoint
<1>5. ASSUME NEW c \in cycles, WindowFails(c) PROVE CheckpointInv' /\ AdvanceStep
    <2>1. UNCHANGED <<checkpointVars, first, closed>> /\ cycles' = {}
        BY <1>5, GoneOrEnded DEF WindowFails, worldVars, storeVars
    <2>2. inFlight' \subseteq inFlight \cup Requests(cycles)
        <3>1. Requests({c}) \subseteq Requests(cycles)
            BY DEF Requests
        <3> QED BY <1>5, <3>1 DEF WindowFails
    <2> QED BY <2>1, <2>2, GoneCheckpoint
<1>6. ASSUME NEW c \in cycles, AggregateAnswers(c) \/ StoreAnswers(c)
      PROVE  CheckpointInv' /\ AdvanceStep
    <2>1. UNCHANGED <<closed, checkpointVars, first, inFlight>>
        BY <1>6 DEF AggregateAnswers, StoreAnswers, worldVars, storeVars
    <2>2. PICK at, docs : at # "plan" /\ Becomes(c, [c EXCEPT !.at = at, !.docs = docs])
        BY <1>6 DEF AggregateAnswers, StoreAnswers
    <2> DEFINE d == [c EXCEPT !.at = at, !.docs = docs]
    <2>3. cycles' = {d} /\ d.bucket = c.bucket /\ d.at # "plan" /\ c.at # "plan"
        BY <1>6, <2>2, OnlyCycle
           DEF Becomes, TypeInv, TypeOK, Cycles, AggregateAnswers, StoreAnswers
    <2> HIDE DEF d
    <2>4. /\ checkpoint' = checkpoint /\ rolledUpTo' = rolledUpTo /\ (outOfTurn' <=> outOfTurn)
          /\ first' = first /\ closed' = closed /\ inFlight' = inFlight
        BY <2>1 DEF checkpointVars
    <2>5. Position' = Position
        BY <2>4 DEF Position
    <2>6. TurnInv'
        BY <2>3, <2>4, <2>5 DEF CheckpointInv, TurnInv, AtPosition, LateBehind
    <2>7. FirstBehind'
        BY <2>3, <2>4 DEF CheckpointInv, FirstBehind, LookbackFrom
    <2> QED BY <2>4, <2>6, <2>7 DEF CheckpointInv, AdvanceStep
<1>7. ASSUME NEW r \in inFlight, LateWrite(r), r.at = "store"
      PROVE  CheckpointInv' /\ AdvanceStep
    <2>1. Quiet
        BY <1>7 DEF Quiet, LateWrite, worldVars
    <2> QED BY <2>1, QuietCheckpoint
<1>8. ASSUME NEW r \in inFlight, LateWrite(r) PROVE CheckpointInv' /\ AdvanceStep
    BY <1>7, <1>8, LateCheckpoint DEF LateWrite
<1> QED
    BY <1>1, <1>2, <1>3, <1>4, <1>5, <1>6, <1>8, PlanCheckpoint, SaveCheckpoint
       DEF Next, CycleStep

LEMMA CheckpointInit == Init => CheckpointInv
<1> SUFFICES ASSUME Init PROVE CheckpointInv
    OBVIOUS
<1>1. TurnInv
    BY DEF Init, TurnInv, AtPosition, LateBehind
<1>2. 0 <= Max({0, StartBucket - Lookback})
    <2>1. StartBucket - Lookback \in Int
        BY AggregatorAssumption
    <2>2. Max({0, StartBucket - Lookback})
            = IF 0 >= StartBucket - Lookback THEN 0 ELSE StartBucket - Lookback
        BY <2>1, MaxOfTwo
    <2> QED BY <2>1, <2>2
<1>3. FirstBehind
    BY <1>2 DEF Init, FirstBehind, LookbackFrom
<1> QED BY <1>1, <1>3 DEF CheckpointInv

LEMMA CheckpointAlways == OneInstance => (Spec => [](TypeInv /\ CheckpointInv))
<1> SUFFICES ASSUME OneInstance PROVE Spec => [](TypeInv /\ CheckpointInv)
    OBVIOUS
<1>1. Init => TypeInv /\ CheckpointInv
    BY TypeInit, CheckpointInit
<1>2. TypeInv /\ CheckpointInv /\ [Next]_vars => (TypeInv /\ CheckpointInv)'
    BY TypeStep, CheckpointStep
<1> QED BY <1>1, <1>2, PTL DEF Spec

\* With one instance the checkpoint moves over one bucket at a time and never
\* back, however often the process fails, is restarted or loses an answer,
\* until a lost write is carried out when the checkpoint has gone on without it.
THEOREM OneBucketAtATime == OneInstance => (Spec => CheckpointAdvancesByOne)
<1> SUFFICES ASSUME OneInstance PROVE Spec => CheckpointAdvancesByOne
    OBVIOUS
<1>1. TypeInv /\ CheckpointInv /\ [Next]_vars => [AdvanceStep]_vars
    BY CheckpointStep
<1>2. Spec => [](TypeInv /\ CheckpointInv)
    BY CheckpointAlways
<1> QED BY <1>1, <1>2, PTL DEF Spec, CheckpointAdvancesByOne, AdvanceStep

\* A cycle that a step turns to a window stands at the bucket that is next.
LEMMA TurnsToPosition ==
    ASSUME OneInstance, TypeInv, CheckpointInv, [Next]_vars, ~outOfTurn',
           NEW d \in cycles' \ cycles, d.at = "aggregate"
    PROVE  d.bucket = Position'
<1>1. CASE \E c \in cycles : PlanAnswers(c)
    <2>1. PICK c \in cycles : PlanAnswers(c)
        BY <1>1
    <2>2. d.bucket = FirstWindow(c.until)
        BY <2>1, TurnedOrEnded DEF PlanAnswers
    <2>3. CASE checkpoint = NoCheckpoint
        <3>1. first <= FirstWindow(c.until)
            BY <2>1, <2>3 DEF CheckpointInv, FirstBehind, FirstWindow, LookbackFrom, PlanAnswers
        <3>2. c.until \in Buckets /\ first \in Int
            BY DEF TypeInv, TypeOK, Cycles, Buckets
        <3>3. FirstWindow(c.until) \in Int
            BY <3>2, FirstWindowInBuckets DEF TypeInv, Buckets
        <3>4. Max({first, FirstWindow(c.until)}) = FirstWindow(c.until)
            BY <3>1, <3>2, <3>3, MaxOfTwo
        <3> QED BY <2>1, <2>2, <2>3, <3>4
                DEF PlanAnswers, storeVars, checkpointVars, Position
    <2>4. CASE checkpoint # NoCheckpoint
        BY <2>1, <2>2, <2>4
           DEF PlanAnswers, storeVars, checkpointVars, Position, FirstWindow
    <2> QED BY <2>3, <2>4
<1>2. CASE \E c \in cycles : SaveAnswers(c)
    <2>1. PICK c \in cycles : SaveAnswers(c)
        BY <1>2
    <2>2. d.bucket = c.bucket + 1 /\ checkpoint' = c.bucket + 1
        BY <2>1, TurnedOrEnded DEF SaveAnswers, WriteCheckpoint
    <2>3. c.bucket \in Nat
        BY <2>1, CycleBucketClosed DEF SaveAnswers
    <2> QED BY <2>2, <2>3 DEF Position, NoCheckpoint
<1>3. CASE \E c \in cycles : AggregateAnswers(c) \/ StoreAnswers(c)
    <2>1. PICK c \in cycles : AggregateAnswers(c) \/ StoreAnswers(c)
        BY <1>3
    <2>2. PICK at, docs : at # "aggregate" /\ Becomes(c, [c EXCEPT !.at = at, !.docs = docs])
        BY <2>1 DEF AggregateAnswers, StoreAnswers
    <2>3. [c EXCEPT !.at = at, !.docs = docs].at = at
        BY DEF TypeInv, TypeOK, Cycles
    <2> QED BY <2>2, <2>3 DEF Becomes
<1>4. CASE \/ UNCHANGED vars \/ BucketCloses \/ Rollover
           \/ \E b \in Buckets, k \in Keys : SpanIndexed(b, k)
           \/ \E r \in inFlight : LateWrite(r)
    BY <1>4 DEF vars, BucketCloses, Rollover, SpanIndexed, LateWrite
<1>5. CASE \E i \in Instances : Start(i) \/ TimerTick(i) \/ Crash(i) \/ Shutdown(i) \/ Exit(i)
    BY <1>5 DEF Start, TimerTick, NewCycle, Crash, Shutdown, Exit, ProcessGone
<1>6. CASE \E c \in cycles : PlanFails(c) \/ WindowFails(c)
    BY <1>6 DEF PlanFails, WindowFails, ProcessGone, EndCycle
<1> QED
    BY <1>1, <1>2, <1>3, <1>4, <1>5, <1>6 DEF Next, CycleStep

\* With one instance no cycle turns to a minute that was rolled up before, under
\* the same condition.
THEOREM NoRework == OneInstance => (Spec => NeverReaggregates)
<1> SUFFICES ASSUME OneInstance PROVE Spec => NeverReaggregates
    OBVIOUS
<1> DEFINE NoneTurns == ~outOfTurn' => ~Reaggregates
<1>1. ASSUME TypeInv, CheckpointInv, [Next]_vars PROVE NoneTurns
    <2> SUFFICES ASSUME ~outOfTurn', NEW d \in cycles' \ cycles, d.at = "aggregate"
                 PROVE  ~(d.bucket < rolledUpTo')
        BY DEF Reaggregates
    <2>1. TypeInv' /\ CheckpointInv'
        BY <1>1, TypeStep, CheckpointStep
    <2>2. d.bucket = Position'
        BY <1>1, TurnsToPosition
    <2>3. rolledUpTo' = checkpoint'
        BY <2>1 DEF CheckpointInv, TurnInv
    <2>4. first' \in Nat /\ checkpoint' \in Int
        BY <2>1 DEF TypeInv, TypeOK, Buckets, NoCheckpoint
    <2> QED BY <2>2, <2>3, <2>4 DEF Position, NoCheckpoint
<1>2. TypeInv /\ CheckpointInv /\ [Next]_vars => [NoneTurns]_vars
    BY <1>1
<1>3. Spec => [](TypeInv /\ CheckpointInv)
    BY CheckpointAlways
<1> QED BY <1>2, <1>3, PTL DEF Spec, NeverReaggregates

-----------------------------------------------------------------------------
(* What is stored is true of the spans, with any number of instances.       *)

\* In a step, the spans that were on time stay the same for a closed bucket,
\* the others can only become more, and no document disappears.
OnlyMore ==
    /\ closed \in Int /\ closed' \in Int /\ closed <= closed'
    /\ rollup \subseteq rollup'
    /\ \A b \in Buckets, k \in Keys :
          b < closed => /\ onTime'[b][k] = onTime[b][k]
                        /\ Count(b, k) <= Count(b, k)'
                        /\ Due(b, k)' => Due(b, k)

LEMMA StepOnlyAdds ==
    ASSUME TypeInv, TypeInv', [Next]_vars
    PROVE  OnlyMore
<1>1. closed \in Int /\ closed' \in Int
    BY DEF TypeInv, TypeOK, Buckets
<1>2. rollup \subseteq rollup'
    BY DEF Next, CycleStep, vars, storeVars, BucketCloses, SpanIndexed, Rollover, LateWrite, Start,
           TimerTick, Crash, Shutdown, Exit, PlanAnswers, PlanFails,
           AggregateAnswers, StoreAnswers, SaveAnswers, WindowFails
<1>3. CASE UNCHANGED <<onTime, late>>
    <2>1. \A b, k : Count(b, k)' = Count(b, k) /\ (Due(b, k)' <=> Due(b, k))
        BY <1>3 DEF Count, Due, Fits, ActiveServices, ActiveEnvironments, ActiveKeys
    <2>2. closed <= closed'
        <3>1. UNCHANGED closed \/ BucketCloses
            BY DEF Next, CycleStep, vars, worldVars, SpanIndexed, Rollover, LateWrite, Start,
                   TimerTick, Crash, Shutdown, Exit, PlanAnswers, PlanFails,
                   AggregateAnswers, StoreAnswers, SaveAnswers, WindowFails
        <3> QED BY <1>1, <3>1 DEF BucketCloses
    <2>3. \A b \in Buckets, k \in Keys : Count(b, k) \in Nat
        BY CountInNat DEF TypeInv
    <2> QED BY <1>1, <1>2, <1>3, <2>1, <2>2, <2>3 DEF OnlyMore
<1>4. CASE \E b \in Buckets, k \in Keys : SpanIndexed(b, k)
    <2>1. PICK b0 \in Buckets, k0 \in Keys : SpanIndexed(b0, k0)
        BY <1>4
    <2>2. onTime \in [Buckets -> [Keys -> Nat]] /\ late \in [Buckets -> [Keys -> Nat]]
        BY DEF TypeInv, TypeOK
    <2>3. \A b \in Buckets, k \in Keys :
              /\ onTime[b][k] <= onTime'[b][k] /\ late[b][k] <= late'[b][k]
              /\ b < closed => onTime'[b][k] = onTime[b][k]
        <3>1. CASE b0 = closed /\ onTime' = [onTime EXCEPT ![b0][k0] = @ + 1] /\ UNCHANGED late
            BY <1>1, <2>2, <3>1, Increment
        <3>2. CASE b0 < closed /\ late' = [late EXCEPT ![b0][k0] = @ + 1] /\ UNCHANGED onTime
            BY <1>1, <2>2, <3>2, Increment
        <3> QED BY <2>1, <3>1, <3>2 DEF SpanIndexed
    <2>4. \A b \in Buckets, k \in Keys :
              onTime'[b][k] \in Nat /\ late'[b][k] \in Nat
        BY DEF TypeInv, TypeOK
    <2>5. \A b \in Buckets, k \in Keys : Count(b, k) <= Count(b, k)'
        BY <2>2, <2>3, <2>4 DEF Count
    <2>6. \A b \in Buckets, k \in Keys : b < closed /\ Due(b, k)' => Due(b, k)
        <3> SUFFICES ASSUME NEW b \in Buckets, NEW k \in Keys, b < closed, Due(b, k)'
                     PROVE  Due(b, k)
            OBVIOUS
        <3>1. ActiveKeys(b) \subseteq ActiveKeys(b)'
            <4>1. \A k2 \in Keys : Count(b, k2) \in Nat /\ Count(b, k2)' \in Nat
                BY <2>2, <2>4 DEF Count
            <4> QED BY <2>5, <4>1 DEF ActiveKeys
        <3>2. Fits(b)
            <4>1. ActiveServices(b) \subseteq ActiveServices(b)'
                BY <3>1 DEF ActiveServices
            <4>2. ActiveServices(b)' \subseteq Services
                BY DEF ActiveServices, ActiveKeys, Keys
            <4>3. Fits(b)'
                BY DEF Due
            <4>4. Cardinality(ActiveServices(b)) <= MaxServiceBuckets
                <5>1. IsFiniteSet(ActiveServices(b)') /\ Cardinality(ActiveServices(b)') \in Nat
                    BY <4>2, AggregatorAssumption, FS_Subset, FS_CardinalityType
                <5>2. Cardinality(ActiveServices(b)) <= Cardinality(ActiveServices(b)')
                    BY <4>1, <5>1, FS_Subset
                <5>3. Cardinality(ActiveServices(b)') <= MaxServiceBuckets
                    BY <4>3 DEF Fits
                <5> QED BY <5>1, <5>2, <5>3, ActiveFinite, AggregatorAssumption
            <4>5. ASSUME NEW s \in Services
                  PROVE  Cardinality(ActiveEnvironments(b, s)) <= MaxEnvironmentBuckets
                <5>1. ActiveEnvironments(b, s) \subseteq ActiveEnvironments(b, s)'
                    BY <3>1 DEF ActiveEnvironments
                <5>2. ActiveEnvironments(b, s)' \subseteq Environments
                    BY DEF ActiveEnvironments
                <5>3. /\ IsFiniteSet(ActiveEnvironments(b, s)')
                      /\ Cardinality(ActiveEnvironments(b, s)') \in Nat
                    BY <5>2, AggregatorAssumption, FS_Subset, FS_CardinalityType
                <5>4. Cardinality(ActiveEnvironments(b, s)) <= Cardinality(ActiveEnvironments(b, s)')
                    BY <5>1, <5>3, FS_Subset
                <5>5. Cardinality(ActiveEnvironments(b, s)') <= MaxEnvironmentBuckets
                    BY <4>3 DEF Fits
                <5> QED BY <5>3, <5>4, <5>5, ActiveFinite, AggregatorAssumption
            <4> QED BY <4>4, <4>5 DEF Fits
        <3>3. onTime'[b][k] > 0
            BY DEF Due
        <3> QED BY <2>3, <3>2, <3>3 DEF Due
    <2>7. closed' = closed
        BY <2>1 DEF SpanIndexed
    <2> QED BY <1>1, <1>2, <2>3, <2>5, <2>6, <2>7 DEF OnlyMore
<1> QED
    BY <1>3, <1>4
       DEF Next, CycleStep, vars, worldVars, BucketCloses, Rollover, LateWrite, Start, TimerTick,
           Crash, Shutdown, Exit, PlanAnswers, PlanFails, AggregateAnswers, StoreAnswers, SaveAnswers,
           WindowFails

LEMMA TruthfulStays ==
    ASSUME OnlyMore, TypeInv, TypeInv', NEW b \in Buckets, b < closed, NEW k \in Keys,
           NEW n \in Nat, Truthful(b, k, n)
    PROVE  Truthful(b, k, n)'
<1>1. Count(b, k) \in Nat /\ Count(b, k)' \in Nat
    BY DEF Count, TypeInv, TypeOK
<1>2. onTime'[b][k] = onTime[b][k] /\ Count(b, k) <= Count(b, k)'
    BY DEF OnlyMore
<1> QED BY <1>1, <1>2 DEF Truthful

LEMMA CoveredStays ==
    ASSUME OnlyMore, TypeInv, TypeInv', NEW b \in Buckets, b < closed, Covered(b)
    PROVE  Covered(b)'
<1> SUFFICES ASSUME NEW k \in Keys, Due(b, k)'
             PROVE  \E r \in rollup' : r.bucket = b /\ r.key = k /\ Truthful(b, k, r.count)'
    BY DEF Covered
<1>1. Due(b, k)
    BY DEF OnlyMore
<1>2. PICK r \in rollup : r.bucket = b /\ r.key = k /\ Truthful(b, k, r.count)
    BY <1>1 DEF Covered
<1>3. r \in rollup' /\ r.count \in Nat
    BY DEF OnlyMore, TypeInv, TypeOK, Documents
<1>4. Truthful(b, k, r.count)'
    BY <1>2, <1>3, TruthfulStays
<1> QED BY <1>2, <1>3, <1>4

LEMMA FreshTruthful ==
    ASSUME TypeInv, StoreInv, NEW c \in cycles \cup inFlight, c.at = "store"
    PROVE  \A r \in Fresh(c) : r.bucket < closed /\ Truthful(r.bucket, r.key, r.count)
<1>1. c.bucket < closed
    <2>1. CASE c \in cycles
        BY <2>1, CycleBucketClosed DEF TypeInv, TypeOK, Buckets
    <2>2. CASE c \in inFlight
        BY <2>2 DEF TypeInv, TypeOK, WriteOrder, LateRequests, Buckets
    <2> QED BY <2>1, <2>2
<1>2. \A d \in c.docs : Truthful(c.bucket, d.key, d.count)
    BY DEF StoreInv, DocsTrue, TrueDocs
<1> QED BY <1>1, <1>2 DEF Fresh

\* Once its documents are stored, the bucket of a cycle is covered.
LEMMA StoredCovers ==
    ASSUME TypeInv, StoreInv, NEW c \in cycles, StoreAnswers(c)
    PROVE  Covered(c.bucket)'
<1>1. rollup' = rollup \cup Fresh(c) /\ UNCHANGED <<onTime, late, writeIndex>> /\ c.at = "store"
    BY DEF StoreAnswers, worldVars
<1>2. \A b, k, n : (Due(b, k)' <=> Due(b, k)) /\ (Truthful(b, k, n)' <=> Truthful(b, k, n))
    BY <1>1 DEF Due, Fits, ActiveServices, ActiveEnvironments, Truthful, ActiveKeys, Count
<1> SUFFICES ASSUME NEW k \in Keys, Due(c.bucket, k)
             PROVE  \E r \in rollup' : /\ r.bucket = c.bucket /\ r.key = k
                                       /\ Truthful(c.bucket, k, r.count)
    BY <1>2 DEF Covered
<1>3. PICK d \in c.docs : d.key = k
    BY <1>1 DEF StoreInv, DocsTrue, TrueDocs
<1>4. CASE \E r \in rollup : r.index = writeIndex /\ r.bucket = c.bucket /\ r.key = d.key
    BY <1>1, <1>3, <1>4 DEF StoreInv, RollupTrue
<1>5. CASE \A r \in rollup : ~(r.index = writeIndex /\ r.bucket = c.bucket /\ r.key = d.key)
    <2> DEFINE r == [index |-> writeIndex, bucket |-> c.bucket, key |-> d.key, count |-> d.count]
    <2>1. r \in Fresh(c)
        BY <1>5 DEF Fresh
    <2>2. r.bucket = c.bucket /\ r.key = k /\ Truthful(c.bucket, k, r.count)
        BY <1>1, <1>3 DEF StoreInv, DocsTrue, TrueDocs
    <2> HIDE DEF r
    <2> QED BY <1>1, <2>1, <2>2
<1> QED BY <1>4, <1>5

\* What aggregate returns is true, and complete unless services were cut off.
LEMMA AggregateTrue ==
    ASSUME TypeInv, NEW b \in Buckets, NEW top \in TopKeys(b),
           NEW docs, docs = {[key |-> k, count |-> Count(b, k)] : k \in top}
    PROVE  TrueDocs(b, docs)
<1>1. \A k \in top : k \in Keys
    BY TopKeysActive DEF ActiveKeys
<1>2. \A d \in docs : Truthful(b, d.key, d.count)
    <2> SUFFICES ASSUME NEW k \in top
                 PROVE  Truthful(b, k, Count(b, k))
        OBVIOUS
    <2> QED BY <1>1, CountInNat DEF Truthful, TypeInv
<1>3. ASSUME NEW k \in Keys, Due(b, k) PROVE \E d \in docs : d.key = k
    <2>1. Count(b, k) > 0
        BY <1>3, CountInNat DEF Due, TypeInv
    <2>2. top = ActiveKeys(b)
        BY <1>3, TopKeysActive DEF Due
    <2>3. k \in top
        BY <2>1, <2>2 DEF ActiveKeys
    <2>4. [key |-> k, count |-> Count(b, k)] \in docs
        BY <2>3
    <2> QED BY <2>4
<1> QED BY <1>2, <1>3 DEF TrueDocs

\* A step that stores only true documents, and whose new cycles have nothing
\* to store or to save, keeps StoreInv.
LEMMA StoreKept ==
    ASSUME TypeInv, TypeInv', OnlyMore, StoreInv,
           \A r \in rollup' \ rollup : r.bucket < closed /\ Truthful(r.bucket, r.key, r.count),
           inFlight' \subseteq inFlight \cup Requests(cycles),
           \A c \in cycles' \ cycles :
              /\ c.at = "store" => c.bucket < closed /\ TrueDocs(c.bucket, c.docs)
              /\ c.at = "save" => Covered(c.bucket)'
    PROVE  StoreInv'
<1>1. \A c \in cycles' \cup inFlight' :
          /\ c.bucket \in Buckets
          /\ \A d \in c.docs : d.key \in Keys /\ d.count \in Nat
    BY DEF TypeInv, TypeOK, Cycles, LateRequests
<1>2. RollupTrue'
    <2> SUFFICES ASSUME NEW r \in rollup'
                 PROVE  r.bucket < closed' /\ Truthful(r.bucket, r.key, r.count)'
        BY DEF RollupTrue
    <2>1. r.bucket \in Buckets /\ r.key \in Keys /\ r.count \in Nat
        BY DEF TypeInv, TypeOK, Documents
    <2>2. r.bucket < closed /\ Truthful(r.bucket, r.key, r.count)
        BY DEF StoreInv, RollupTrue
    <2>3. r.bucket < closed'
        BY <2>1, <2>2 DEF OnlyMore, Buckets
    <2> QED BY <2>1, <2>2, <2>3, TruthfulStays
<1>3. /\ \A c \in cycles : c.at # "plan" => c.bucket < closed
      /\ \A r \in inFlight : r.bucket < closed
    BY CycleBucketClosed DEF TypeInv, TypeOK, WriteOrder, LateRequests, Buckets
<1>4. DocsTrue'
    <2> SUFFICES ASSUME NEW c \in cycles' \cup inFlight', c.at = "store"
                 PROVE  TrueDocs(c.bucket, c.docs)'
        BY DEF DocsTrue
    <2>1. c.bucket < closed /\ TrueDocs(c.bucket, c.docs)
        <3>1. CASE c \in Requests(cycles)
            <4>1. PICK d \in cycles : d.at = "store" /\ d.bucket = c.bucket /\ d.docs = c.docs
                BY <3>1, RequestsOfCycle
            <4>2. d.bucket < closed /\ TrueDocs(d.bucket, d.docs)
                BY <1>3, <4>1 DEF StoreInv, DocsTrue
            <4> QED BY <4>1, <4>2
        <3>2. CASE c \in cycles' \cup inFlight
            BY <1>3, <3>2 DEF StoreInv, DocsTrue
        <3> QED BY <3>1, <3>2
    <2>2. \A d \in c.docs : Truthful(c.bucket, d.key, d.count)'
        BY <1>1, <2>1, TruthfulStays DEF TrueDocs
    <2>3. \A k \in Keys : Due(c.bucket, k)' => \E d \in c.docs : d.key = k
        BY <1>1, <2>1 DEF TrueDocs, OnlyMore
    <2> QED BY <2>2, <2>3 DEF TrueDocs
<1>5. SavedAfterStored'
    <2> SUFFICES ASSUME NEW c \in cycles', c.at = "save"
                 PROVE  Covered(c.bucket)'
        BY DEF SavedAfterStored
    <2>1. CASE c \in cycles
        BY <1>1, <1>3, <2>1, CoveredStays DEF StoreInv, SavedAfterStored
    <2> QED BY <2>1
<1> QED BY <1>2, <1>4, <1>5 DEF StoreInv

LEMMA StoreStep ==
    ASSUME TypeInv, StoreInv, [Next]_vars
    PROVE  StoreInv'
<1>1. TypeInv'
    BY TypeStep
<1>2. OnlyMore
    BY <1>1, StepOnlyAdds
\* Most steps store nothing and bring no cycle to "store" or "save".
<1> DEFINE NothingNew == /\ \A c \in cycles' : c \in cycles \/ c.at \in {"plan", "aggregate"}
                         /\ inFlight' \subseteq inFlight \cup Requests(cycles)
<1>3. UNCHANGED rollup /\ NothingNew => StoreInv'
    BY <1>1, <1>2, StoreKept
<1>4. \A cs \in SUBSET cycles : Requests(cs) \subseteq Requests(cycles)
    BY DEF Requests
<1>5. ASSUME NEW c \in cycles, NEW b, TurnTo(c, b)
      PROVE  \A d \in cycles' : d \in cycles \/ d.at \in {"plan", "aggregate"}
    <2> DEFINE d == [c EXCEPT !.at = "aggregate", !.bucket = b, !.docs = {}]
    <2>1. d.at = "aggregate"
        BY DEF TypeInv, TypeOK, Cycles
    <2>2. cycles' = (cycles \ {c}) \cup {d} \/ cycles' = cycles \ {c}
        BY <1>5 DEF TurnTo, Becomes, EndCycle
    <2> HIDE DEF d
    <2> QED BY <2>1, <2>2
<1>6. CASE \/ UNCHANGED vars \/ BucketCloses \/ Rollover
           \/ \E b \in Buckets, k \in Keys : SpanIndexed(b, k)
    BY <1>3, <1>6 DEF vars, storeVars, BucketCloses, Rollover, SpanIndexed
<1>7. ASSUME NEW i \in Instances, Start(i) \/ TimerTick(i) \/ Shutdown(i) PROVE StoreInv'
    BY <1>3, <1>7 DEF Start, TimerTick, Shutdown, NewCycle, storeVars
<1>15. ASSUME NEW i, ProcessGone(i) PROVE NothingNew
    <2>1. {c \in cycles : c.owner = i} \in SUBSET cycles
        OBVIOUS
    <2> QED BY <1>4, <1>15, <2>1 DEF ProcessGone
<1>8. ASSUME NEW i \in Instances, Crash(i) \/ Exit(i) PROVE StoreInv'
    BY <1>3, <1>8, <1>15 DEF Crash, Exit, storeVars
<1>9. ASSUME NEW c \in cycles, PlanAnswers(c) PROVE StoreInv'
    BY <1>3, <1>5, <1>9 DEF PlanAnswers, storeVars
<1>10. ASSUME NEW c \in cycles, PlanFails(c) PROVE StoreInv'
    <2>1. NothingNew
        BY <1>10, <1>15 DEF PlanFails, EndCycle
    <2> QED BY <1>3, <1>10, <2>1 DEF PlanFails, storeVars
<1>16. ASSUME NEW r \in inFlight, LateWrite(r) PROVE StoreInv'
    <2>1. NothingNew
        BY <1>16 DEF LateWrite
    <2>2. CASE r.at = "store"
        <3>1. \A d \in rollup' \ rollup : d.bucket < closed /\ Truthful(d.bucket, d.key, d.count)
            BY <1>16, <2>2, FreshTruthful DEF LateWrite
        <3> QED BY <1>1, <1>2, <2>1, <3>1, StoreKept
    <2>3. CASE r.at = "save"
        BY <1>3, <1>16, <2>1, <2>3 DEF LateWrite
    <2> QED BY <1>16, <2>2, <2>3 DEF LateWrite
<1>11. ASSUME NEW c \in cycles, AggregateAnswers(c) PROVE StoreInv'
    <2> DEFINE Docs(top) == {[key |-> k, count |-> Count(c.bucket, k)] : k \in top}
    <2> DEFINE Turned(docs) == [c EXCEPT !.at = IF docs = {} THEN "save" ELSE "store", !.docs = docs]
    <2>1. PICK top \in TopKeys(c.bucket) : Becomes(c, Turned(Docs(top)))
        BY <1>11 DEF AggregateAnswers
    <2>2. c \in Cycles /\ c.bucket \in Buckets
        BY DEF TypeInv, TypeOK, Cycles
    <2>3. c.bucket < closed
        <3>1. c.bucket + 1 <= c.until /\ c.until <= closed
            BY <1>11 DEF AggregateAnswers, TypeInv, CycleOrder
        <3>2. c.bucket \in Int /\ c.until \in Int /\ closed \in Int
            BY DEF TypeInv, TypeOK, Cycles, Buckets
        <3> QED BY <3>1, <3>2
    <2>4. TrueDocs(c.bucket, Docs(top))
        BY <2>2, AggregateTrue
    <2>5. UNCHANGED <<rollup, closed, onTime, late, inFlight>>
        BY <1>11 DEF AggregateAnswers, worldVars, storeVars
    <2> DEFINE docs == Docs(top)
    <2> HIDE DEF docs, Docs
    <2>6. /\ cycles' = (cycles \ {c}) \cup {Turned(docs)}
          /\ Turned(docs).bucket = c.bucket /\ Turned(docs).docs = docs
          /\ Turned(docs).at = IF docs = {} THEN "save" ELSE "store"
        BY <2>1, <2>2 DEF Becomes, docs, Cycles
    <2>7. TrueDocs(c.bucket, docs)
        BY <2>4 DEF docs
    <2>8. docs = {} => Covered(c.bucket)'
        <3>1. ASSUME docs = {} PROVE \A k \in Keys : ~Due(c.bucket, k)
            BY <2>7, <3>1 DEF TrueDocs
        <3>2. \A k : Due(c.bucket, k)' <=> Due(c.bucket, k)
            BY <2>5 DEF Due, Fits, ActiveServices, ActiveEnvironments, ActiveKeys, Count
        <3> QED BY <3>1, <3>2 DEF Covered
    <2>9. PICK d : /\ cycles' = (cycles \ {c}) \cup {d} /\ d.bucket = c.bucket /\ d.docs = docs
                   /\ d.at = IF docs = {} THEN "save" ELSE "store"
        BY <2>6
    <2>10. d.at = "store" => d.bucket < closed /\ TrueDocs(d.bucket, d.docs)
        BY <2>3, <2>7, <2>9
    <2>11. d.at = "save" => Covered(d.bucket)'
        BY <2>8, <2>9
    <2> QED BY <1>1, <1>2, <2>5, <2>9, <2>10, <2>11, StoreKept
<1>12. ASSUME NEW c \in cycles, StoreAnswers(c) PROVE StoreInv'
    <2> DEFINE d == [c EXCEPT !.at = "save", !.docs = {}]
    <2>1. /\ cycles' = (cycles \ {c}) \cup {d} /\ rollup' = rollup \cup Fresh(c)
          /\ c.at = "store" /\ inFlight' = inFlight
        BY <1>12 DEF StoreAnswers, Becomes
    <2>2. d.at = "save" /\ d.bucket = c.bucket
        BY DEF TypeInv, TypeOK, Cycles
    <2>3. Covered(c.bucket)'
        BY <1>12, StoredCovers
    <2>4. \A r \in Fresh(c) : r.bucket < closed /\ Truthful(r.bucket, r.key, r.count)
        BY <2>1, FreshTruthful
    <2> HIDE DEF d
    <2> QED BY <1>1, <1>2, <2>1, <2>2, <2>3, <2>4, StoreKept
<1>13. ASSUME NEW c \in cycles, SaveAnswers(c) PROVE StoreInv'
    BY <1>3, <1>5, <1>13 DEF SaveAnswers
<1>14. ASSUME NEW c \in cycles, WindowFails(c) PROVE StoreInv'
    <2>1. NothingNew
        BY <1>4, <1>14 DEF WindowFails, EndCycle
    <2> QED BY <1>3, <1>14, <2>1 DEF WindowFails, storeVars
<1> QED
    BY <1>6, <1>7, <1>8, <1>9, <1>10, <1>11, <1>12, <1>13, <1>14, <1>16 DEF Next, CycleStep

-----------------------------------------------------------------------------
(* The promise of the checkpoint.                                           *)

\* A promise about closed buckets stays true; `first` only grows.
LEMMA CoveredUpToStays ==
    ASSUME OnlyMore, TypeInv, TypeInv', first <= first', NEW n \in Int, n <= closed, CoveredUpTo(n)
    PROVE  CoveredUpTo(n)'
<1> SUFFICES ASSUME NEW b \in first'..(n - 1) PROVE Covered(b)'
    BY DEF CoveredUpTo
<1>1. first \in Nat /\ first' \in Nat /\ closed \in Buckets /\ Horizon \in Nat
    BY AggregatorAssumption DEF TypeInv, TypeOK, Buckets
<1>2. b \in first..(n - 1) /\ b \in Buckets /\ b < closed
    BY <1>1 DEF Buckets
<1>3. Covered(b)
    BY <1>2 DEF CoveredUpTo
<1> QED BY <1>2, <1>3, CoveredStays

\* A step keeps the promises if those of its new cycles and its new checkpoint
\* are kept.
LEMMA PromiseKept ==
    ASSUME TypeInv, TypeInv', OnlyMore, first <= first', PromiseInv, SavedAfterStored,
           checkpoint' = checkpoint \/ CoveredUpTo(checkpoint)',
           \A c \in cycles' \ cycles : c.at # "plan" =>
               CoveredUpTo(c.bucket)' \/ \E d \in cycles : d.at # "plan" /\ d.bucket = c.bucket,
           inFlight' \subseteq inFlight \cup Requests(cycles)
    PROVE  PromiseInv'
<1>1. checkpoint \in Int /\ checkpoint <= closed /\ closed \in Int
    BY DEF TypeInv, TypeOK, WriteOrder, Buckets, NoCheckpoint
<1>2. CoveredUpTo(checkpoint)'
    <2>1. CASE checkpoint' = checkpoint
        <3>1. CoveredUpTo(checkpoint)
            BY DEF PromiseInv
        <3>2. \A b \in first'..(checkpoint - 1) : Covered(b)'
            BY <1>1, <3>1, CoveredUpToStays DEF CoveredUpTo
        <3> QED BY <2>1, <3>2 DEF CoveredUpTo
    <2> QED BY <2>1
<1>3. ASSUME NEW d \in cycles, d.at # "plan" PROVE CoveredUpTo(d.bucket)'
    <2>1. d.bucket \in Int /\ d.bucket <= closed
        BY <1>1, <1>3, CycleBucketClosed
    <2>2. CoveredUpTo(d.bucket)
        BY <1>3 DEF PromiseInv
    <2> QED BY <2>1, <2>2, CoveredUpToStays
<1>4. \A c \in cycles' : c.at # "plan" => CoveredUpTo(c.bucket)'
    BY <1>3
<1>5. ASSUME NEW r \in inFlight', r.at = "save" PROVE CoveredUpTo(r.bucket + 1)'
    <2>1. CASE r \in inFlight
        <3>1. r.bucket + 1 \in Int /\ r.bucket + 1 <= closed
            BY <2>1 DEF TypeInv, TypeOK, WriteOrder, LateRequests, Buckets
        <3>2. CoveredUpTo(r.bucket + 1)
            BY <1>5, <2>1 DEF PromiseInv
        <3> QED BY <3>1, <3>2, CoveredUpToStays
    <2>2. CASE r \in Requests(cycles)
        <3>1. PICK c \in cycles : c.at = "save" /\ c.bucket = r.bucket
            BY <1>5, <2>2, RequestsOfCycle
        <3>2. c.bucket \in Nat /\ c.bucket + 1 <= closed
            BY <3>1, CycleBucketClosed
        <3>3. CoveredUpTo(c.bucket) /\ Covered(c.bucket)
            BY <3>1 DEF PromiseInv, SavedAfterStored
        <3>4. \A b \in first..((c.bucket + 1) - 1) : b \in first..(c.bucket - 1) \/ b = c.bucket
            BY <3>2 DEF TypeInv, TypeOK, Buckets
        <3>5. CoveredUpTo(c.bucket + 1)
            BY <3>3, <3>4 DEF CoveredUpTo
        <3> QED BY <3>1, <3>2, <3>5, CoveredUpToStays
    <2> QED BY <2>1, <2>2
<1> QED BY <1>2, <1>4, <1>5 DEF PromiseInv

LEMMA PromiseStep ==
    ASSUME TypeInv, StoreInv, PromiseInv, [Next]_vars
    PROVE  PromiseInv'
<1>1. TypeInv' /\ OnlyMore /\ SavedAfterStored
    BY TypeStep, StepOnlyAdds DEF StoreInv
<1>2. first \in Int
    BY DEF TypeInv, TypeOK, Buckets
<1> DEFINE Plain == /\ UNCHANGED <<checkpoint, first>>
                    /\ inFlight' \subseteq inFlight \cup Requests(cycles)
                    /\ \A c \in cycles' \ cycles : c.at # "plan" =>
                           \E d \in cycles : d.at # "plan" /\ d.bucket = c.bucket
<1>3. Plain => PromiseInv'
    BY <1>1, <1>2, PromiseKept
<1>4. \A cs \in SUBSET cycles : Requests(cs) \subseteq Requests(cycles)
    BY DEF Requests
<1>5. ASSUME NEW c \in cycles, NEW b, TurnTo(c, b)
      PROVE  \A d \in cycles' \ cycles : d.bucket = b
    <2> DEFINE d == [c EXCEPT !.at = "aggregate", !.bucket = b, !.docs = {}]
    <2>1. d.bucket = b
        BY DEF TypeInv, TypeOK, Cycles
    <2>2. cycles' = (cycles \ {c}) \cup {d} \/ cycles' = cycles \ {c}
        BY <1>5 DEF TurnTo, Becomes, EndCycle
    <2> HIDE DEF d
    <2> QED BY <2>1, <2>2
<1>6. CASE \/ UNCHANGED vars \/ BucketCloses \/ Rollover
           \/ \E b \in Buckets, k \in Keys : SpanIndexed(b, k)
    <2>1. Plain
        BY <1>6 DEF vars, storeVars, checkpointVars, BucketCloses, Rollover, SpanIndexed
    <2> QED BY <1>3, <2>1
<1>7. ASSUME NEW i \in Instances, Start(i) \/ TimerTick(i) \/ Shutdown(i) PROVE PromiseInv'
    <2>1. Plain
        BY <1>7 DEF Start, TimerTick, Shutdown, NewCycle, storeVars, checkpointVars
    <2> QED BY <1>3, <2>1
<1>8. ASSUME NEW i, ProcessGone(i), UNCHANGED <<storeVars, first>> PROVE PromiseInv'
    <2>1. {c \in cycles : c.owner = i} \in SUBSET cycles
        OBVIOUS
    <2>2. Plain
        BY <1>4, <1>8, <2>1 DEF ProcessGone, storeVars, checkpointVars
    <2> QED BY <1>3, <2>2
<1>9. ASSUME NEW i \in Instances, Crash(i) \/ Exit(i) PROVE PromiseInv'
    BY <1>8, <1>9 DEF Crash, Exit
<1>10. ASSUME NEW c \in cycles, PlanFails(c) \/ WindowFails(c) PROVE PromiseInv'
    <2>1. UNCHANGED <<storeVars, first>>
        BY <1>10 DEF PlanFails, WindowFails
    <2>2. CASE ProcessGone(c.owner)
        BY <1>8, <2>1, <2>2
    <2>3. CASE EndCycle(c) /\ inFlight' \subseteq inFlight \cup Requests({c})
        <3>1. Plain
            BY <1>4, <2>1, <2>3 DEF EndCycle, storeVars, checkpointVars
        <3> QED BY <1>3, <3>1
    <2> QED BY <1>10, <2>2, <2>3 DEF PlanFails, WindowFails
<1>11. ASSUME NEW c \in cycles, AggregateAnswers(c) \/ StoreAnswers(c) PROVE PromiseInv'
    <2>1. PICK at, docs : Becomes(c, [c EXCEPT !.at = at, !.docs = docs])
        BY <1>11 DEF AggregateAnswers, StoreAnswers
    <2>2. [c EXCEPT !.at = at, !.docs = docs].bucket = c.bucket
        BY DEF TypeInv, TypeOK, Cycles
    <2>3. /\ \A d \in cycles' \ cycles : d.bucket = c.bucket
          /\ c.at # "plan"
        BY <1>11, <2>1, <2>2 DEF Becomes, AggregateAnswers, StoreAnswers
    <2>4. Plain
        BY <1>11, <2>3 DEF AggregateAnswers, StoreAnswers, storeVars, checkpointVars
    <2> QED BY <1>3, <2>4
<1>12. ASSUME NEW c \in cycles, PlanAnswers(c) PROVE PromiseInv'
    <2>1. /\ checkpoint' = checkpoint /\ inFlight' = inFlight
          /\ TurnTo(c, FirstWindow(c.until))
          /\ first' = IF checkpoint = NoCheckpoint
                       THEN Max({first, FirstWindow(c.until)}) ELSE first
        BY <1>12 DEF PlanAnswers, storeVars, checkpointVars
    <2>2. c.until \in Buckets
        BY DEF TypeInv, TypeOK, Cycles
    <2>3. FirstWindow(c.until) \in Int
        BY <2>2, FirstWindowInBuckets DEF TypeInv, Buckets
    <2>4. Max({first, FirstWindow(c.until)})
            = IF first >= FirstWindow(c.until) THEN first ELSE FirstWindow(c.until)
        BY <1>2, <2>3, MaxOfTwo
    <2>5. first <= first'
        BY <1>2, <2>1, <2>3, <2>4
    <2>6. CoveredUpTo(FirstWindow(c.until))'
        <3>1. CASE checkpoint = NoCheckpoint
            <4>1. first' >= FirstWindow(c.until)
                BY <1>2, <2>1, <2>3, <2>4, <3>1
            <4>2. first' \in Int
                BY <1>1 DEF TypeInv, TypeOK, Buckets
            <4>3. FirstWindow(c.until)' = FirstWindow(c.until)
                BY <2>1 DEF FirstWindow
            <4>4. first'..(FirstWindow(c.until) - 1) = {}
                BY <2>3, <4>1, <4>2
            <4> QED BY <4>3, <4>4 DEF CoveredUpTo
        <3>2. CASE checkpoint # NoCheckpoint
            <4>1. FirstWindow(c.until)' = checkpoint /\ FirstWindow(c.until) = checkpoint
                BY <2>1, <3>2 DEF FirstWindow
            <4>2. checkpoint \in Int /\ checkpoint <= closed /\ CoveredUpTo(checkpoint)
                BY DEF TypeInv, TypeOK, WriteOrder, PromiseInv, Buckets, NoCheckpoint
            <4>3. \A b \in first'..(checkpoint - 1) : Covered(b)'
                BY <1>1, <2>5, <4>2, CoveredUpToStays DEF CoveredUpTo
            <4> QED BY <4>1, <4>3 DEF CoveredUpTo
        <3> QED BY <3>1, <3>2
    <2>7. \A d \in cycles' \ cycles : d.bucket = FirstWindow(c.until)
        BY <1>5, <2>1
    <2>8. \A d \in cycles' \ cycles : CoveredUpTo(d.bucket)'
        <3>1. FirstWindow(c.until)' = FirstWindow(c.until)
            BY <2>1 DEF FirstWindow
        <3> QED BY <2>6, <2>7, <3>1 DEF CoveredUpTo
    <2> QED BY <1>1, <2>1, <2>5, <2>8, PromiseKept
<1>13. ASSUME NEW c, c.at = "save", c.bucket \in Nat, CoveredUpTo(c.bucket), Covered(c.bucket),
              c.bucket + 1 <= closed, UNCHANGED first
       PROVE  \A b \in first'..((c.bucket + 1) - 1) : Covered(b)'
    <2>1. \A b \in first..((c.bucket + 1) - 1) : b \in first..(c.bucket - 1) \/ b = c.bucket
        BY <1>2, <1>13
    <2>2. CoveredUpTo(c.bucket + 1)
        BY <1>13, <2>1 DEF CoveredUpTo
    <2> QED BY <1>1, <1>2, <1>13, <2>2, CoveredUpToStays DEF CoveredUpTo
<1>14. ASSUME NEW c \in cycles, SaveAnswers(c) PROVE PromiseInv'
    <2>1. /\ c.at = "save" /\ checkpoint' = c.bucket + 1 /\ TurnTo(c, c.bucket + 1)
          /\ inFlight' = inFlight /\ UNCHANGED first
        BY <1>14 DEF SaveAnswers, WriteCheckpoint
    <2>2. c.bucket \in Nat /\ c.bucket + 1 <= closed
        BY <2>1, CycleBucketClosed
    <2>3. CoveredUpTo(c.bucket) /\ Covered(c.bucket)
        BY <2>1 DEF PromiseInv, StoreInv, SavedAfterStored
    <2>4. \A b \in first'..((c.bucket + 1) - 1) : Covered(b)'
        BY <1>13, <2>1, <2>2, <2>3
    <2>5. CoveredUpTo(checkpoint)'
        BY <2>1, <2>4 DEF CoveredUpTo
    <2>6. \A d \in cycles' \ cycles : CoveredUpTo(d.bucket)'
        BY <1>5, <2>1, <2>4 DEF CoveredUpTo
    <2> QED BY <1>1, <1>2, <2>1, <2>5, <2>6, PromiseKept
<1>15. ASSUME NEW r \in inFlight, LateWrite(r) PROVE PromiseInv'
    <2>1. inFlight' \subseteq inFlight /\ cycles' = cycles /\ UNCHANGED first
        BY <1>15 DEF LateWrite
    <2>2. checkpoint' = checkpoint \/ CoveredUpTo(checkpoint)'
        <3>1. CASE r.at = "store"
            BY <1>15, <3>1 DEF LateWrite, checkpointVars
        <3>2. CASE r.at = "save"
            <4>1. checkpoint' = r.bucket + 1
                BY <1>15, <3>2 DEF LateWrite, WriteCheckpoint
            <4>2. r.bucket + 1 \in Int /\ r.bucket + 1 <= closed
                BY DEF TypeInv, TypeOK, WriteOrder, LateRequests, Buckets
            <4>3. CoveredUpTo(r.bucket + 1)
                BY <3>2 DEF PromiseInv
            <4>4. \A b \in first'..((r.bucket + 1) - 1) : Covered(b)'
                BY <1>1, <1>2, <2>1, <4>2, <4>3, CoveredUpToStays DEF CoveredUpTo
            <4> QED BY <4>1, <4>4 DEF CoveredUpTo
        <3> QED BY <1>15, <3>1, <3>2 DEF LateWrite
    <2> QED BY <1>1, <1>2, <2>1, <2>2, PromiseKept
<1> QED
    BY <1>6, <1>7, <1>9, <1>10, <1>11, <1>12, <1>14, <1>15 DEF Next, CycleStep

LEMMA IInvInit == Init => IInv
<1> SUFFICES ASSUME Init PROVE IInv
    OBVIOUS
<1>1. StoreInv
    BY DEF Init, StoreInv, RollupTrue, DocsTrue, SavedAfterStored
<1>2. first..(checkpoint - 1) = {}
    BY DEF Init, NoCheckpoint
<1>3. PromiseInv
    BY <1>2 DEF Init, PromiseInv, CoveredUpTo
<1> QED BY <1>1, <1>3, TypeInit DEF IInv

\* With any number of instances, a bucket below the checkpoint is covered, from
\* where the last cycle began that found none: every key that had spans when it
\* closed has a document that counts at least those spans and none that does
\* not exist, whatever failed or came late on the way.
THEOREM CheckpointKeepsPromise == Spec => []RollupCoversOnTimeSpans
<1>1. Init => IInv
    BY IInvInit
<1>2. IInv /\ [Next]_vars => IInv'
    BY TypeStep, StoreStep, PromiseStep DEF IInv
<1>3. IInv => RollupCoversOnTimeSpans
    BY DEF IInv, PromiseInv, CoveredUpTo, Covered, Due, Truthful, RollupCoversOnTimeSpans
<1> QED BY <1>1, <1>2, <1>3, PTL DEF Spec

\* With any number of instances, a document of the data stream is about a
\* bucket that has closed and counts what was on time and nothing made up.
THEOREM DocumentsTrue == Spec => []RollupTrue
<1>1. Init => TypeInv /\ StoreInv
    BY TypeInit DEF Init, StoreInv, RollupTrue, DocsTrue, SavedAfterStored
<1>2. TypeInv /\ StoreInv /\ [Next]_vars => (TypeInv /\ StoreInv)'
    BY TypeStep, StoreStep
<1>3. StoreInv => RollupTrue
    BY DEF StoreInv
<1> QED BY <1>1, <1>2, <1>3, PTL DEF Spec

=============================================================================
