-------------------------- MODULE StorageBootstrap --------------------------
(***************************************************************************)
(* How the services find or create what they need in Elasticsearch or      *)
(* OpenSearch when they start (LogStorageService.onModuleInit in           *)
(* backend/src/shared/logs/log-storage.service.ts, ensureIndex in          *)
(* backend/src/aggregator/rollup-checkpoint.service.ts).                   *)
(*                                                                         *)
(* An application goes through a fixed plan: for each data stream its      *)
(* policy, its template and the stream itself, and for the aggregator the  *)
(* checkpoint index after them.  It looks whether the resource is there    *)
(* and creates it when it is not, with an await between the two, so that   *)
(* applications which start together do it twice.  Some creations replace  *)
(* what exists, others are refused, and a refusal ends the process: the    *)
(* error leaves bootstrap().  The stream processor is one process with two *)
(* applications, as main.ts starts both consumers at once.                 *)
(***************************************************************************)
EXTENDS Integers, Sequences, FiniteSets

CONSTANTS
    Processes,      \* the containers
    Apps,           \* the Nest applications in them
    Host,           \* Host[a]: the process of an application
    StreamOrder,    \* the data streams in the order of this.configs
    Aggregators,    \* the applications with a RollupCheckpointService
    MaxFaults       \* bound: crashes and requests that fail for other reasons

ASSUME BootstrapAssumption ==
    /\ Host \in [Apps -> Processes]
    /\ StreamOrder \in Seq(STRING) \ {<<>>}
    /\ Aggregators \subseteq Apps
    /\ MaxFaults \in Nat

VARIABLES
    useIsm,     \* USE_ISM: OpenSearch with ISM policies, not ILM
    exists,     \* the resources that exist
    phase,      \* what each application does
    at,         \* the step of the plan it is at
    refused,    \* history: <<application, resource>> of refused creations
    faults      \* history: how much went wrong otherwise

vars == <<useIsm, exists, phase, at, refused, faults>>

Phases == {"down", "check", "create", "ready"}

Kinds == <<"policy", "template", "stream">>

CheckpointIndex == <<"index", "checkpoint">>

FaultyResource(n) ==
    IF n > 3 * Len(StreamOrder)
    THEN CheckpointIndex
    ELSE <<<<"policy", "stream", "template">>[((n - 1) % 3) + 1], StreamOrder[((n - 1) \div 3) + 1]>>

\* The resource of step n of the plan.
Resource(n) ==
    IF n > 3 * Len(StreamOrder)
    THEN CheckpointIndex
    ELSE <<Kinds[((n - 1) % 3) + 1], StreamOrder[((n - 1) \div 3) + 1]>>

Steps(a) == 3 * Len(StreamOrder) + (IF a \in Aggregators THEN 1 ELSE 0)

Current(a) == Resource(at[a])

Kind(r) == r[1]

Init ==
    /\ useIsm \in BOOLEAN
    /\ exists = {}
    /\ phase = [a \in Apps |-> "down"]
    /\ at = [a \in Apps |-> 1]
    /\ refused = {}
    /\ faults = 0

AppsOf(p) == {a \in Apps : Host[a] = p}

-----------------------------------------------------------------------------
(* Starting and ending.                                                     *)

Start(p) ==
    /\ \A a \in AppsOf(p) : phase[a] = "down"
    /\ AppsOf(p) # {}
    /\ phase' = [a \in Apps |-> IF Host[a] = p THEN "check" ELSE phase[a]]
    /\ UNCHANGED <<useIsm, exists, at, refused, faults>>

\* A policy of ISM, a stream or an index that exists is not created again; a
\* stream needs its template.
Refused(a) ==
    LET r == Current(a)
    IN  \/ r \in exists /\ (Kind(r) \in {"stream", "index"} \/ (useIsm /\ Kind(r) = "policy"))
        \/ Kind(r) = "stream" /\ <<"template", r[2]>> \notin exists

\* What the requests of a process may still do when it ends.
InFlight(p) == {Current(a) : a \in {b \in AppsOf(p) : phase[b] = "create" /\ ~Refused(b)}}

\* The process ends with all its applications.
Ends(p) ==
    /\ phase' = [a \in Apps |-> IF Host[a] = p THEN "down" ELSE phase[a]]
    /\ at' = [a \in Apps |-> IF Host[a] = p THEN 1 ELSE at[a]]
    /\ \E done \in SUBSET InFlight(p) : exists' = exists \cup done
    /\ UNCHANGED useIsm

\* A crash, a deployment, or a request that fails otherwise than by a 404 or a
\* refusal, which no ensure function catches.
Dies(p) ==
    /\ \E a \in AppsOf(p) : phase[a] # "down"
    /\ faults < MaxFaults
    /\ faults' = faults + 1
    /\ Ends(p)
    /\ UNCHANGED refused

-----------------------------------------------------------------------------
(* One step of the plan: ensureIlmPolicy, ensureTemplate, ensureDataStream, *)
(* ensureIsmPolicy, ensureIsmTemplate and ensureIndex.                      *)

FaultyAdvance(a) ==
    /\ at' = [at EXCEPT ![a] = @ + 1]
    /\ phase' = [phase EXCEPT ![a] = IF at[a] > Steps(a) THEN "ready" ELSE "check"]

\* The loop of onModuleInit goes on, or the application has started.
Advance(a) ==
    /\ at' = [at EXCEPT ![a] = @ + 1]
    /\ phase' = [phase EXCEPT ![a] = IF at[a] = Steps(a) THEN "ready" ELSE "check"]

\* ensureIsmTemplate does not look before it writes.
Unchecked(a) == useIsm /\ Kind(Current(a)) = "template"

Finds(a) ==
    /\ phase[a] = "check"
    /\ ~Unchecked(a)
    /\ Current(a) \in exists
    /\ Advance(a)
    /\ UNCHANGED <<useIsm, exists, refused, faults>>

FaultyMisses(a) ==
    /\ phase[a] = "check"
    /\ ~Unchecked(a) => Current(a) \notin exists
    /\ Advance(a)
    /\ UNCHANGED <<useIsm, exists, refused, faults>>

FaultyMissesAlways(a) ==
    /\ phase[a] = "check"
    /\ phase' = [phase EXCEPT ![a] = "create"]
    /\ UNCHANGED <<useIsm, exists, at, refused, faults>>

\* A 404: the request that creates the resource is sent.
Misses(a) ==
    /\ phase[a] = "check"
    /\ ~Unchecked(a) => Current(a) \notin exists
    /\ phase' = [phase EXCEPT ![a] = "create"]
    /\ UNCHANGED <<useIsm, exists, at, refused, faults>>

Creates(a) ==
    /\ phase[a] = "create"
    /\ ~Refused(a)
    /\ exists' = exists \cup {Current(a)}
    /\ Advance(a)
    /\ UNCHANGED <<useIsm, refused, faults>>

\* The error is thrown on, out of the hook and of bootstrap().
CreateRefused(a) ==
    /\ phase[a] = "create"
    /\ Refused(a)
    /\ refused' = refused \cup {<<a, Current(a)>>}
    /\ Ends(Host[a])
    /\ UNCHANGED faults

\* The runner starts its first cycle in the same Promise.all as ensureIndex;
\* saving a checkpoint creates the index when there is none.
CheckpointSaved(a) ==
    /\ a \in Aggregators
    /\ phase[a] # "down"
    /\ at[a] >= Steps(a)
    /\ exists' = exists \cup {CheckpointIndex}
    /\ UNCHANGED <<useIsm, phase, at, refused, faults>>

AppStep(a) == Finds(a) \/ Misses(a) \/ Creates(a) \/ CreateRefused(a)

Next ==
    \/ \E p \in Processes : Start(p) \/ Dies(p)
    \/ \E a \in Apps : AppStep(a) \/ CheckpointSaved(a)

Spec == Init /\ [][Next]_vars

\* The scheduler starts a process that is down, and requests are answered.
Fairness ==
    /\ \A p \in Processes : WF_vars(Start(p))
    /\ \A a \in Apps : WF_vars(AppStep(a))

FairSpec == Spec /\ Fairness

-----------------------------------------------------------------------------
(* Properties.                                                              *)

Resources == {Resource(n) : n \in 1..(3 * Len(StreamOrder) + 1)}

\* The fields have their types; who is not starting is at the beginning or at
\* the end of its plan.
TypeOK ==
    /\ useIsm \in BOOLEAN
    /\ exists \subseteq Resources
    /\ phase \in [Apps -> Phases]
    /\ at \in [Apps -> Nat]
    /\ refused \subseteq Apps \X Resources
    /\ faults \in 0..MaxFaults
    /\ \A a \in Apps :
           /\ phase[a] = "down" => at[a] = 1
           /\ phase[a] = "ready" => at[a] = Steps(a) + 1
           /\ phase[a] \in {"check", "create"} => at[a] \in 1..Steps(a)

\* An application that has started has all it writes to or reads from, whoever
\* created it, and an application that is starting what its plan has passed.
PlanPassedExists ==
    \A a \in Apps : \A n \in 1..(at[a] - 1) : Resource(n) \in exists

\* Losing a race costs one start at most: nobody that was refused a resource
\* asks for its creation again, as a restart finds what the winner created.
RefusedOnce ==
    \A a \in Apps : phase[a] = "create" /\ Refused(a) => <<a, Current(a)>> \notin refused

\* Together, in whichever order, however they kill each other: in the end all
\* services run.
AllComeUp == <>[](\A a \in Apps : phase[a] = "ready")

=============================================================================
