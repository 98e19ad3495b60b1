----------------------- MODULE StorageBootstrapProofs -----------------------
(***************************************************************************)
(* Theorems about StorageBootstrap, for any number of processes,           *)
(* applications, data streams and faults.                                  *)
(*                                                                         *)
(* Nothing is ever deleted, so what a plan has passed still exists, and a  *)
(* stream is never asked for before its template.  A refused creation      *)
(* therefore means that the resource exists, and the application that was  *)
(* refused will find it.                                                   *)
(***************************************************************************)
EXTENDS StorageBootstrap, TLAPS

\* What was refused exists, and it was no template.
RefusedExists ==
    \A a \in Apps, r \in Resources :
        <<a, r>> \in refused => r \in exists /\ Kind(r) # "template"

\* Who creates something was not refused it before.
FirstAttempt ==
    \A a \in Apps : phase[a] = "create" => <<a, Current(a)>> \notin refused

IInv == TypeOK /\ PlanPassedExists /\ RefusedExists /\ FirstAttempt

-----------------------------------------------------------------------------
(* The plan.                                                                *)

LEMMA PlanLength ==
    /\ Len(StreamOrder) \in Nat
    /\ \A a \in Apps : Steps(a) \in Nat /\ Steps(a) >= 1 /\ 1..Steps(a) \subseteq 1..(3 * Len(StreamOrder) + 1)
<1>1. Len(StreamOrder) \in Nat \ {0}
    BY BootstrapAssumption
<1> QED BY <1>1 DEF Steps

LEMMA ResourceType ==
    ASSUME NEW a \in Apps, NEW n \in 1..Steps(a)
    PROVE  Resource(n) \in Resources
BY PlanLength DEF Resources

\* The step before a stream is its template.
LEMMA TemplateFirst ==
    ASSUME NEW a \in Apps, NEW n \in 1..Steps(a), Kind(Resource(n)) = "stream"
    PROVE  /\ n - 1 \in 1..Steps(a)
           /\ Resource(n - 1) = <<"template", Resource(n)[2]>>
<1>1. Len(StreamOrder) \in Nat /\ n \in Nat /\ n >= 1
    BY PlanLength
<1>2. n <= 3 * Len(StreamOrder)
    BY <1>1 DEF Resource, Kind, CheckpointIndex
<1>3. Kind(Resource(n)) = Kinds[((n - 1) % 3) + 1] /\ Resource(n)[2] = StreamOrder[((n - 1) \div 3) + 1]
    BY <1>1, <1>2 DEF Resource, Kind
<1>4. (n - 1) % 3 = 2
    <2>1. (n - 1) % 3 \in 0..2
        BY <1>1
    <2> QED BY <1>3, <2>1 DEF Kinds
<1>5. n - 1 >= 1 /\ (n - 2) % 3 = 1 /\ (n - 2) \div 3 = (n - 1) \div 3
    BY <1>1, <1>4
<1>6. Resource(n - 1) = <<Kinds[2], StreamOrder[((n - 1) \div 3) + 1]>>
    BY <1>1, <1>2, <1>5 DEF Resource
<1> QED BY <1>1, <1>3, <1>5, <1>6, PlanLength DEF Kinds

-----------------------------------------------------------------------------
(* What the steps do.                                                       *)

LEMMA AtPlan ==
    ASSUME TypeOK, NEW a \in Apps, phase[a] \in {"check", "create"}
    PROVE  at[a] \in 1..Steps(a) /\ at[a] \in Nat /\ Current(a) \in Resources
BY ResourceType DEF TypeOK, Current

\* A refused creation is one of a resource that exists: the template of a
\* stream was passed.
LEMMA RefusalMeansExists ==
    ASSUME TypeOK, PlanPassedExists, NEW a \in Apps, phase[a] = "create", Refused(a)
    PROVE  Current(a) \in exists /\ Kind(Current(a)) # "template"
<1>1. at[a] \in 1..Steps(a) /\ at[a] \in Nat
    BY AtPlan
<1>2. CASE Kind(Current(a)) = "stream" /\ <<"template", Current(a)[2]>> \notin exists
    <2>1. at[a] - 1 \in 1..(at[a] - 1) /\ Resource(at[a] - 1) = <<"template", Current(a)[2]>>
        BY <1>1, <1>2, TemplateFirst DEF Current
    <2>2. <<"template", Current(a)[2]>> \in exists
        BY <2>1 DEF PlanPassedExists
    <2> QED BY <1>2, <2>2
<1>3. CASE Current(a) \in exists
    BY <1>3 DEF Refused
<1> QED BY <1>2, <1>3 DEF Refused

LEMMA Advances ==
    ASSUME TypeOK, NEW a \in Apps, phase[a] \in {"check", "create"}, Advance(a)
    PROVE  /\ at' \in [Apps -> Nat] /\ phase' \in [Apps -> Phases]
           /\ at'[a] = at[a] + 1 /\ phase'[a] # "create"
           /\ \A b \in Apps : b # a => at'[b] = at[b] /\ phase'[b] = phase[b]
           /\ \A b \in Apps :
                 /\ phase'[b] = "down" => at'[b] = 1
                 /\ phase'[b] = "ready" => at'[b] = Steps(b) + 1
                 /\ phase'[b] \in {"check", "create"} => at'[b] \in 1..Steps(b)
<1>1. at[a] \in 1..Steps(a) /\ Steps(a) \in Nat
    BY AtPlan, PlanLength
<1>2. /\ at' = [at EXCEPT ![a] = at[a] + 1]
      /\ phase' = [phase EXCEPT ![a] = IF at[a] = Steps(a) THEN "ready" ELSE "check"]
      /\ at \in [Apps -> Nat] /\ phase \in [Apps -> Phases]
    BY DEF Advance, TypeOK
<1>3. /\ at' \in [Apps -> Nat] /\ phase' \in [Apps -> Phases]
      /\ at'[a] = at[a] + 1 /\ phase'[a] = IF at[a] = Steps(a) THEN "ready" ELSE "check"
      /\ \A b \in Apps : b # a => at'[b] = at[b] /\ phase'[b] = phase[b]
    BY <1>1, <1>2 DEF Phases
<1>4. ASSUME NEW b \in Apps
      PROVE  /\ phase'[b] = "down" => at'[b] = 1
             /\ phase'[b] = "ready" => at'[b] = Steps(b) + 1
             /\ phase'[b] \in {"check", "create"} => at'[b] \in 1..Steps(b)
    <2>1. CASE b = a
        BY <1>1, <1>3, <2>1
    <2>2. CASE b # a
        BY <1>3, <2>2 DEF TypeOK
    <2> QED BY <2>1, <2>2
<1> QED BY <1>3, <1>4

LEMMA ProcessEnds ==
    ASSUME TypeOK, NEW p \in Processes, Ends(p)
    PROVE  /\ at' \in [Apps -> Nat] /\ phase' \in [Apps -> Phases]
           /\ exists \subseteq exists' /\ exists' \subseteq Resources
           /\ \A b \in Apps :
                 \/ Host[b] = p /\ at'[b] = 1 /\ phase'[b] = "down"
                 \/ Host[b] # p /\ at'[b] = at[b] /\ phase'[b] = phase[b]
<1>1. InFlight(p) \subseteq Resources
    BY AtPlan DEF InFlight, AppsOf
<1>2. exists \subseteq exists' /\ exists' \subseteq Resources
    BY <1>1 DEF Ends, TypeOK
<1> QED BY <1>2 DEF Ends, TypeOK, Phases

-----------------------------------------------------------------------------
(* The invariant.                                                           *)

LEMMA InitInvariant == Init => IInv
<1> SUFFICES ASSUME Init PROVE IInv
    OBVIOUS
<1>1. TypeOK
    BY BootstrapAssumption DEF Init, TypeOK, Phases
<1>2. PlanPassedExists
    BY DEF Init, PlanPassedExists
<1>3. RefusedExists /\ FirstAttempt
    BY DEF Init, RefusedExists, FirstAttempt
<1> QED BY <1>1, <1>2, <1>3 DEF IInv

\* Once the positions of the step are known, the rest follows.
LEMMA TypeStep == IInv /\ [Next]_vars => TypeOK'
<1> SUFFICES ASSUME IInv, [Next]_vars PROVE TypeOK'
    OBVIOUS
<1> USE DEF IInv
<1>1. CASE UNCHANGED vars
    BY <1>1 DEF vars, TypeOK, Steps
<1>2. ASSUME NEW p \in Processes, Start(p) PROVE TypeOK'
    <2>1. \A a \in Apps : Host[a] = p => phase[a] = "down"
        BY <1>2 DEF Start, AppsOf
    <2>2. phase' \in [Apps -> Phases]
        BY <1>2 DEF Start, TypeOK, Phases
    <2>3. \A a \in Apps : phase'[a] = IF Host[a] = p THEN "check" ELSE phase[a]
        BY <1>2 DEF Start
    <2> QED BY <1>2, <2>1, <2>2, <2>3, PlanLength DEF Start, TypeOK
<1>3. ASSUME NEW p \in Processes, Dies(p) PROVE TypeOK'
    <2>1. /\ at' \in [Apps -> Nat] /\ phase' \in [Apps -> Phases] /\ exists' \subseteq Resources
          /\ \A b \in Apps :
                \/ at'[b] = 1 /\ phase'[b] = "down"
                \/ at'[b] = at[b] /\ phase'[b] = phase[b]
        BY <1>3, ProcessEnds DEF Dies
    <2>2. faults' \in 0..MaxFaults /\ refused' = refused /\ useIsm' = useIsm
        BY <1>3, BootstrapAssumption DEF Dies, Ends, TypeOK
    <2> QED BY <2>1, <2>2 DEF TypeOK
<1>4. ASSUME NEW a \in Apps, Finds(a) PROVE TypeOK'
    BY <1>4, Advances DEF Finds, TypeOK
<1>5. ASSUME NEW a \in Apps, Misses(a) PROVE TypeOK'
    <2>1. at[a] \in 1..Steps(a)
        BY <1>5, AtPlan DEF Misses
    <2>2. /\ phase' \in [Apps -> Phases] /\ phase'[a] = "create"
          /\ \A b \in Apps : b # a => phase'[b] = phase[b]
        BY <1>5 DEF Misses, TypeOK, Phases
    <2> QED BY <1>5, <2>1, <2>2 DEF Misses, TypeOK
<1>6. ASSUME NEW a \in Apps, Creates(a) PROVE TypeOK'
    <2>1. exists' \subseteq Resources
        BY <1>6, AtPlan DEF Creates, TypeOK
    <2> QED BY <1>6, <2>1, Advances DEF Creates, TypeOK
<1>7. ASSUME NEW a \in Apps, CreateRefused(a) PROVE TypeOK'
    <2>1. Host[a] \in Processes
        BY BootstrapAssumption
    <2>2. /\ at' \in [Apps -> Nat] /\ phase' \in [Apps -> Phases] /\ exists' \subseteq Resources
          /\ \A b \in Apps :
                \/ at'[b] = 1 /\ phase'[b] = "down"
                \/ at'[b] = at[b] /\ phase'[b] = phase[b]
        BY <1>7, <2>1, ProcessEnds DEF CreateRefused
    <2>3. refused' \subseteq Apps \X Resources
        BY <1>7, AtPlan DEF CreateRefused, TypeOK
    <2>4. faults' = faults /\ useIsm' = useIsm
        BY <1>7 DEF CreateRefused, Ends
    <2> QED BY <2>2, <2>3, <2>4 DEF TypeOK
<1>8. ASSUME NEW a \in Apps, CheckpointSaved(a) PROVE TypeOK'
    <2>1. 3 * Len(StreamOrder) + 1 \in 1..(3 * Len(StreamOrder) + 1)
        BY PlanLength
    <2>2. CheckpointIndex = Resource(3 * Len(StreamOrder) + 1)
        BY PlanLength DEF Resource
    <2>3. CheckpointIndex \in Resources
        BY <2>1, <2>2 DEF Resources
    <2> QED BY <1>8, <2>3 DEF CheckpointSaved, TypeOK
<1> QED BY <1>1, <1>2, <1>3, <1>4, <1>5, <1>6, <1>7, <1>8 DEF Next, AppStep

\* Nothing that exists is deleted.
LEMMA NothingDeleted ==
    ASSUME TypeOK, [Next]_vars
    PROVE  exists \subseteq exists'
BY DEF Next, AppStep, Start, Dies, Ends, Finds, Misses, Creates, CreateRefused,
       CheckpointSaved, vars

\* An application stays, starts again, or passes a resource that exists.
LEMMA Progress ==
    ASSUME TypeOK, [Next]_vars, NEW b \in Apps
    PROVE  \/ at'[b] = at[b]
           \/ at'[b] = 1
           \/ at'[b] = at[b] + 1 /\ Resource(at[b]) \in exists'
<1>1. CASE at' = at
    BY <1>1
<1>2. ASSUME NEW p \in Processes, Dies(p) PROVE at'[b] = at[b] \/ at'[b] = 1
    BY <1>2, ProcessEnds DEF Dies
<1>3. ASSUME NEW a \in Apps, CreateRefused(a) PROVE at'[b] = at[b] \/ at'[b] = 1
    BY <1>3, ProcessEnds, BootstrapAssumption DEF CreateRefused
<1>4. ASSUME NEW a \in Apps, Finds(a) \/ Creates(a)
      PROVE  at'[b] = at[b] \/ (at'[b] = at[b] + 1 /\ Resource(at[b]) \in exists')
    <2>1. phase[a] \in {"check", "create"} /\ Advance(a) /\ Current(a) \in exists'
        BY <1>4 DEF Finds, Creates
    <2>2. at'[a] = at[a] + 1 /\ (b # a => at'[b] = at[b])
        BY <2>1, Advances
    <2> QED BY <2>1, <2>2 DEF Current
<1>5. \/ at' = at
      \/ \E p \in Processes : Dies(p)
      \/ \E a \in Apps : CreateRefused(a)
      \/ \E a \in Apps : Finds(a) \/ Creates(a)
    BY DEF Next, AppStep, Start, Misses, CheckpointSaved, vars
<1> QED BY <1>1, <1>2, <1>3, <1>4, <1>5

LEMMA PlanStep == IInv /\ [Next]_vars => PlanPassedExists'
<1> SUFFICES ASSUME IInv, [Next]_vars PROVE PlanPassedExists'
    OBVIOUS
<1> USE DEF IInv
<1>1. TypeOK' /\ exists \subseteq exists'
    BY TypeStep, NothingDeleted
<1>2. SUFFICES ASSUME NEW a \in Apps, NEW n \in 1..(at'[a] - 1)
               PROVE  Resource(n) \in exists'
    BY DEF PlanPassedExists, Resource, CheckpointIndex
<1>3. at[a] \in Nat /\ at'[a] \in Nat
    BY <1>1 DEF TypeOK
<1>4. n \in 1..(at[a] - 1) \/ (n = at[a] /\ Resource(at[a]) \in exists')
    BY <1>3, Progress
<1>5. n \in 1..(at[a] - 1) => Resource(n) \in exists
    BY DEF PlanPassedExists
<1> QED BY <1>1, <1>4, <1>5

\* What a step adds to the refusals.
LEMMA Refusals ==
    ASSUME [Next]_vars
    PROVE  \/ refused' = refused
           \/ \E a \in Apps : /\ CreateRefused(a)
                             /\ refused' = refused \cup {<<a, Current(a)>>}
BY DEF Next, AppStep, Start, Dies, Finds, Misses, Creates, CreateRefused, CheckpointSaved, vars

LEMMA RefusedStep == IInv /\ [Next]_vars => RefusedExists'
<1> SUFFICES ASSUME IInv, [Next]_vars,
                    NEW a \in Apps, NEW r \in Resources, <<a, r>> \in refused'
             PROVE  r \in exists' /\ Kind(r) # "template"
    BY DEF RefusedExists, Resources, Resource, CheckpointIndex, Kind
<1> USE DEF IInv
<1>1. exists \subseteq exists'
    BY NothingDeleted
<1>2. CASE <<a, r>> \in refused
    BY <1>1, <1>2 DEF RefusedExists
<1>3. CASE CreateRefused(a) /\ r = Current(a)
    BY <1>1, <1>3, RefusalMeansExists DEF CreateRefused
<1> QED BY <1>2, <1>3, Refusals

LEMMA FirstStep == IInv /\ [Next]_vars => FirstAttempt'
<1> SUFFICES ASSUME IInv, [Next]_vars, NEW b \in Apps, phase'[b] = "create"
             PROVE  <<b, Resource(at'[b])>> \notin refused'
    BY DEF FirstAttempt, Current, Resource, CheckpointIndex
<1> USE DEF IInv
<1>1. ASSUME NEW a \in Apps, CreateRefused(a)
      PROVE  <<b, Resource(at'[b])>> \notin refused'
    <2>1. Host[a] \in Processes
        BY BootstrapAssumption
    <2>2. \A c \in Apps : \/ Host[c] = Host[a] /\ phase'[c] = "down"
                          \/ at'[c] = at[c] /\ phase'[c] = phase[c]
        BY <1>1, <2>1, ProcessEnds DEF CreateRefused
    <2>3. phase'[a] = "down"
        BY <1>1 DEF CreateRefused, Ends, TypeOK
    <2>4. b # a /\ phase[b] = "create" /\ at'[b] = at[b]
        BY <2>2, <2>3
    <2>5. <<b, Resource(at[b])>> \notin refused
        BY <2>4 DEF FirstAttempt, Current
    <2> QED BY <1>1, <2>4, <2>5 DEF CreateRefused
<1>2. ASSUME refused' = refused, phase[b] = "create", at'[b] = at[b]
      PROVE  <<b, Resource(at'[b])>> \notin refused'
    BY <1>2 DEF FirstAttempt, Current
<1>3. ASSUME NEW a \in Apps, Misses(a)
      PROVE  <<b, Resource(at'[b])>> \notin refused'
    <2>1. CASE b = a
        <3>1. Current(b) \in Resources /\ at'[b] = at[b] /\ refused' = refused
            BY <1>3, <2>1, AtPlan DEF Misses
        <3>2. Current(b) \notin exists \/ Kind(Current(b)) = "template"
            BY <1>3, <2>1 DEF Misses, Unchecked
        <3>3. <<b, Current(b)>> \notin refused
            BY <3>1, <3>2 DEF RefusedExists
        <3> QED BY <3>1, <3>3 DEF Current
    <2>2. CASE b # a
        BY <1>2, <1>3, <2>2 DEF Misses, TypeOK
    <2> QED BY <2>1, <2>2
<1>4. ASSUME NEW a \in Apps, Finds(a) \/ Creates(a)
      PROVE  <<b, Resource(at'[b])>> \notin refused'
    <2>1. phase[a] \in {"check", "create"} /\ Advance(a) /\ refused' = refused
        BY <1>4 DEF Finds, Creates
    <2>2. phase'[a] # "create" /\ (b # a => at'[b] = at[b] /\ phase'[b] = phase[b])
        BY <2>1, Advances
    <2> QED BY <1>2, <2>1, <2>2
<1>5. ASSUME NEW p \in Processes, Dies(p)
      PROVE  <<b, Resource(at'[b])>> \notin refused'
    <2>1. phase'[b] = "down" \/ (at'[b] = at[b] /\ phase'[b] = phase[b])
        BY <1>5, ProcessEnds DEF Dies
    <2> QED BY <1>2, <1>5, <2>1 DEF Dies
<1>6. ASSUME NEW p \in Processes, Start(p)
      PROVE  <<b, Resource(at'[b])>> \notin refused'
    BY <1>2, <1>6 DEF Start
<1>7. ASSUME NEW a \in Apps, CheckpointSaved(a)
      PROVE  <<b, Resource(at'[b])>> \notin refused'
    BY <1>2, <1>7 DEF CheckpointSaved
<1>8. CASE UNCHANGED vars
    BY <1>2, <1>8 DEF vars
<1> QED BY <1>1, <1>3, <1>4, <1>5, <1>6, <1>7, <1>8 DEF Next, AppStep

LEMMA Invariance == Spec => []IInv
<1>1. IInv /\ [Next]_vars => IInv'
    BY TypeStep, PlanStep, RefusedStep, FirstStep DEF IInv
<1> QED BY InitInvariant, <1>1, PTL DEF Spec

-----------------------------------------------------------------------------
(* The theorems.                                                            *)

\* The variables keep their types, and an application that is ready or down is
\* at the end or at the beginning of its plan.
THEOREM TypeCorrect == Spec => []TypeOK
<1>1. IInv => TypeOK
    BY DEF IInv
<1> QED BY <1>1, Invariance, PTL

\* A service that runs finds every policy, template, stream and index it needs,
\* however many services started with it.
THEOREM ReadyMeansComplete == Spec => []PlanPassedExists
<1>1. IInv => PlanPassedExists
    BY DEF IInv
<1> QED BY <1>1, Invariance, PTL

\* No application loses the race for one resource twice, so the starts that
\* races cost are at most the resources of its plan.
THEOREM OneRefusalPerResource == Spec => []RefusedOnce
<1>1. IInv => RefusedOnce
    BY DEF IInv, FirstAttempt, RefusedOnce
<1> QED BY <1>1, Invariance, PTL

=============================================================================
