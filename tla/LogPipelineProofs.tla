------------------------- MODULE LogPipelineProofs -------------------------
(***************************************************************************)
(* Theorems about LogPipeline, for any number of processes, partitions,    *)
(* messages and faults.                                                    *)
(*                                                                         *)
(* The argument: what a handler has done stays done (Grows), a position    *)
(* moves only over a message that was handled, to the committed offset, or *)
(* away (Moves), and the owner of a partition stands at or after the       *)
(* committed offset (OwnersAhead).  So what a commit covers was handled,   *)
(* by whichever members it took.                                           *)
(*                                                                         *)
(* How often a message is handled is a count (Times): the deliveries that  *)
(* were made of it, the processes that stand before it or at it (Coming),  *)
(* and the one to come where nobody owns its partition and it is not       *)
(* committed (Due).  A handler's step turns a coming delivery into a made  *)
(* one, an assignment a due one into a coming one, and only a fault adds.  *)
(***************************************************************************)
EXTENDS LogPipeline, FiniteSetTheorems, TLAPS

HandledBelow ==
    \A i \in Instances, p \in Partitions : \A offset \in 0..(position[i][p] - 1) : Handled(p, offset)

IngestedBeforeForward ==
    \A i \in Instances, p \in Partitions : forwarding[i][p] => Ingested(p, position[i][p])

OwnersAhead ==
    \A p \in Partitions : owner[p] # NoOne => position[owner[p]][p] >= committed[p]

IInv ==
    /\ TypeOK
    /\ IsFiniteSet(accepted)
    /\ HandledBelow
    /\ IngestedBeforeForward
    /\ OwnersAhead
    /\ CommittedIsAccountedFor
    /\ DocumentsConserved

-----------------------------------------------------------------------------
(* Facts about the operators.                                               *)

\* Changing one entry of a table by process and partition.
LEMMA Entry ==
    ASSUME NEW R, NEW t \in [Instances -> [Partitions -> R]],
           NEW i \in Instances, NEW p \in Partitions, NEW v \in R,
           NEW u, u = [t EXCEPT ![i][p] = v]
    PROVE  /\ u \in [Instances -> [Partitions -> R]]
           /\ \A j \in Instances, q \in Partitions :
                 u[j][q] = IF j = i /\ q = p THEN v ELSE t[j][q]
<1> DEFINE row == [t[i] EXCEPT ![p] = v]
<1>1. row \in [Partitions -> R] /\ \A q \in Partitions : row[q] = IF q = p THEN v ELSE t[i][q]
    OBVIOUS
<1>2. u = [t EXCEPT ![i] = row]
    OBVIOUS
<1> HIDE DEF row
<1> QED BY <1>1, <1>2

\* The same for a flag; the provers treat Booleans apart.
LEMMA FlagRaised ==
    ASSUME TypeOK, NEW i \in Instances, NEW p \in Partitions,
           forwarding' = [forwarding EXCEPT ![i][p] = TRUE]
    PROVE  /\ forwarding' \in [Instances -> [Partitions -> BOOLEAN]]
           /\ forwarding'[i][p]
           /\ \A j \in Instances, q \in Partitions : (j = i /\ q = p) \/ forwarding'[j][q] = forwarding[j][q]
<1> DEFINE row == [forwarding[i] EXCEPT ![p] = TRUE]
<1>1. forwarding \in [Instances -> [Partitions -> BOOLEAN]]
    BY DEF TypeOK
<1>2. row \in [Partitions -> BOOLEAN] /\ row[p] /\ \A q \in Partitions : q = p \/ row[q] = forwarding[i][q]
    BY <1>1
<1>3. forwarding' = [forwarding EXCEPT ![i] = row]
    BY <1>1
<1> HIDE DEF row
<1> QED BY <1>1, <1>2, <1>3

LEMMA FlagLowered ==
    ASSUME NEW t \in [Instances -> [Partitions -> BOOLEAN]],
           NEW i \in Instances, NEW p \in Partitions,
           NEW u, u = [t EXCEPT ![i][p] = FALSE]
    PROVE  /\ u \in [Instances -> [Partitions -> BOOLEAN]]
           /\ u[i][p] = FALSE
           /\ \A j \in Instances, q \in Partitions : (j = i /\ q = p) \/ u[j][q] = t[j][q]
<1> DEFINE row == [t[i] EXCEPT ![p] = FALSE]
<1>1. row \in [Partitions -> BOOLEAN] /\ \A q \in Partitions : row[q] = IF q = p THEN FALSE ELSE t[i][q]
    OBVIOUS
<1>2. u = [t EXCEPT ![i] = row]
    OBVIOUS
<1> HIDE DEF row
<1> QED BY <1>1, <1>2

\* A position a process has moved to.
LEMMA Moved ==
    ASSUME TypeOK, NEW i \in Instances, NEW p \in Partitions, NEW offset \in Int,
           MoveTo(i, p, offset)
    PROVE  /\ position' \in [Instances -> [Partitions -> Int]]
           /\ \A j \in Instances, q \in Partitions :
                 position'[j][q] = IF j = i /\ q = p THEN offset ELSE position[j][q]
BY Entry DEF TypeOK, MoveTo

\* The document a handler makes of a message is one.
LEMMA DeliveryType ==
    ASSUME TypeOK, IsFiniteSet(accepted), NEW i \in Instances, NEW p \in Partitions,
           NEW offset \in Nat
    PROVE  Delivery(i, p, offset, Cardinality(EarlierDeliveries(p, offset))) \in Deliveries
<1>1. IsFiniteSet(EarlierDeliveries(p, offset))
    BY FS_Subset DEF EarlierDeliveries
<1>2. Cardinality(EarlierDeliveries(p, offset)) \in Nat
    BY <1>1, FS_CardinalityType
<1> QED BY <1>2 DEF Delivery, Deliveries

\* What Ingest does to the sets of documents.
LEMMA Ingests ==
    ASSUME TypeOK, IsFiniteSet(accepted), NEW i \in Instances, NEW p \in Partitions,
           position[i][p] \in Nat, Ingest(i, p)
    PROVE  \E d \in Deliveries :
               /\ d.part = p /\ d.offset = position[i][p] /\ d.by = i
               /\ d \notin accepted
               /\ accepted' = accepted \cup {d}
               /\ waiting' = waiting \cup {d}
               /\ indexed' = indexed /\ dropped' = dropped
<1> DEFINE d == Delivery(i, p, position[i][p], Cardinality(EarlierDeliveries(p, position[i][p])))
<1>1. d \in Deliveries
    BY DeliveryType
<1>2. d.part = p /\ d.offset = position[i][p] /\ d.by = i
    BY DEF Delivery
<1>3. Sink!Accept(d)
    BY DEF Ingest
<1> HIDE DEF d
<1> QED BY <1>1, <1>2, <1>3 DEF Sink!Accept

\* Who waits for the forwarder stands at an error log.
LEMMA WaitingHandler ==
    ASSUME TypeOK, NEW i \in Instances, NEW p \in Partitions, forwarding[i][p]
    PROVE  /\ position[i][p] \in 0..(Len(Log[p]) - 1)
           /\ position[i][p] \in Nat
           /\ position[i][p] + 1 \in Offsets(p)
           /\ Kind(p, position[i][p]) = "error"
           /\ i \in alive
<1>1. position[i][p] \in 0..(Len(Log[p]) - 1) /\ Kind(p, position[i][p]) = "error"
    BY DEF TypeOK, PlacesOK
<1>2. Len(Log[p]) \in Nat
    BY LogPipelineAssumption
<1>3. position[i][p] # Unassigned
    BY <1>1, <1>2 DEF Unassigned
<1>4. i \in alive
    BY <1>3 DEF TypeOK, PlacesOK
<1> QED BY <1>1, <1>2, <1>4 DEF Offsets

LEMMA HandlerAt ==
    ASSUME TypeOK, NEW i \in Instances, NEW p \in Partitions, Deliverable(i, p)
    PROVE  /\ position[i][p] \in Nat
           /\ position[i][p] + 1 \in Offsets(p)
           /\ position[i][p] \in 0..(Len(Log[p]) - 1)
           /\ i \in alive
           /\ ~forwarding[i][p]
<1>1. position[i][p] \in 0..(Len(Log[p]) - 1) /\ ~forwarding[i][p]
    BY DEF Deliverable
<1>2. Len(Log[p]) \in Nat
    BY LogPipelineAssumption
<1>3. position[i][p] # Unassigned
    BY <1>1, <1>2 DEF Unassigned
<1>4. i \in alive
    BY <1>3 DEF TypeOK, PlacesOK
<1> QED BY <1>1, <1>2, <1>4 DEF Offsets

-----------------------------------------------------------------------------
(* Types.                                                                   *)

LEMMA InitType == Init => TypeOK
<1> SUFFICES ASSUME Init PROVE TypeOK
    OBVIOUS
<1>1. \A i \in Instances, p \in Partitions : position[i][p] = Unassigned /\ forwarding[i][p] = FALSE
    BY DEF Init
<1>2. PlacesOK
    BY <1>1 DEF PlacesOK
<1>3. position \in [Instances -> [Partitions -> Int]] /\ forwarding \in [Instances -> [Partitions -> BOOLEAN]]
    BY DEF Init, Unassigned
<1>4. committed \in [Partitions -> Nat] /\ \A p \in Partitions : committed[p] \in Offsets(p)
    BY LogPipelineAssumption DEF Init, Offsets
<1> QED BY <1>2, <1>3, <1>4, LogPipelineAssumption DEF Init, TypeOK, Sink!Init

\* The types when a position has moved and the handler, if any, has returned.
LEMMA MoveType ==
    ASSUME TypeOK, NEW i \in alive, NEW p \in Partitions,
           NEW offset \in Offsets(p) \cup {Unassigned},
           MoveTo(i, p, offset),
           \/ forwarding' = forwarding /\ ~forwarding[i][p]
           \/ forwarding' = [forwarding EXCEPT ![i][p] = FALSE],
           UNCHANGED alive
    PROVE  /\ position' \in [Instances -> [Partitions -> Int]]
           /\ forwarding' \in [Instances -> [Partitions -> BOOLEAN]]
           /\ PlacesOK'
<1>1. offset \in Int /\ i \in Instances
    BY LogPipelineAssumption DEF Offsets, Unassigned, TypeOK
<1>2. /\ position' \in [Instances -> [Partitions -> Int]]
      /\ \A j \in Instances, q \in Partitions :
            position'[j][q] = IF j = i /\ q = p THEN offset ELSE position[j][q]
    BY <1>1, Moved
<1>3. forwarding \in [Instances -> [Partitions -> BOOLEAN]]
    BY DEF TypeOK
<1>4. /\ forwarding' \in [Instances -> [Partitions -> BOOLEAN]]
      /\ forwarding'[i][p] = FALSE
      /\ \A j \in Instances, q \in Partitions : (j = i /\ q = p) \/ forwarding'[j][q] = forwarding[j][q]
    <2>1. CASE forwarding' = forwarding /\ ~forwarding[i][p]
        <3>1. forwarding[i][p] = FALSE
            BY <1>1, <1>3, <2>1
        <3> QED BY <1>3, <2>1, <3>1
    <2>2. CASE forwarding' = [forwarding EXCEPT ![i][p] = FALSE]
        BY <1>1, <1>3, <2>2, FlagLowered
    <2> QED BY <2>1, <2>2
<1>5. SUFFICES ASSUME NEW j \in Instances, NEW q \in Partitions
               PROVE  /\ position'[j][q] \in Offsets(q) \cup {Unassigned}
                      /\ position'[j][q] # Unassigned => j \in alive'
                      /\ forwarding'[j][q] => /\ position'[j][q] \in 0..(Len(Log[q]) - 1)
                                              /\ Kind(q, position'[j][q]) = "error"
    BY <1>2, <1>4 DEF PlacesOK, Offsets, Kind
<1>6. CASE j = i /\ q = p
    BY <1>2, <1>4, <1>6
<1>7. CASE ~(j = i /\ q = p)
    <2>1. position'[j][q] = position[j][q] /\ forwarding'[j][q] = forwarding[j][q]
        BY <1>2, <1>4, <1>7
    <2> QED BY <2>1 DEF TypeOK, PlacesOK
<1> QED BY <1>6, <1>7

LEMMA FaultType ==
    ASSUME TypeOK, Fault
    PROVE  faults' \in 0..MaxFaults
BY LogPipelineAssumption DEF TypeOK, Fault

\* The sets of documents keep their types when a message is ingested.
LEMMA IngestType ==
    ASSUME TypeOK, IsFiniteSet(accepted), NEW i \in Instances, NEW p \in Partitions,
           position[i][p] \in Nat, Ingest(i, p)
    PROVE  /\ accepted' \subseteq Deliveries /\ waiting' \subseteq Deliveries
           /\ indexed' \subseteq Deliveries /\ dropped' \subseteq Deliveries
           /\ IsFiniteSet(accepted')
<1>1. PICK d \in Deliveries : accepted' = accepted \cup {d} /\ waiting' = waiting \cup {d}
                              /\ indexed' = indexed /\ dropped' = dropped
    BY Ingests
<1>2. IsFiniteSet(accepted')
    BY <1>1, FS_AddElement
<1> QED BY <1>1, <1>2 DEF TypeOK

LEMMA TypeStep == IInv /\ [Next]_vars => TypeOK' /\ IsFiniteSet(accepted)'
<1> SUFFICES ASSUME IInv, [Next]_vars
             PROVE  TypeOK' /\ IsFiniteSet(accepted')
    OBVIOUS
<1> USE DEF IInv
<1>1. CASE UNCHANGED vars
    <2>1. PlacesOK'
        BY <1>1 DEF vars, groupVars, TypeOK, PlacesOK, Offsets, Kind
    <2> QED BY <1>1, <2>1 DEF vars, groupVars, sinkVars, forwardVars, TypeOK, Offsets
<1>2. ASSUME NEW i \in Instances, Start(i)
      PROVE  TypeOK' /\ IsFiniteSet(accepted')
    <2>1. forwarder' \in [Instances -> BOOLEAN] /\ faults' \in 0..MaxFaults
        BY <1>2, FaultType DEF Start, TypeOK
    <2>2. alive' = alive \cup {i} /\ UNCHANGED <<groupVars, sinkVars, lost, forwardVars>>
        BY <1>2 DEF Start
    <2>3. PlacesOK'
        BY <2>2 DEF groupVars, TypeOK, PlacesOK, Offsets, Kind
    <2> QED BY <2>1, <2>2, <2>3 DEF groupVars, sinkVars, forwardVars, TypeOK, Offsets
<1>3. ASSUME NEW i \in Instances, NEW p \in Partitions, Assign(i, p)
      PROVE  TypeOK' /\ IsFiniteSet(accepted')
    <2>1. forwarding[i][p] = FALSE /\ i \in alive
        BY <1>3, WaitingHandler DEF Assign, TypeOK, Unassigned
    <2>2. committed[p] \in Offsets(p) \cup {Unassigned}
        BY DEF TypeOK
    <2>3. MoveTo(i, p, committed[p]) /\ UNCHANGED <<alive, forwarding>>
        BY <1>3 DEF Assign
    <2>4. owner' \in [Partitions -> alive' \cup {NoOne}]
        BY <1>3, <2>1 DEF Assign, TypeOK
    <2>5. UNCHANGED <<alive, forwarder, committed, sinkVars, lost, forwardVars, faults>>
        BY <1>3 DEF Assign
    <2>6. position' \in [Instances -> [Partitions -> Int]] /\ PlacesOK'
        BY <2>1, <2>2, <2>3, MoveType
    <2> QED BY <2>3, <2>4, <2>5, <2>6 DEF sinkVars, forwardVars, TypeOK, Offsets

<1>4. ASSUME NEW p \in Partitions, Evict(p)
      PROVE  TypeOK' /\ IsFiniteSet(accepted')
    <2>1. faults' \in 0..MaxFaults
        BY <1>4, FaultType DEF Evict
    <2>2. owner' \in [Partitions -> alive' \cup {NoOne}]
        BY <1>4 DEF Evict, TypeOK
    <2>3. UNCHANGED <<alive, forwarder, position, forwarding, committed, sinkVars, lost, forwardVars>>
        BY <1>4 DEF Evict
    <2>4. PlacesOK'
        BY <2>3 DEF TypeOK, PlacesOK, Offsets, Kind
    <2> QED BY <2>1, <2>2, <2>3, <2>4 DEF sinkVars, forwardVars, TypeOK, Offsets
<1>5. ASSUME NEW i \in Instances, NEW p \in Partitions, Release(i, p)
      PROVE  TypeOK' /\ IsFiniteSet(accepted')
    <2>1. i \in alive /\ ~forwarding[i][p] /\ MoveTo(i, p, Unassigned)
        BY <1>5 DEF Release, TypeOK, PlacesOK
    <2>2. UNCHANGED <<alive, forwarder, owner, forwarding, committed, sinkVars, lost, forwardVars, faults>>
        BY <1>5 DEF Release
    <2>3. position' \in [Instances -> [Partitions -> Int]] /\ PlacesOK'
        BY <2>1, <2>2, MoveType
    <2> QED BY <2>2, <2>3 DEF sinkVars, forwardVars, TypeOK, Offsets
<1>6. ASSUME NEW i \in Instances, NEW p \in Partitions, Commit(i, p)
      PROVE  TypeOK' /\ IsFiniteSet(accepted')
    <2>1. position[i][p] >= committed[p]
        BY <1>6, LogPipelineAssumption DEF Commit, OwnersAhead
    <2>2. position[i][p] \in Offsets(p) /\ position[i][p] \in Nat
        BY <2>1 DEF TypeOK, PlacesOK, Unassigned, Offsets
    <2>3. committed' \in [Partitions -> Nat] /\ \A q \in Partitions : committed'[q] \in Offsets(q)
        BY <1>6, <2>2 DEF Commit, TypeOK
    <2>4. UNCHANGED <<alive, forwarder, owner, position, forwarding, sinkVars, lost, forwardVars, faults>>
        BY <1>6 DEF Commit
    <2>5. PlacesOK'
        BY <2>4 DEF TypeOK, PlacesOK, Offsets, Kind
    <2> QED BY <2>3, <2>4, <2>5 DEF sinkVars, forwardVars, TypeOK, Offsets
<1>7. ASSUME NEW i \in Instances, NEW p \in Partitions, Skip(i, p)
      PROVE  TypeOK' /\ IsFiniteSet(accepted')
    <2>1. /\ i \in alive /\ ~forwarding[i][p] /\ position[i][p] + 1 \in Offsets(p)
          /\ MoveTo(i, p, position[i][p] + 1)
        BY <1>7, HandlerAt DEF Skip
    <2>2. UNCHANGED <<alive, forwarder, owner, forwarding, committed, sinkVars, lost, forwardVars, faults>>
        BY <1>7 DEF Skip
    <2>3. position' \in [Instances -> [Partitions -> Int]] /\ PlacesOK'
        BY <2>1, <2>2, MoveType
    <2> QED BY <2>2, <2>3 DEF sinkVars, forwardVars, TypeOK, Offsets
<1>8. ASSUME NEW i \in Instances, NEW p \in Partitions, Handle(i, p)
      PROVE  TypeOK' /\ IsFiniteSet(accepted')
    <2>1. /\ i \in alive /\ ~forwarding[i][p] /\ position[i][p] + 1 \in Offsets(p)
          /\ position[i][p] \in Nat /\ Ingest(i, p)
          /\ MoveTo(i, p, position[i][p] + 1)
        BY <1>8, HandlerAt DEF Handle
    <2>2. UNCHANGED <<alive, forwarder, owner, forwarding, committed, lost, forwardVars, faults>>
        BY <1>8 DEF Handle
    <2>3. position' \in [Instances -> [Partitions -> Int]] /\ PlacesOK'
        BY <2>1, <2>2, MoveType
    <2>4. /\ accepted' \subseteq Deliveries /\ waiting' \subseteq Deliveries
          /\ indexed' \subseteq Deliveries /\ dropped' \subseteq Deliveries
          /\ IsFiniteSet(accepted')
        BY <2>1, IngestType
    <2> QED BY <2>2, <2>3, <2>4 DEF forwardVars, TypeOK, Offsets
<1>9. ASSUME NEW i \in Instances, NEW p \in Partitions, HandleError(i, p)
      PROVE  TypeOK' /\ IsFiniteSet(accepted')
    <2>1. /\ i \in alive /\ ~forwarding[i][p] /\ position[i][p] + 1 \in Offsets(p)
          /\ position[i][p] \in Nat /\ Ingest(i, p)
          /\ position[i][p] \in 0..(Len(Log[p]) - 1) /\ Kind(p, position[i][p]) = "error"
        BY <1>9, HandlerAt DEF HandleError
    <2>2. UNCHANGED <<alive, forwarder, owner, committed, lost, forwarded, faults>>
        BY <1>9 DEF HandleError
    <2>3. /\ accepted' \subseteq Deliveries /\ waiting' \subseteq Deliveries
          /\ indexed' \subseteq Deliveries /\ dropped' \subseteq Deliveries
          /\ IsFiniteSet(accepted')
        BY <2>1, IngestType
    <2>4. CASE forwarding' = [forwarding EXCEPT ![i][p] = TRUE] /\ UNCHANGED <<position, givenUp>>
        <3>1. forwarding' = [forwarding EXCEPT ![i][p] = TRUE]
            BY <2>4
        <3>2. /\ forwarding' \in [Instances -> [Partitions -> BOOLEAN]]
              /\ \A j \in Instances, q \in Partitions : (j = i /\ q = p) \/ forwarding'[j][q] = forwarding[j][q]
            BY <3>1, FlagRaised
        <3>3. PlacesOK'
            BY <2>1, <2>2, <2>4, <3>2 DEF TypeOK, PlacesOK, Offsets, Kind
        <3> QED BY <2>2, <2>3, <2>4, <3>2, <3>3 DEF TypeOK, Offsets
    <2>5. CASE /\ MoveTo(i, p, position[i][p] + 1)
               /\ givenUp' = givenUp \cup {<<p, position[i][p]>>}
               /\ UNCHANGED forwarding
        <3>1. position' \in [Instances -> [Partitions -> Int]] /\ PlacesOK'
            BY <2>1, <2>2, <2>5, MoveType
        <3>2. givenUp' \subseteq Messages
            BY <2>1, <2>5 DEF TypeOK, Messages
        <3> QED BY <2>2, <2>3, <2>5, <3>1, <3>2 DEF TypeOK, Offsets
    <2> QED BY <1>9, <2>4, <2>5 DEF HandleError
<1>10. ASSUME NEW i \in Instances, NEW p \in Partitions, ForwardAnswers(i, p) \/ ForwardFails(i, p)
       PROVE  TypeOK' /\ IsFiniteSet(accepted')
    <2>1. /\ forwarding[i][p]
          /\ forwarding' = [forwarding EXCEPT ![i][p] = FALSE]
          /\ MoveTo(i, p, position[i][p] + 1)
        BY <1>10 DEF ForwardAnswers, ForwardFails, ForwardReturns
    <2>2. i \in alive /\ position[i][p] \in Nat /\ position[i][p] + 1 \in Offsets(p)
        BY <2>1, WaitingHandler
    <2>3. UNCHANGED <<alive, forwarder, owner, committed, sinkVars, lost>>
        BY <1>10 DEF ForwardAnswers, ForwardFails
    <2>4. /\ position' \in [Instances -> [Partitions -> Int]]
          /\ forwarding' \in [Instances -> [Partitions -> BOOLEAN]]
          /\ PlacesOK'
        BY <2>1, <2>2, <2>3, MoveType
    <2>5. forwarded' \subseteq Messages /\ givenUp' \subseteq Messages
        BY <1>10, <2>2 DEF ForwardAnswers, ForwardFails, TypeOK, Messages
    <2>6. faults' \in 0..MaxFaults
        BY <1>10, FaultType DEF ForwardAnswers, ForwardFails, TypeOK
    <2> QED BY <2>3, <2>4, <2>5, <2>6 DEF sinkVars, TypeOK, Offsets
<1>11. ASSUME NEW i \in Instances, Settle(i)
       PROVE  TypeOK' /\ IsFiniteSet(accepted')
    <2>1. UNCHANGED <<alive, forwarder, groupVars, lost, forwardVars, faults>> /\ accepted' = accepted
        BY <1>11 DEF Settle, Sink!Settle
    <2>2. waiting' \subseteq waiting /\ indexed' \subseteq indexed \cup waiting /\ dropped' \subseteq dropped \cup waiting
        BY <1>11 DEF Settle, Sink!Settle
    <2>3. PlacesOK'
        BY <2>1 DEF groupVars, TypeOK, PlacesOK, Offsets, Kind
    <2> QED BY <2>1, <2>2, <2>3 DEF groupVars, forwardVars, TypeOK, Offsets
<1>12. ASSUME NEW i \in Instances, End(i)
       PROVE  TypeOK' /\ IsFiniteSet(accepted')
    <2>1. faults' \in 0..MaxFaults
        BY <1>12, FaultType DEF End
    <2>2. owner' \in [Partitions -> alive' \cup {NoOne}]
        BY <1>12 DEF End, TypeOK
    <2>3. UNCHANGED <<forwarder, committed, accepted, dropped, givenUp>> /\ alive' = alive \ {i}
        BY <1>12 DEF End
    <2>4. /\ position' = [position EXCEPT ![i] = [p \in Partitions |-> Unassigned]]
          /\ forwarding' = [forwarding EXCEPT ![i] = [p \in Partitions |-> FALSE]]
        BY <1>12 DEF End
    <2>5. /\ position' \in [Instances -> [Partitions -> Int]]
          /\ forwarding' \in [Instances -> [Partitions -> BOOLEAN]]
        BY <2>4 DEF TypeOK, Unassigned
    <2>6. PlacesOK'
        BY <2>3, <2>4 DEF TypeOK, PlacesOK, Offsets, Kind
    <2>7. waiting' \subseteq waiting /\ indexed' \subseteq indexed \cup waiting /\ lost' \subseteq lost \cup waiting
        BY <1>12 DEF End, Held
    <2>8. forwarded' \subseteq Messages
        <3>1. PICK sent \in SUBSET {p \in Partitions : forwarding[i][p]} :
                  forwarded' = forwarded \cup {<<p, position[i][p]>> : p \in sent}
            BY <1>12 DEF End
        <3>2. \A p \in sent : p \in Partitions /\ position[i][p] \in Nat
            BY <3>1, WaitingHandler
        <3> QED BY <3>1, <3>2 DEF TypeOK, Messages
    <2> QED BY <2>1, <2>2, <2>3, <2>5, <2>6, <2>7, <2>8 DEF TypeOK, Offsets
<1> QED
    BY <1>1, <1>2, <1>3, <1>4, <1>5, <1>6, <1>7, <1>8, <1>9, <1>10, <1>11, <1>12
    DEF Next, HandlerStep

-----------------------------------------------------------------------------
(* Documents, and what stays done.                                          *)

\* What was done for a message is not forgotten.
Grows ==
    /\ Known \subseteq Known'
    /\ forwarded \subseteq forwarded'
    /\ givenUp \subseteq givenUp'

LEMMA IngestConserves ==
    ASSUME TypeOK, IsFiniteSet(accepted), DocumentsConserved,
           NEW i \in Instances, NEW p \in Partitions,
           position[i][p] \in Nat, Ingest(i, p), lost' = lost
    PROVE  /\ DocumentsConserved' /\ Known \subseteq Known'
           /\ \E d \in Known' : d.part = p /\ d.offset = position[i][p]
<1>1. PICK d \in Deliveries :
          /\ d.part = p /\ d.offset = position[i][p]
          /\ d \notin accepted
          /\ accepted' = accepted \cup {d}
          /\ waiting' = waiting \cup {d}
          /\ indexed' = indexed /\ dropped' = dropped
    BY Ingests
<1>2. DocumentsConserved' /\ Known \subseteq Known' /\ d \in Known'
    BY <1>1 DEF DocumentsConserved, Known
<1> QED BY <1>1, <1>2

LEMMA DocumentsStep == IInv /\ [Next]_vars => DocumentsConserved' /\ Grows
<1> SUFFICES ASSUME IInv, [Next]_vars
             PROVE  DocumentsConserved' /\ Grows
    OBVIOUS
<1> USE DEF IInv
<1>1. ASSUME UNCHANGED <<sinkVars, lost>>, forwarded \subseteq forwarded', givenUp \subseteq givenUp'
      PROVE  DocumentsConserved' /\ Grows
    BY <1>1 DEF sinkVars, DocumentsConserved, Known, Grows
<1>2. CASE UNCHANGED vars
    BY <1>1, <1>2 DEF vars, forwardVars
<1>3. ASSUME NEW i \in Instances, Start(i)
      PROVE  DocumentsConserved' /\ Grows
    BY <1>1, <1>3 DEF Start, forwardVars
<1>4. ASSUME NEW p \in Partitions, Evict(p)
      PROVE  DocumentsConserved' /\ Grows
    BY <1>1, <1>4 DEF Evict, forwardVars
<1>5. ASSUME NEW i \in Instances, NEW p \in Partitions,
             Assign(i, p) \/ Release(i, p) \/ Commit(i, p) \/ Skip(i, p)
      PROVE  DocumentsConserved' /\ Grows
    BY <1>1, <1>5 DEF Assign, Release, Commit, Skip, forwardVars
<1>6. ASSUME NEW i \in Instances, NEW p \in Partitions, ForwardAnswers(i, p) \/ ForwardFails(i, p)
      PROVE  DocumentsConserved' /\ Grows
    BY <1>1, <1>6 DEF ForwardAnswers, ForwardFails
<1>7. ASSUME NEW i \in Instances, NEW p \in Partitions, Handle(i, p) \/ HandleError(i, p)
      PROVE  DocumentsConserved' /\ Grows
    <2>1. Deliverable(i, p) /\ Ingest(i, p) /\ lost' = lost
        BY <1>7 DEF Handle, HandleError
    <2>2. position[i][p] \in Nat
        BY <2>1, HandlerAt
    <2>3. DocumentsConserved' /\ Known \subseteq Known'
        BY <2>1, <2>2, IngestConserves
    <2>4. forwarded \subseteq forwarded' /\ givenUp \subseteq givenUp'
        BY <1>7 DEF Handle, HandleError, forwardVars
    <2> QED BY <2>3, <2>4 DEF Grows
<1>8. ASSUME NEW i \in Instances, Settle(i)
      PROVE  DocumentsConserved' /\ Grows
    <2>1. PICK group \in SUBSET Held(i) : \E stored \in SUBSET group : Sink!Settle(group, stored)
        BY <1>8 DEF Settle
    <2>2. DocumentsConserved' /\ Known \subseteq Known'
        BY <1>8, <2>1 DEF Settle, Sink!Settle, DocumentsConserved, Known
    <2> QED BY <1>8, <2>2 DEF Settle, forwardVars, Grows
<1>9. ASSUME NEW i \in Instances, End(i)
      PROVE  DocumentsConserved' /\ Grows
    <2>1. PICK stored \in SUBSET Held(i) :
              /\ waiting' = waiting \ Held(i)
              /\ indexed' = indexed \cup stored
              /\ lost' = lost \cup (Held(i) \ stored)
        BY <1>9 DEF End
    <2>2. accepted' = accepted /\ dropped' = dropped /\ Held(i) \subseteq waiting
        BY <1>9 DEF End, Held
    <2>3. DocumentsConserved' /\ Known \subseteq Known'
        BY <2>1, <2>2 DEF DocumentsConserved, Known
    <2>4. forwarded \subseteq forwarded' /\ givenUp' = givenUp
        BY <1>9 DEF End
    <2> QED BY <2>3, <2>4 DEF Grows
<1> QED
    BY <1>2, <1>3, <1>4, <1>5, <1>6, <1>7, <1>8, <1>9 DEF Next, HandlerStep

-----------------------------------------------------------------------------
(* Positions and commits.                                                   *)

\* Handled, in the state after a step.
HandledNext(p, offset) ==
    /\ IsEvent(p, offset) => \E d \in Known' : d.part = p /\ d.offset = offset
    /\ Kind(p, offset) = "error" => <<p, offset>> \in forwarded' \cup givenUp'

LEMMA NextOfHandled ==
    ASSUME NEW p, NEW offset
    PROVE  HandledNext(p, offset) <=> Handled(p, offset)'
BY DEF HandledNext, Handled, Ingested, IsEvent, Kind

\* A message that was handled stays handled.
LEMMA StaysHandled ==
    ASSUME Grows, NEW p, NEW offset, Handled(p, offset)
    PROVE  HandledNext(p, offset)
BY DEF Grows, Ingested, Handled, HandledNext

\* A position stays, is given up, starts at the committed offset, or passes a
\* message that was handled.
LEMMA Moves ==
    ASSUME IInv, [Next]_vars, NEW j \in Instances, NEW q \in Partitions
    PROVE  \/ position'[j][q] = position[j][q]
           \/ position'[j][q] = Unassigned
           \/ position'[j][q] = committed[q] /\ committed' = committed
           \/ /\ position[j][q] \in Nat
              /\ position'[j][q] = position[j][q] + 1
              /\ HandledNext(q, position[j][q])
              /\ committed' = committed
<1> USE DEF IInv
<1>0. Grows
    BY DocumentsStep
<1>1. CASE UNCHANGED position
    BY <1>1
<1>2. ASSUME NEW i \in Instances, NEW p \in Partitions, Assign(i, p)
      PROVE  position'[j][q] = position[j][q] \/ (position'[j][q] = committed[q] /\ committed' = committed)
    <2>1. committed[p] \in Int /\ MoveTo(i, p, committed[p]) /\ committed' = committed
        BY <1>2 DEF Assign, TypeOK
    <2> QED BY <2>1, Moved
<1>3. ASSUME NEW i \in Instances, NEW p \in Partitions, Release(i, p)
      PROVE  position'[j][q] = position[j][q] \/ position'[j][q] = Unassigned
    BY <1>3, Moved DEF Release, Unassigned
<1>4. ASSUME NEW i \in Instances, End(i)
      PROVE  position'[j][q] = position[j][q] \/ position'[j][q] = Unassigned
    BY <1>4 DEF End, TypeOK
<1>5. ASSUME NEW i \in Instances, NEW p \in Partitions,
             position[i][p] \in Nat, MoveTo(i, p, position[i][p] + 1),
             HandledNext(p, position[i][p]), committed' = committed
      PROVE  \/ position'[j][q] = position[j][q]
             \/ /\ position[j][q] \in Nat
                /\ position'[j][q] = position[j][q] + 1
                /\ HandledNext(q, position[j][q])
                /\ committed' = committed
    BY <1>5, Moved
<1>6. ASSUME NEW i \in Instances, NEW p \in Partitions, Skip(i, p)
      PROVE  \/ position'[j][q] = position[j][q]
             \/ /\ position[j][q] \in Nat
                /\ position'[j][q] = position[j][q] + 1
                /\ HandledNext(q, position[j][q])
                /\ committed' = committed
    <2>1. position[i][p] \in Nat
        BY <1>6, HandlerAt DEF Skip
    <2>2. HandledNext(p, position[i][p])
        BY <1>6 DEF Skip, HandledNext, IsEvent
    <2> QED BY <1>5, <1>6, <2>1, <2>2 DEF Skip
<1>7. ASSUME NEW i \in Instances, NEW p \in Partitions, Handle(i, p) \/ HandleError(i, p)
      PROVE  \/ position'[j][q] = position[j][q]
             \/ /\ position[j][q] \in Nat
                /\ position'[j][q] = position[j][q] + 1
                /\ HandledNext(q, position[j][q])
                /\ committed' = committed
    <2>1. Deliverable(i, p) /\ Ingest(i, p) /\ lost' = lost /\ committed' = committed
        BY <1>7 DEF Handle, HandleError
    <2>2. position[i][p] \in Nat
        BY <2>1, HandlerAt
    <2>3. \E d \in Known' : d.part = p /\ d.offset = position[i][p]
        BY <2>1, <2>2, IngestConserves
    <2>4. CASE Handle(i, p)
        <3>1. HandledNext(p, position[i][p])
            BY <2>3, <2>4 DEF Handle, HandledNext
        <3> QED BY <1>5, <2>1, <2>2, <2>4, <3>1 DEF Handle
    <2>5. CASE HandleError(i, p) /\ position' = position
        BY <2>5
    <2>6. CASE HandleError(i, p) /\ MoveTo(i, p, position[i][p] + 1) /\ givenUp' = givenUp \cup {<<p, position[i][p]>>}
        <3>1. HandledNext(p, position[i][p])
            BY <2>3, <2>6 DEF HandledNext
        <3> QED BY <1>5, <2>1, <2>2, <2>6, <3>1
    <2> QED BY <1>7, <2>4, <2>5, <2>6 DEF HandleError
<1>8. ASSUME NEW i \in Instances, NEW p \in Partitions, ForwardAnswers(i, p) \/ ForwardFails(i, p)
      PROVE  \/ position'[j][q] = position[j][q]
             \/ /\ position[j][q] \in Nat
                /\ position'[j][q] = position[j][q] + 1
                /\ HandledNext(q, position[j][q])
                /\ committed' = committed
    <2>1. /\ forwarding[i][p] /\ MoveTo(i, p, position[i][p] + 1)
          /\ <<p, position[i][p]>> \in forwarded' \cup givenUp'
          /\ committed' = committed
        BY <1>8 DEF ForwardAnswers, ForwardFails, ForwardReturns
    <2>2. position[i][p] \in Nat /\ Kind(p, position[i][p]) = "error"
        BY <2>1, WaitingHandler
    <2>3. Ingested(p, position[i][p])
        BY <2>1 DEF IngestedBeforeForward
    <2>4. HandledNext(p, position[i][p])
        BY <1>0, <2>1, <2>3 DEF HandledNext, Ingested, Grows
    <2> QED BY <1>5, <2>1, <2>2, <2>4
<1>9. \A i \in Instances, p \in Partitions :
          Start(i) \/ Settle(i) \/ Evict(p) \/ Commit(i, p) => UNCHANGED position
    BY DEF Start, Settle, Evict, Commit, groupVars
<1>10. UNCHANGED vars => UNCHANGED position
    BY DEF vars, groupVars
<1>11. \/ \E i \in Instances, p \in Partitions : Assign(i, p)
       \/ \E i \in Instances, p \in Partitions : Release(i, p)
       \/ \E i \in Instances : End(i)
       \/ \E i \in Instances, p \in Partitions : Skip(i, p)
       \/ \E i \in Instances, p \in Partitions : Handle(i, p) \/ HandleError(i, p)
       \/ \E i \in Instances, p \in Partitions : ForwardAnswers(i, p) \/ ForwardFails(i, p)
       \/ UNCHANGED position
    BY <1>9, <1>10 DEF Next, HandlerStep
<1> QED BY <1>1, <1>2, <1>3, <1>4, <1>6, <1>7, <1>8, <1>11

LEMMA HandledBelowStep == IInv /\ [Next]_vars => HandledBelow'
<1> SUFFICES ASSUME IInv, [Next]_vars
             PROVE  HandledBelow'
    OBVIOUS
<1>0. TypeOK'
    BY TypeStep
<1> SUFFICES ASSUME NEW j \in Instances, NEW q \in Partitions, NEW offset \in Nat,
                    offset < position'[j][q]
             PROVE  HandledNext(q, offset)
    BY <1>0, NextOfHandled DEF HandledBelow, TypeOK
<1> USE DEF IInv
<1>1. Grows /\ TypeOK'
    BY DocumentsStep, TypeStep
<1>2. position[j][q] \in Int /\ position'[j][q] \in Int /\ committed[q] \in Nat
    BY <1>1 DEF TypeOK
<1>3. offset < position[j][q] => Handled(q, offset)
    BY <1>2 DEF HandledBelow
<1>4. offset < committed[q] => Handled(q, offset)
    BY <1>2 DEF CommittedIsAccountedFor
<1>5. Handled(q, offset) => HandledNext(q, offset)
    BY <1>1, StaysHandled
<1>6. \/ position'[j][q] = position[j][q]
      \/ position'[j][q] = Unassigned
      \/ position'[j][q] = committed[q]
      \/ /\ position'[j][q] = position[j][q] + 1
         /\ HandledNext(q, position[j][q])
    BY Moves
<1>7. \/ offset < position[j][q]
      \/ offset < committed[q]
      \/ offset = position[j][q] /\ HandledNext(q, position[j][q])
    BY <1>2, <1>6 DEF Unassigned
<1> QED BY <1>3, <1>4, <1>5, <1>7

LEMMA ForwardStep == IInv /\ [Next]_vars => IngestedBeforeForward'
<1> SUFFICES ASSUME IInv, [Next]_vars,
                    NEW j \in Instances, NEW q \in Partitions
             PROVE  (forwarding[j][q] => Ingested(q, position[j][q]))'
    BY DEF IngestedBeforeForward
<1> USE DEF IInv
<1>1. Grows
    BY DocumentsStep
<1>2. ASSUME forwarding'[j][q] => forwarding[j][q] /\ position'[j][q] = position[j][q]
      PROVE  (forwarding[j][q] => Ingested(q, position[j][q]))'
    BY <1>1, <1>2 DEF IngestedBeforeForward, Ingested, Grows
<1>3. CASE UNCHANGED <<position, forwarding>>
    BY <1>2, <1>3
<1>4. ASSUME NEW i \in Instances, NEW p \in Partitions, NEW offset \in Int,
             MoveTo(i, p, offset), ~forwarding[i][p], forwarding' = forwarding
      PROVE  (forwarding[j][q] => Ingested(q, position[j][q]))'
    <2>1. position'[j][q] = IF j = i /\ q = p THEN offset ELSE position[j][q]
        BY <1>4, Moved
    <2> QED BY <1>2, <1>4, <2>1
<1>5. ASSUME NEW i \in Instances, NEW p \in Partitions, Assign(i, p)
      PROVE  (forwarding[j][q] => Ingested(q, position[j][q]))'
    <2>1. ~forwarding[i][p] /\ committed[p] \in Int
        BY <1>5, WaitingHandler DEF Assign, TypeOK, Unassigned
    <2> QED BY <1>4, <1>5, <2>1 DEF Assign
<1>6. ASSUME NEW i \in Instances, NEW p \in Partitions, Release(i, p)
      PROVE  (forwarding[j][q] => Ingested(q, position[j][q]))'
    BY <1>4, <1>6 DEF Release, Unassigned
<1>7. ASSUME NEW i \in Instances, NEW p \in Partitions, Skip(i, p) \/ Handle(i, p)
      PROVE  (forwarding[j][q] => Ingested(q, position[j][q]))'
    <2>1. /\ ~forwarding[i][p] /\ position[i][p] + 1 \in Int
          /\ MoveTo(i, p, position[i][p] + 1) /\ forwarding' = forwarding
        BY <1>7, HandlerAt DEF Skip, Handle
    <2> QED BY <1>4, <2>1
<1>8. ASSUME NEW i \in Instances, NEW p \in Partitions, HandleError(i, p)
      PROVE  (forwarding[j][q] => Ingested(q, position[j][q]))'
    <2>1. Deliverable(i, p) /\ Ingest(i, p) /\ lost' = lost
        BY <1>8 DEF HandleError
    <2>2. position[i][p] \in Nat /\ ~forwarding[i][p]
        BY <2>1, HandlerAt
    <2>3. \E d \in Known' : d.part = p /\ d.offset = position[i][p]
        BY <2>1, <2>2, IngestConserves
    <2>4. CASE forwarding' = [forwarding EXCEPT ![i][p] = TRUE] /\ position' = position
        <3>1. forwarding' = [forwarding EXCEPT ![i][p] = TRUE]
            BY <2>4
        <3>2. (j = i /\ q = p) \/ forwarding'[j][q] = forwarding[j][q]
            BY <3>1, FlagRaised
        <3>3. CASE j = i /\ q = p
            BY <2>3, <2>4, <3>3 DEF Ingested
        <3> QED BY <1>2, <2>4, <3>2, <3>3
    <2>5. CASE MoveTo(i, p, position[i][p] + 1) /\ forwarding' = forwarding
        BY <1>4, <2>2, <2>5
    <2> QED BY <1>8, <2>4, <2>5 DEF HandleError
<1>9. ASSUME NEW i \in Instances, NEW p \in Partitions, ForwardReturns(i, p)
      PROVE  (forwarding[j][q] => Ingested(q, position[j][q]))'
    <2>1. forwarding[i][p] /\ MoveTo(i, p, position[i][p] + 1)
        BY <1>9 DEF ForwardReturns
    <2>2. position[i][p] \in Nat
        BY <2>1, WaitingHandler
    <2>3. position'[j][q] = IF j = i /\ q = p THEN position[i][p] + 1 ELSE position[j][q]
        BY <2>1, <2>2, Moved
    <2>4. forwarding' = [forwarding EXCEPT ![i][p] = FALSE]
        BY <1>9 DEF ForwardReturns
    <2>5. IF j = i /\ q = p THEN ~forwarding'[j][q] ELSE forwarding'[j][q] = forwarding[j][q]
        BY <2>4 DEF TypeOK
    <2> QED BY <1>2, <2>3, <2>5
<1>10. ASSUME NEW i \in Instances, End(i)
       PROVE  (forwarding[j][q] => Ingested(q, position[j][q]))'
    <2>1. CASE j = i
        BY <1>10, <2>1 DEF End, TypeOK
    <2>2. CASE j # i
        BY <1>2, <1>10, <2>2 DEF End, TypeOK
    <2> QED BY <2>1, <2>2
<1>11. \A i \in Instances, p \in Partitions :
           Start(i) \/ Settle(i) \/ Evict(p) \/ Commit(i, p) => UNCHANGED <<position, forwarding>>
    BY DEF Start, Settle, Evict, Commit, groupVars
<1>12. UNCHANGED vars => UNCHANGED <<position, forwarding>>
    BY DEF vars, groupVars
<1>13. \/ \E i \in Instances, p \in Partitions : Assign(i, p)
       \/ \E i \in Instances, p \in Partitions : Release(i, p)
       \/ \E i \in Instances : End(i)
       \/ \E i \in Instances, p \in Partitions : Skip(i, p) \/ Handle(i, p)
       \/ \E i \in Instances, p \in Partitions : HandleError(i, p)
       \/ \E i \in Instances, p \in Partitions : ForwardReturns(i, p)
       \/ UNCHANGED <<position, forwarding>>
    BY <1>11, <1>12 DEF Next, HandlerStep, ForwardAnswers, ForwardFails
<1> QED BY <1>3, <1>5, <1>6, <1>7, <1>8, <1>9, <1>10, <1>13

LEMMA OwnersStep == IInv /\ [Next]_vars => OwnersAhead'
<1> SUFFICES ASSUME IInv, [Next]_vars,
                    NEW q \in Partitions, owner'[q] # NoOne
             PROVE  position'[owner'[q]][q] >= committed'[q]
    BY DEF OwnersAhead
<1> USE DEF IInv
<1> DEFINE o == owner[q]
<1>1. /\ TypeOK' /\ committed[q] \in Nat /\ o \in Instances \cup {NoOne}
      /\ o # NoOne => position[o][q] >= committed[q]
    BY TypeStep DEF TypeOK, OwnersAhead
<1>2. ASSUME owner'[q] = o, committed' = committed, position'[o][q] >= position[o][q]
      PROVE  position'[owner'[q]][q] >= committed'[q]
    <2>1. o \in Instances /\ position[o][q] \in Int /\ position'[o][q] \in Int
        BY <1>1, <1>2, LogPipelineAssumption DEF TypeOK
    <2> HIDE DEF o
    <2> QED BY <1>1, <1>2, <2>1
<1>3. ASSUME NEW i \in Instances, NEW p \in Partitions, Assign(i, p)
      PROVE  position'[owner'[q]][q] >= committed'[q]
    <2>1. /\ committed[p] \in Int /\ MoveTo(i, p, committed[p]) /\ committed' = committed
          /\ owner' = [owner EXCEPT ![p] = i]
        BY <1>3 DEF Assign, TypeOK
    <2>2. \A k \in Instances : position'[k][q] = IF k = i /\ q = p THEN committed[p] ELSE position[k][q]
        BY <2>1, Moved
    <2>3. CASE q = p
        <3>1. owner'[q] = i /\ position'[i][q] = committed[q] /\ committed'[q] = committed[q]
            BY <2>1, <2>2, <2>3 DEF TypeOK
        <3> QED BY <1>1, <3>1
    <2>4. CASE q # p
        <3>1. owner'[q] = o /\ o \in Instances
            BY <1>1, <2>1, <2>4 DEF TypeOK
        <3>2. position'[o][q] = position[o][q] /\ position[o][q] \in Int
            BY <2>2, <2>4, <3>1 DEF TypeOK
        <3> QED BY <1>2, <2>1, <3>1, <3>2
    <2> QED BY <2>3, <2>4
<1>4. ASSUME NEW i \in Instances, NEW p \in Partitions, Commit(i, p)
      PROVE  position'[owner'[q]][q] >= committed'[q]
    <2>1. owner[p] = i /\ owner' = owner /\ position' = position /\ position[i][p] \in Int
        BY <1>4 DEF Commit, TypeOK
    <2>2. committed' = [committed EXCEPT ![p] = position[i][p]]
        BY <1>4 DEF Commit
    <2>3. CASE q = p
        BY <2>1, <2>2, <2>3 DEF TypeOK
    <2>4. CASE q # p
        BY <1>1, <2>1, <2>2, <2>4 DEF TypeOK
    <2> QED BY <2>3, <2>4
<1>5. ASSUME NEW i \in Instances, NEW p \in Partitions, Release(i, p)
      PROVE  position'[owner'[q]][q] >= committed'[q]
    <2>1. owner[p] # i /\ MoveTo(i, p, Unassigned) /\ owner' = owner /\ committed' = committed
        BY <1>5 DEF Release
    <2>2. o \in Instances
        BY <1>1, <2>1
    <2>3. position'[o][q] = position[o][q] /\ position[o][q] \in Int
        BY <2>1, <2>2, Moved DEF TypeOK, Unassigned
    <2> QED BY <1>2, <2>1, <2>3
<1>6. ASSUME NEW i \in Instances, End(i)
      PROVE  position'[owner'[q]][q] >= committed'[q]
    <2>1. owner'[q] = o /\ o # i /\ committed' = committed /\ o \in Instances
        BY <1>1, <1>6 DEF End, TypeOK
    <2>2. position'[o][q] = position[o][q] /\ position[o][q] \in Int
        BY <1>6, <2>1 DEF End, TypeOK
    <2> QED BY <1>2, <2>1, <2>2
<1>7. ASSUME NEW i \in Instances, NEW p \in Partitions, HandlerStep(i, p)
      PROVE  position'[owner'[q]][q] >= committed'[q]
    <2>1. owner' = owner /\ committed' = committed
        BY <1>7 DEF HandlerStep, Skip, Handle, HandleError, ForwardAnswers, ForwardFails
    <2>2. position' = position \/ (MoveTo(i, p, position[i][p] + 1) /\ position[i][p] \in Int)
        BY <1>7 DEF HandlerStep, Skip, Handle, HandleError, ForwardAnswers, ForwardFails, ForwardReturns, TypeOK
    <2>3. o \in Instances /\ position[o][q] \in Int
        BY <1>1, <2>1 DEF TypeOK
    <2>4. position'[o][q] >= position[o][q]
        <3>1. CASE position' = position
            BY <2>3, <3>1
        <3>2. CASE MoveTo(i, p, position[i][p] + 1) /\ position[i][p] \in Int
            <4>1. position'[o][q] = IF o = i /\ q = p THEN position[i][p] + 1 ELSE position[o][q]
                BY <2>3, <3>2, Moved
            <4> QED BY <2>3, <3>2, <4>1
        <3> QED BY <2>2, <3>1, <3>2
    <2> QED BY <1>2, <2>1, <2>4
<1>8. ASSUME UNCHANGED <<position, committed>>, owner'[q] = o
      PROVE  position'[owner'[q]][q] >= committed'[q]
    <2>1. o \in Instances /\ position[o][q] \in Int
        BY <1>1, <1>8 DEF TypeOK
    <2> QED BY <1>2, <1>8, <2>1
<1>9. ASSUME NEW p \in Partitions, Evict(p)
      PROVE  position'[owner'[q]][q] >= committed'[q]
    BY <1>8, <1>9 DEF Evict, TypeOK
<1>10. ASSUME NEW i \in Instances, Start(i) \/ Settle(i)
       PROVE  position'[owner'[q]][q] >= committed'[q]
    BY <1>8, <1>10 DEF Start, Settle, groupVars
<1>11. CASE UNCHANGED vars
    BY <1>8, <1>11 DEF vars, groupVars
<1> QED
    BY <1>3, <1>4, <1>5, <1>6, <1>7, <1>9, <1>10, <1>11 DEF Next

\* A commit stays, or is the position of the owner.
LEMMA Commits ==
    ASSUME IInv, [Next]_vars, NEW q \in Partitions
    PROVE  \/ committed'[q] = committed[q]
           \/ /\ owner[q] \in Instances
              /\ committed'[q] = position[owner[q]][q]
              /\ position[owner[q]][q] >= committed[q]
<1> USE DEF IInv
<1>1. ASSUME NEW i \in Instances, NEW p \in Partitions, Commit(i, p)
      PROVE  \/ committed'[q] = committed[q]
             \/ /\ owner[q] \in Instances
                /\ committed'[q] = position[owner[q]][q]
                /\ position[owner[q]][q] >= committed[q]
    BY <1>1, LogPipelineAssumption DEF Commit, TypeOK, OwnersAhead
<1>2. (\E i \in Instances, p \in Partitions : Commit(i, p)) \/ committed' = committed
    BY DEF Next, HandlerStep, Start, Assign, Evict, Release, Skip, Handle, HandleError,
           ForwardAnswers, ForwardFails, Settle, End, groupVars, vars
<1> QED BY <1>1, <1>2

LEMMA CommittedStep == IInv /\ [Next]_vars => CommittedIsAccountedFor'
<1> SUFFICES ASSUME IInv, [Next]_vars
             PROVE  CommittedIsAccountedFor'
    OBVIOUS
<1>0. TypeOK' /\ Grows
    BY TypeStep, DocumentsStep
<1> SUFFICES ASSUME NEW q \in Partitions, NEW offset \in Nat, offset < committed'[q]
             PROVE  HandledNext(q, offset)
    BY <1>0, NextOfHandled DEF CommittedIsAccountedFor, TypeOK
<1> USE DEF IInv
<1>1. committed[q] \in Nat /\ committed'[q] \in Nat
    BY <1>0 DEF TypeOK
<1>2. CASE committed'[q] = committed[q]
    <2>1. Handled(q, offset)
        BY <1>1, <1>2 DEF CommittedIsAccountedFor
    <2> QED BY <1>0, <2>1, StaysHandled
<1>3. CASE owner[q] \in Instances /\ committed'[q] = position[owner[q]][q]
    <2>1. Handled(q, offset)
        BY <1>1, <1>3 DEF HandledBelow
    <2> QED BY <1>0, <2>1, StaysHandled
<1> QED BY <1>2, <1>3, Commits

-----------------------------------------------------------------------------
(* The theorems.                                                            *)

LEMMA InitInvariant == Init => IInv
<1> SUFFICES ASSUME Init PROVE IInv
    OBVIOUS
<1>1. TypeOK
    BY InitType
<1>2. IsFiniteSet(accepted) /\ DocumentsConserved
    BY FS_EmptySet DEF Init, Sink!Init, DocumentsConserved, Known
<1>3. HandledBelow
    BY DEF Init, HandledBelow, Unassigned
<1>4. IngestedBeforeForward
    BY DEF Init, IngestedBeforeForward
<1>5. OwnersAhead /\ CommittedIsAccountedFor
    BY DEF Init, OwnersAhead, CommittedIsAccountedFor
<1> QED BY <1>1, <1>2, <1>3, <1>4, <1>5 DEF IInv

LEMMA Invariance == Spec => []IInv
<1>1. IInv /\ [Next]_vars => IInv'
    BY TypeStep, DocumentsStep, HandledBelowStep, ForwardStep, OwnersStep, CommittedStep DEF IInv
<1> QED BY InitInvariant, <1>1, PTL DEF Spec

\* The variables keep their types, a process that has ended holds no position,
\* and only a handler of an error log waits for the forwarder.
THEOREM TypeCorrect == Spec => []TypeOK
<1>1. IInv => TypeOK
    BY DEF IInv
<1> QED BY <1>1, Invariance, PTL

\* Whatever crashes, rebalances and failures of the forwarder come together, a
\* committed offset has only messages before it that were handled to the end.
THEOREM CommitsAreAccountedFor == Spec => []CommittedIsAccountedFor
<1>1. IInv => CommittedIsAccountedFor
    BY DEF IInv
<1> QED BY <1>1, Invariance, PTL

\* Every document that was enqueued is held, stored, given up or lost with its
\* process, and only one of them.
THEOREM DocumentsInOnePlace == Spec => []DocumentsConserved
<1>1. IInv => DocumentsConserved
    BY DEF IInv
<1> QED BY <1>1, Invariance, PTL

-----------------------------------------------------------------------------
(* How often a message is handled.  Each time was preceded by an assignment *)
(* of its partition, and each assignment but the first by a fault: those    *)
(* that have handled the message, those that still will and the one that is *)
(* due when the partition has no owner are one more than the faults.        *)

\* The processes that will come to the message.
Coming(p, offset) ==
    {i \in alive : position[i][p] \in 0..offset /\ ~(position[i][p] = offset /\ forwarding[i][p])}

Due(p) == IF owner[p] = NoOne THEN 1 ELSE 0

Times(p, offset) == Cardinality(EarlierDeliveries(p, offset)) + Cardinality(Coming(p, offset)) + Due(p)

TimesBound ==
    \A p \in Partitions : \A offset \in 0..(Len(Log[p]) - 1) : Times(p, offset) <= 1 + faults

CountInv == IsFiniteSet(alive) /\ TimesBound

\* The sets that are counted are finite.
CountsAreNumbers ==
    \A p \in Partitions : \A offset \in Nat :
        /\ IsFiniteSet(EarlierDeliveries(p, offset)) /\ IsFiniteSet(Coming(p, offset))
        /\ Cardinality(EarlierDeliveries(p, offset)) \in Nat
        /\ Cardinality(Coming(p, offset)) \in Nat
        /\ Due(p) \in {0, 1} /\ faults \in Nat

LEMMA Counts == IInv /\ IsFiniteSet(alive) => CountsAreNumbers
<1> SUFFICES ASSUME IInv, IsFiniteSet(alive), NEW p \in Partitions, NEW offset \in Nat
             PROVE  /\ IsFiniteSet(EarlierDeliveries(p, offset)) /\ IsFiniteSet(Coming(p, offset))
                    /\ Due(p) \in {0, 1} /\ faults \in Nat
    BY FS_CardinalityType DEF CountsAreNumbers
<1>1. EarlierDeliveries(p, offset) \subseteq accepted /\ Coming(p, offset) \subseteq alive
    BY DEF EarlierDeliveries, Coming
<1>2. faults \in Nat
    BY LogPipelineAssumption DEF IInv, TypeOK
<1> QED BY <1>1, <1>2, FS_Subset DEF Due, IInv

\* At most one element more.
LEMMA AtMostOneMore ==
    ASSUME NEW S, IsFiniteSet(S), NEW x, NEW T \in SUBSET (S \cup {x})
    PROVE  Cardinality(T) <= Cardinality(S) + 1
<1> DEFINE U == S \cup {x}
<1>1. IsFiniteSet(U) /\ Cardinality(U) = IF x \in S THEN Cardinality(S) ELSE Cardinality(S) + 1
    BY FS_AddElement
<1>2. Cardinality(S) \in Nat /\ Cardinality(U) \in Nat
    BY <1>1, FS_CardinalityType
<1>3. Cardinality(T) \in Nat /\ Cardinality(T) <= Cardinality(U)
    BY <1>1, FS_Subset, FS_CardinalityType
<1> HIDE DEF U
<1> QED BY <1>1, <1>2, <1>3

Numbers == CountsAreNumbers /\ CountsAreNumbers'

\* No more deliveries, and nobody new comes, but for what a fault pays for.
LEMMA NoMoreTimes ==
    ASSUME Numbers, NEW p \in Partitions, NEW offset \in Nat,
           Times(p, offset) <= 1 + faults,
           EarlierDeliveries(p, offset)' = EarlierDeliveries(p, offset),
           Coming(p, offset)' \subseteq Coming(p, offset),
           \/ owner'[p] = owner[p] /\ faults' \in {faults, faults + 1}
           \/ faults' = faults + 1
    PROVE  Times(p, offset)' <= 1 + faults'
<1> DEFINE e == Cardinality(EarlierDeliveries(p, offset))  c == Cardinality(Coming(p, offset))
           d == Due(p)
<1>1. /\ e \in Nat /\ c \in Nat /\ d \in {0, 1} /\ faults \in Nat
      /\ e' \in Nat /\ c' \in Nat /\ d' \in {0, 1} /\ faults' \in Nat
    BY DEF Numbers, CountsAreNumbers
<1>2. c' <= c
    BY FS_Subset DEF Numbers, CountsAreNumbers
<1>3. e' = e
    OBVIOUS
<1>4. owner'[p] = owner[p] => d' = d
    BY DEF Due
<1>5. e + c + d <= 1 + faults
    BY DEF Times
<1> HIDE DEF e, c, d
<1>6. e' + c' + d' <= 1 + faults'
    BY <1>1, <1>2, <1>3, <1>4, <1>5
<1> QED BY <1>6 DEF Times, e, c, d

\* One that came to the message has handled it.
LEMMA OneMoreTime ==
    ASSUME Numbers, NEW p \in Partitions, NEW offset \in Nat, NEW i, NEW d,
           Times(p, offset) <= 1 + faults,
           EarlierDeliveries(p, offset)' = EarlierDeliveries(p, offset) \cup {d},
           i \in Coming(p, offset), Coming(p, offset)' \subseteq Coming(p, offset) \ {i},
           owner'[p] = owner[p], faults' = faults
    PROVE  Times(p, offset)' <= 1 + faults'
<1> DEFINE E == EarlierDeliveries(p, offset)  C == Coming(p, offset)
           e == Cardinality(E)  c == Cardinality(C)  due == Due(p)
<1>1. /\ e \in Nat /\ c \in Nat /\ due \in {0, 1} /\ faults \in Nat
      /\ e' \in Nat /\ c' \in Nat /\ IsFiniteSet(E) /\ IsFiniteSet(C)
    BY DEF Numbers, CountsAreNumbers
<1>2. e' <= e + 1
    <2>1. E' \in SUBSET (E \cup {d})
        OBVIOUS
    <2> QED BY <1>1, <2>1, AtMostOneMore
<1>3. c' <= c - 1
    <2>1. IsFiniteSet(C \ {i}) /\ Cardinality(C \ {i}) = c - 1
        BY <1>1, FS_RemoveElement
    <2> QED BY <2>1, FS_Subset
<1>4. due' = due
    BY DEF Due
<1>5. e + c + due <= 1 + faults
    BY DEF Times
<1> HIDE DEF e, c, due
<1>6. e' + c' + due' <= 1 + faults'
    BY <1>1, <1>2, <1>3, <1>4, <1>5
<1> QED BY <1>6 DEF Times, e, c, due

\* The partition has an owner again, who comes to the message.
LEMMA OwnerComes ==
    ASSUME Numbers, NEW p \in Partitions, NEW offset \in Nat, NEW i,
           Times(p, offset) <= 1 + faults,
           EarlierDeliveries(p, offset)' = EarlierDeliveries(p, offset),
           Coming(p, offset)' \subseteq Coming(p, offset) \cup {i},
           owner[p] = NoOne, owner'[p] # NoOne, faults' = faults
    PROVE  Times(p, offset)' <= 1 + faults'
<1> DEFINE e == Cardinality(EarlierDeliveries(p, offset))  C == Coming(p, offset)
           c == Cardinality(C)  due == Due(p)
<1>1. /\ e \in Nat /\ c \in Nat /\ faults \in Nat /\ c' \in Nat /\ IsFiniteSet(C)
    BY DEF Numbers, CountsAreNumbers
<1>2. c' <= c + 1
    <2>1. C' \in SUBSET (C \cup {i})
        OBVIOUS
    <2> QED BY <1>1, <2>1, AtMostOneMore
<1>3. due = 1 /\ due' = 0
    BY DEF Due
<1>4. e' = e
    OBVIOUS
<1>5. e + c + due <= 1 + faults
    BY DEF Times
<1>6. faults' = faults
    OBVIOUS
<1>7. e \in Nat /\ c \in Nat /\ faults \in Nat /\ c' \in Nat
    BY <1>1
<1> HIDE DEF e, C, c, due
<1>8. e' + c' + due' <= 1 + faults'
    BY <1>2, <1>3, <1>4, <1>5, <1>6, <1>7
<1> QED BY <1>8 DEF Times, e, C, c, due

\* What a step of a handler does to its place: it goes on behind the message, or
\* waits at it for the forwarder.
LEMMA HandlerMoves ==
    ASSUME IInv, NEW i \in Instances, NEW p \in Partitions, HandlerStep(i, p)
    PROVE  /\ i \in alive /\ alive' = alive /\ owner' = owner
           /\ position[i][p] \in Nat
           /\ \A j \in Instances, q \in Partitions :
                 (j = i /\ q = p) \/ (position'[j][q] = position[j][q] /\ forwarding'[j][q] = forwarding[j][q])
           /\ \/ position'[i][p] = position[i][p] + 1
              \/ position'[i][p] = position[i][p] /\ forwarding'[i][p] /\ ~forwarding[i][p]
           /\ \/ accepted' = accepted /\ faults' \in {faults, faults + 1}
              \/ /\ Ingest(i, p) /\ faults' = faults /\ ~forwarding[i][p]
<1>1. position \in [Instances -> [Partitions -> Int]] /\ TypeOK
    BY DEF IInv, TypeOK
<1>2. CASE Skip(i, p) \/ Handle(i, p)
    <2>1. /\ Deliverable(i, p) /\ MoveTo(i, p, position[i][p] + 1)
          /\ UNCHANGED <<alive, owner, forwarding, faults>>
          /\ (accepted' = accepted \/ Ingest(i, p))
        BY <1>2 DEF Skip, Handle, sinkVars
    <2>2. position[i][p] \in Nat /\ i \in alive /\ ~forwarding[i][p]
        BY <1>1, <2>1, HandlerAt
    <2> QED BY <1>1, <2>1, <2>2, Moved
<1>3. CASE HandleError(i, p)
    <2>1. /\ Deliverable(i, p) /\ Ingest(i, p) /\ UNCHANGED <<alive, owner, faults>>
        BY <1>3 DEF HandleError
    <2>2. position[i][p] \in Nat /\ i \in alive /\ ~forwarding[i][p]
        BY <1>1, <2>1, HandlerAt
    <2>3. CASE forwarding' = [forwarding EXCEPT ![i][p] = TRUE] /\ UNCHANGED position
        <3>1. forwarding \in [Instances -> [Partitions -> BOOLEAN]]
            BY <1>1 DEF TypeOK
        <3>2. /\ forwarding' \in [Instances -> [Partitions -> BOOLEAN]]
              /\ forwarding'[i][p] = TRUE
              /\ \A j \in Instances, q \in Partitions : (j = i /\ q = p) \/ forwarding'[j][q] = forwarding[j][q]
            BY <2>3, <3>1, FlagRaised
        <3>3. position' = position
            BY <2>3
        <3> QED BY <2>1, <2>2, <3>2, <3>3
    <2>4. CASE MoveTo(i, p, position[i][p] + 1) /\ UNCHANGED forwarding
        BY <1>1, <2>1, <2>2, <2>4, Moved
    <2> QED BY <1>3, <2>3, <2>4 DEF HandleError
<1>4. CASE ForwardAnswers(i, p) \/ ForwardFails(i, p)
    <2>1. /\ forwarding[i][p] /\ forwarding' = [forwarding EXCEPT ![i][p] = FALSE]
          /\ MoveTo(i, p, position[i][p] + 1)
          /\ UNCHANGED <<alive, owner, accepted>> /\ faults' \in {faults, faults + 1}
        BY <1>4 DEF ForwardAnswers, ForwardFails, ForwardReturns, Fault, sinkVars
    <2>2. position[i][p] \in Nat /\ i \in alive
        BY <1>1, <2>1, WaitingHandler
    <2>3. forwarding \in [Instances -> [Partitions -> BOOLEAN]]
        BY <1>1 DEF TypeOK
    <2>4. /\ forwarding' \in [Instances -> [Partitions -> BOOLEAN]]
          /\ forwarding'[i][p] = FALSE
          /\ \A j \in Instances, q \in Partitions : (j = i /\ q = p) \/ forwarding'[j][q] = forwarding[j][q]
        <3>1. forwarding' = [forwarding EXCEPT ![i][p] = FALSE]
            BY <2>1
        <3> QED BY <2>3, <3>1, FlagLowered
    <2>5. \A j \in Instances, q \in Partitions :
              position'[j][q] = IF j = i /\ q = p THEN position[i][p] + 1 ELSE position[j][q]
        BY <1>1, <2>1, <2>2, Moved
    <2> QED BY <2>1, <2>2, <2>4, <2>5
<1> QED BY <1>2, <1>3, <1>4 DEF HandlerStep

LEMMA HandlerTimes ==
    ASSUME IInv, Numbers, NEW i \in Instances, NEW p \in Partitions, HandlerStep(i, p),
           NEW q \in Partitions, NEW offset \in Nat, Times(q, offset) <= 1 + faults
    PROVE  Times(q, offset)' <= 1 + faults'
<1> DEFINE at == position[i][p]
<1>1. /\ i \in alive /\ alive' = alive /\ owner' = owner /\ at \in Nat
      /\ \A j \in Instances, r \in Partitions :
            (j = i /\ r = p) \/ (position'[j][r] = position[j][r] /\ forwarding'[j][r] = forwarding[j][r])
      /\ \/ position'[i][p] = at + 1
         \/ position'[i][p] = at /\ forwarding'[i][p] /\ ~forwarding[i][p]
      /\ \/ accepted' = accepted /\ faults' \in {faults, faults + 1}
         \/ Ingest(i, p) /\ faults' = faults /\ ~forwarding[i][p]
    BY HandlerMoves
<1>2. alive \subseteq Instances
    BY DEF IInv, TypeOK
<1> HIDE DEF at
<1>3. Coming(q, offset)' \subseteq Coming(q, offset)
    <2> SUFFICES ASSUME NEW j \in alive, position'[j][q] \in 0..offset,
                        ~(position'[j][q] = offset /\ forwarding'[j][q])
                 PROVE  position[j][q] \in 0..offset /\ ~(position[j][q] = offset /\ forwarding[j][q])
        BY <1>1 DEF Coming
    <2>1. CASE j = i /\ q = p
        <3>1. CASE position'[i][p] = at + 1
            BY <1>1, <2>1, <3>1 DEF at
        <3>2. CASE position'[i][p] = at /\ forwarding'[i][p] /\ ~forwarding[i][p]
            BY <1>1, <2>1, <3>2 DEF at
        <3> QED BY <1>1, <3>1, <3>2
    <2>2. CASE ~(j = i /\ q = p)
        BY <1>1, <1>2, <2>2
    <2> QED BY <2>1, <2>2
<1>4. CASE EarlierDeliveries(q, offset)' = EarlierDeliveries(q, offset)
    BY <1>1, <1>3, <1>4, NoMoreTimes
<1>5. CASE EarlierDeliveries(q, offset)' # EarlierDeliveries(q, offset)
    <2>1. Ingest(i, p) /\ faults' = faults /\ ~forwarding[i][p]
        BY <1>1, <1>5 DEF EarlierDeliveries
    <2>2. PICK d \in Deliveries : d.part = p /\ d.offset = at /\ accepted' = accepted \cup {d}
        BY <1>1, <2>1, Ingests DEF at, IInv
    <2>3. q = p /\ offset = at /\ EarlierDeliveries(q, offset)' = EarlierDeliveries(q, offset) \cup {d}
        BY <1>5, <2>2 DEF EarlierDeliveries
    <2>4. i \in Coming(q, offset)
        BY <1>1, <2>1, <2>3 DEF Coming, at
    <2>5. i \notin Coming(q, offset)'
        <3>1. CASE position'[i][p] = at + 1
            BY <1>1, <2>3, <3>1 DEF Coming
        <3>2. CASE position'[i][p] = at /\ forwarding'[i][p]
            BY <1>1, <2>3, <3>2 DEF Coming
        <3> QED BY <1>1, <3>1, <3>2
    <2>6. Coming(q, offset)' \subseteq Coming(q, offset) \ {i} /\ owner'[q] = owner[q]
        BY <1>1, <1>3, <2>5
    <2> QED BY <2>1, <2>3, <2>4, <2>6, OneMoreTime
<1> QED BY <1>4, <1>5

\* Where a step leaves the documents and everybody's place alone.
LEMMA PlacesStay ==
    ASSUME UNCHANGED <<accepted, position, forwarding>>, alive' \subseteq alive
    PROVE  \A p \in Partitions : \A offset \in Nat :
               /\ EarlierDeliveries(p, offset)' = EarlierDeliveries(p, offset)
               /\ Coming(p, offset)' \subseteq Coming(p, offset)
BY DEF EarlierDeliveries, Coming

LEMMA TimesStep ==
    ASSUME IInv, Numbers, [Next]_vars,
           NEW q \in Partitions, NEW offset \in Nat, Times(q, offset) <= 1 + faults
    PROVE  Times(q, offset)' <= 1 + faults'
<1>1. /\ TypeOK /\ faults \in Nat /\ position \in [Instances -> [Partitions -> Int]]
      /\ alive \subseteq Instances
    BY DEF IInv, TypeOK, Numbers, CountsAreNumbers
<1>2. ASSUME NEW i \in Instances, NEW p \in Partitions, HandlerStep(i, p)
      PROVE  Times(q, offset)' <= 1 + faults'
    BY <1>2, HandlerTimes
<1>3. ASSUME NEW i \in Instances, Start(i)
      PROVE  Times(q, offset)' <= 1 + faults'
    <2>1. /\ i \notin alive /\ alive' = alive \cup {i} /\ faults' \in {faults, faults + 1}
          /\ UNCHANGED <<accepted, position, forwarding, owner>>
        BY <1>3 DEF Start, Fault, groupVars, sinkVars
    <2>2. position[i][q] \notin 0..offset
        BY <1>1, <2>1 DEF TypeOK, PlacesOK, Unassigned
    <2>3. EarlierDeliveries(q, offset)' = EarlierDeliveries(q, offset)
        BY <2>1 DEF EarlierDeliveries
    <2>4. Coming(q, offset)' \subseteq Coming(q, offset)
        BY <2>1, <2>2 DEF Coming
    <2> QED BY <2>1, <2>3, <2>4, NoMoreTimes
<1>4. ASSUME NEW i \in Instances, NEW p \in Partitions, Assign(i, p)
      PROVE  Times(q, offset)' <= 1 + faults'
    <2>1. /\ owner[p] = NoOne /\ owner' = [owner EXCEPT ![p] = i] /\ committed[p] \in Int
          /\ MoveTo(i, p, committed[p]) /\ UNCHANGED <<alive, forwarding, accepted, faults>>
        BY <1>1, <1>4 DEF Assign, sinkVars, TypeOK
    <2>2. \A j \in Instances, r \in Partitions :
              (j = i /\ r = p) \/ position'[j][r] = position[j][r]
        BY <1>1, <2>1, Moved
    <2>3. EarlierDeliveries(q, offset)' = EarlierDeliveries(q, offset)
        BY <2>1 DEF EarlierDeliveries
    <2>4. CASE q = p
        <3>1. Coming(q, offset)' \subseteq Coming(q, offset) \cup {i}
            BY <1>1, <2>1, <2>2 DEF Coming
        <3>2. owner'[q] # NoOne /\ owner[q] = NoOne
            BY <1>1, <2>1, <2>4, LogPipelineAssumption DEF TypeOK
        <3> QED BY <2>1, <2>3, <3>1, <3>2, OwnerComes
    <2>5. CASE q # p
        <3>1. Coming(q, offset)' \subseteq Coming(q, offset)
            BY <1>1, <2>1, <2>2, <2>5 DEF Coming
        <3>2. owner'[q] = owner[q]
            BY <1>1, <2>1, <2>5 DEF TypeOK
        <3> QED BY <2>1, <2>3, <3>1, <3>2, NoMoreTimes
    <2> QED BY <2>4, <2>5
<1>5. ASSUME NEW p \in Partitions, Evict(p)
      PROVE  Times(q, offset)' <= 1 + faults'
    <2>1. UNCHANGED <<alive, accepted, position, forwarding>> /\ faults' = faults + 1
        BY <1>5 DEF Evict, Fault, sinkVars
    <2> QED BY <2>1, PlacesStay, NoMoreTimes
<1>6. ASSUME NEW i \in Instances, NEW p \in Partitions, Release(i, p)
      PROVE  Times(q, offset)' <= 1 + faults'
    <2>1. MoveTo(i, p, Unassigned) /\ UNCHANGED <<alive, owner, forwarding, accepted, faults>>
        BY <1>6 DEF Release, sinkVars
    <2>2. \A j \in Instances, r \in Partitions :
              position'[j][r] \in Nat => position'[j][r] = position[j][r]
        BY <1>1, <2>1, Moved DEF Unassigned
    <2>3. EarlierDeliveries(q, offset)' = EarlierDeliveries(q, offset)
        BY <2>1 DEF EarlierDeliveries
    <2>4. Coming(q, offset)' \subseteq Coming(q, offset)
        BY <1>1, <2>1, <2>2 DEF Coming
    <2> QED BY <2>1, <2>3, <2>4, NoMoreTimes
<1>7. ASSUME NEW i \in Instances, End(i)
      PROVE  Times(q, offset)' <= 1 + faults'
    <2>1. /\ alive' = alive \ {i} /\ faults' = faults + 1 /\ accepted' = accepted
          /\ position' = [position EXCEPT ![i] = [p \in Partitions |-> Unassigned]]
          /\ forwarding' = [forwarding EXCEPT ![i] = [p \in Partitions |-> FALSE]]
        BY <1>7 DEF End, Fault
    <2>2. EarlierDeliveries(q, offset)' = EarlierDeliveries(q, offset)
        BY <2>1 DEF EarlierDeliveries
    <2>3. \A j \in alive' : position'[j] = position[j] /\ forwarding'[j] = forwarding[j]
        BY <1>1, <2>1 DEF TypeOK
    <2>4. Coming(q, offset)' \subseteq Coming(q, offset)
        BY <2>1, <2>3 DEF Coming
    <2> QED BY <2>1, <2>2, <2>4, NoMoreTimes
<1>8. ASSUME \/ \E i \in Instances : Settle(i)
             \/ \E i \in Instances, p \in Partitions : Commit(i, p)
             \/ UNCHANGED vars
      PROVE  Times(q, offset)' <= 1 + faults'
    <2>1. UNCHANGED <<alive, accepted, position, forwarding, owner, faults>>
        BY <1>8 DEF Settle, Commit, Sink!Settle, groupVars, sinkVars, vars
    <2> QED BY <2>1, PlacesStay, NoMoreTimes
<1> QED BY <1>2, <1>3, <1>4, <1>5, <1>6, <1>7, <1>8 DEF Next

\* A process starts or ends at a time.
LEMMA AliveFinite == IsFiniteSet(alive) /\ [Next]_vars => IsFiniteSet(alive)'
<1> SUFFICES ASSUME IsFiniteSet(alive), [Next]_vars
             PROVE  IsFiniteSet(alive')
    OBVIOUS
<1>1. alive' \subseteq alive \/ \E i \in Instances : alive' = alive \cup {i}
    BY DEF Next, Start, Assign, Evict, Release, Commit, HandlerStep, Skip, Handle, HandleError,
           ForwardAnswers, ForwardFails, Settle, End, vars
<1> QED BY <1>1, FS_Subset, FS_AddElement

LEMMA CountStep == IInv /\ IInv' /\ CountInv /\ [Next]_vars => CountInv'
<1> SUFFICES ASSUME IInv, IInv', CountInv, [Next]_vars
             PROVE  CountInv'
    OBVIOUS
<1>1. IsFiniteSet(alive)'
    BY AliveFinite DEF CountInv
<1>2. Numbers
    BY <1>1, Counts, PTL DEF Numbers, CountInv
<1>3. TimesBound'
    <2>1. \A p \in Partitions : 0..(Len(Log[p]) - 1) \subseteq Nat
        BY LogPipelineAssumption
    <2> QED BY <1>2, <2>1, TimesStep DEF TimesBound, CountInv
<1> QED BY <1>1, <1>3 DEF CountInv

LEMMA CountInit == Init => CountInv
<1> SUFFICES ASSUME Init PROVE CountInv
    OBVIOUS
<1>1. alive = {} /\ accepted = {} /\ faults = 0 /\ owner = [p \in Partitions |-> NoOne]
    BY DEF Init, Sink!Init
<1>2. \A p \in Partitions : \A offset : EarlierDeliveries(p, offset) = {} /\ Coming(p, offset) = {}
    BY <1>1 DEF EarlierDeliveries, Coming
<1>3. Cardinality({}) = 0 /\ IsFiniteSet({})
    BY FS_EmptySet
<1>4. \A p \in Partitions : Due(p) = 1
    BY <1>1 DEF Due
<1>5. \A p \in Partitions : \A offset : Times(p, offset) = 1
    BY <1>2, <1>3, <1>4 DEF Times
<1> QED BY <1>1, <1>3, <1>5 DEF CountInv, TimesBound

\* A message is ingested once for each time that its partition was given to a member:
\* once, and once more for each crash and each rebalance, however the forwarder fails.
THEOREM RepeatsAreBounded == Spec => []HandledOncePerAssignment
<1>1. IInv /\ CountInv => HandledOncePerAssignment
    <2> SUFFICES ASSUME IInv, CountInv, NEW p \in Partitions, NEW offset \in 0..(Len(Log[p]) - 1)
                 PROVE  Cardinality(EarlierDeliveries(p, offset)) <= 1 + faults
        BY DEF HandledOncePerAssignment
    <2> DEFINE e == Cardinality(EarlierDeliveries(p, offset))  c == Cardinality(Coming(p, offset))
               d == Due(p)
    <2>1. offset \in Nat /\ CountsAreNumbers
        BY Counts, LogPipelineAssumption DEF CountInv
    <2>2. e \in Nat /\ c \in Nat /\ d \in {0, 1} /\ faults \in Nat
        BY <2>1 DEF CountsAreNumbers
    <2>3. e + c + d <= 1 + faults
        BY DEF CountInv, TimesBound, Times
    <2> HIDE DEF e, c, d
    <2>4. e <= 1 + faults
        BY <2>2, <2>3
    <2> QED BY <2>4 DEF e
<1>2. Spec => []CountInv
    BY Invariance, CountInit, CountStep, PTL DEF Spec
<1> QED BY <1>1, <1>2, Invariance, PTL

=============================================================================
