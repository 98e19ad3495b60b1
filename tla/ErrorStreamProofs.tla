------------------------- MODULE ErrorStreamProofs -------------------------
(***************************************************************************)
(* Theorems about ErrorStream, for any number of processes, browsers,      *)
(* partitions, logs and rebalances.                                        *)
(*                                                                         *)
(* The argument: below any position of any process every log was pushed,   *)
(* or the group had begun behind it (PushedBelow).  A commit is such a     *)
(* position, a member begins at a commit or behind what is skipped, and    *)
(* the handler pushes the log at its position, so the logs that were       *)
(* pushed or skipped have no gap below one that was pushed (NoGaps).       *)
(***************************************************************************)
EXTENDS ErrorStream, TLAPS

Accounted(p, k) == <<p, k>> \in pushed \cup skipped

PushedBelow ==
    \A i \in Instances, p \in ErrorParts : \A k \in 0..(position[i][p] - 1) : Accounted(p, k)

NoGaps ==
    \A log \in pushed : \A k \in 0..(log[2] - 1) : Accounted(log[1], k)

IInv == TypeOK /\ PushedBelow /\ NoGaps /\ CommittedWasPushed

-----------------------------------------------------------------------------
(* Facts about the operators.                                               *)

\* Changing one entry of the table of positions.
LEMMA Entry ==
    ASSUME NEW t \in [Instances -> [ErrorParts -> Int]],
           NEW i \in Instances, NEW p \in ErrorParts, NEW v \in Int,
           NEW u, u = [t EXCEPT ![i][p] = v]
    PROVE  /\ u \in [Instances -> [ErrorParts -> Int]]
           /\ \A j \in Instances, q \in ErrorParts :
                 u[j][q] = IF j = i /\ q = p THEN v ELSE t[j][q]
<1> DEFINE row == [t[i] EXCEPT ![p] = v]
<1>1. row \in [ErrorParts -> Int] /\ \A q \in ErrorParts : row[q] = IF q = p THEN v ELSE t[i][q]
    OBVIOUS
<1>2. u = [t EXCEPT ![i] = row]
    OBVIOUS
<1> HIDE DEF row
<1> QED BY <1>1, <1>2

\* A process that ends has no position left.
LEMMA Emptied ==
    ASSUME NEW t \in [Instances -> [ErrorParts -> Int]], NEW i \in Instances,
           NEW u, u = [t EXCEPT ![i] = [p \in ErrorParts |-> Unset]]
    PROVE  /\ u \in [Instances -> [ErrorParts -> Int]]
           /\ \A j \in Instances, q \in ErrorParts : u[j][q] = IF j = i THEN Unset ELSE t[j][q]
<1> DEFINE row == [p \in ErrorParts |-> Unset]
<1>1. row \in [ErrorParts -> Int] /\ \A q \in ErrorParts : row[q] = Unset
    BY DEF Unset
<1> HIDE DEF row
<1> QED BY <1>1

\* A member begins inside the partition, behind what was pushed or is skipped.
LEMMA BeginsBehind ==
    ASSUME IInv, NEW i \in Instances, NEW p \in ErrorParts, Assign(i, p)
    PROVE  /\ Begin(p) \in Offsets(p)
           /\ skipped \subseteq skipped'
           /\ skipped' \subseteq Logs
           /\ \A k \in 0..(Begin(p) - 1) : <<p, k>> \in pushed \cup skipped'
<1>1. written[p] \in Nat /\ committed[p] \in Offsets(p) \cup {Unset} /\ pushed \cup skipped \subseteq Logs
    BY ErrorStreamAssumption DEF IInv, TypeOK
<1>2. CASE committed[p] = Unset
    <2>1. skipped' = skipped \cup ({<<p, k>> : k \in 0..(written[p] - 1)} \ pushed)
        BY <1>2 DEF Assign
    <2>2. {<<p, k>> : k \in 0..(written[p] - 1)} \subseteq Logs
        BY <1>1 DEF Logs
    <2>3. Begin(p) = written[p]
        BY <1>2 DEF Begin
    <2> QED BY <1>1, <2>1, <2>2, <2>3 DEF Offsets
<1>3. CASE committed[p] # Unset
    <2>1. skipped' = skipped /\ Begin(p) = committed[p]
        BY <1>3 DEF Assign, Begin
    <2>2. \A k \in 0..(committed[p] - 1) : <<p, k>> \in pushed \cup skipped
        BY DEF IInv, CommittedWasPushed
    <2> QED BY <1>1, <1>3, <2>1, <2>2
<1> QED BY <1>2, <1>3

\* The log a handler pushes is one of the topic, and all below it is accounted for.
LEMMA HandlesNext ==
    ASSUME IInv, NEW i \in Instances, NEW p \in ErrorParts, HandleErrorLog(i, p)
    PROVE  /\ position[i][p] \in Nat /\ position[i][p] + 1 \in Offsets(p)
           /\ <<p, position[i][p]>> \in Logs
           /\ i \in running
           /\ \A k \in 0..(position[i][p] - 1) : Accounted(p, k)
<1>1. written[p] \in Nat
    BY ErrorStreamAssumption DEF IInv, TypeOK
<1>2. position[i][p] \in 0..(written[p] - 1)
    BY DEF HandleErrorLog
<1>3. i \in running
    BY <1>1, <1>2 DEF IInv, TypeOK, Unset
<1> QED BY <1>1, <1>2, <1>3 DEF Offsets, Logs, IInv, PushedBelow

-----------------------------------------------------------------------------
(* Types.                                                                   *)

LEMMA TypesInit == Init => TypeOK
BY ErrorStreamAssumption DEF Init, TypeOK, Offsets, Logs, Unset

LEMMA TypesStep ==
    ASSUME IInv, [Next]_vars
    PROVE  TypeOK'
<1> USE ErrorStreamAssumption DEF IInv
<1>1. ASSUME NEW p \in ErrorParts, Publish(p)
      PROVE  TypeOK'
    <2>1. /\ written' \in [ErrorParts -> 0..MaxLogs]
          /\ \A q \in ErrorParts : written[q] \in Nat /\ written'[q] \in Nat /\ written[q] <= written'[q]
        BY <1>1 DEF Publish, TypeOK
    <2>2. Logs \subseteq Logs' /\ \A q \in ErrorParts : Offsets(q) \subseteq Offsets(q)'
        BY <2>1 DEF Logs, Offsets
    <2> QED BY <1>1, <2>1, <2>2 DEF Publish, TypeOK, groupVars, socketVars, historyVars
<1>2. ASSUME NEW i \in Instances, Start(i)
      PROVE  TypeOK'
    BY <1>2 DEF Start, TypeOK, Offsets, Logs, groupVars, socketVars, historyVars
<1>3. ASSUME NEW i \in Instances, Stop(i)
      PROVE  TypeOK'
    <2>1. /\ position' \in [Instances -> [ErrorParts -> Int]]
          /\ \A j \in Instances, q \in ErrorParts : position'[j][q] = IF j = i THEN Unset ELSE position[j][q]
        BY <1>3, Emptied DEF Stop, TypeOK
    <2>2. /\ owner' \in [ErrorParts -> running' \cup {NoOne}]
          /\ peer' \in [Clients -> running' \cup {NoOne}]
          /\ running' \subseteq Instances
        BY <1>3 DEF Stop, TypeOK
    <2>3. /\ shown' \in [Clients -> SUBSET pushed']
          /\ \A c \in Clients : peer'[c] = NoOne => shown'[c] = {}
        BY <1>3 DEF Stop, TypeOK, historyVars
    <2>4. ends' \in 0..MaxEnds
        BY <1>3 DEF Stop, End, TypeOK
    <2> QED BY <1>3, <2>1, <2>2, <2>3, <2>4 DEF Stop, TypeOK, Offsets, Logs, historyVars
<1>4. ASSUME NEW p \in ErrorParts, Evict(p)
      PROVE  TypeOK'
    <2>1. ends' \in 0..MaxEnds
        BY <1>4 DEF Evict, End, TypeOK
    <2> QED BY <1>4, <2>1 DEF Evict, TypeOK, Offsets, Logs, socketVars, historyVars
<1>5. ASSUME NEW i \in Instances, NEW p \in ErrorParts, Assign(i, p)
      PROVE  TypeOK'
    <2>1. Begin(p) \in Offsets(p) /\ skipped' \subseteq Logs /\ i \in running
        BY <1>5, BeginsBehind DEF Assign
    <2>2. Begin(p) \in Int
        BY <2>1 DEF Offsets, TypeOK
    <2>3. /\ position' \in [Instances -> [ErrorParts -> Int]]
          /\ \A j \in Instances, q \in ErrorParts :
                 position'[j][q] = IF j = i /\ q = p THEN Begin(p) ELSE position[j][q]
        BY <1>5, <2>2, Entry DEF Assign, TypeOK
    <2> QED BY <1>5, <2>1, <2>3 DEF Assign, TypeOK, Offsets, Logs, socketVars
<1>6. ASSUME NEW i \in Instances, NEW p \in ErrorParts, Release(i, p)
      PROVE  TypeOK'
    <2>1. /\ position' \in [Instances -> [ErrorParts -> Int]]
          /\ \A j \in Instances, q \in ErrorParts :
                 position'[j][q] = IF j = i /\ q = p THEN Unset ELSE position[j][q]
        BY <1>6, Entry DEF Release, TypeOK, Unset
    <2> QED BY <1>6, <2>1 DEF Release, TypeOK, Offsets, Logs, socketVars, historyVars
<1>7. ASSUME NEW i \in Instances, NEW p \in ErrorParts, Commit(i, p)
      PROVE  TypeOK'
    BY <1>7 DEF Commit, TypeOK, Offsets, Logs, socketVars, historyVars
<1>8. ASSUME NEW i \in Instances, NEW p \in ErrorParts, HandleErrorLog(i, p)
      PROVE  TypeOK'
    <2>1. /\ position[i][p] + 1 \in Offsets(p) /\ position[i][p] \in Nat
          /\ <<p, position[i][p]>> \in Logs /\ i \in running
        BY <1>8, HandlesNext
    <2>2. /\ position' \in [Instances -> [ErrorParts -> Int]]
          /\ \A j \in Instances, q \in ErrorParts :
                 position'[j][q] = IF j = i /\ q = p THEN position[i][p] + 1 ELSE position[j][q]
        BY <1>8, <2>1, Entry DEF HandleErrorLog, TypeOK
    <2>3. pushed' = pushed \cup {<<p, position[i][p]>>}
        BY <1>8 DEF HandleErrorLog
    <2>4. /\ shown' \in [Clients -> SUBSET pushed']
          /\ \A c \in Clients : peer'[c] = NoOne => shown'[c] = {}
        BY <1>8, <2>1, <2>3 DEF HandleErrorLog, EmitErrorLog, TypeOK
    <2> QED BY <1>8, <2>1, <2>2, <2>3, <2>4 DEF HandleErrorLog, TypeOK, Offsets, Logs
<1>9. ASSUME NEW c \in Clients, NEW i \in Instances, Connect(c, i)
      PROVE  TypeOK'
    BY <1>9 DEF Connect, TypeOK, Offsets, Logs, groupVars, historyVars
<1>10. ASSUME NEW c \in Clients, Disconnect(c)
       PROVE  TypeOK'
    BY <1>10 DEF Disconnect, TypeOK, Offsets, Logs, groupVars, historyVars
<1>11. CASE UNCHANGED vars
    BY <1>11 DEF vars, TypeOK, Offsets, Logs, groupVars, socketVars, historyVars
<1> QED BY <1>1, <1>2, <1>3, <1>4, <1>5, <1>6, <1>7, <1>8, <1>9, <1>10, <1>11 DEF Next

-----------------------------------------------------------------------------
(* What was pushed.                                                         *)

LEMMA SafetyInit == Init => PushedBelow /\ NoGaps /\ CommittedWasPushed
BY DEF Init, PushedBelow, NoGaps, CommittedWasPushed, Accounted, Unset

\* A step that pushes nothing, commits nothing and at most takes positions away.
LEMMA QuietStep ==
    ASSUME IInv, pushed' = pushed, skipped' = skipped, committed' = committed,
           \A i \in Instances, p \in ErrorParts :
               position'[i][p] = Unset \/ position'[i][p] = position[i][p]
    PROVE  PushedBelow' /\ NoGaps' /\ CommittedWasPushed'
<1>1. PushedBelow'
    <2>1. 0..(Unset - 1) = {}
        BY DEF Unset
    <2> SUFFICES ASSUME NEW i \in Instances, NEW p \in ErrorParts, NEW k \in 0..(position'[i][p] - 1)
                 PROVE  Accounted(p, k)
        BY DEF PushedBelow, Accounted
    <2>2. position'[i][p] = position[i][p]
        BY <2>1
    <2> QED BY <2>2 DEF IInv, PushedBelow
<1> QED BY <1>1 DEF IInv, NoGaps, CommittedWasPushed, Accounted

LEMMA AssignStep ==
    ASSUME IInv, NEW i \in Instances, NEW p \in ErrorParts, Assign(i, p)
    PROVE  PushedBelow' /\ NoGaps' /\ CommittedWasPushed'
<1> USE DEF IInv
<1>1. /\ Begin(p) \in Int
      /\ skipped \subseteq skipped'
      /\ \A k \in 0..(Begin(p) - 1) : <<p, k>> \in pushed \cup skipped'
    BY BeginsBehind, ErrorStreamAssumption DEF Offsets, TypeOK
<1>2. pushed' = pushed /\ committed' = committed
    BY DEF Assign
<1>3. \A j \in Instances, q \in ErrorParts :
          position'[j][q] = IF j = i /\ q = p THEN Begin(p) ELSE position[j][q]
    BY <1>1, Entry DEF Assign, TypeOK
<1>4. PushedBelow'
    BY <1>1, <1>2, <1>3 DEF PushedBelow, Accounted
<1>5. NoGaps' /\ CommittedWasPushed'
    BY <1>1, <1>2 DEF NoGaps, CommittedWasPushed, Accounted
<1> QED BY <1>4, <1>5

LEMMA CommitStep ==
    ASSUME IInv, NEW i \in Instances, NEW p \in ErrorParts, Commit(i, p)
    PROVE  PushedBelow' /\ NoGaps' /\ CommittedWasPushed'
<1> USE DEF IInv
<1>1. /\ pushed' = pushed /\ skipped' = skipped /\ position' = position
      /\ committed' = [committed EXCEPT ![p] = position[i][p]]
    BY DEF Commit, historyVars
<1>2. \A q \in ErrorParts : committed'[q] = IF q = p THEN position[i][p] ELSE committed[q]
    BY <1>1 DEF TypeOK
<1>3. CommittedWasPushed'
    BY <1>1, <1>2 DEF CommittedWasPushed, PushedBelow, Accounted
<1> QED BY <1>1, <1>3 DEF PushedBelow, NoGaps, Accounted

LEMMA HandleStep ==
    ASSUME IInv, NEW i \in Instances, NEW p \in ErrorParts, HandleErrorLog(i, p)
    PROVE  PushedBelow' /\ NoGaps' /\ CommittedWasPushed'
<1> USE DEF IInv
<1> DEFINE log == <<p, position[i][p]>>
<1>1. /\ position[i][p] \in Nat
      /\ \A k \in 0..(position[i][p] - 1) : Accounted(p, k)
    BY HandlesNext
<1>2. pushed' = pushed \cup {log} /\ skipped' = skipped /\ committed' = committed
    BY DEF HandleErrorLog
<1>3. \A j \in Instances, q \in ErrorParts :
          position'[j][q] = IF j = i /\ q = p THEN position[i][p] + 1 ELSE position[j][q]
    BY <1>1, Entry DEF HandleErrorLog, TypeOK
<1>4. \A q \in ErrorParts, k \in Nat : Accounted(q, k) => Accounted(q, k)'
    BY <1>2 DEF Accounted
<1>5. PushedBelow'
    <2>1. \A k \in 0..position[i][p] : Accounted(p, k)'
        BY <1>1, <1>2, <1>4 DEF Accounted
    <2>2. position \in [Instances -> [ErrorParts -> Int]]
        BY DEF TypeOK
    <2> QED BY <1>1, <1>3, <1>4, <2>1, <2>2 DEF PushedBelow
<1>6. NoGaps'
    <2> DEFINE Below(one) == \A k \in 0..(one[2] - 1) : <<one[1], k>> \in pushed' \cup skipped'
    <2>1. \A other \in pushed : Below(other)
        BY <1>2 DEF NoGaps, Accounted
    <2>2. Below(log)
        BY <1>1, <1>2 DEF Accounted
    <2> HIDE DEF log, Below
    <2>3. \A other \in pushed' : Below(other)
        BY <1>2, <2>1, <2>2
    <2> QED BY <2>3 DEF NoGaps, Accounted, Below
<1>7. CommittedWasPushed'
    BY <1>2 DEF CommittedWasPushed
<1> QED BY <1>5, <1>6, <1>7

LEMMA SafetyStep ==
    ASSUME IInv, [Next]_vars
    PROVE  PushedBelow' /\ NoGaps' /\ CommittedWasPushed'
<1>1. ASSUME NEW i \in Instances, Stop(i)
      PROVE  PushedBelow' /\ NoGaps' /\ CommittedWasPushed'
    <2>1. \A j \in Instances, q \in ErrorParts : position'[j][q] = IF j = i THEN Unset ELSE position[j][q]
        BY <1>1, Emptied DEF Stop, IInv, TypeOK
    <2> QED BY <1>1, <2>1, QuietStep DEF Stop, historyVars
<1>2. ASSUME NEW i \in Instances, NEW p \in ErrorParts, Release(i, p)
      PROVE  PushedBelow' /\ NoGaps' /\ CommittedWasPushed'
    <2>1. \A j \in Instances, q \in ErrorParts :
              position'[j][q] = IF j = i /\ q = p THEN Unset ELSE position[j][q]
        BY <1>2, Entry DEF Release, IInv, TypeOK, Unset
    <2> QED BY <1>2, <2>1, QuietStep DEF Release, historyVars
<1>3. ASSUME pushed' = pushed, skipped' = skipped, committed' = committed, position' = position
      PROVE  PushedBelow' /\ NoGaps' /\ CommittedWasPushed'
    BY <1>3, QuietStep
<1>4. ASSUME NEW p \in ErrorParts, Publish(p) \/ Evict(p)
      PROVE  PushedBelow' /\ NoGaps' /\ CommittedWasPushed'
    BY <1>3, <1>4 DEF Publish, Evict, groupVars, historyVars
<1>5. ASSUME NEW i \in Instances, Start(i)
      PROVE  PushedBelow' /\ NoGaps' /\ CommittedWasPushed'
    BY <1>3, <1>5 DEF Start, groupVars, historyVars
<1>6. ASSUME NEW c \in Clients,
             Disconnect(c) \/ \E i \in Instances : Connect(c, i)
      PROVE  PushedBelow' /\ NoGaps' /\ CommittedWasPushed'
    BY <1>3, <1>6 DEF Connect, Disconnect, groupVars, historyVars
<1>7. CASE UNCHANGED vars
    BY <1>3, <1>7 DEF vars, groupVars, historyVars
<1> QED BY <1>1, <1>2, <1>4, <1>5, <1>6, <1>7, AssignStep, CommitStep, HandleStep DEF Next

-----------------------------------------------------------------------------
(* The theorems.                                                            *)

LEMMA Invariance == Spec => []IInv
<1>1. Init => IInv
    BY TypesInit, SafetyInit DEF IInv
<1>2. IInv /\ [Next]_vars => IInv'
    BY TypesStep, SafetyStep DEF IInv
<1> QED BY <1>1, <1>2, PTL DEF Spec

\* No position or commit leaves its partition, and a process that does not run holds
\* no partition and no client (the consumer group, ErrorLogsGateway).
THEOREM TypeCorrect == Spec => []TypeOK
BY Invariance, PTL DEF IInv

\* Below a committed offset every log was pushed, or the group began behind it: no
\* crash or rebalance around ErrorLogConsumer's handler loses a log.
THEOREM CommitsBehindPushes == Spec => []CommittedWasPushed
BY Invariance, PTL DEF IInv

\* Logs are pushed for the first time in the order of their partition, whichever
\* processes push them (ErrorLogConsumer, one message at a time).
THEOREM PushesInOrder == Spec => FirstPushInOrder
<1>1. IInv => \A p \in ErrorParts, k \in 0..(MaxLogs - 1) :
                  <<p, k>> \notin pushed \cup skipped
                      => \A later \in pushed : later[1] = p => later[2] < k
    <2> SUFFICES ASSUME IInv, NEW p \in ErrorParts, NEW k \in 0..(MaxLogs - 1),
                        <<p, k>> \notin pushed \cup skipped,
                        NEW later \in pushed, later[1] = p
                 PROVE  later[2] < k
        OBVIOUS
    <2>1. later = <<p, later[2]>> /\ later[2] \in Nat
        BY DEF IInv, TypeOK, Logs
    <2>2. \A j \in 0..(later[2] - 1) : <<p, j>> \in pushed \cup skipped
        BY DEF IInv, NoGaps, Accounted
    <2>3. k \in Nat
        BY ErrorStreamAssumption
    <2> QED BY <2>1, <2>2, <2>3
<1>2. IInv => [\A p \in ErrorParts, k \in 0..(MaxLogs - 1) : <<p, k>> \in pushed' \ (pushed \cup skipped)
                   => \A later \in pushed : later[1] = p => later[2] < k]_vars
    BY <1>1
<1> QED BY <1>2, Invariance, PTL DEF FirstPushInOrder

=============================================================================
