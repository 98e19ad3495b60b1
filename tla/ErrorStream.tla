----------------------------- MODULE ErrorStream -----------------------------
(***************************************************************************)
(* The error stream (backend/src/error-stream): instances of one consumer  *)
(* group read apm.logs.error and push each log to the browsers connected   *)
(* to them.                                                                *)
(*                                                                         *)
(* The handler is synchronous: it parses the log and gives it to socket.io *)
(* in one turn.  What the forwarder writes into the topic always parses,   *)
(* as both sides validate the same DTO.  A group without a committed       *)
(* offset begins at the end of a partition, because the consumer does not  *)
(* ask for fromBeginning.  cd.yml replaces an instance while the old one   *)
(* still runs, so there may be two.                                        *)
(***************************************************************************)
EXTENDS Integers

CONSTANTS
    Instances,      \* the processes of the error stream
    Clients,        \* the browsers
    NoOne,          \* owner of a partition, or peer of a client, without one
    ErrorParts,     \* the partitions of apm.logs.error
    MaxEnds,        \* bound: how often a process ends or loses a partition
    MaxLogs         \* bound: the logs of a partition

ASSUME ErrorStreamAssumption == NoOne \notin Instances /\ MaxEnds \in Nat /\ MaxLogs \in Nat

Unset == -1

VARIABLES
    written,    \* how many logs each partition of apm.logs.error has
    running,    \* the processes that run
    owner,      \* the member each partition is assigned to
    position,   \* the offset each process will read next, or Unset
    committed,  \* the committed offset of each partition, or Unset
    peer,       \* the process each client is connected to
    shown,      \* the logs a client was sent on its connection
    pushed,     \* history: the logs that were pushed
    skipped,    \* history: those the group began behind
    ends        \* history: how often something ended

groupVars   == <<owner, position, committed>>
socketVars  == <<peer, shown>>
historyVars == <<pushed, skipped>>
vars == <<written, running, groupVars, socketVars, historyVars, ends>>

Init ==
    /\ written = [p \in ErrorParts |-> 0]
    /\ running = {}
    /\ owner = [p \in ErrorParts |-> NoOne]
    /\ position = [i \in Instances |-> [p \in ErrorParts |-> Unset]]
    /\ committed = [p \in ErrorParts |-> Unset]
    /\ peer = [c \in Clients |-> NoOne]
    /\ shown = [c \in Clients |-> {}]
    /\ pushed = {}
    /\ skipped = {}
    /\ ends = 0

\* The forwarder of the stream processor sends a log.
Publish(p) ==
    /\ written[p] < MaxLogs
    /\ written' = [written EXCEPT ![p] = @ + 1]
    /\ UNCHANGED <<running, groupVars, socketVars, historyVars, ends>>

End == ends < MaxEnds /\ ends' = ends + 1

-----------------------------------------------------------------------------
(* Processes and the consumer group.                                        *)

\* The socket server listens before the first message: bootstrap calls
\* app.listen in the turn in which the consumer begins to fetch.
Start(i) ==
    /\ i \notin running
    /\ running' = running \cup {i}
    /\ UNCHANGED <<written, groupVars, socketVars, historyVars, ends>>

FaultyStop(i) ==
    /\ i \in running
    /\ End
    /\ running' = running \ {i}
    /\ owner' = [p \in ErrorParts |-> IF owner[p] = i THEN NoOne ELSE owner[p]]
    /\ position' = [position EXCEPT ![i] = [p \in ErrorParts |-> Unset]]
    /\ peer' = [c \in Clients |-> IF peer[c] = i THEN NoOne ELSE peer[c]]
    /\ UNCHANGED <<written, shown, committed, historyVars>>

\* A crash or SIGTERM; the connections end with the process.
Stop(i) ==
    /\ i \in running
    /\ End
    /\ running' = running \ {i}
    /\ owner' = [p \in ErrorParts |-> IF owner[p] = i THEN NoOne ELSE owner[p]]
    /\ position' = [position EXCEPT ![i] = [p \in ErrorParts |-> Unset]]
    /\ peer' = [c \in Clients |-> IF peer[c] = i THEN NoOne ELSE peer[c]]
    /\ shown' = [c \in Clients |-> IF peer[c] = i THEN {} ELSE shown[c]]
    /\ UNCHANGED <<written, committed, historyVars>>

FaultyBegin(p) == written[p]

\* Where a member begins: at the committed offset, or at the end.
Begin(p) == IF committed[p] = Unset THEN written[p] ELSE committed[p]

Assign(i, p) ==
    /\ i \in running
    /\ owner[p] = NoOne
    /\ position[i][p] = Unset
    /\ owner' = [owner EXCEPT ![p] = i]
    /\ position' = [position EXCEPT ![i][p] = Begin(p)]
    /\ skipped' = IF committed[p] # Unset THEN skipped
                  ELSE skipped \cup ({<<p, k>> : k \in 0..(written[p] - 1)} \ pushed)
    /\ UNCHANGED <<written, running, committed, socketVars, pushed, ends>>

\* A rebalance takes a partition from a member, which notices later.
Evict(p) ==
    /\ owner[p] # NoOne
    /\ End
    /\ owner' = [owner EXCEPT ![p] = NoOne]
    /\ UNCHANGED <<written, running, position, committed, socketVars, historyVars>>

Release(i, p) ==
    /\ position[i][p] # Unset
    /\ owner[p] # i
    /\ position' = [position EXCEPT ![i][p] = Unset]
    /\ UNCHANGED <<written, running, owner, committed, socketVars, historyVars, ends>>

FaultyCommit(i, p) ==
    /\ owner[p] = i
    /\ position[i][p] < written[p]
    /\ committed' = [committed EXCEPT ![p] = position[i][p] + 1]
    /\ UNCHANGED <<written, running, owner, position, socketVars, historyVars, ends>>

\* kafkajs commits behind a log that was handled, and nothing for a member that has
\* only begun.
Commit(i, p) ==
    /\ owner[p] = i
    /\ <<p, position[i][p] - 1>> \in pushed
    /\ committed' = [committed EXCEPT ![p] = position[i][p]]
    /\ UNCHANGED <<written, running, owner, position, socketVars, historyVars, ends>>

-----------------------------------------------------------------------------
(* The handler and the sockets.                                             *)

\* emitErrorLog: each client of this process gets the log, those of another do not.
EmitErrorLog(i, log) ==
    shown' = [c \in Clients |-> IF peer[c] = i THEN shown[c] \cup {log} ELSE shown[c]]

\* Two messages of a batch at once, which finish in any order.
FaultyHandleErrorLog(i, p) ==
    /\ position[i][p] \in 0..(written[p] - 1)
    /\ \E offset \in {position[i][p], position[i][p] + 1} :
           /\ offset < written[p]
           /\ EmitErrorLog(i, <<p, offset>>)
           /\ pushed' = pushed \cup {<<p, offset>>}
           /\ position' = [position EXCEPT ![i][p] = IF offset = @ THEN @ + 1 ELSE @]
    /\ UNCHANGED <<written, running, owner, committed, peer, skipped, ends>>

\* handleErrorLog, with parse and broadcast, which hands the log on.
HandleErrorLog(i, p) ==
    LET offset == position[i][p]
    IN  /\ offset \in 0..(written[p] - 1)
        /\ EmitErrorLog(i, <<p, offset>>)
        /\ pushed' = pushed \cup {<<p, offset>>}
        /\ position' = [position EXCEPT ![i][p] = offset + 1]
        /\ UNCHANGED <<written, running, owner, committed, peer, skipped, ends>>

Connect(c, i) ==
    /\ peer[c] = NoOne
    /\ i \in running
    /\ peer' = [peer EXCEPT ![c] = i]
    /\ UNCHANGED <<written, running, groupVars, shown, historyVars, ends>>

Disconnect(c) ==
    /\ peer[c] # NoOne
    /\ peer' = [peer EXCEPT ![c] = NoOne]
    /\ shown' = [shown EXCEPT ![c] = {}]
    /\ UNCHANGED <<written, running, groupVars, historyVars, ends>>

Next ==
    \/ \E p \in ErrorParts : Publish(p)
    \/ \E i \in Instances : Start(i) \/ Stop(i)
    \/ \E p \in ErrorParts : Evict(p)
    \/ \E i \in Instances, p \in ErrorParts :
           Assign(i, p) \/ Release(i, p) \/ Commit(i, p) \/ HandleErrorLog(i, p)
    \/ \E c \in Clients : Disconnect(c) \/ \E i \in Instances : Connect(c, i)

Spec == Init /\ [][Next]_vars

\* The scheduler keeps one process running, the group assigns what nobody has, and
\* a member notices that it lost a partition and reads on.
FirstStart == running = {} /\ \E i \in Instances : Start(i)

Fairness ==
    /\ WF_vars(FirstStart)
    /\ \A p \in ErrorParts : WF_vars(\E i \in Instances : Assign(i, p))
    /\ \A i \in Instances, p \in ErrorParts :
           WF_vars(Release(i, p)) /\ WF_vars(HandleErrorLog(i, p))

FairSpec == Spec /\ Fairness

-----------------------------------------------------------------------------
(* Properties.                                                              *)

Offsets(p) == 0..written[p]

\* What the topic holds.
Logs == {log \in ErrorParts \X Nat : log[2] < written[log[1]]}

\* The fields have their types; what does not run has no partition, no position and
\* no client.
TypeOK ==
    /\ written \in [ErrorParts -> 0..MaxLogs]
    /\ running \subseteq Instances
    /\ owner \in [ErrorParts -> running \cup {NoOne}]
    /\ position \in [Instances -> [ErrorParts -> Int]]
    /\ \A i \in Instances, p \in ErrorParts :
           /\ position[i][p] \in Offsets(p) \cup {Unset}
           /\ i \notin running => position[i][p] = Unset
    /\ committed \in [ErrorParts -> Int]
    /\ \A p \in ErrorParts : committed[p] \in Offsets(p) \cup {Unset}
    /\ peer \in [Clients -> running \cup {NoOne}]
    /\ shown \in [Clients -> SUBSET pushed]
    /\ \A c \in Clients : peer[c] = NoOne => shown[c] = {}
    /\ pushed \cup skipped \subseteq Logs
    /\ ends \in 0..MaxEnds

\* Whatever ends, is taken away or begins again, below the committed offset no log
\* is left out but those the group began behind.
CommittedWasPushed ==
    \A p \in ErrorParts : \A k \in 0..(committed[p] - 1) : <<p, k>> \in pushed \cup skipped

\* Logs are pushed for the first time in the order of their partition, also across
\* processes; only one that the group had begun behind may come late, from a member
\* that has not noticed it lost the partition.
FirstPushInOrder ==
    [][\A p \in ErrorParts, k \in 0..(MaxLogs - 1) : <<p, k>> \in pushed' \ (pushed \cup skipped)
            => \A later \in pushed : later[1] = p => later[2] < k]_vars

Alone(c) == peer[c] # NoOne /\ running = {peer[c]}

\* A client of the only process is shown each log of the topic that was not pushed
\* yet, whatever the group does meanwhile, as long as it stays so.
OnlyProcessShowsAll ==
    \A c \in Clients, p \in ErrorParts, k \in 0..(MaxLogs - 1) :
        /\ Alone(c) /\ k < written[p] /\ <<p, k>> \notin pushed
        ~> \/ <<p, k>> \in shown[c] \cup skipped
           \/ ~Alone(c)

=============================================================================
