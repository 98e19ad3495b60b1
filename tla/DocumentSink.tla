---------------------------- MODULE DocumentSink ----------------------------
(***************************************************************************)
(* What a Kafka handler may rely on when it hands a document to            *)
(* BulkIndexerService.enqueue and does not wait for the write: the         *)
(* document is settled once, later, together with others, as stored or as  *)
(* given up, and every document is settled in the end.  Nothing is said of *)
(* buffers, timers or requests.                                            *)
(***************************************************************************)

CONSTANT Documents

VARIABLES
    accepted,   \* the documents handed over
    waiting,    \* those whose fate is open
    indexed,    \* those Elasticsearch stored
    dropped     \* those given up

vars == <<accepted, waiting, indexed, dropped>>

Init ==
    /\ accepted = {}
    /\ waiting = {}
    /\ indexed = {}
    /\ dropped = {}

Accept(d) ==
    /\ d \notin accepted
    /\ accepted' = accepted \cup {d}
    /\ waiting' = waiting \cup {d}
    /\ UNCHANGED <<indexed, dropped>>

\* A group of documents is settled; those in stored were written.
Settle(group, stored) ==
    /\ group \subseteq waiting
    /\ stored \subseteq group
    /\ waiting' = waiting \ group
    /\ indexed' = indexed \cup stored
    /\ dropped' = dropped \cup (group \ stored)
    /\ UNCHANGED accepted

Next ==
    \/ \E d \in Documents : Accept(d)
    \/ \E group \in (SUBSET waiting) \ {{}} : \E stored \in SUBSET group : Settle(group, stored)

\* Every waiting document is settled in the end.
Settlement == \A d \in Documents : d \in waiting ~> d \notin waiting

Spec == Init /\ [][Next]_vars /\ Settlement

=============================================================================
