------------------------------ MODULE Telemetry ------------------------------
(***************************************************************************)
(* What panopticon promises the services that report to it: what it has    *)
(* answered for with 202 is kept in the end, unless something went wrong    *)
(* that it gave up for good, and nothing is kept that nobody reported.      *)
(***************************************************************************)

VARIABLES
    offered,    \* the reports that were sent in
    promised,   \* those answered for
    kept,       \* those that can be searched for
    missing     \* those given up

vars == <<offered, promised, kept, missing>>

Init ==
    /\ offered = {}
    /\ promised = {}
    /\ kept = {}
    /\ missing = {}

Offer ==
    /\ offered \subseteq offered'
    /\ UNCHANGED <<promised, kept, missing>>

Promise ==
    /\ promised \subseteq promised'
    /\ promised' \subseteq offered
    /\ UNCHANGED <<offered, kept, missing>>

Keep ==
    /\ kept \subseteq kept'
    /\ kept' \subseteq offered
    /\ UNCHANGED <<offered, promised, missing>>

Miss ==
    /\ missing \subseteq missing'
    /\ missing' \subseteq offered
    /\ UNCHANGED <<offered, promised, kept>>

Next == Offer \/ Promise \/ Keep \/ Miss

Settlement(reports) ==
    \A report \in reports : report \in promised ~> report \in kept \cup missing

Safety == Init /\ [][Next]_vars

=============================================================================
