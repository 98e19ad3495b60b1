--------------------------- MODULE MCMetricsQuery ---------------------------
(***************************************************************************)
(* Instances of MetricsQuery.  In the main one a tick is a third of a      *)
(* bucket and a quantum is two ticks, so that windows and their splits     *)
(* fall anywhere in a bucket.                                              *)
(***************************************************************************)
EXTENDS MetricsQuery, TLC

CONSTANTS
    PastEnvironments,       \* the past: a span of each of these environments
    PastFrom, PastUntil,    \* in each of these ticks
    WindowFrom, WindowTo    \* the longer explicit window

MCPast ==
    {[id |-> "past", time |-> t, env |-> e, seen |-> t] : t \in PastFrom..PastUntil, e \in PastEnvironments}

\* The other one is cut down to full buckets.
MCWindows == {<<WindowFrom, WindowTo>>, <<Floor(WindowFrom), Floor(WindowTo)>>}

MCSymmetry == Permutations(Clients)

=============================================================================
