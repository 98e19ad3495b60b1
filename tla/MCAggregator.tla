---------------------------- MODULE MCAggregator ----------------------------
(* Instances of Aggregator: the configurations give the constants. *)
EXTENDS Aggregator, TLC

\* Nothing tells one environment from another; for runs without liveness.
Symmetry == Permutations(Environments)

=============================================================================
