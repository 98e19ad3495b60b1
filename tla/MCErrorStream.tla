---------------------------- MODULE MCErrorStream ----------------------------
(* Instances of ErrorStream: the configurations give the constants. *)
EXTENDS ErrorStream

=============================================================================
