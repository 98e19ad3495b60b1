--------------------------- MODULE MCLogPipeline ---------------------------
(***************************************************************************)
(* Instances of LogPipeline: a partition of logs and one of spans.         *)
(***************************************************************************)
EXTENDS LogPipeline, TLC

CONSTANTS logs, spans

MCPartitions == {logs, spans}

MCLog == (logs :> <<"error", "event">>) @@ (spans :> <<"refused">>)

MCNullLog == (logs :> <<"event">>) @@ (spans :> <<"null", "event">>)

=============================================================================
