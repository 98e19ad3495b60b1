------------------------- MODULE MCStorageBootstrap -------------------------
(***************************************************************************)
(* Instances of StorageBootstrap: the stream processor with its two        *)
(* applications, and the aggregator.                                       *)
(***************************************************************************)
EXTENDS StorageBootstrap, TLC

CONSTANTS streamProcessor, aggregator, logConsumer, spanConsumer, runner

MCProcesses == {streamProcessor, aggregator}

MCApps == {logConsumer, spanConsumer, runner}

MCHost ==
    (logConsumer :> streamProcessor) @@ (spanConsumer :> streamProcessor)
    @@ (runner :> aggregator)

MCAggregators == {runner}

MCStreamOrder == <<"apmRollupMetrics">>

=============================================================================
