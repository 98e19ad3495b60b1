--------------------------- MODULE MCBulkIndexer ---------------------------
(***************************************************************************)
(* A small instance of BulkIndexer: light documents fill the buffer by     *)
(* number, heavy ones fill it by size.                                     *)
(***************************************************************************)
EXTENDS BulkIndexer

CONSTANTS Light, Heavy

MCDocuments == Light \cup Heavy

\* A heavy document alone reaches MaxBatchBytes = 3 of the configurations.
MCSize == [d \in MCDocuments |-> IF d \in Heavy THEN 3 ELSE 1]

=============================================================================
