---------------------------- MODULE MCBatchWorker ----------------------------
(***************************************************************************)
(* Small instances of BatchWorker: one asynchronous producer, q1, for the  *)
(* outputs and the invalid batches.                                        *)
(***************************************************************************)
EXTENDS BatchWorker

CONSTANT q1

OneOutput == <<q1>>
OneList == {<<q1>>}

LastOfOne == {<<p, MaxOffset>> : p \in {CHOOSE p \in Partitions : TRUE}}
=============================================================================
