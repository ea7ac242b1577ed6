-------------------------- MODULE MCDbLogPipeline --------------------------
(* Ten records: one below INFO, one of a suppressed logger, one that      *)
(* cannot be formatted, one that no INSERT accepts, and more than the      *)
(* queue and a batch hold together.                                        *)
EXTENDS DbLogPipeline

MCLevel == <<20, 20, 10, 30, 20, 40, 20, 20, 50, 20>>
=============================================================================
