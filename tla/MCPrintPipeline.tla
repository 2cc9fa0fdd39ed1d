-------------------------- MODULE MCPrintPipeline --------------------------
(* PrintPipeline with small sets of jobs and runs.  Runs are interchangeable,
   and so are kitchen tickets: the safety runs use that symmetry. *)
EXTENDS PrintPipeline, TLC

Symmetry == Permutations(Runs) \union Permutations(KitchenJobs)
=============================================================================
