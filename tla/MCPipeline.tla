-------------------------- MODULE MCPipeline -------------------------------
(* TLC instances of LogPipeline and of LogRefinement.                       *)
EXTENDS LogRefinement, TLC

CONSTANTS l1, l2

MCLogs == {l1, l2}
LogSymmetry == Permutations(MCLogs)
=============================================================================
