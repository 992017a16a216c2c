--------------------------- MODULE MCToolExecutor ---------------------------
(* Up to three calls that claim two resources in every combination: the    *)
(* smallest instance with a chain of conflicts that is not transitive.     *)
EXTENDS ToolExecutor

CONSTANTS a, b

MCClaimSets == SUBSET {a, b}
=============================================================================
