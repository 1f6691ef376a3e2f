------------------------------- MODULE MCMerge -------------------------------
(* Model-checking instance of Merge: two FARs and one PDR, establishment  *)
(* values {1} and modification values {2}, so that every replacement is   *)
(* visible in the stored list.                                             *)
EXTENDS Merge

MCFarIds == {1, 2}
MCPdrIds == {1}
MCVals == {1}
MCModVals == {2}
=============================================================================
