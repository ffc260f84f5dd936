--------------------------- MODULE MCRibSnapshot ----------------------------
(* Instances of RibSnapshot for TLC: tasks are model values and the bounds  *)
(* are given in the configurations.                                         *)
EXTENDS RibSnapshot
=============================================================================
