-------------------------- MODULE MCUpdatesArchive --------------------------
(* Instances of UpdatesArchive for TLC: every constant is given a value in  *)
(* the configurations, the interval its default of 15 minutes.              *)
EXTENDS UpdatesArchive
=============================================================================
