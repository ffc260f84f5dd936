---------------------------- MODULE MCReplicator ----------------------------
(* Small instances of Replicator for TLC. *)
EXTENDS Replicator, TLC

CONSTANTS local1, s3a

Async(S) == [d \in S |-> "async_replica"]

\* Both replicas are configured at every start.
SameConfig == {Async(Destinations)}
\* At a restart one replica may take the place of the other, or the one that
\* is left may be turned into a primary.
ChangingConfig == {Async({local1}), Async({s3a}), [d \in {s3a} |-> "primary"]}

\* The local replica is given up after two failures, the S3 one never.
FiniteLocal == [d \in Destinations |-> IF d = local1 THEN 2 ELSE 0]

AllFaults == FaultKinds
=============================================================================
