------------------------------ MODULE Delivery ------------------------------
(***************************************************************************)
(* What replication promises, without queue, batches and copies.  The      *)
(* archive has a latest content of each path; a destination is asked for   *)
(* the one that is latest then, and owes it from that moment on.  Only     *)
(* while it owes is its copy touched, and it stops owing only when it has  *)
(* what it was last asked for, or a later content.  Contents are numbered, *)
(* 0 stands for a copy that is missing or incomplete.                      *)
(***************************************************************************)
EXTENDS Naturals

CONSTANTS
  Paths, Destinations,
  Streamed        \* destinations that read a file while they send it

VARIABLES
  latest,         \* path -> latest content in the archive
  wanted,         \* destination -> path -> content last asked for
  owed,           \* destination -> path -> whether it is still owed
  have            \* destination -> path -> content of the copy

vars == <<latest, wanted, owed, have>>

Init ==
  /\ latest = [p \in Paths |-> 0]
  /\ wanted = [d \in Destinations |-> [p \in Paths |-> 0]]
  /\ owed = [d \in Destinations |-> [p \in Paths |-> FALSE]]
  /\ have = [d \in Destinations |-> [p \in Paths |-> 0]]

Replace(p) ==
  /\ latest' = [latest EXCEPT ![p] = @ + 1]
  /\ UNCHANGED <<wanted, owed, have>>

Ask(d, p) ==
  /\ wanted' = [wanted EXCEPT ![d][p] = latest[p]]
  /\ owed' = [owed EXCEPT ![d][p] = TRUE]
  /\ UNCHANGED <<latest, have>>

\* The copy is truncated, or completed with a content the archive has had.
Touch(d, p) ==
  /\ owed[d][p]
  /\ \E v \in 0..latest[p] : have' = [have EXCEPT ![d][p] = v]
  /\ UNCHANGED <<latest, wanted, owed>>

\* A destination that streams may have met the replacement of what it was
\* asked for; then the next Ask makes up for it.
Settle(d, p) ==
  /\ owed[d][p]
  /\ \/ have[d][p] >= wanted[d][p]
     \/ d \in Streamed /\ latest[p] > wanted[d][p]
  /\ owed' = [owed EXCEPT ![d][p] = FALSE]
  /\ UNCHANGED <<latest, wanted, have>>

Next ==
  \/ \E p \in Paths : Replace(p)
  \/ \E d \in Destinations, p \in Paths : Ask(d, p) \/ Touch(d, p) \/ Settle(d, p)

Spec == Init /\ [][Next]_vars
=============================================================================
