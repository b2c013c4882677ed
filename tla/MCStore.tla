------------------------------- MODULE MCStore --------------------------------
(* The request store alone, under arbitrary callers.                          *)
EXTENDS RequestStore, FiniteSets, TLC

Symmetry == Permutations(ApprovalIds)

\* Events and damage are written and never read by the store: one event or one
\* damaged row is enough to see every statement that writes them.
Damaged == {r \in Requests : stored[r] # Submitted \/ approval[r].hash = "other"}

Bound == Cardinality(events) + Cardinality(Damaged) <= 1
===============================================================================
