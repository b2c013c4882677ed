-------------------------------- MODULE MCReview ------------------------------
(* Reviewers' decisions on small instances.                                    *)
EXTENDS ReviewerCLI, TLC

Symmetry == Permutations(Reviewers)
===============================================================================
