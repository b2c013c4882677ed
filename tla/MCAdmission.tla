----------------------------- MODULE MCAdmission ------------------------------
(* The limits on small instances.                                             *)
EXTENDS Admission, TLC

Symmetry == Permutations(Handlers) \cup Permutations(Uids) \cup Permutations(Requests)
===============================================================================
