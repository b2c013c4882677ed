--------------------------------- MODULE Sums ---------------------------------
(* Sums of natural numbers. *)
EXTENDS Naturals, FiniteSetsExt

\* The sum of all values of f.
Total(f) == MapThenSumSet(LAMBDA x : f[x], DOMAIN f)
===============================================================================
