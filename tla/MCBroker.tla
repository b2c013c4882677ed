------------------------------- MODULE MCBroker -------------------------------
(* The daemon on small instances.                                             *)
EXTENDS Broker, TLC

Symmetry == Permutations(Calls)
===============================================================================
