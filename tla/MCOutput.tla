------------------------------- MODULE MCOutput -------------------------------
(* The output of one execution on small instances.                            *)
EXTENDS OutputStream
===============================================================================
