------------------------------- MODULE MCStartup -------------------------------
(* A path of four components below the root.                                  *)
EXTENDS Startup
================================================================================
