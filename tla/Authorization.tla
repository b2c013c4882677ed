---------------------------- MODULE Authorization -----------------------------
(***************************************************************************)
(* What the broker promises: a command runs as root at most once, only     *)
(* after root authorised that request, and never once it was refused.      *)
(* How requests are stored, who executes them and what a crash interrupts  *)
(* does not appear.  A phase stands for the statuses with the same rights, *)
(* an action for the transactions that grant, withdraw or use a right.     *)
(***************************************************************************)
EXTENDS Naturals

CONSTANT Requests

VARIABLES
    phase,     \* "pending", "authorised", "spent" or "refused"
    launches   \* how many processes ran for a request

authVars == <<phase, launches>>

\* A request that is found when the broker starts for the first time is at most
\* pending.
AuthInit ==
    /\ phase \in [Requests -> {"pending", "refused"}]
    /\ launches = [r \in Requests |-> 0]

\* Root approves a request that nobody has decided or withdrawn.
Authorise(r) ==
    /\ phase[r] = "pending"
    /\ phase' = [phase EXCEPT ![r] = "authorised"]
    /\ UNCHANGED launches

\* Denial, cancellation, expiry and rejection, of any number of requests at once.
Refuse(S) ==
    /\ S # {} /\ \A r \in S : phase[r] \in {"pending", "authorised"}
    /\ phase' = [r \in Requests |-> IF r \in S THEN "refused" ELSE phase[r]]
    /\ UNCHANGED launches

\* The authorisation is used up before anything runs.
Consume(r) ==
    /\ phase[r] = "authorised"
    /\ phase' = [phase EXCEPT ![r] = "spent"]
    /\ UNCHANGED launches

Launch(r) ==
    /\ phase[r] = "spent" /\ launches[r] = 0
    /\ launches' = [launches EXCEPT ![r] = 1]
    /\ UNCHANGED phase

AuthNext ==
    \/ \E r \in Requests : Authorise(r) \/ Consume(r) \/ Launch(r)
    \/ \E S \in SUBSET Requests : Refuse(S)

AuthSpec == AuthInit /\ [][AuthNext]_authVars
===============================================================================
