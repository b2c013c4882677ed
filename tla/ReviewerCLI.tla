------------------------------ MODULE ReviewerCLI -----------------------------
(***************************************************************************)
(* A reviewer's decision from the CLI: runAdmin's Approve or Deny call,    *)
(* the decide handler it reaches, and reconcileDecision, which looks the   *)
(* decision up when the answer is lost.  The transaction of the handler is *)
(* bound to the context of the call and holds the only connection of the   *)
(* database from BeginTx to its end.                                       *)
(*                                                                         *)
(* A CLI process makes one call and is named by the approval ID the call   *)
(* mints; a retry is another process.  Listing, inspection and             *)
(* confirmation happen before the first step.  The gRPC transport          *)
(* (external) delivers the cancellation of a call before any later call of *)
(* the same process.  What happens to a decided request, and damage to its *)
(* columns, is in Broker.                                                  *)
(***************************************************************************)
EXTENDS RequestStore

CONSTANTS
    MaxFaults,      \* how many store calls fail
    MaxRestarts     \* how often the daemon restarts

ASSUME ReviewAssumption == {MaxFaults, MaxRestarts} \subseteq Nat

Reviewers == ApprovalIds

VARIABLES
    cli,        \* where runAdmin is, and in the end what it told the reviewer
    want,       \* the decision and the request it is for
    answer,     \* the approval ID it reports
    looked,     \* the status that the lookup has read
    handler,    \* where decide is
    resp,       \* the approval ID decide answers with
    ctx,        \* the context of the call
    conn,       \* the call whose transaction holds the connection, or Nil
    faults, restarts

cliVars == <<cli, want, answer, looked>>
handlerVars == <<handler, resp, ctx, conn>>
boundVars == <<faults, restarts>>
vars == <<storeVars, cliVars, handlerVars, boundVars>>

NoWant == [kind |-> "deny", req |-> Nil]

\* Requests wait for a decision in an open store.
Init ==
    /\ status = [r \in Requests |-> "WAITING_APPROVAL"]
    /\ stored = [r \in Requests |-> Submitted]
    /\ approval = [r \in Requests |-> NoApproval]
    /\ execution = [r \in Requests |-> NoExecution]
    /\ events = {} /\ migrated = TRUE /\ expired = {} /\ handle = "open"
    /\ cli = [v \in Reviewers |-> "idle"]
    /\ want = [v \in Reviewers |-> NoWant]
    /\ answer = [v \in Reviewers |-> Nil]
    /\ looked = [v \in Reviewers |-> NoRow]
    /\ handler = [v \in Reviewers |-> "none"]
    /\ resp = [v \in Reviewers |-> Nil]
    /\ ctx = [v \in Reviewers |-> "live"]
    /\ conn = Nil
    /\ faults = 0 /\ restarts = 0

To(v, where) == handler' = [handler EXCEPT ![v] = where]
Tell(v, what) == cli' = [cli EXCEPT ![v] = what]
Fault == faults < MaxFaults /\ faults' = faults + 1 /\ UNCHANGED restarts

-----------------------------------------------------------------------------
(* decide.                                                                  *)

\* ExpireOutstanding.
HandlerExpire(v) ==
    /\ handler[v] = "expire" /\ conn = Nil
    /\ \/ ExpireOutstanding /\ To(v, "get") /\ UNCHANGED boundVars
       \/ Fault /\ To(v, "error") /\ UNCHANGED storeVars
    /\ UNCHANGED <<cliVars, resp, ctx, conn>>

\* Get, and the check of the status.
HandlerGet(v) ==
    /\ handler[v] = "get" /\ conn = Nil
    /\ \/ /\ To(v, IF status[want[v].req] = "WAITING_APPROVAL" THEN "accept"
                   ELSE "existing")
          /\ UNCHANGED boundVars
       \/ Fault /\ To(v, "error")
    /\ UNCHANGED <<storeVars, cliVars, resp, ctx, conn>>

\* Mutant: the transaction is not bound to the call.
HandlerBeginDetached(v) ==
    /\ handler[v] = "accept" /\ conn = Nil
    /\ conn' = v /\ To(v, "tx")
    /\ UNCHANGED <<storeVars, cliVars, resp, ctx, boundVars>>

\* BeginTx waits for the connection and fails when the call was given up.
HandlerBegin(v) ==
    /\ handler[v] = "accept" /\ conn = Nil
    /\ \/ ctx[v] = "live" /\ conn' = v /\ To(v, "tx")
       \/ ctx[v] = "done" /\ To(v, "existing") /\ UNCHANGED conn
    /\ UNCHANGED <<storeVars, cliVars, resp, ctx, boundVars>>

\* The transaction commits, or it is rolled back: because the request is no longer
\* waiting, because a statement fails, or because the call is given up before the
\* commit, which may still win.
HandlerCommit(v) ==
    LET r == want[v].req
    IN  /\ handler[v] = "tx"
        /\ conn' = Nil
        /\ \/ /\ AcceptApproval(r, want[v].kind, v, stored[r].hash)
              /\ resp' = [resp EXCEPT ![v] = v]
              /\ To(v, "accepted")
              /\ UNCHANGED boundVars
           \/ /\ \/ ~CanAccept(r, want[v].kind, v) /\ UNCHANGED boundVars
                 \/ ctx[v] = "done" /\ UNCHANGED boundVars
                 \/ Fault
              /\ To(v, "existing")
              /\ UNCHANGED <<storeVars, resp>>
        /\ UNCHANGED <<cliVars, ctx>>

\* existingDecision.
HandlerExisting(v) ==
    LET a == approval[want[v].req]
    IN  /\ handler[v] = "existing" /\ conn = Nil
        /\ \/ /\ a.decision = want[v].kind
              /\ resp' = [resp EXCEPT ![v] = a.id]
              /\ To(v, "accepted")
              /\ UNCHANGED boundVars
           \/ a.decision # want[v].kind /\ To(v, "refused") /\ UNCHANGED <<resp, boundVars>>
           \/ Fault /\ To(v, "error") /\ UNCHANGED resp
        /\ UNCHANGED <<storeVars, cliVars, ctx, conn>>

Handler(v) ==
    \/ HandlerExpire(v) \/ HandlerGet(v) \/ HandlerBegin(v) \/ HandlerCommit(v)
    \/ HandlerExisting(v)

-----------------------------------------------------------------------------
(* runAdmin.                                                                *)

Calls(v, r, kind) ==
    /\ cli[v] = "idle"
    /\ want' = [want EXCEPT ![v] = [kind |-> kind, req |-> r]]
    /\ Tell(v, "deciding")
    /\ To(v, "expire")
    /\ UNCHANGED <<storeVars, answer, looked, resp, ctx, conn, boundVars>>

\* The answer arrives; a failed store call is Unknown, and so ambiguous.
Receives(v) ==
    /\ cli[v] = "deciding" /\ handler[v] \in {"accepted", "refused", "error"}
    /\ Tell(v, IF handler[v] = "error" THEN "reconcile" ELSE handler[v])
    /\ answer' = [answer EXCEPT ![v] = resp[v]]
    /\ To(v, "none")
    /\ UNCHANGED <<storeVars, want, looked, resp, ctx, conn, boundVars>>

\* The deadline of the call passes while it runs.
GivesUp(v) ==
    /\ cli[v] = "deciding"
    /\ Tell(v, "reconcile")
    /\ ctx' = [ctx EXCEPT ![v] = "done"]
    /\ UNCHANGED <<storeVars, want, answer, looked, handler, resp, conn, boundVars>>

\* reconcileDecision: InspectRequest reads the row, and then the approval.
LookupRow(v) ==
    /\ cli[v] = "reconcile" /\ conn = Nil
    /\ looked' = [looked EXCEPT ![v] = status[want[v].req]]
    /\ Tell(v, "record")
    /\ UNCHANGED <<storeVars, want, answer, handlerVars, boundVars>>

\* Mutant: a missing decision of a request that has moved on is not told apart.
OutcomeOfDecision(decision, row, kind) ==
    IF decision = kind THEN "accepted" ELSE "conflict"

\* decisionResponseFromRecord.
Outcome(decision, row, kind) ==
    CASE decision = kind -> "accepted"
      [] decision \in Decisions \ {kind} -> "conflict"
      [] decision = "none" /\ row = "WAITING_APPROVAL" -> "pending"
      [] OTHER -> "undecided"

\* The error of ApprovalFor is dropped: the record then shows no decision.
LookupApproval(v) ==
    /\ cli[v] = "record" /\ conn = Nil
    /\ LET a == approval[want[v].req]
       IN  \/ /\ Tell(v, Outcome(a.decision, looked[v], want[v].kind))
              /\ answer' = [answer EXCEPT ![v] = a.id]
              /\ UNCHANGED boundVars
           \/ /\ Fault
              /\ Tell(v, Outcome("none", looked[v], want[v].kind))
              /\ UNCHANGED answer
    /\ UNCHANGED <<storeVars, want, looked, handlerVars>>

\* The lookup fails, or its own deadline passes.
LookupFails(v) ==
    /\ cli[v] \in {"reconcile", "record"}
    /\ Tell(v, "uncertain")
    /\ UNCHANGED <<storeVars, want, answer, looked, handlerVars, boundVars>>

-----------------------------------------------------------------------------
(* The others: the requester cancels, the clock passes, the daemon restarts. *)

Withdrawn(r) ==
    /\ conn = Nil
    /\ Transition(r, "CANCELLED", "WAITING_APPROVAL")
    /\ UNCHANGED <<cliVars, handlerVars, boundVars>>

Overdue(r) ==
    /\ TimePasses(r)
    /\ UNCHANGED <<cliVars, handlerVars, boundVars>>

ExpireTick ==
    /\ conn = Nil
    /\ ExpireOutstanding
    /\ UNCHANGED <<cliVars, handlerVars, boundVars>>

\* Handlers end with the daemon, an open transaction with them; calls in progress
\* are Unavailable.
Restart ==
    /\ restarts < MaxRestarts /\ restarts' = restarts + 1
    /\ conn' = Nil
    /\ handler' = [v \in Reviewers |-> "none"]
    /\ cli' = [v \in Reviewers |->
                 CASE cli[v] = "deciding" -> "reconcile"
                   [] cli[v] = "record" -> "uncertain"
                   [] OTHER -> cli[v]]
    /\ UNCHANGED <<storeVars, want, answer, looked, resp, ctx, faults>>

Next ==
    \/ \E v \in Reviewers, r \in Requests, k \in Decisions : Calls(v, r, k)
    \/ \E v \in Reviewers :
          \/ Handler(v) \/ Receives(v) \/ GivesUp(v)
          \/ LookupRow(v) \/ LookupApproval(v) \/ LookupFails(v)
    \/ \E r \in Requests : Withdrawn(r) \/ Overdue(r)
    \/ ExpireTick
    \/ Restart

Spec == Init /\ [][Next]_vars

-----------------------------------------------------------------------------
(* Properties.                                                              *)

\* Every variable holds a value of its type, and the connection is held exactly
\* while a handler is in its transaction.
TypeOK ==
    /\ StoreTypeOK
    /\ cli \in [Reviewers -> {"idle", "deciding", "reconcile", "record", "accepted",
                              "refused", "pending", "undecided", "conflict",
                              "uncertain"}]
    /\ want \in [Reviewers -> [kind: Decisions, req: Requests \cup {Nil}]]
    /\ answer \in [Reviewers -> Reviewers \cup {Nil}]
    /\ resp \in [Reviewers -> Reviewers \cup {Nil}]
    /\ looked \in [Reviewers -> Statuses \cup {NoRow, Pruned}]
    /\ handler \in [Reviewers -> {"none", "expire", "get", "accept", "tx",
                                  "existing", "accepted", "refused", "error"}]
    /\ ctx \in [Reviewers -> {"live", "done"}]
    /\ \A v \in Reviewers : conn = v <=> handler[v] = "tx"
    /\ conn \in Reviewers \cup {Nil}
    /\ faults \in 0..MaxFaults /\ restarts \in 0..MaxRestarts

\* A reviewer who is told that the decision was not committed and may be retried,
\* or that it was refused, is told the truth for ever: the decision of that call,
\* whose handler may still be running, is never stored afterwards.  (A lookup
\* whose second read fails reports a decided request as having no decision, which
\* claims nothing about the call.)
NotCommittedIsFinal ==
    \A v \in Reviewers :
        cli[v] \in {"pending", "refused"} =>
            \A r \in Requests : approval[r].id # v

\* A reviewer who is told that the request is decided, by the answer or by the
\* lookup, is told the stored decision and its approval ID, and no other reviewer
\* is told the opposite.
ConfirmedIsStored ==
    \A v \in Reviewers :
        LET a == approval[want[v].req]
        IN  /\ cli[v] = "accepted" => a.decision = want[v].kind /\ a.id = answer[v]
            /\ cli[v] = "conflict" => a.decision \in Decisions \ {want[v].kind}
===============================================================================
