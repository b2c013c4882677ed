----------------------------- MODULE RequestStore -----------------------------
(***************************************************************************)
(* The durable request store, internal/state/state.go: the requests,       *)
(* approvals, executions, security_events and server_state tables, and the *)
(* statements and transactions that change them.                           *)
(*                                                                         *)
(* The database handle has one connection (state.go:63), so statements and *)
(* transactions never interleave: an operator below is one statement or    *)
(* one transaction, enabled when it commits.  A call that the code rolls   *)
(* back, and an operation whose error the caller drops, leaves every table *)
(* alone.  Output chunks are not part of this module.                      *)
(***************************************************************************)
EXTENDS Naturals, Statuses

CONSTANTS
    Requests,      \* request IDs
    Legacy,        \* the requests left by the remote-era daemon
    ApprovalIds,   \* approval IDs
    Nil            \* no approval ID

ASSUME StoreAssumption ==
    /\ Legacy \subseteq Requests
    /\ Nil \notin ApprovalIds

VARIABLES
    status,        \* requests.status, NoRow or Pruned for an ID without a row
    stored,        \* requests.request_json and the request_hash beside it
    approval,      \* the approvals row of a request
    execution,     \* the executions row of a request
    events,        \* security_events that name a request
    migrated,      \* server_state holds local_only_v2
    expired,       \* the requests whose expires_at the clock has reached
    handle         \* how far Open has come

storeVars ==
    <<status, stored, approval, execution, events, migrated, expired, handle>>

(***************************************************************************)
(* A request body is told apart from any other by one of two versions: the *)
(* one that was submitted, and another one.  A hash has the version of the *)
(* body it is the hash of, so the hash check of a row compares versions.   *)
(***************************************************************************)
Versions == {"submitted", "other"}
Bodies == [json: Versions, hash: Versions]
Submitted == [json |-> "submitted", hash |-> "submitted"]
HashMatches(b) == b.json = b.hash

Decisions == {"approve", "deny"}
Approvals == [decision: Decisions \cup {"none"}, id: ApprovalIds \cup {Nil},
              hash: Versions, consumed: {"no", "yes"}]
NoApproval == [decision |-> "none", id |-> Nil, hash |-> "submitted",
               consumed |-> "no"]

Exits == {"none", "zero", "nonzero"}
Signals == {"none", "signal", "EXECUTION_TIMEOUT", "DAEMON_RESTART"}
Executions == [state: {"none", "open", "finished"}, exit: Exits,
               signal: Signals]
NoExecution == [state |-> "none", exit |-> "none", signal |-> "none"]
OpenExecution == [state |-> "open", exit |-> "none", signal |-> "none"]

EventTypes == {"request.approved", "request.denied",
               "request.integrity-failed", "approval.integrity-failed"}

-----------------------------------------------------------------------------
(* The rows a remote-era daemon left behind.  It executed a request whose   *)
(* policy allowed it straight from CREATED, without an approval.            *)

LegacyApproval(s) ==
    LET given(d, used) == [decision |-> d, id |-> Nil, hash |-> "submitted",
                           consumed |-> used]
    IN  CASE s = "APPROVED" -> {given("approve", "no")}
          [] s = "DENIED" -> {given("deny", "no")}
          [] s = "EXECUTING" -> {NoApproval, given("approve", "yes")}
          [] OTHER -> {NoApproval}

\* Rows by the status an interrupted remote-era daemon can have left them in.
LegacyStatuses == {"CREATED", "QUEUED", "SYNCED", "WAITING_APPROVAL",
                   "APPROVED", "DENIED", "EXECUTING"}

LegacyExecution(s) ==
    IF s = "EXECUTING" THEN OpenExecution ELSE NoExecution

StoreInit ==
    /\ status \in [Requests -> LegacyStatuses \cup {NoRow}]
    /\ \A r \in Requests \ Legacy : status[r] = NoRow
    /\ stored = [r \in Requests |-> Submitted]
    /\ approval \in [Requests -> Approvals]
    /\ \A r \in Requests : approval[r] \in LegacyApproval(status[r])
    /\ execution = [r \in Requests |-> LegacyExecution(status[r])]
    /\ events = {}
    /\ migrated = FALSE
    /\ expired = {}
    /\ handle = "closed"

-----------------------------------------------------------------------------
(* Statements and transactions.                                             *)

HasRow(r) == status[r] \in Statuses

\* Store.Create.  The expiry of a new row lies at least a second ahead.
Create(r) ==
    /\ status[r] = NoRow
    /\ status' = [status EXCEPT ![r] = "CREATED"]
    /\ stored' = [stored EXCEPT ![r] = Submitted]
    /\ UNCHANGED <<approval, execution, events, migrated, expired, handle>>

CanTransition(r, next, expected) ==
    /\ status[r] = expected
    /\ next \in transitions[status[r]]

Transition(r, next, expected) ==
    /\ CanTransition(r, next, expected)
    /\ status' = [status EXCEPT ![r] = next]
    /\ UNCHANGED <<stored, approval, execution, events, migrated, expired, handle>>

DecidedStatus(d) == IF d = "approve" THEN "APPROVED" ELSE "DENIED"

\* Mutant: the decision is upserted, without the transition in its transaction.
CanAcceptLate(r, d, id) == HasRow(r) /\ \A q \in Requests : approval[q].id # id

\* The approvals table holds one row per request and per approval ID, and the
\* transition in the same transaction holds the insert back.
CanAccept(r, d, id) ==
    /\ approval[r].decision = "none"
    /\ \A q \in Requests : approval[q].id # id
    /\ CanTransition(r, DecidedStatus(d), "WAITING_APPROVAL")

AcceptApproval(r, d, id, hash) ==
    /\ CanAccept(r, d, id)
    /\ approval' = [approval EXCEPT ![r] = [decision |-> d, id |-> id,
                                            hash |-> hash, consumed |-> "no"]]
    /\ status' = [status EXCEPT ![r] = DecidedStatus(d)]
    /\ UNCHANGED <<stored, execution, events, migrated, expired, handle>>

\* Mutant: an interrupted or unfinished execution may be begun again.
CanBeginAgain(r) == status[r] \in {"APPROVED", "EXECUTING"}

CanBegin(r) ==
    /\ CanTransition(r, "EXECUTING", "APPROVED")
    /\ execution[r].state = "none"
    /\ approval[r].decision # "none" /\ approval[r].consumed = "no"

\* Mutant: consumed_at is not set.
BeginExecutionUnconsumed(r) ==
    /\ CanBegin(r)
    /\ status' = [status EXCEPT ![r] = "EXECUTING"]
    /\ execution' = [execution EXCEPT ![r] = OpenExecution]
    /\ UNCHANGED <<stored, approval, events, migrated, expired, handle>>

\* BeginExecution with expected APPROVED, the only value the daemon passes.
BeginExecution(r) ==
    /\ CanBegin(r)
    /\ status' = [status EXCEPT ![r] = "EXECUTING"]
    /\ execution' = [execution EXCEPT ![r] = OpenExecution]
    /\ approval' = [approval EXCEPT ![r].consumed = "yes"]
    /\ UNCHANGED <<stored, events, migrated, expired, handle>>

FinishedStatus(exit) == IF exit = "zero" THEN "SUCCEEDED" ELSE "FAILED"

\* Mutant: the executions row is left as it was.
FinishExecutionStatusOnly(r, exit, signal) ==
    /\ CanTransition(r, FinishedStatus(exit), "EXECUTING")
    /\ status' = [status EXCEPT ![r] = FinishedStatus(exit)]
    /\ UNCHANGED <<stored, approval, execution, events, migrated, expired, handle>>

\* The UPDATE of the executions row matches nothing when there is no row.
FinishExecution(r, exit, signal) ==
    /\ CanTransition(r, FinishedStatus(exit), "EXECUTING")
    /\ status' = [status EXCEPT ![r] = FinishedStatus(exit)]
    /\ execution' =
          IF execution[r].state = "none" THEN execution
          ELSE [execution EXCEPT ![r] = [state |-> "finished", exit |-> exit,
                                         signal |-> signal]]
    /\ UNCHANGED <<stored, approval, events, migrated, expired, handle>>

\* Mutant: whatever is outstanding expires, what executes included.
ExpireOutstandingAll ==
    /\ status' = [r \in Requests |->
                    IF status[r] \in Outstanding /\ r \in expired
                    THEN "EXPIRED" ELSE status[r]]
    /\ UNCHANGED <<stored, approval, execution, events, migrated, expired, handle>>

ExpireOutstanding ==
    /\ status' = [r \in Requests |->
                    IF status[r] \in Expirable /\ r \in expired
                    THEN "EXPIRED" ELSE status[r]]
    /\ UNCHANGED <<stored, approval, execution, events, migrated, expired, handle>>

RecordSecurityEvent(type, r) ==
    /\ events' = events \cup {<<type, r>>}
    /\ UNCHANGED <<status, stored, approval, execution, migrated, expired, handle>>

-----------------------------------------------------------------------------
(* Open, each step a statement or a transaction of its own: the process can *)
(* end between any two of them.                                             *)

\* Mutant: an interrupted execution is approved again.
RecoverStatusesRequeue ==
    /\ handle = "closed" /\ handle' = "recovered"
    /\ status' = [r \in Requests |->
                    IF status[r] = "EXECUTING" THEN "APPROVED" ELSE status[r]]
    /\ approval' = [r \in Requests |->
                      IF status[r] = "EXECUTING"
                      THEN [approval[r] EXCEPT !.consumed = "no"] ELSE approval[r]]
    /\ UNCHANGED <<stored, execution, events, migrated, expired>>

RecoverStatuses ==
    /\ handle = "closed" /\ handle' = "recovered"
    /\ status' = [r \in Requests |->
                    IF status[r] = "EXECUTING" THEN "FAILED" ELSE status[r]]
    /\ UNCHANGED <<stored, approval, execution, events, migrated, expired>>

RecoverExecutions ==
    /\ handle = "recovered" /\ handle' = "settled"
    /\ execution' = [r \in Requests |->
                       IF execution[r].state = "open"
                       THEN [state |-> "finished", exit |-> execution[r].exit,
                             signal |-> "DAEMON_RESTART"]
                       ELSE execution[r]]
    /\ UNCHANGED <<status, stored, approval, events, migrated, expired>>

MigrateLocalOnly ==
    /\ handle = "settled" /\ handle' = "open"
    /\ migrated' = TRUE
    /\ status' = [r \in Requests |->
                    IF ~migrated /\ status[r] \in RemotePending
                    THEN "POLICY_REJECTED" ELSE status[r]]
    /\ UNCHANGED <<stored, approval, execution, events, expired>>

\* Store.Close, an Open that fails, or the end of the process.
Close ==
    /\ handle # "closed" /\ handle' = "closed"
    /\ UNCHANGED <<status, stored, approval, execution, events, migrated, expired>>

-----------------------------------------------------------------------------
(* Retention.  PruneUnapproved selects rows in one statement and deletes    *)
(* them in a later transaction; which of the prunable rows age and count    *)
(* select is left open here.                                                *)

Prunable == {r \in Requests : /\ status[r] \in Terminal
                              /\ approval[r].decision = "none"}

\* A foreign key makes the deletion of a decided row abort the transaction.
CanPrune(ids) == \A r \in ids : approval[r].decision = "none"

Prune(ids) ==
    /\ CanPrune(ids)
    /\ status' = [r \in Requests |-> IF r \in ids THEN Pruned ELSE status[r]]
    /\ execution' = [r \in Requests |->
                       IF r \in ids THEN NoExecution ELSE execution[r]]
    /\ UNCHANGED <<stored, approval, events, migrated, expired, handle>>

-----------------------------------------------------------------------------
(* The environment: the clock, and the damage to the database file that the *)
(* hash checks exist for (triggers refuse these updates to the daemon).     *)

TimePasses(r) ==
    /\ HasRow(r) /\ r \notin expired
    /\ expired' = expired \cup {r}
    /\ UNCHANGED <<status, stored, approval, execution, events, migrated, handle>>

DamageJson(r) ==
    /\ HasRow(r)
    /\ stored' = [stored EXCEPT ![r].json = "other"]
    /\ UNCHANGED <<status, approval, execution, events, migrated, expired, handle>>

DamageHash(r) ==
    /\ HasRow(r)
    /\ stored' = [stored EXCEPT ![r].hash = "other"]
    /\ UNCHANGED <<status, approval, execution, events, migrated, expired, handle>>

DamageApproval(r) ==
    /\ approval[r].decision # "none"
    /\ approval' = [approval EXCEPT ![r].hash = "other"]
    /\ UNCHANGED <<status, stored, execution, events, migrated, expired, handle>>

-----------------------------------------------------------------------------
(* The store under callers that obey nothing but the arguments the daemon   *)
(* passes: any operation of an open store at any time.                      *)

\* The targets and expected statuses of the daemon's calls of Transition.
TransitionCalls == {<<"POLICY_REJECTED", "CREATED">>,
                    <<"WAITING_APPROVAL", "CREATED">>,
                    <<"CANCELLED", "CREATED">>,
                    <<"CANCELLED", "WAITING_APPROVAL">>,
                    <<"POLICY_REJECTED", "WAITING_APPROVAL">>,
                    <<"POLICY_REJECTED", "APPROVED">>,
                    <<"EXPIRED", "APPROVED">>}

Operation(r) ==
    \/ Create(r)
    \/ \E t \in TransitionCalls : Transition(r, t[1], t[2])
    \/ \E d \in Decisions, id \in ApprovalIds, h \in Versions :
          AcceptApproval(r, d, id, h)
    \/ BeginExecution(r)
    \/ \E type \in EventTypes : RecordSecurityEvent(type, r)

Environment(r) == TimePasses(r) \/ DamageJson(r) \/ DamageHash(r) \/ DamageApproval(r)

\* The steps that leave a started execution and a row due for deletion alone.
Routine ==
    \/ handle = "open" /\ \E r \in Requests : Operation(r)
    \/ handle = "open" /\ ExpireOutstanding
    \/ \E r \in Requests : Environment(r)
    \/ Close

StoreNext ==
    \/ Routine
    \/ /\ handle = "open"
       /\ \E r \in Requests, e \in Exits, s \in Signals : FinishExecution(r, e, s)
    \/ handle = "open" /\ \E ids \in SUBSET Prunable : Prune(ids)
    \/ RecoverStatuses
    \/ RecoverExecutions
    \/ MigrateLocalOnly

StoreSpec == StoreInit /\ [][StoreNext]_storeVars

-----------------------------------------------------------------------------
(* Properties of the tables.                                                *)

\* Every column holds a value of its domain.
StoreTypeOK ==
    /\ status \in [Requests -> Statuses \cup {NoRow, Pruned}]
    /\ stored \in [Requests -> Bodies]
    /\ approval \in [Requests -> Approvals]
    /\ execution \in [Requests -> Executions]
    /\ events \subseteq EventTypes \X Requests
    /\ migrated \in BOOLEAN
    /\ expired \subseteq Requests
    /\ handle \in {"closed", "recovered", "settled", "open"}

Started == {"EXECUTING", "SUCCEEDED", "FAILED"}

\* The approvals table agrees with the status column although five different
\* statements write the status: a request that is APPROVED carries an approve
\* decision that is still unconsumed, one that reached EXECUTING carries a
\* consumed one (unless the remote-era daemon ran it), one that is DENIED a deny
\* decision, and one that was never decided carries none.
DecisionMatchesStatus ==
    \A r \in Requests :
        /\ status[r] = "APPROVED" =>
              approval[r].decision = "approve" /\ approval[r].consumed = "no"
        /\ status[r] \in Started /\ r \notin Legacy =>
              approval[r].decision = "approve" /\ approval[r].consumed = "yes"
        /\ status[r] = "DENIED" => approval[r].decision = "deny"
        /\ status[r] \in {"CREATED", "QUEUED", "SYNCED", "WAITING_APPROVAL",
                          "CANCELLED", NoRow, Pruned} =>
              approval[r].decision = "none"
        /\ approval[r].consumed = "yes" =>
              status[r] \in Started /\ approval[r].decision = "approve"

\* The executions table agrees with the status column across FinishExecution and
\* a recovery that a crash can cut in two: only a started request has a row, an
\* EXECUTING one is unfinished, a SUCCEEDED one finished with exit code zero, a
\* FAILED one never did, and once Open has returned no other row is unfinished.
ResultMatchesStatus ==
    \A r \in Requests :
        /\ execution[r].state # "none" <=> status[r] \in Started
        /\ status[r] = "EXECUTING" => execution[r].state = "open"
        /\ execution[r].state = "open" => execution[r].exit = "none"
        /\ status[r] = "SUCCEEDED" =>
              execution[r].state = "finished" /\ execution[r].exit = "zero"
        /\ status[r] = "FAILED" => execution[r].exit # "zero"
        /\ handle \in {"settled", "open"} /\ execution[r].state = "open" =>
              status[r] = "EXECUTING"

\* Open's second statement finds no request in execution: the first one has
\* failed them all and nothing else touches the tables until Open returns.
RecoveryUndisturbed ==
    handle \in {"recovered", "settled"} =>
        \A r \in Requests : status[r] # "EXECUTING"

\* The inductive invariant of the store.
StoreInv ==
    /\ StoreTypeOK
    /\ DecisionMatchesStatus
    /\ ResultMatchesStatus
    /\ RecoveryUndisturbed

LegalStatusStep(r) ==
    status'[r] # status[r] =>
        \/ status[r] = NoRow /\ status'[r] = "CREATED"
        \/ status[r] \in Statuses /\ status'[r] \in transitions[status[r]]
        \/ status[r] \in Terminal /\ status'[r] = Pruned

\* Every change of a status is an edge of the transition table, the creation of a
\* row or the deletion of a terminal one.  ExpireOutstanding, recoverInterrupted
\* and migrateLocalOnly update the column without consulting the table.
LegalStatusSteps == [][\A r \in Requests : LegalStatusStep(r)]_storeVars

FinalDecisionStep(r) ==
    approval[r].decision # "none" =>
        /\ approval'[r].decision = approval[r].decision
        /\ approval'[r].id = approval[r].id
        /\ approval[r].consumed = "yes" => approval'[r].consumed = "yes"
        /\ status'[r] \in Statuses

\* A decision is final: whoever decides, retries, prunes or restarts, a decided
\* request keeps its row, its decision and its approval ID, and a consumed
\* approval never becomes usable again.
DecisionsAreFinal == [][\A r \in Requests : FinalDecisionStep(r)]_storeVars
===============================================================================
