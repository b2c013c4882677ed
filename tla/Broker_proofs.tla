----------------------------- MODULE Broker_proofs -----------------------------
(***************************************************************************)
(* What holds of the store and of the daemon on it, for every set of       *)
(* requests, calls and legacy rows and every bound.  The store's invariant *)
(* carries over because every step of the daemon is a step of the store or *)
(* leaves it alone.                                                        *)
(*                                                                         *)
(* BrokerInv comes first, with at-most-once execution.  On top of it:      *)
(*   ReportInv     what callers were told and what the events say is true; *)
(*   WorkInv       approved work is always in somebody's hands;            *)
(*   ConfirmedInv  what ran is what root confirmed;                        *)
(* and the refinement of Authorization.                                    *)
(***************************************************************************)
EXTENDS Broker, TLAPS

-----------------------------------------------------------------------------
(* The store, under any caller: what holds of the tables for every sequence  *)
(* of store calls, restarts and interrupted recoveries.                      *)

\* The rows an empty or a remote-era database holds satisfy the invariant.
LEMMA StoreInitInv == StoreInit => StoreInv
<1> SUFFICES ASSUME StoreInit PROVE StoreInv
  OBVIOUS
<1>1. Submitted \in Bodies
  BY DEF Submitted, Bodies, Versions
<1>2. \A s : LegacyExecution(s) \in Executions
  BY DEF LegacyExecution, NoExecution, OpenExecution, Executions, Exits, Signals
<1>3. status \in [Requests -> Statuses \cup {NoRow, Pruned}]
  BY DEF StoreInit, LegacyStatuses, Statuses, NoRow, Pruned
<1>4. StoreTypeOK
  BY <1>1, <1>2, <1>3 DEF StoreInit, StoreTypeOK, EventTypes
<1>5. \A r \in Requests : status[r] \in LegacyStatuses \cup {NoRow}
  BY DEF StoreInit
<1>6. DecisionMatchesStatus
  BY <1>5 DEF StoreInit, DecisionMatchesStatus, LegacyApproval, LegacyStatuses,
              NoApproval, Started, NoRow, Pruned
<1>7. ResultMatchesStatus
  BY <1>5 DEF StoreInit, ResultMatchesStatus, LegacyExecution, LegacyStatuses,
              NoExecution, OpenExecution, Started, NoRow
<1> QED
  BY <1>4, <1>6, <1>7 DEF StoreInit, StoreInv, RecoveryUndisturbed

\* Setting consumed_at, and damaging the hash, leave the rest of an approval.
LEMMA ApprovalUpdates ==
    ASSUME NEW a \in Approvals
    PROVE  /\ [a EXCEPT !.consumed = "yes"] \in Approvals
           /\ [a EXCEPT !.consumed = "yes"].consumed = "yes"
           /\ [a EXCEPT !.consumed = "yes"].decision = a.decision
           /\ [a EXCEPT !.consumed = "yes"].id = a.id
           /\ [a EXCEPT !.hash = "other"] \in Approvals
           /\ [a EXCEPT !.hash = "other"].decision = a.decision
           /\ [a EXCEPT !.hash = "other"].id = a.id
           /\ [a EXCEPT !.hash = "other"].consumed = a.consumed
  BY DEF Approvals, Versions

\* A call of an open store preserves the invariant.
LEMMA OperationInv ==
    ASSUME StoreInv, handle = "open", NEW r \in Requests,
           Operation(r) \/ \E e \in Exits, s \in Signals : FinishExecution(r, e, s)
    PROVE  StoreInv'
<1> USE DEF StoreInv, StoreTypeOK, DecisionMatchesStatus, ResultMatchesStatus,
            RecoveryUndisturbed, Started, Statuses, NoRow, Pruned
<1>1. CASE Create(r)
  BY <1>1 DEF Create, Submitted, Bodies, Versions
<1>2. ASSUME NEW t \in TransitionCalls, Transition(r, t[1], t[2])
      PROVE  StoreInv'
  BY <1>2 DEF Transition, CanTransition, TransitionCalls
<1>3. ASSUME NEW d \in Decisions, NEW id \in ApprovalIds, NEW h \in Versions,
             AcceptApproval(r, d, id, h)
      PROVE  StoreInv'
  BY <1>3 DEF AcceptApproval, CanAccept, CanTransition, DecidedStatus, Decisions,
              Approvals
<1>4. CASE BeginExecution(r)
  <2> DEFINE used == [approval[r] EXCEPT !.consumed = "yes"]
  <2>1. used \in Approvals /\ used.consumed = "yes" /\ used.decision = approval[r].decision
    BY ApprovalUpdates
  <2>2. approval' = [approval EXCEPT ![r] = used]
    BY <1>4 DEF BeginExecution
  <2> HIDE DEF used
  <2> QED
    BY <1>4, <2>1, <2>2 DEF BeginExecution, CanBegin, CanTransition, OpenExecution,
              Executions, Exits, Signals
<1>5. ASSUME NEW e \in Exits, NEW s \in Signals, FinishExecution(r, e, s)
      PROVE  StoreInv'
  BY <1>5 DEF FinishExecution, FinishedStatus, CanTransition, Executions
<1>6. ASSUME NEW type \in EventTypes, RecordSecurityEvent(type, r)
      PROVE  StoreInv'
  BY <1>6 DEF RecordSecurityEvent
<1> QED
  BY <1>1, <1>2, <1>3, <1>4, <1>5, <1>6 DEF Operation

\* So do the clock and damage to the database file.
LEMMA EnvironmentInv ==
    ASSUME StoreInv, NEW r \in Requests, Environment(r)
    PROVE  StoreInv'
<1> USE DEF StoreInv, StoreTypeOK, DecisionMatchesStatus, ResultMatchesStatus,
            RecoveryUndisturbed
<1>1. CASE TimePasses(r)
  BY <1>1 DEF TimePasses
<1>2. CASE DamageJson(r) \/ DamageHash(r)
  BY <1>2 DEF DamageJson, DamageHash, Bodies, Versions
<1>3. CASE DamageApproval(r)
  <2> DEFINE spoilt == [approval[r] EXCEPT !.hash = "other"]
  <2>1. /\ spoilt \in Approvals /\ spoilt.decision = approval[r].decision
        /\ spoilt.consumed = approval[r].consumed
    BY ApprovalUpdates
  <2>2. approval' = [approval EXCEPT ![r] = spoilt]
    BY <1>3 DEF DamageApproval
  <2> HIDE DEF spoilt
  <2> QED
    BY <1>3, <2>1, <2>2 DEF DamageApproval
<1> QED
  BY <1>1, <1>2, <1>3 DEF Environment

\* The statements that update or delete many rows at once preserve it too.
LEMMA BulkInv ==
    ASSUME StoreInv,
           \/ ExpireOutstanding
           \/ \E ids \in SUBSET Prunable : Prune(ids)
           \/ RecoverStatuses
           \/ RecoverExecutions
           \/ MigrateLocalOnly
           \/ Close
    PROVE  StoreInv'
<1> USE DEF StoreInv, StoreTypeOK, DecisionMatchesStatus, ResultMatchesStatus,
            RecoveryUndisturbed, Started, Statuses, NoRow, Pruned
<1>1. CASE ExpireOutstanding
  BY <1>1 DEF ExpireOutstanding, Expirable
<1>2. ASSUME NEW ids \in SUBSET Prunable, Prune(ids) PROVE StoreInv'
  BY <1>2 DEF Prune, CanPrune, Prunable, NoExecution, Executions, Exits, Signals
<1>3. CASE RecoverStatuses
  BY <1>3 DEF RecoverStatuses
<1>4. CASE RecoverExecutions
  BY <1>4 DEF RecoverExecutions, Executions, Signals
<1>5. CASE MigrateLocalOnly
  BY <1>5 DEF MigrateLocalOnly, RemotePending
<1>6. CASE Close
  BY <1>6 DEF Close
<1> QED
  BY <1>1, <1>2, <1>3, <1>4, <1>5, <1>6

\* The invariant is inductive over the calls of state.go.
LEMMA StoreStepInv == StoreInv /\ [StoreNext]_storeVars => StoreInv'
<1> SUFFICES ASSUME StoreInv, [StoreNext]_storeVars PROVE StoreInv'
  OBVIOUS
<1>1. CASE UNCHANGED storeVars
  BY <1>1 DEF storeVars, StoreInv, StoreTypeOK, DecisionMatchesStatus,
              ResultMatchesStatus, RecoveryUndisturbed
<1>2. CASE StoreNext
  BY <1>2, OperationInv, EnvironmentInv, BulkInv DEF StoreNext, Routine
<1> QED
  BY <1>1, <1>2

\* For every set of requests, the status column, the approvals and the executions
\* agree after every store call, and Open's recovery is not disturbed.
THEOREM StoreCorrect == StoreSpec => []StoreInv
  BY StoreInitInv, StoreStepInv, PTL DEF StoreSpec

\* In particular the approvals agree with the statuses.
THEOREM DecisionsCorrect == StoreSpec => []DecisionMatchesStatus
<1>1. StoreInv => DecisionMatchesStatus
  BY DEF StoreInv
<1> QED
  BY <1>1, StoreCorrect, PTL

\* And so do the recorded results.
THEOREM ResultsCorrect == StoreSpec => []ResultMatchesStatus
<1>1. StoreInv => ResultMatchesStatus
  BY DEF StoreInv
<1> QED
  BY <1>1, StoreCorrect, PTL

-----------------------------------------------------------------------------
(* Steps.                                                                   *)

\* Every status change of state.go is legal, the bulk updates included.
LEMMA LegalSteps ==
    ASSUME StoreInv, [StoreNext]_storeVars, NEW r \in Requests
    PROVE  LegalStatusStep(r)
<1>0. CASE UNCHANGED storeVars
  BY <1>0 DEF storeVars, LegalStatusStep
<1> SUFFICES ASSUME StoreNext PROVE LegalStatusStep(r)
  BY <1>0
<1> USE DEF StoreInv, StoreTypeOK, LegalStatusStep, CanTransition
<1>1. CASE UNCHANGED status
  BY <1>1
<1>2. ASSUME NEW q \in Requests,
             Operation(q) \/ \E e \in Exits, s \in Signals : FinishExecution(q, e, s)
      PROVE  LegalStatusStep(r)
  BY <1>2 DEF Operation, Create, Transition, AcceptApproval, CanAccept,
            BeginExecution, CanBegin, FinishExecution, RecordSecurityEvent,
            TransitionCalls, Statuses, NoRow, Pruned
<1>3. CASE ExpireOutstanding
  BY <1>3 DEF ExpireOutstanding, Expirable, transitions, Statuses
<1>4. ASSUME NEW ids \in SUBSET Prunable, Prune(ids) PROVE LegalStatusStep(r)
  BY <1>4 DEF Prune, Prunable
<1>5. CASE RecoverStatuses
  BY <1>5 DEF RecoverStatuses, transitions, Statuses
<1>6. CASE MigrateLocalOnly
  BY <1>6 DEF MigrateLocalOnly, RemotePending, transitions, Statuses
<1>7. ASSUME NEW q \in Requests, Environment(q) PROVE UNCHANGED status
  BY <1>7 DEF Environment, TimePasses, DamageJson, DamageHash, DamageApproval
<1>8. CASE RecoverExecutions \/ Close
  BY <1>1, <1>8 DEF RecoverExecutions, Close
<1> QED
  BY <1>1, <1>2, <1>3, <1>4, <1>5, <1>6, <1>7, <1>8 DEF StoreNext, Routine

\* So the calls of the store follow the transition table.
THEOREM StatusStepsLegal == StoreSpec => LegalStatusSteps
<1>1. StoreInv /\ [StoreNext]_storeVars =>
         [\A r \in Requests : LegalStatusStep(r)]_storeVars
  BY LegalSteps
<1> QED
  BY <1>1, StoreCorrect, PTL DEF StoreSpec, LegalStatusSteps

\* No call of state.go, restart or damage takes a decision back, changes its ID,
\* makes a consumed approval usable again or deletes a decided request.
LEMMA FinalSteps ==
    ASSUME StoreInv, [StoreNext]_storeVars, NEW r \in Requests
    PROVE  FinalDecisionStep(r)
<1> SUFFICES ASSUME approval[r].decision # "none" PROVE FinalDecisionStep(r)
  BY DEF FinalDecisionStep
<1>2. status[r] \in Statuses
  BY DEF StoreInv, StoreTypeOK, DecisionMatchesStatus
<1> USE <1>2 DEF FinalDecisionStep
<1>3. ASSUME UNCHANGED approval, status'[r] \in Statuses PROVE FinalDecisionStep(r)
  BY <1>3
<1>4. ASSUME NEW q \in Requests,
             Operation(q) \/ \E e \in Exits, s \in Signals : FinishExecution(q, e, s)
      PROVE  FinalDecisionStep(r)
  <2>1. CASE Create(q)
    BY <2>1, <1>3 DEF Create, Statuses, StoreInv, StoreTypeOK
  <2>2. ASSUME NEW t \in TransitionCalls, Transition(q, t[1], t[2])
        PROVE  FinalDecisionStep(r)
    BY <2>2, <1>3 DEF Transition, TransitionCalls, Statuses, StoreInv,
                            StoreTypeOK
  <2>3. ASSUME NEW d \in Decisions, NEW id \in ApprovalIds, NEW h \in Versions,
               AcceptApproval(q, d, id, h)
        PROVE  FinalDecisionStep(r)
    BY <2>3 DEF AcceptApproval, CanAccept, DecidedStatus, Statuses,
                      StoreInv, StoreTypeOK
  <2>4. CASE BeginExecution(q)
    <3> DEFINE used == [approval[q] EXCEPT !.consumed = "yes"]
    <3>1. /\ used.consumed = "yes" /\ used.decision = approval[q].decision
          /\ used.id = approval[q].id
      BY ApprovalUpdates DEF StoreInv, StoreTypeOK
    <3>2. approval' = [approval EXCEPT ![q] = used]
      BY <2>4 DEF BeginExecution
    <3> HIDE DEF used
    <3> QED
      BY <2>4, <3>1, <3>2 DEF BeginExecution, Statuses, StoreInv, StoreTypeOK
  <2>5. ASSUME NEW e \in Exits, NEW s \in Signals, FinishExecution(q, e, s)
        PROVE  FinalDecisionStep(r)
    BY <2>5, <1>3 DEF FinishExecution, FinishedStatus, Statuses, StoreInv,
                            StoreTypeOK
  <2>6. ASSUME NEW type \in EventTypes, RecordSecurityEvent(type, q)
        PROVE  FinalDecisionStep(r)
    BY <2>6, <1>3 DEF RecordSecurityEvent
  <2> QED
    BY <1>4, <2>1, <2>2, <2>3, <2>4, <2>5, <2>6 DEF Operation
<1>5. CASE ExpireOutstanding \/ RecoverStatuses \/ MigrateLocalOnly
  BY <1>5, <1>3 DEF ExpireOutstanding, RecoverStatuses, MigrateLocalOnly, Statuses
<1>6. CASE RecoverExecutions \/ Close
  BY <1>6, <1>3 DEF RecoverExecutions, Close
<1>7. ASSUME NEW ids \in SUBSET Prunable, Prune(ids) PROVE FinalDecisionStep(r)
  BY <1>7, <1>3 DEF Prune, CanPrune
<1>8. ASSUME NEW q \in Requests, Environment(q) PROVE FinalDecisionStep(r)
  <2>1. CASE TimePasses(q) \/ DamageJson(q) \/ DamageHash(q)
    BY <2>1, <1>3 DEF TimePasses, DamageJson, DamageHash
  <2>2. CASE DamageApproval(q)
    <3> DEFINE spoilt == [approval[q] EXCEPT !.hash = "other"]
    <3>1. /\ spoilt.consumed = approval[q].consumed
          /\ spoilt.decision = approval[q].decision /\ spoilt.id = approval[q].id
      BY ApprovalUpdates DEF StoreInv, StoreTypeOK
    <3>2. approval' = [approval EXCEPT ![q] = spoilt]
      BY <2>2 DEF DamageApproval
    <3> HIDE DEF spoilt
    <3> QED
      BY <2>2, <3>1, <3>2 DEF DamageApproval, StoreInv, StoreTypeOK
  <2> QED
    BY <1>8, <2>1, <2>2 DEF Environment
<1>9. CASE UNCHANGED storeVars
  BY <1>9, <1>3 DEF storeVars
<1> QED
  BY <1>4, <1>5, <1>6, <1>7, <1>8, <1>9 DEF StoreNext, Routine

\* So a decision is final.
THEOREM DecisionsFinal == StoreSpec => DecisionsAreFinal
<1>1. StoreInv /\ [StoreNext]_storeVars =>
         [\A r \in Requests : FinalDecisionStep(r)]_storeVars
  BY FinalSteps
<1> QED
  BY <1>1, StoreCorrect, PTL DEF StoreSpec, DecisionsAreFinal

-----------------------------------------------------------------------------
(* The daemon.                                                               *)

\* A running process means a serving daemon with an open store.
LEMMA Serving ==
    ASSUME OnlyWhileServing,
           \/ pruning # {}
           \/ \E r \in Requests : sub[r] \notin {"idle", "done"}
           \/ \E c \in Calls : at[c] \notin Finished
           \/ \E g \in Goroutines : pc[g] # "idle"
    PROVE  boot = "serving" /\ handle = "open"
  BY DEF OnlyWhileServing

\* The request of a goroutine that was spawned.
LEMMA ReqOfRequest ==
    ASSUME Arguments, NEW g \in Goroutines, pc[g] # "idle"
    PROVE  ReqOf(g) \in Requests
  BY DEF Arguments, ReqOf, Goroutines

\* A status change the handlers and goroutines ask for, whether or not it commits.
LEMMA TryStep ==
    ASSUME handle = "open", NEW r \in Requests, NEW n, NEW e,
           <<n, e>> \in TransitionCalls, OrFails(TryTransition(r, n, e))
    PROVE  [Routine]_storeVars
<1>1. CASE Transition(r, n, e)
  <2>1. \E t \in TransitionCalls : Transition(r, t[1], t[2])
    BY <1>1
  <2> QED
    BY <2>1 DEF Routine, Operation
<1> QED
  BY <1>1 DEF OrFails, TryTransition

\* An event that is recorded or lost.
LEMMA EventStep ==
    ASSUME handle = "open", NEW r \in Requests, NEW type \in EventTypes,
           OrFails(RecordSecurityEvent(type, r))
    PROVE  [Routine]_storeVars
  BY DEF OrFails, Routine, Operation

\* The steps of the daemon that Routine does not cover.
FinishStep ==
    \E g \in Goroutines : /\ ExecuteFinish(g) /\ ReqOf(g) \in Requests
                          /\ FinishExecution(ReqOf(g), result[g].exit, result[g].signal)
PruneStep == PruneDelete /\ Prune(pruning)

\* The daemon uses the store only through its operations, and only while it is
\* open: the handlers, the goroutines, startup and maintenance of service.go and
\* main.go are callers of the store specification.
LEMMA DaemonSteps ==
    ASSUME BrokerInv, Next
    PROVE  \/ [Routine]_storeVars
           \/ OpenStore
           \/ FinishStep /\ handle = "open"
           \/ PruneStep /\ handle = "open"
<1> DEFINE Goal == \/ [Routine]_storeVars
                   \/ OpenStore
                   \/ FinishStep /\ handle = "open"
                   \/ PruneStep /\ handle = "open"
<1> SUFFICES Goal
  OBVIOUS
<1>1. CASE OpenStore
  BY <1>1
<1>2. CASE Crash
  BY <1>2 DEF Crash, Routine
<1>3. CASE RecoverExpire \/ RecoverApproved \/ ExpireTick
  BY <1>3 DEF RecoverExpire, RecoverApproved, ExpireTick, Routine, BrokerInv,
              OnlyWhileServing
<1>4. ASSUME NEW r \in Requests, Submit(r) PROVE [Routine]_storeVars
  <2>1. CASE SubmitEvaluate(r)
    BY <2>1 DEF SubmitEvaluate, Routine, BrokerInv, OnlyWhileServing
  <2>2. CASE SubmitCreate(r)
    BY <2>2, Serving DEF SubmitCreate, Routine, Operation, BrokerInv
  <2>3. CASE SubmitEnter(r)
    <3>1. handle = "open"
      BY <2>3, Serving DEF SubmitEnter, BrokerInv
    <3> QED
      BY <2>3, <3>1, TryStep DEF SubmitEnter, TransitionCalls
  <2>4. CASE SubmitRefuse(r)
    BY <2>4 DEF SubmitRefuse
  <2> QED
    BY <1>4, <2>1, <2>2, <2>3, <2>4 DEF Submit
<1>5. ASSUME NEW c \in Calls, NEW r \in Requests, NEW a \in Actors,
             \/ \E kind \in Decisions, echo \in Versions : Decide(c, kind, a, r, echo)
             \/ Cancel(c, a, r)
      PROVE  [Routine]_storeVars
  BY <1>5 DEF Decide, Cancel, Routine, BrokerInv, OnlyWhileServing
<1>6. ASSUME NEW c \in Calls, Handler(c) \/ CallStoreError(c)
      PROVE  [Routine]_storeVars
  <2>1. handle = "open" /\ args[c].req \in Requests
    <3>1. at[c] \notin Finished
      BY <1>6 DEF Handler, CallStoreError, DecideGet, DecideReject, DecideReport,
                  DecideAccept, DecideRecord, DecideExisting, CancelCommit, Finished
    <3> QED
      BY <3>1, Serving DEF BrokerInv, Arguments, Finished
  <2>2. CASE DecideGet(c) \/ DecideExisting(c) \/ CallStoreError(c)
    BY <2>2 DEF DecideGet, DecideExisting, CallStoreError
  <2>3. CASE DecideReject(c)
    BY <2>1, <2>3, TryStep DEF DecideReject, TransitionCalls
  <2>4. CASE DecideReport(c)
    BY <2>1, <2>4, EventStep DEF DecideReport, EventTypes
  <2>5. CASE DecideAccept(c)
    <3>1. args[c].kind \in Decisions /\ seen[c].body.hash \in Versions
      BY <2>5 DEF DecideAccept, BrokerInv, Arguments, Finished, ProcessTypeOK, Rows,
                  Bodies
    <3> QED
      BY <2>1, <2>5, <3>1 DEF DecideAccept, Routine, Operation, Calls
  <2>6. CASE DecideRecord(c)
    BY <2>1, <2>6, EventStep DEF DecideRecord, EventTypes
  <2>7. CASE CancelCommit(c)
    <3>1. <<"CANCELLED", seen[c].status>> \in TransitionCalls
      BY <2>7 DEF CancelCommit, BrokerInv, Arguments, TransitionCalls
    <3>2. CASE Transition(args[c].req, "CANCELLED", seen[c].status)
      BY <2>1, <3>1, <3>2, TryStep DEF OrFails, TryTransition, Routine, Operation
    <3> QED
      BY <2>7, <3>2 DEF CancelCommit
  <2> QED
    BY <1>6, <2>2, <2>3, <2>4, <2>5, <2>6, <2>7 DEF Handler
<1>7. ASSUME NEW g \in Goroutines,
             Execute(g) \/ ExecuteLoadError(g) \/ ExecutionTimer(g) \/ CommandExits(g)
      PROVE  Goal
  <2>1. handle = "open" /\ ReqOf(g) \in Requests
    <3>1. pc[g] # "idle"
      BY <1>7 DEF Execute, ExecuteLoadError, ExecutionTimer, CommandExits,
                  ExecuteEnter, ExecuteLoad, ExecuteApproval, ExecuteRecheck,
                  ExecuteExpire, ExecuteReject, ExecuteReport, ExecuteBegin,
                  ExecuteStart, ExecuteReap, ExecuteFinish, ExecuteLeave
    <3> QED
      BY <3>1, Serving, ReqOfRequest DEF BrokerInv
  <2>2. CASE UNCHANGED storeVars
    BY <2>2
  <2>3. CASE ExecuteExpire(g)
    BY <2>1, <2>3, TryStep DEF ExecuteExpire, TransitionCalls
  <2>4. CASE ExecuteReject(g)
    BY <2>1, <2>4, TryStep DEF ExecuteReject, TransitionCalls
  <2>5. CASE ExecuteReport(g)
    BY <2>1, <2>5, EventStep DEF ExecuteReport, BrokerInv, Arguments
  <2>6. CASE ExecuteBegin(g)
    BY <2>1, <2>6 DEF ExecuteBegin, Routine, Operation
  <2>7. CASE ExecuteFinish(g)
    BY <2>1, <2>7 DEF ExecuteFinish, OrFails, FinishStep
  <2> QED
    BY <1>7, <2>2, <2>3, <2>4, <2>5, <2>6, <2>7
    DEF Execute, ExecuteLoadError, ExecutionTimer, CommandExits, ExecuteEnter,
        ExecuteLoad, ExecuteApproval, ExecuteRecheck, ExecuteStart, ExecuteReap,
        ExecuteLeave
<1>8. ASSUME NEW ids \in SUBSET Prunable \ {{}}, PruneSelect(ids)
      PROVE  [Routine]_storeVars
  BY <1>8 DEF PruneSelect
<1>9. CASE PruneDelete
  BY <1>9, Serving DEF PruneDelete, OrFails, PruneStep, BrokerInv
<1>10. ASSUME NEW r \in Requests, ClockPasses(r) \/ Damage(r) \/ VerdictChanges(r)
       PROVE  [Routine]_storeVars
  BY <1>10 DEF ClockPasses, Damage, VerdictChanges, Routine, Environment
<1> QED
  BY <1>1, <1>2, <1>3, <1>4, <1>5, <1>6, <1>7, <1>8, <1>9, <1>10 DEF Next

\* So every step of the daemon is a step of the store.
LEMMA StoreSteps == BrokerInv /\ [Next]_vars => [StoreNext]_storeVars
<1> SUFFICES ASSUME BrokerInv, [Next]_vars PROVE [StoreNext]_storeVars
  OBVIOUS
<1>1. CASE UNCHANGED vars
  BY <1>1 DEF vars
<1>2. CASE Next
  <2>1. FinishStep => \E r \in Requests, e \in Exits, s \in Signals :
                         FinishExecution(r, e, s)
    BY DEF FinishStep, BrokerInv, ProcessTypeOK, Results
  <2>2. PruneStep => \E ids \in SUBSET Prunable : Prune(ids)
    BY DEF PruneStep, BrokerInv, SelectionHolds
  <2> QED
    BY <1>2, <2>1, <2>2, DaemonSteps DEF StoreNext, OpenStore
<1> QED
  BY <1>1, <1>2

-----------------------------------------------------------------------------
(* The invariant is inductive.  One lemma per part, one step per action.     *)

\* What handlers and goroutines start from.
LEMMA InitialValues ==
    /\ NoArgs \in ArgSets /\ Unseen \in Rows /\ Submitted \in Bodies
    /\ NoResult \in Results
  BY DEF NoArgs, ArgSets, Kinds, Actors, Unseen, Rows, Submitted, Bodies, Versions,
         NoResult, Results, Exits, Signals

\* The bounds count down to zero.
LEMMA SpendType ==
    ASSUME left \in [Bounds -> Nat]
    PROVE  /\ Spend("crashes") => left' \in [Bounds -> Nat]
           /\ Spend("faults") => left' \in [Bounds -> Nat]
           /\ Spend("damages") => left' \in [Bounds -> Nat]
           /\ Spend("changes") => left' \in [Bounds -> Nat]
  BY DEF Spend

\* The daemon's variables keep their types.
LEMMA ProcessTypes == ASSUME BrokerInv, Next PROVE ProcessTypeOK'
<1> USE DEF BrokerInv, ProcessTypeOK, brokerVars, callVars, workVars, runVars,
            OrFails, Goto, Return, Jump, Spawn
<1>0. left' = left \/ Spend("crashes") \/ Spend("faults") \/ Spend("damages")
        \/ Spend("changes") => left' \in [Bounds -> Nat]
  BY SpendType
<1> USE <1>0
<1>1. CASE OpenStore \/ ExpireTick
  BY <1>1 DEF OpenStore, ExpireTick
<1>2. CASE RecoverExpire \/ RecoverApproved
  BY <1>2 DEF RecoverExpire, RecoverApproved, WorkPCs
<1>3. CASE Crash
  BY <1>3, InitialValues DEF Crash, SubPCs, CallPCs, Finished, WorkPCs
<1>4. ASSUME NEW r \in Requests, Submit(r) PROVE ProcessTypeOK'
  BY <1>4 DEF Submit, SubmitEvaluate, SubmitCreate, SubmitEnter, SubmitRefuse, SubPCs, Verdicts
<1>5. ASSUME NEW c \in Calls, NEW r \in Requests, NEW a \in Actors,
             \/ \E kind \in Decisions, echo \in Versions : Decide(c, kind, a, r, echo)
             \/ Cancel(c, a, r)
      PROVE  ProcessTypeOK'
  <2>1. [status |-> status[r], body |-> stored[r]] \in Rows
    BY DEF StoreInv, StoreTypeOK, Rows
  <2>2. ASSUME NEW kind \in Decisions, NEW echo \in Versions, Decide(c, kind, a, r, echo)
        PROVE  ProcessTypeOK'
    <3>1. [kind |-> kind, actor |-> a, req |-> r, echo |-> echo] \in ArgSets
      BY DEF ArgSets, Kinds, Decisions
    <3> QED
      BY <2>2, <3>1 DEF Decide, CallPCs, Finished
  <2>3. CASE Cancel(c, a, r)
    <3>1. [kind |-> "cancel", actor |-> a, req |-> r, echo |-> "submitted"] \in ArgSets
      BY DEF ArgSets, Kinds, Versions
    <3> QED
      BY <2>1, <2>3, <3>1, InitialValues DEF Cancel, CallPCs, Finished
  <2> QED
    BY <1>5, <2>2, <2>3
<1>6. ASSUME NEW c \in Calls, Handler(c) \/ CallStoreError(c)
      PROVE  ProcessTypeOK'
  <2> USE InitialValues DEF CallPCs, Finished, WorkPCs
  <2>1. c \in Goroutines /\ c \in ApprovalIds
    BY DEF Goroutines, Calls
  <2>2. at[c] # "idle" => args[c].req \in Requests
    BY DEF Arguments
  <2>3. CASE DecideGet(c)
    <3>1. [status |-> status[args[c].req], body |-> stored[args[c].req]] \in Rows
      BY <2>2, <2>3 DEF DecideGet, StoreInv, StoreTypeOK, Rows
    <3> QED
      BY <2>3, <3>1 DEF DecideGet
  <2>4. CASE DecideReject(c) \/ DecideReport(c) \/ DecideAccept(c)
    BY <2>4 DEF DecideReject, DecideReport, DecideAccept
  <2>5. CASE DecideRecord(c)
    BY <2>1, <2>5 DEF DecideRecord
  <2>6. CASE DecideExisting(c)
    <3>1. approval[args[c].req].id \in ApprovalIds \cup {Nil}
      BY <2>2, <2>6 DEF DecideExisting, StoreInv, StoreTypeOK, Approvals
    <3> QED
      BY <2>1, <2>6, <3>1 DEF DecideExisting
  <2>7. CASE CancelCommit(c) \/ CallStoreError(c)
    BY <2>7 DEF CancelCommit, CallStoreError
  <2> QED
    BY <1>6, <2>3, <2>4, <2>5, <2>6, <2>7 DEF Handler
<1>7. ASSUME NEW g \in Goroutines,
             Execute(g) \/ ExecuteLoadError(g) \/ ExecutionTimer(g) \/ CommandExits(g)
      PROVE  ProcessTypeOK'
  <2> USE DEF WorkPCs
  <2>1. ReqOf(g) \in Requests
    <3>1. pc[g] # "idle"
      BY <1>7 DEF Execute, ExecuteLoadError, ExecutionTimer, CommandExits,
                  ExecuteEnter, ExecuteLoad, ExecuteApproval, ExecuteRecheck,
                  ExecuteExpire, ExecuteReject, ExecuteReport, ExecuteBegin,
                  ExecuteStart, ExecuteReap, ExecuteFinish, ExecuteLeave
    <3> QED
      BY <3>1, ReqOfRequest
  <2>2. CASE ExecuteEnter(g) \/ ExecuteRecheck(g) \/ ExecuteExpire(g)
             \/ ExecuteReject(g) \/ ExecuteReport(g) \/ ExecuteBegin(g)
             \/ ExecuteFinish(g) \/ ExecuteLoadError(g) \/ ExecutionTimer(g)
    BY <2>1, <2>2 DEF ExecuteEnter, ExecuteRecheck, ExecuteExpire, ExecuteReject,
              ExecuteReport, ExecuteBegin, ExecuteFinish, ExecuteLoadError,
              ExecutionTimer
  <2>3. CASE ExecuteLoad(g) \/ ExecuteApproval(g)
    BY <2>1, <2>3 DEF ExecuteLoad, ExecuteApproval, EventTypes, StoreInv, StoreTypeOK
  <2>4. CASE ExecuteStart(g)
    <3>1. item[g].json \in Versions
      BY DEF Bodies
    <3>2. [exit |-> "nonzero", signal |-> "none"] \in Results
      BY DEF Results, Exits, Signals
    <3>3. starts[ReqOf(g)] + 1 \in Nat
      BY <2>1
    <3> QED
      BY <2>1, <2>4, <3>1, <3>2, <3>3 DEF ExecuteStart
  <2>5. CASE CommandExits(g) \/ ExecuteReap(g)
    <3>1. {[exit |-> "zero", signal |-> "none"], [exit |-> "nonzero", signal |-> "none"],
           [exit |-> "none", signal |-> "signal"],
           [exit |-> result[g].exit, signal |-> "EXECUTION_TIMEOUT"]} \subseteq Results
      BY DEF Results, Exits, Signals
    <3> QED
      BY <2>5, <3>1 DEF CommandExits, ExecuteReap
  <2>6. CASE ExecuteLeave(g)
    BY <2>6, InitialValues DEF ExecuteLeave
  <2> QED
    BY <1>7, <2>2, <2>3, <2>4, <2>5, <2>6 DEF Execute
<1>8. ASSUME NEW ids \in SUBSET Prunable \ {{}}, PruneSelect(ids)
      PROVE  ProcessTypeOK'
  BY <1>8 DEF PruneSelect, Prunable
<1>9. CASE PruneDelete
  BY <1>9 DEF PruneDelete
<1>10. ASSUME NEW r \in Requests, ClockPasses(r) \/ Damage(r) \/ VerdictChanges(r)
       PROVE  ProcessTypeOK'
  BY <1>10 DEF ClockPasses, Damage, VerdictChanges
<1> QED
  BY <1>1, <1>2, <1>3, <1>4, <1>5, <1>6, <1>7, <1>8, <1>9, <1>10 DEF Next

\* Processes exist only while the daemon serves, and know their request.
LEMMA Control == ASSUME BrokerInv, Next PROVE OnlyWhileServing' /\ Arguments'
<1> USE DEF BrokerInv, ProcessTypeOK, OnlyWhileServing, Arguments, brokerVars, callVars,
            workVars, runVars, storeVars, Goto, Return, Jump, Spawn, Finished
<1>0. \A c \in Calls : c \in Goroutines
  BY DEF Goroutines
<1> USE <1>0
<1>1. CASE OpenStore \/ RecoverExpire \/ ExpireTick
  BY <1>1 DEF OpenStore, RecoverExpire, ExpireTick, RecoverStatuses,
              RecoverExecutions, MigrateLocalOnly, ExpireOutstanding
<1>2. CASE RecoverApproved
  BY <1>2, BrokerAssumption DEF RecoverApproved, Calls, Goroutines
<1>3. CASE Crash
  BY <1>3 DEF Crash, Close, Unseen, Goroutines
<1>4. ASSUME NEW r \in Requests, Submit(r) PROVE OnlyWhileServing' /\ Arguments'
  BY <1>4 DEF Submit, SubmitEvaluate, SubmitCreate, SubmitEnter, SubmitRefuse, OrFails,
              TryTransition, Transition, Create, ExpireOutstanding
<1>5. ASSUME NEW c \in Calls, NEW r \in Requests, NEW a \in Actors,
             \/ \E kind \in Decisions, echo \in Versions : Decide(c, kind, a, r, echo)
             \/ Cancel(c, a, r)
      PROVE  OnlyWhileServing' /\ Arguments'
  <2>1. ASSUME NEW kind \in Decisions, NEW echo \in Versions, Decide(c, kind, a, r, echo)
        PROVE  OnlyWhileServing' /\ Arguments'
    BY <2>1 DEF Decide, ExpireOutstanding
  <2>2. CASE Cancel(c, a, r)
    BY <2>2 DEF Cancel, Unseen
  <2> QED
    BY <1>5, <2>1, <2>2
<1>6. ASSUME NEW c \in Calls, Handler(c) \/ CallStoreError(c)
      PROVE  OnlyWhileServing' /\ Arguments'
  <2>1. c \in Goroutines
    BY DEF Goroutines
  <2>2. CASE DecideGet(c)
    BY <2>2 DEF DecideGet
  <2>3. CASE DecideReject(c)
    BY <2>3 DEF DecideReject, OrFails, TryTransition, Transition
  <2>4. CASE DecideReport(c)
    BY <2>4 DEF DecideReport, OrFails, RecordSecurityEvent
  <2>5. CASE DecideAccept(c)
    BY <2>5 DEF DecideAccept, AcceptApproval
  <2>6. CASE DecideRecord(c)
    BY <2>1, <2>6 DEF DecideRecord, OrFails, RecordSecurityEvent
  <2>7. CASE DecideExisting(c)
    BY <2>1, <2>7 DEF DecideExisting
  <2>8. CASE CancelCommit(c) \/ CallStoreError(c)
    BY <2>8 DEF CancelCommit, CallStoreError, Transition
  <2> QED
    BY <1>6, <2>2, <2>3, <2>4, <2>5, <2>6, <2>7, <2>8 DEF Handler
<1>7. ASSUME NEW g \in Goroutines,
             Execute(g) \/ ExecuteLoadError(g) \/ ExecutionTimer(g) \/ CommandExits(g)
      PROVE  OnlyWhileServing' /\ Arguments'
  <2>1. CASE ExecuteEnter(g) \/ ExecuteRecheck(g) \/ ExecuteStart(g)
             \/ ExecuteReap(g) \/ ExecuteLeave(g) \/ ExecuteLoadError(g)
             \/ ExecutionTimer(g) \/ CommandExits(g)
    BY <2>1 DEF ExecuteEnter, ExecuteRecheck, ExecuteStart, ExecuteReap,
                ExecuteLeave, ExecuteLoadError, ExecutionTimer, CommandExits
  <2>2. CASE ExecuteLoad(g) \/ ExecuteApproval(g)
    BY <2>2 DEF ExecuteLoad, ExecuteApproval
  <2>3. CASE ExecuteExpire(g) \/ ExecuteReject(g)
    BY <2>3 DEF ExecuteExpire, ExecuteReject, OrFails, TryTransition, Transition
  <2>4. CASE ExecuteReport(g)
    BY <2>4 DEF ExecuteReport, OrFails, RecordSecurityEvent
  <2>5. CASE ExecuteBegin(g)
    BY <2>5 DEF ExecuteBegin, BeginExecution
  <2>6. CASE ExecuteFinish(g)
    BY <2>6 DEF ExecuteFinish, OrFails, FinishExecution
  <2> QED
    BY <1>7, <2>1, <2>2, <2>3, <2>4, <2>5, <2>6 DEF Execute
<1>8. ASSUME NEW ids \in SUBSET Prunable \ {{}}, PruneSelect(ids)
      PROVE  OnlyWhileServing' /\ Arguments'
  BY <1>8 DEF PruneSelect
<1>9. CASE PruneDelete
  BY <1>9 DEF PruneDelete, OrFails, Prune
<1>10. ASSUME NEW r \in Requests, ClockPasses(r) \/ Damage(r) \/ VerdictChanges(r)
       PROVE  OnlyWhileServing' /\ Arguments'
  BY <1>10 DEF ClockPasses, Damage, VerdictChanges, TimePasses, DamageJson,
               DamageHash, DamageApproval
<1> QED
  BY <1>1, <1>2, <1>3, <1>4, <1>5, <1>6, <1>7, <1>8, <1>9, <1>10 DEF Next

\* A goroutine in charge stays with its request.
LEMMA Mutex == ASSUME BrokerInv, Next PROVE OneExecutor'
<1> USE DEF BrokerInv, ProcessTypeOK, OneExecutor, InCharge, WorkPCs, ReqOf
<1>0. /\ \A c \in Calls : c \in Goroutines
      /\ \A c \in Calls : at[c] = "idle" => pc[c] = "idle"
  BY DEF Goroutines, Arguments
<1>1. CASE UNCHANGED <<pc, executing, args>>
  BY <1>1
<1>2. CASE RecoverApproved \/ Crash
  BY <1>2 DEF RecoverApproved, Crash, OnlyWhileServing
<1>3. ASSUME NEW c \in Calls, UNCHANGED <<pc, executing>>, at[c] = "idle",
             \E v \in ArgSets : args' = [args EXCEPT ![c] = v]
      PROVE  OneExecutor'
  BY <1>0, <1>3
<1>4. ASSUME NEW c \in Calls, UNCHANGED <<executing, args>>, Spawn(c) \/ UNCHANGED pc
      PROVE  OneExecutor'
  BY <1>0, <1>4 DEF Spawn
<1>5. ASSUME NEW g \in Goroutines, NEW p \in InCharge, UNCHANGED <<executing, args>>,
             pc[g] \in InCharge, Jump(g, p)
      PROVE  OneExecutor'
  BY <1>5 DEF Jump
<1>6. ASSUME NEW g \in Goroutines, ExecuteEnter(g) PROVE OneExecutor'
  BY <1>6 DEF ExecuteEnter, Jump, callVars
<1>7. ASSUME NEW g \in Goroutines, ExecuteLeave(g) PROVE OneExecutor'
  BY <1>7 DEF ExecuteLeave, Jump, callVars
<1>8. ASSUME NEW c \in Calls, NEW r \in Requests, NEW a \in Actors,
             \/ \E kind \in Decisions, echo \in Versions : Decide(c, kind, a, r, echo)
             \/ Cancel(c, a, r)
      PROVE  OneExecutor'
  <2>1. args' \in [Calls -> ArgSets]
    BY ProcessTypes
  <2>2. args' = [args EXCEPT ![c] = args'[c]]
    BY <1>8 DEF Decide, Cancel
  <2>3. \E v \in ArgSets : args' = [args EXCEPT ![c] = v]
    BY <2>1, <2>2
  <2> QED
    BY <1>3, <1>8, <2>3 DEF Decide, Cancel, workVars
<1>9. ASSUME NEW c \in Calls, Handler(c) \/ CallStoreError(c) PROVE OneExecutor'
  <2> USE DEF callVars, workVars
  <2>1. CASE DecideRecord(c) \/ DecideExisting(c)
    BY <1>4, <2>1 DEF DecideRecord, DecideExisting
  <2>2. CASE ~(DecideRecord(c) \/ DecideExisting(c))
    BY <1>1, <1>9, <2>2 DEF Handler, CallStoreError, DecideGet, DecideReject,
                       DecideReport, DecideAccept, CancelCommit
  <2> QED
    BY <2>1, <2>2
<1>10. ASSUME NEW g \in Goroutines,
              Execute(g) \/ ExecuteLoadError(g) \/ ExecutionTimer(g) \/ CommandExits(g)
       PROVE  OneExecutor'
  <2> USE DEF callVars
  <2>1. CASE ExecutionTimer(g)
    BY <1>1, <2>1 DEF ExecutionTimer
  <2>2. CASE ExecuteLoad(g) \/ ExecuteLoadError(g) \/ ExecuteApproval(g)
             \/ ExecuteRecheck(g)
    BY <1>5, <2>2 DEF ExecuteLoad, ExecuteLoadError, ExecuteApproval, ExecuteRecheck
  <2>3. CASE ExecuteExpire(g) \/ ExecuteReject(g) \/ ExecuteReport(g)
    BY <1>5, <2>3 DEF ExecuteExpire, ExecuteReject, ExecuteReport
  <2>4. CASE ExecuteBegin(g) \/ ExecuteStart(g) \/ CommandExits(g)
             \/ ExecuteReap(g) \/ ExecuteFinish(g)
    BY <1>5, <2>4 DEF ExecuteBegin, ExecuteStart, CommandExits, ExecuteReap,
                      ExecuteFinish
  <2> QED
    BY <1>6, <1>7, <1>10, <2>1, <2>2, <2>3, <2>4 DEF Execute
<1> QED
  <2> USE DEF brokerVars, callVars, workVars
  <2>1. CASE OpenStore \/ RecoverExpire \/ ExpireTick \/ PruneDelete
    BY <1>1, <2>1 DEF OpenStore, RecoverExpire, ExpireTick, PruneDelete
  <2>2. ASSUME NEW r \in Requests,
               Submit(r) \/ ClockPasses(r) \/ Damage(r) \/ VerdictChanges(r)
        PROVE  OneExecutor'
    BY <1>1, <2>2 DEF Submit, SubmitEvaluate, SubmitCreate, SubmitEnter, SubmitRefuse, ClockPasses,
                      Damage, VerdictChanges
  <2>3. ASSUME NEW ids \in SUBSET Prunable \ {{}}, PruneSelect(ids) PROVE OneExecutor'
    BY <1>1, <2>3 DEF PruneSelect
  <2> QED
    BY <1>2, <1>8, <1>9, <1>10, <2>1, <2>2, <2>3 DEF Next

-----------------------------------------------------------------------------
(* Execution is at most once.                                                *)

\* What a routine step of the store keeps: the status of a request that was
\* started, a decision, and a row that is due for deletion.
Steady ==
    \A r \in Requests :
        /\ status[r] \in Started => status'[r] = status[r]
        /\ approval[r].decision # "none" => approval'[r].decision = approval[r].decision
        /\ r \in Prunable => r \in Prunable'

\* No approval, cancellation, expiry or rejection reaches a request that was
\* started or is terminal.
LEMMA RoutineSteady == ASSUME StoreInv, [Routine]_storeVars PROVE Steady
<1> USE DEF StoreInv, StoreTypeOK, Steady, Prunable, Started, Terminal
<1>1. CASE UNCHANGED storeVars
  BY <1>1 DEF storeVars
<1>2. ASSUME NEW q \in Requests, Operation(q) PROVE Steady
  <2>1. CASE Create(q)
    BY <2>1 DEF Create, NoRow
  <2>2. ASSUME NEW t \in TransitionCalls, Transition(q, t[1], t[2]) PROVE Steady
    BY <2>2 DEF Transition, CanTransition, TransitionCalls
  <2>3. ASSUME NEW d \in Decisions, NEW id \in ApprovalIds, NEW h \in Versions,
               AcceptApproval(q, d, id, h)
        PROVE  Steady
    BY <2>3 DEF AcceptApproval, CanAccept, CanTransition
  <2>4. CASE BeginExecution(q)
    <3> DEFINE used == [approval[q] EXCEPT !.consumed = "yes"]
    <3>1. used.decision = approval[q].decision
      BY ApprovalUpdates
    <3>2. approval' = [approval EXCEPT ![q] = used]
      BY <2>4 DEF BeginExecution
    <3> HIDE DEF used
    <3> QED
      BY <2>4, <3>1, <3>2 DEF BeginExecution, CanBegin, CanTransition
  <2>5. ASSUME NEW type \in EventTypes, RecordSecurityEvent(type, q) PROVE Steady
    BY <2>5 DEF RecordSecurityEvent
  <2> QED
    BY <1>2, <2>1, <2>2, <2>3, <2>4, <2>5 DEF Operation
<1>3. CASE ExpireOutstanding
  BY <1>3 DEF ExpireOutstanding, Expirable
<1>4. ASSUME NEW q \in Requests, Environment(q) PROVE Steady
  <2>1. CASE TimePasses(q) \/ DamageJson(q) \/ DamageHash(q)
    BY <2>1 DEF TimePasses, DamageJson, DamageHash
  <2>2. CASE DamageApproval(q)
    <3> DEFINE spoilt == [approval[q] EXCEPT !.hash = "other"]
    <3>1. spoilt.decision = approval[q].decision
      BY ApprovalUpdates
    <3>2. approval' = [approval EXCEPT ![q] = spoilt]
      BY <2>2 DEF DamageApproval
    <3> HIDE DEF spoilt
    <3> QED
      BY <2>2, <3>1, <3>2 DEF DamageApproval
  <2> QED
    BY <1>4, <2>1, <2>2 DEF Environment
<1>5. CASE Close
  BY <1>5 DEF Close
<1> QED
  BY <1>1, <1>2, <1>3, <1>4, <1>5 DEF Routine

\* A goroutine keeps its request, and becomes an owner only in BeginExecution.
Owner == {"start", "running", "exited", "finish"}

LEMMA Owners ==
    ASSUME BrokerInv, Next, NEW g \in Goroutines, pc'[g] \in Owner
    PROVE  /\ ReqOf(g) \in Requests /\ ReqOf(g)' = ReqOf(g)
           /\ \/ pc[g] \in Owner /\ (pc'[g] = "start" => pc[g] = "start")
              \/ BeginExecution(ReqOf(g)) /\ pc'[g] = "start"
<1> DEFINE Kept == /\ pc[g] # "idle" /\ ReqOf(g)' = ReqOf(g)
                   /\ \/ pc[g] \in Owner /\ (pc'[g] = "start" => pc[g] = "start")
                      \/ BeginExecution(ReqOf(g)) /\ pc'[g] = "start"
<1> USE DEF Owner, ReqOf, brokerVars, callVars, workVars, BrokerInv, ProcessTypeOK
<1>0. \A c \in Calls : at[c] = "idle" => pc[c] = "idle"
  BY DEF Arguments
<1>1. CASE UNCHANGED <<pc, args>>
  BY <1>1, ReqOfRequest
<1>2. CASE RecoverApproved \/ Crash
  BY <1>2 DEF RecoverApproved, Crash, OnlyWhileServing
<1>3. ASSUME NEW c \in Calls, UNCHANGED pc, at[c] = "idle",
             \E v : args' = [args EXCEPT ![c] = v]
      PROVE  Kept
  BY <1>0, <1>3
<1>4. ASSUME NEW c \in Calls, UNCHANGED args, Spawn(c) \/ UNCHANGED pc
      PROVE  Kept
  BY <1>4 DEF Spawn
<1>5. ASSUME NEW c \in Calls, NEW r \in Requests, NEW a \in Actors,
             \/ \E kind \in Decisions, echo \in Versions : Decide(c, kind, a, r, echo)
             \/ Cancel(c, a, r)
      PROVE  Kept
  BY <1>3, <1>5 DEF Decide, Cancel
<1>6. ASSUME NEW c \in Calls, Handler(c) \/ CallStoreError(c) PROVE Kept
  BY <1>4, <1>6 DEF Handler, CallStoreError, DecideGet, DecideReject, DecideReport,
                    DecideAccept, DecideRecord, DecideExisting, CancelCommit
<1>7. ASSUME NEW h \in Goroutines,
             Execute(h) \/ ExecuteLoadError(h) \/ ExecutionTimer(h) \/ CommandExits(h)
      PROVE  Kept
  <2> USE DEF Jump
  <2>1. UNCHANGED args
    BY <1>7 DEF Execute, ExecuteLoadError, ExecutionTimer, CommandExits,
                ExecuteEnter, ExecuteLoad, ExecuteApproval, ExecuteRecheck,
                ExecuteExpire, ExecuteReject, ExecuteReport, ExecuteBegin,
                ExecuteStart, ExecuteReap, ExecuteFinish, ExecuteLeave
  <2>2. CASE h # g \/ ExecutionTimer(h)
    <3>1. pc'[g] = pc[g]
      BY <1>7, <2>2 DEF Execute, ExecuteLoadError, ExecutionTimer, CommandExits,
                ExecuteEnter, ExecuteLoad, ExecuteApproval, ExecuteRecheck,
                ExecuteExpire, ExecuteReject, ExecuteReport, ExecuteBegin,
                ExecuteStart, ExecuteReap, ExecuteFinish, ExecuteLeave
    <3> QED
      BY <2>1, <3>1
  <2>3. CASE ExecuteBegin(g)
    BY <2>1, <2>3 DEF ExecuteBegin
  <2>4. CASE ExecuteStart(g) \/ CommandExits(g) \/ ExecuteReap(g)
    BY <2>1, <2>4 DEF ExecuteStart, CommandExits, ExecuteReap
  <2>5. ~( \/ ExecuteEnter(g) \/ ExecuteLoad(g) \/ ExecuteLoadError(g)
           \/ ExecuteApproval(g) \/ ExecuteRecheck(g) \/ ExecuteExpire(g)
           \/ ExecuteReject(g) \/ ExecuteReport(g) \/ ExecuteFinish(g)
           \/ ExecuteLeave(g))
    BY DEF ExecuteLoadError, ExecuteEnter, ExecuteLoad, ExecuteApproval,
           ExecuteRecheck, ExecuteExpire, ExecuteReject, ExecuteReport,
           ExecuteFinish, ExecuteLeave
  <2> QED
    BY <1>7, <2>2, <2>3, <2>4, <2>5 DEF Execute
<1>8. CASE OpenStore \/ RecoverExpire \/ ExpireTick \/ PruneDelete
  BY <1>1, <1>8 DEF OpenStore, RecoverExpire, ExpireTick, PruneDelete
<1>9. ASSUME NEW r \in Requests,
             Submit(r) \/ ClockPasses(r) \/ Damage(r) \/ VerdictChanges(r)
      PROVE  UNCHANGED <<pc, args>>
  BY <1>9 DEF Submit, SubmitEvaluate, SubmitCreate, SubmitEnter, SubmitRefuse, ClockPasses,
              Damage, VerdictChanges
<1>10. ASSUME NEW ids \in SUBSET Prunable \ {{}}, PruneSelect(ids)
       PROVE  UNCHANGED <<pc, args>>
  BY <1>10 DEF PruneSelect
<1>11. Kept => ReqOf(g) \in Requests
  BY ReqOfRequest
<1> QED
  BY <1>1, <1>2, <1>5, <1>6, <1>7, <1>8, <1>9, <1>10, <1>11 DEF Next

\* A process is started by ExecuteStart alone, which leaves the store alone.
LEMMA StartsOnce ==
    ASSUME BrokerInv, Next
    PROVE  \/ UNCHANGED starts
           \/ /\ UNCHANGED <<storeVars, pruning>>
              /\ \E g \in Goroutines :
                    /\ pc[g] = "start" /\ pc' = [pc EXCEPT ![g] = "running"]
                    /\ starts' = [starts EXCEPT ![ReqOf(g)] = @ + 1]
<1> USE DEF brokerVars, runVars, Jump
<1>1. ASSUME NEW g \in Goroutines,
             Execute(g) \/ ExecuteLoadError(g) \/ ExecutionTimer(g) \/ CommandExits(g)
      PROVE  UNCHANGED starts \/ ExecuteStart(g)
  BY <1>1 DEF Execute, ExecuteLoadError, ExecutionTimer, CommandExits, ExecuteEnter,
              ExecuteLoad, ExecuteApproval, ExecuteRecheck, ExecuteExpire,
              ExecuteReject, ExecuteReport, ExecuteBegin, ExecuteReap,
              ExecuteFinish, ExecuteLeave
<1>2. ASSUME NEW c \in Calls, Handler(c) \/ CallStoreError(c) PROVE UNCHANGED starts
  BY <1>2 DEF Handler, CallStoreError, DecideGet, DecideReject, DecideReport,
              DecideAccept, DecideRecord, DecideExisting, CancelCommit
<1>3. ASSUME NEW r \in Requests,
             Submit(r) \/ ClockPasses(r) \/ Damage(r) \/ VerdictChanges(r)
      PROVE  UNCHANGED starts
  BY <1>3 DEF Submit, SubmitEvaluate, SubmitCreate, SubmitEnter, SubmitRefuse, ClockPasses,
              Damage, VerdictChanges
<1> QED
  BY <1>1, <1>2, <1>3 DEF Next, ExecuteStart, OpenStore, RecoverExpire,
     RecoverApproved, Crash, Decide, Cancel, ExpireTick, PruneSelect, PruneDelete

\* Rows are selected for deletion only when they are prunable.
LEMMA Selection ==
    ASSUME BrokerInv, Next
    PROVE  \/ pruning' \subseteq pruning
           \/ pruning' \subseteq Prunable /\ UNCHANGED storeVars
<1> USE DEF brokerVars
<1>1. ASSUME NEW g \in Goroutines,
             Execute(g) \/ ExecuteLoadError(g) \/ ExecutionTimer(g) \/ CommandExits(g)
      PROVE  UNCHANGED pruning
  BY <1>1 DEF Execute, ExecuteLoadError, ExecutionTimer, CommandExits, ExecuteEnter,
              ExecuteLoad, ExecuteApproval, ExecuteRecheck, ExecuteExpire,
              ExecuteReject, ExecuteReport, ExecuteBegin, ExecuteReap,
              ExecuteFinish, ExecuteLeave, ExecuteStart
<1>2. ASSUME NEW c \in Calls, Handler(c) \/ CallStoreError(c) PROVE UNCHANGED pruning
  BY <1>2 DEF Handler, CallStoreError, DecideGet, DecideReject, DecideReport,
              DecideAccept, DecideRecord, DecideExisting, CancelCommit
<1>3. ASSUME NEW r \in Requests,
             Submit(r) \/ ClockPasses(r) \/ Damage(r) \/ VerdictChanges(r)
      PROVE  UNCHANGED pruning
  BY <1>3 DEF Submit, SubmitEvaluate, SubmitCreate, SubmitEnter, SubmitRefuse, ClockPasses,
              Damage, VerdictChanges
<1>4. ASSUME NEW ids \in SUBSET Prunable \ {{}}, PruneSelect(ids)
      PROVE  pruning' \subseteq Prunable /\ UNCHANGED storeVars
  BY <1>4 DEF PruneSelect
<1>5. ASSUME OpenStore \/ RecoverExpire \/ RecoverApproved \/ Crash \/ ExpireTick
               \/ PruneDelete
      PROVE  UNCHANGED pruning \/ pruning' = {}
  BY <1>5 DEF OpenStore, RecoverExpire, RecoverApproved, Crash, ExpireTick, PruneDelete
<1>6. ASSUME NEW c \in Calls, NEW r \in Requests, NEW a \in Actors,
             \/ \E kind \in Decisions, echo \in Versions : Decide(c, kind, a, r, echo)
             \/ Cancel(c, a, r)
      PROVE  UNCHANGED pruning
  BY <1>6 DEF Decide, Cancel
<1>7. \/ UNCHANGED pruning
      \/ pruning' = {}
      \/ pruning' \subseteq Prunable /\ UNCHANGED storeVars
  BY <1>1, <1>2, <1>3, <1>4, <1>5, <1>6 DEF Next
<1> QED
  BY <1>7

\* The right to start a process is spent before it is used, and nobody else can
\* spend it: the parts of the invariant about executions.
LEMMA Safe ==
    ASSUME BrokerInv, Next
    PROVE  SelectionHolds' /\ Ownership' /\ RanIsRecorded' /\ AtMostOnce'
<1> USE DEF SelectionHolds, Ownership, RanIsRecorded, AtMostOnce, Owner
<1>t. /\ StoreInv /\ StoreTypeOK /\ OneExecutor /\ SelectionHolds /\ Ownership
      /\ RanIsRecorded /\ AtMostOnce /\ starts \in [Requests -> Nat]
  BY DEF BrokerInv, StoreInv, ProcessTypeOK
<1>1. CASE ~UNCHANGED starts
  <2>1. PICK g \in Goroutines : /\ pc[g] = "start" /\ pc' = [pc EXCEPT ![g] = "running"]
                                /\ starts' = [starts EXCEPT ![ReqOf(g)] = @ + 1]
    BY <1>1, StartsOnce
  <2>2. UNCHANGED <<status, approval, pruning>> /\ Prunable' = Prunable
    BY <1>1, StartsOnce DEF storeVars, Prunable
  <2>3. ReqOf(g) \in Requests /\ pc \in [Goroutines -> WorkPCs]
    BY <2>1, ReqOfRequest DEF BrokerInv, ProcessTypeOK
  <2>4. \A h \in Goroutines : h # g /\ pc[h] = "start" => ReqOf(h) # ReqOf(g)
    BY <1>t, <2>1 DEF OneExecutor, InCharge, WorkPCs
  <2>5. \A h \in Goroutines : pc'[h] \in Owner =>
           /\ pc[h] \in Owner /\ ReqOf(h)' = ReqOf(h) /\ ReqOf(h) \in Requests
           /\ pc'[h] = "start" => h # g /\ pc[h] = "start"
    BY <2>1, <2>2, <2>3, Owners, <1>t DEF BeginExecution, CanBegin, CanTransition, StoreTypeOK
  <2> QED
    BY <1>t, <2>1, <2>2, <2>3, <2>4, <2>5 DEF Started
<1>2. CASE UNCHANGED starts /\ [Routine]_storeVars
  <2>1. Steady
    BY <1>t, <1>2, RoutineSteady
  <2>2. SelectionHolds'
    BY <1>t, <2>1, Selection DEF Steady, storeVars, Prunable
  <2>3. RanIsRecorded' /\ AtMostOnce'
    BY <1>t, <1>2, <2>1 DEF Steady
  <2>4. \A r \in Requests : starts'[r] > 0 => approval'[r].decision = "approve"
    BY <1>t, <1>2, <2>1 DEF Steady
  <2>5. ASSUME NEW g \in Goroutines, pc'[g] \in Owner
        PROVE  /\ status'[ReqOf(g)'] = "EXECUTING"
               /\ pc'[g] = "start" => /\ starts'[ReqOf(g)'] = 0
                                      /\ approval'[ReqOf(g)'].decision = "approve"
    <3>1. ReqOf(g) \in Requests /\ ReqOf(g)' = ReqOf(g)
      BY <2>5, Owners
    <3>2. CASE pc[g] \in Owner /\ (pc'[g] = "start" => pc[g] = "start")
      BY <1>t, <1>2, <2>1, <3>1, <3>2 DEF Steady, Started
    <3>3. CASE BeginExecution(ReqOf(g))
      <4>1. status[ReqOf(g)] = "APPROVED" /\ status'[ReqOf(g)] = "EXECUTING"
        BY <1>t, <3>1, <3>3 DEF BeginExecution, CanBegin, CanTransition, StoreTypeOK
      <4>2. approval[ReqOf(g)].decision = "approve"
        BY <1>t, <3>1, <4>1 DEF StoreInv, DecisionMatchesStatus
      <4> QED
        BY <1>t, <1>2, <2>1, <3>1, <4>1, <4>2 DEF Steady, Started
    <3> QED
      BY <2>5, <3>2, <3>3, Owners
  <2> QED
    BY <2>2, <2>3, <2>4, <2>5
<1>3. CASE UNCHANGED starts /\ OpenStore
  <2>1. \A g \in Goroutines : pc'[g] = "idle"
    BY <1>3 DEF OpenStore, brokerVars, workVars, RecoverStatuses, RecoverExecutions,
                MigrateLocalOnly, BrokerInv, OnlyWhileServing
  <2>2. pruning' = {}
    BY <1>3 DEF OpenStore, brokerVars, RecoverStatuses, RecoverExecutions,
                MigrateLocalOnly, BrokerInv, OnlyWhileServing
  <2>3. /\ UNCHANGED approval
        /\ \A r \in Requests : status[r] \in Started => status'[r] \in Started
    BY <1>3, <1>t DEF OpenStore, RecoverStatuses, RecoverExecutions, MigrateLocalOnly,
                Started, RemotePending
  <2> QED
    BY <1>3, <1>t, <2>1, <2>2, <2>3
<1>4. CASE UNCHANGED starts /\ FinishStep
  <2>1. PICK g \in Goroutines :
             /\ ExecuteFinish(g) /\ ReqOf(g) \in Requests
             /\ FinishExecution(ReqOf(g), result[g].exit, result[g].signal)
    BY <1>4 DEF FinishStep
  <2>2. /\ UNCHANGED <<approval, pruning>> /\ pc' = [pc EXCEPT ![g] = "leave"]
        /\ pc[g] = "finish"
    BY <2>1 DEF ExecuteFinish, FinishExecution, Jump
  <2>3. /\ status[ReqOf(g)] = "EXECUTING" /\ status'[ReqOf(g)] \in Started
        /\ \A r \in Requests : r # ReqOf(g) => status'[r] = status[r]
    BY <1>t, <2>1 DEF FinishExecution, FinishedStatus, CanTransition, Started, StoreTypeOK
  <2>4. pc \in [Goroutines -> WorkPCs]
    BY DEF BrokerInv, ProcessTypeOK
  <2>5. \A h \in Goroutines : pc'[h] \in Owner =>
           /\ pc[h] \in Owner /\ ReqOf(h)' = ReqOf(h) /\ ReqOf(h) \in Requests
           /\ ReqOf(h) # ReqOf(g) /\ (pc'[h] = "start" => pc[h] = "start")
    <3> SUFFICES ASSUME NEW h \in Goroutines, pc'[h] \in Owner
                 PROVE  /\ pc[h] \in Owner /\ ReqOf(h)' = ReqOf(h) /\ ReqOf(h) \in Requests
                        /\ ReqOf(h) # ReqOf(g) /\ (pc'[h] = "start" => pc[h] = "start")
      OBVIOUS
    <3>1. h # g /\ pc'[h] = pc[h]
      BY <2>2, <2>4
    <3>2. ReqOf(h)' = ReqOf(h) /\ ReqOf(h) \in Requests
      BY Owners
    <3>3. ReqOf(h) # ReqOf(g)
      BY <1>t, <2>2, <3>1 DEF OneExecutor, InCharge, WorkPCs
    <3> QED
      BY <3>1, <3>2, <3>3
  <2>6. SelectionHolds'
    BY <1>t, <2>2, <2>3 DEF Prunable, Terminal
  <2> QED
    BY <1>4, <1>t, <2>2, <2>3, <2>5, <2>6
<1>5. CASE UNCHANGED starts /\ PruneStep
  <2>1. /\ pruning' = {} /\ UNCHANGED <<approval, pc, args>>
        /\ \A r \in Requests : r \notin pruning => status'[r] = status[r]
    BY <1>5 DEF PruneStep, PruneDelete, Prune, workVars, callVars
  <2>2. \A r \in pruning : status[r] \in Terminal /\ approval[r].decision = "none"
    BY <1>t DEF Prunable
  <2>3. \A g \in Goroutines : pc'[g] \in Owner =>
           ReqOf(g)' = ReqOf(g) /\ ReqOf(g) \in Requests /\ pc'[g] = pc[g]
    BY <2>1, Owners
  <2> QED
    BY <1>5, <1>t, <2>1, <2>2, <2>3 DEF Terminal
<1> QED
  BY <1>1, <1>2, <1>3, <1>4, <1>5, DaemonSteps

-----------------------------------------------------------------------------
(* Theorems.                                                                 *)

\* The daemon starts with no process and a closed store.
LEMMA BrokerInit == Init => BrokerInv
<1> SUFFICES ASSUME Init PROVE BrokerInv
  OBVIOUS
<1>1. StoreInv
  BY StoreInitInv DEF Init
<1>2. ProcessTypeOK
  BY InitialValues, BrokerAssumption DEF Init, ProcessTypeOK, SubPCs, CallPCs, Finished, WorkPCs, Verdicts, Bounds
<1>3. OnlyWhileServing /\ Arguments
  BY DEF Init, OnlyWhileServing, Arguments, Finished, Goroutines
<1>4. OneExecutor /\ SelectionHolds /\ Ownership /\ RanIsRecorded /\ AtMostOnce
  BY DEF Init, OneExecutor, SelectionHolds, Ownership, RanIsRecorded, AtMostOnce,
         InCharge, WorkPCs
<1> QED
  BY <1>1, <1>2, <1>3, <1>4 DEF BrokerInv

\* Every step of every handler, goroutine, restart and fault preserves it.
LEMMA BrokerStepInv == BrokerInv /\ [Next]_vars => BrokerInv'
<1> SUFFICES ASSUME BrokerInv, [Next]_vars PROVE BrokerInv'
  OBVIOUS
<1>1. StoreInv'
  BY StoreSteps, StoreStepInv DEF BrokerInv
<1>2. CASE Next
  BY <1>1, <1>2, ProcessTypes, Control, Mutex, Safe DEF BrokerInv
<1>3. CASE UNCHANGED vars
  BY <1>1, <1>3 DEF vars, storeVars, brokerVars, callVars, workVars, runVars,
     BrokerInv, ProcessTypeOK, OnlyWhileServing, Arguments, OneExecutor,
     SelectionHolds, Ownership, RanIsRecorded, AtMostOnce, Prunable, ReqOf
<1> QED
  BY <1>2, <1>3

\* For every number of requests, calls, crashes, faults, damaged rows and policy
\* changes, the invariant of the daemon holds.
THEOREM BrokerCorrect == Spec => []BrokerInv
  BY BrokerInit, BrokerStepInv, PTL DEF Spec

\* The daemon never starts a second process for a request.
THEOREM ExecutesAtMostOnce == Spec => []AtMostOnce
<1>1. BrokerInv => AtMostOnce
  BY DEF BrokerInv
<1> QED
  BY <1>1, BrokerCorrect, PTL

\* A request whose command was started is never recorded as anything else.
THEOREM RunsAreRecorded == Spec => []RanIsRecorded
<1>1. BrokerInv => RanIsRecorded
  BY DEF BrokerInv
<1> QED
  BY <1>1, BrokerCorrect, PTL

\* Service.executing excludes a second executor of a request.
THEOREM ExecutorsExclude == Spec => []OneExecutor
<1>1. BrokerInv => OneExecutor
  BY DEF BrokerInv
<1> QED
  BY <1>1, BrokerCorrect, PTL

\* PruneUnapproved's query is still right when its transaction runs.
THEOREM PruneSelectionHolds == Spec => []SelectionHolds
<1>1. BrokerInv => SelectionHolds
  BY DEF BrokerInv
<1> QED
  BY <1>1, BrokerCorrect, PTL

\* Every variable keeps its type.
THEOREM TypesCorrect == Spec => []TypeOK
<1>1. BrokerInv => TypeOK
  BY DEF BrokerInv, StoreInv, TypeOK
<1> QED
  BY <1>1, BrokerCorrect, PTL

\* The daemon implements the store specification: it calls the store only while
\* it is open and only with the arguments the store's properties assume, so those
\* properties hold of it.
THEOREM DaemonObeysStore == Spec => StoreSpec
<1>1. Init => StoreInit
  BY DEF Init
<1> QED
  BY <1>1, BrokerCorrect, StoreSteps, PTL DEF Spec, StoreSpec

-----------------------------------------------------------------------------
(* What the replies, the events, the unfinished work and the confirmed body  *)
(* rest on, beyond BrokerInv.                                                *)

\* No column has been damaged, no store call has failed.
Undamaged == left["damages"] = MaxDamages
NoFault == left["faults"] = MaxFaults

\* The bounds only shrink.
Spent == left["damages"] <= MaxDamages /\ left["faults"] <= MaxFaults

\* A goroutine exists after the answer to the call that spawned it, and only for a
\* request that was approved.
Spawned ==
    /\ \A c \in Calls : pc[c] # "idle" => at[c] = "decided"
    /\ \A g \in Goroutines : pc[g] # "idle" => approval[ReqOf(g)].decision = "approve"

\* A decision that is committed or answered is the stored one; a cancelled request
\* is out of reach.
Answered(c) ==
    /\ at[c] \in {"record", "decided"} =>
          /\ args[c].kind \in Decisions
          /\ approval[args[c].req].decision = args[c].kind
          /\ approval[args[c].req].id = IF at[c] = "record" THEN c ELSE reply[c]
    /\ at[c] = "cancelled" => status[args[c].req] \in {"CANCELLED", Pruned}
Told == \A c \in Calls : Answered(c)

\* Until a column is damaged every hash that was stored or read is the hash of what
\* was submitted.
Intact ==
    Undamaged =>
        /\ \A r \in Requests : stored[r] = Submitted /\ approval[r].hash = "submitted"
        /\ \A c \in Calls : seen[c].body = Submitted
        /\ \A g \in Goroutines : item[g] = Submitted

\* Who is about to report an integrity failure has met damage or a failed read.
Suspicions ==
    /\ \A c \in Calls : at[c] \in {"reject", "report"} => ~Undamaged
    /\ \A g \in Goroutines :
          /\ why[g] \in {"none", "request.integrity-failed", "approval.integrity-failed"}
          /\ why[g] = "request.integrity-failed" => ~Undamaged
          /\ why[g] = "approval.integrity-failed" => ~Undamaged \/ ~NoFault

\* The inductive invariant behind RepliesHold and AuditIsTrue.
ReportInv == Spent /\ Spawned /\ Told /\ Intact /\ Suspicions /\ AuditIsTrue

\* The executing map holds only requests somebody works on; who is done with a
\* request leaves it neither approved nor executing; nothing executes before the
\* daemon serves.
Busy ==
    \A r \in executing : \E g \in Goroutines : ReqOf(g) = r /\ pc[g] \in InCharge
Settled ==
    NoFault => \A g \in Goroutines :
                  pc[g] \in {"report", "leave"} =>
                      status[ReqOf(g)] \notin {"APPROVED", "EXECUTING"}
QuietStart ==
    boot # "serving" /\ handle = "open" => \A r \in Requests : status[r] # "EXECUTING"

\* The inductive invariant behind NoAbandonedWork.
WorkInv == Busy /\ Settled /\ QuietStart /\ NoAbandonedWork

\* Past its first test a decision is root's, and an approval confirms the hash read.
Confirming ==
    \A c \in Calls :
        /\ at[c] \notin Finished \cup {"cancel"} => args[c].actor = "root"
        /\ at[c] = "accept" /\ args[c].kind = "approve" =>
              args[c].echo = seen[c].body.hash

\* An approval ID leads to the call that minted it.
Signed ==
    \A r \in Requests : approval[r].id \in ApprovalIds =>
        LET c == approval[r].id
        IN  /\ at[c] # "idle" /\ approval[r].decision # "none"
            /\ args[c].actor = "root" /\ args[c].req = r
            /\ args[c].kind = approval[r].decision

\* Once the migration has run, what is approved, or taken for approved, has an ID.
LocalOnly ==
    /\ handle = "open" => migrated
    /\ migrated => \A r \in Requests : status[r] = "APPROVED" => approval[r].id \in ApprovalIds
    /\ \A g \in Goroutines : pc[g] # "idle" => approval[ReqOf(g)].id \in ApprovalIds
    /\ \A c \in Calls : at[c] = "existing" /\ seen[c].status = "APPROVED" =>
          approval[args[c].req].id \in ApprovalIds

\* The version whose hash the call behind an approval echoed.
Echoed(r) == args[approval[r].id].echo

\* Every damaged column of a row has used up one of the damages.
One(b) == IF b THEN 1 ELSE 0
ForgedApproval(r) ==
    /\ approval[r].id \in ApprovalIds /\ approval[r].decision = "approve"
    /\ approval[r].hash # Echoed(r)
Columns(r) == One(stored[r].json = "other") + One(stored[r].hash = "other")
                + One(ForgedApproval(r))
Counted ==
    \A r \in Requests :
        /\ Columns(r) + left["damages"] <= MaxDamages
        /\ ForgedApproval(r) => approval[r].hash = "other"

\* What a goroutine has read is still stored or was submitted, and from the check
\* of the approval on it is the body that was confirmed.
Checked ==
    \A g \in Goroutines :
        /\ pc[g] = "approval" =>
              /\ HashMatches(item[g])
              /\ item[g].json = "other" => stored[ReqOf(g)] = [json |-> "other", hash |-> "other"]
        /\ pc[g] \in {"recheck", "begin", "start"} =>
              item[g].json = Echoed(ReqOf(g))

\* The inductive invariant behind RanAsConfirmed.
ConfirmedInv == Confirming /\ Signed /\ LocalOnly /\ Counted /\ Checked /\ RanAsConfirmed
-----------------------------------------------------------------------------
(* Frames: who changes a call, a goroutine, a column or a bound.             *)

\* A call is changed by its own handler and by the end of the process.
LEMMA CallFrame ==
    ASSUME BrokerInv, Next, NEW c \in Calls
    PROVE  \/ /\ at'[c] = at[c] /\ args'[c] = args[c]
              /\ seen'[c] = seen[c] /\ reply'[c] = reply[c]
           \/ Crash
           \/ \E r \in Requests, a \in Actors :
                 \/ \E kind \in Decisions, echo \in Versions : Decide(c, kind, a, r, echo)
                 \/ Cancel(c, a, r)
           \/ Handler(c) \/ CallStoreError(c)
<1> USE DEF brokerVars, callVars, Goto, Return, BrokerInv, ProcessTypeOK
<1>1. CASE UNCHANGED callVars
  BY <1>1
<1>2. CASE OpenStore \/ RecoverExpire \/ RecoverApproved \/ ExpireTick \/ PruneDelete
  BY <1>1, <1>2 DEF OpenStore, RecoverExpire, RecoverApproved, ExpireTick, PruneDelete
<1>3. ASSUME NEW r \in Requests,
             Submit(r) \/ ClockPasses(r) \/ Damage(r) \/ VerdictChanges(r)
      PROVE  UNCHANGED callVars
  BY <1>3 DEF Submit, SubmitEvaluate, SubmitCreate, SubmitEnter, SubmitRefuse,
              ClockPasses, Damage, VerdictChanges
<1>4. ASSUME NEW d \in Calls, d # c, NEW r \in Requests, NEW a \in Actors,
             \/ \E kind \in Decisions, echo \in Versions : Decide(d, kind, a, r, echo)
             \/ Cancel(d, a, r)
      PROVE  /\ at'[c] = at[c] /\ args'[c] = args[c]
             /\ seen'[c] = seen[c] /\ reply'[c] = reply[c]
  BY <1>4 DEF Decide, Cancel
<1>5. ASSUME NEW d \in Calls, d # c, Handler(d) \/ CallStoreError(d)
      PROVE  /\ at'[c] = at[c] /\ args'[c] = args[c]
             /\ seen'[c] = seen[c] /\ reply'[c] = reply[c]
  BY <1>5 DEF Handler, CallStoreError, DecideGet, DecideReject, DecideReport,
              DecideAccept, DecideRecord, DecideExisting, CancelCommit
<1>6. ASSUME NEW g \in Goroutines,
             Execute(g) \/ ExecuteLoadError(g) \/ ExecutionTimer(g) \/ CommandExits(g)
      PROVE  UNCHANGED callVars
  BY <1>6 DEF Execute, ExecuteLoadError, ExecutionTimer, CommandExits, ExecuteEnter,
              ExecuteLoad, ExecuteApproval, ExecuteRecheck, ExecuteExpire,
              ExecuteReject, ExecuteReport, ExecuteBegin, ExecuteStart, ExecuteReap,
              ExecuteFinish, ExecuteLeave
<1>7. ASSUME NEW ids \in SUBSET Prunable \ {{}}, PruneSelect(ids) PROVE UNCHANGED callVars
  BY <1>7 DEF PruneSelect
<1> QED
  BY <1>1, <1>2, <1>3, <1>4, <1>5, <1>6, <1>7 DEF Next

\* The peer and the arguments of a call that has begun do not change.
LEMMA ArgsKept ==
    ASSUME BrokerInv, Next, NEW c \in Calls, at[c] # "idle"
    PROVE  args'[c] = args[c] /\ at'[c] # "idle" /\ args[c].req \in Requests
<1> USE DEF BrokerInv, ProcessTypeOK
<1>1. args[c].req \in Requests
  BY DEF Arguments
<1>2. CASE Crash
  BY <1>1, <1>2 DEF Crash
<1>3. CASE Handler(c) \/ CallStoreError(c)
  BY <1>1, <1>3 DEF Handler, CallStoreError, DecideGet, DecideReject, DecideReport,
              DecideAccept, DecideRecord, DecideExisting, CancelCommit, Goto, Return
<1>4. ASSUME NEW r \in Requests, NEW a \in Actors,
             \/ \E kind \in Decisions, echo \in Versions : Decide(c, kind, a, r, echo)
             \/ Cancel(c, a, r)
      PROVE  FALSE
  BY <1>4 DEF Decide, Cancel
<1> QED
  BY <1>1, <1>2, <1>3, <1>4, CallFrame

\* A goroutine is changed by its own steps, by the call that spawns it, by recovery
\* and by the end of the process.
LEMMA WorkFrame ==
    ASSUME BrokerInv, Next, NEW g \in Goroutines
    PROVE  \/ pc'[g] = pc[g] /\ item'[g] = item[g] /\ why'[g] = why[g]
           \/ Crash \/ RecoverApproved
           \/ g \in Calls /\ (DecideRecord(g) \/ DecideExisting(g))
           \/ Execute(g) \/ ExecuteLoadError(g) \/ CommandExits(g)
<1> USE DEF brokerVars, workVars, Jump, Spawn, BrokerInv, ProcessTypeOK
<1>1. CASE UNCHANGED <<pc, item, why>>
  BY <1>1
<1>2. CASE OpenStore \/ RecoverExpire \/ ExpireTick \/ PruneDelete
  BY <1>1, <1>2 DEF OpenStore, RecoverExpire, ExpireTick, PruneDelete
<1>3. ASSUME NEW r \in Requests,
             Submit(r) \/ ClockPasses(r) \/ Damage(r) \/ VerdictChanges(r)
      PROVE  UNCHANGED <<pc, item, why>>
  BY <1>3 DEF Submit, SubmitEvaluate, SubmitCreate, SubmitEnter, SubmitRefuse,
              ClockPasses, Damage, VerdictChanges
<1>4. ASSUME NEW c \in Calls, NEW r \in Requests, NEW a \in Actors,
             \/ \E kind \in Decisions, echo \in Versions : Decide(c, kind, a, r, echo)
             \/ Cancel(c, a, r)
      PROVE  UNCHANGED <<pc, item, why>>
  BY <1>4 DEF Decide, Cancel
<1>5. ASSUME NEW c \in Calls, Handler(c) \/ CallStoreError(c)
      PROVE  \/ pc'[g] = pc[g] /\ item'[g] = item[g] /\ why'[g] = why[g]
             \/ g = c /\ (DecideRecord(c) \/ DecideExisting(c))
  <2>1. CASE ~(DecideRecord(c) \/ DecideExisting(c))
    BY <1>5, <2>1 DEF Handler, CallStoreError, DecideGet, DecideReject, DecideReport,
                      DecideAccept, CancelCommit
  <2>2. CASE DecideRecord(c) \/ DecideExisting(c)
    BY <2>2 DEF DecideRecord, DecideExisting
  <2> QED
    BY <2>1, <2>2
<1>6. ASSUME NEW h \in Goroutines, h # g,
             Execute(h) \/ ExecuteLoadError(h) \/ CommandExits(h)
      PROVE  pc'[g] = pc[g] /\ item'[g] = item[g] /\ why'[g] = why[g]
  BY <1>6 DEF Execute, ExecuteLoadError, CommandExits, ExecuteEnter, ExecuteLoad,
              ExecuteApproval, ExecuteRecheck, ExecuteExpire, ExecuteReject,
              ExecuteReport, ExecuteBegin, ExecuteStart, ExecuteReap, ExecuteFinish,
              ExecuteLeave
<1>7. ASSUME NEW h \in Goroutines, ExecutionTimer(h) PROVE UNCHANGED <<pc, item, why>>
  BY <1>7 DEF ExecutionTimer
<1>8. ASSUME NEW ids \in SUBSET Prunable \ {{}}, PruneSelect(ids)
      PROVE  UNCHANGED <<pc, item, why>>
  BY <1>8 DEF PruneSelect
<1> QED
  BY <1>1, <1>2, <1>3, <1>4, <1>5, <1>6, <1>7, <1>8 DEF Next

\* A goroutine keeps its request.
LEMMA RequestKept ==
    ASSUME BrokerInv, Next, NEW g \in Goroutines, pc[g] # "idle"
    PROVE  ReqOf(g) \in Requests /\ ReqOf(g)' = ReqOf(g)
<1>1. ReqOf(g) \in Requests
  BY ReqOfRequest DEF BrokerInv
<1>2. CASE g \in Calls
  BY <1>1, <1>2, ArgsKept DEF ReqOf, BrokerInv, Arguments
<1>3. CASE g \notin Calls
  BY <1>1, <1>3 DEF ReqOf
<1> QED
  BY <1>2, <1>3

\* The bounds never grow.
LEMMA LeftFrame ==
    ASSUME BrokerInv, Next, NEW b \in Bounds
    PROVE  /\ left'[b] <= left[b]
           /\ left[b] \in Nat /\ left'[b] \in Nat
           /\ Spend(b) => left'[b] = left[b] - 1
<1> USE DEF brokerVars, OrFails
<1>1. left \in [Bounds -> Nat] /\ left' \in [Bounds -> Nat]
  BY ProcessTypes DEF BrokerInv, ProcessTypeOK
<1>2. \/ UNCHANGED left \/ Spend("crashes") \/ Spend("faults") \/ Spend("damages")
      \/ Spend("changes")
  <2>1. ASSUME NEW g \in Goroutines,
               Execute(g) \/ ExecuteLoadError(g) \/ ExecutionTimer(g) \/ CommandExits(g)
        PROVE  UNCHANGED left \/ Spend("faults")
    BY <2>1 DEF Execute, ExecuteLoadError, ExecutionTimer, CommandExits, ExecuteEnter,
                ExecuteLoad, ExecuteApproval, ExecuteRecheck, ExecuteExpire,
                ExecuteReject, ExecuteReport, ExecuteBegin, ExecuteStart, ExecuteReap,
                ExecuteFinish, ExecuteLeave
  <2>2. ASSUME NEW c \in Calls, Handler(c) \/ CallStoreError(c)
        PROVE  UNCHANGED left \/ Spend("faults")
    BY <2>2 DEF Handler, CallStoreError, DecideGet, DecideReject, DecideReport,
                DecideAccept, DecideRecord, DecideExisting, CancelCommit
  <2>3. ASSUME NEW r \in Requests,
               Submit(r) \/ ClockPasses(r) \/ Damage(r) \/ VerdictChanges(r)
        PROVE  UNCHANGED left \/ Spend("faults") \/ Spend("damages") \/ Spend("changes")
    BY <2>3 DEF Submit, SubmitEvaluate, SubmitCreate, SubmitEnter, SubmitRefuse,
                ClockPasses, Damage, VerdictChanges
  <2> QED
    BY <2>1, <2>2, <2>3 DEF Next, OpenStore, RecoverExpire, RecoverApproved, Crash,
       Decide, Cancel, ExpireTick, PruneSelect, PruneDelete
<1> QED
  BY <1>1, <1>2 DEF Spend

\* A body is written by Create and by damage.
LEMMA StoredFrame ==
    ASSUME BrokerInv, Next, NEW r \in Requests
    PROVE  \/ stored'[r] = stored[r]
           \/ status[r] = NoRow /\ stored'[r] = Submitted
           \/ /\ Spend("damages") /\ HasRow(r) /\ UNCHANGED approval
              /\ \/ stored'[r] = [stored[r] EXCEPT !.json = "other"]
                 \/ stored'[r] = [stored[r] EXCEPT !.hash = "other"]
<1>t. stored \in [Requests -> Bodies]
  BY DEF BrokerInv, StoreInv, StoreTypeOK
<1>1. ASSUME NEW q \in Requests, Damage(q)
      PROVE  \/ stored'[r] = stored[r]
             \/ /\ Spend("damages") /\ HasRow(r) /\ UNCHANGED approval
                /\ \/ stored'[r] = [stored[r] EXCEPT !.json = "other"]
                   \/ stored'[r] = [stored[r] EXCEPT !.hash = "other"]
  <2>1. Spend("damages")
    BY <1>1 DEF Damage
  <2>2. CASE DamageApproval(q)
    BY <2>2 DEF DamageApproval
  <2>3. CASE DamageJson(q)
    <3> DEFINE bad == [stored[q] EXCEPT !.json = "other"]
    <3>1. stored' = [stored EXCEPT ![q] = bad] /\ HasRow(q) /\ UNCHANGED approval
      BY <2>3 DEF DamageJson
    <3>2. q = r => bad = [stored[r] EXCEPT !.json = "other"]
      OBVIOUS
    <3> HIDE DEF bad
    <3>3. stored'[r] = IF q = r THEN bad ELSE stored[r]
      BY <1>t, <3>1
    <3> QED
      BY <2>1, <3>1, <3>2, <3>3
  <2>4. CASE DamageHash(q)
    <3> DEFINE bad == [stored[q] EXCEPT !.hash = "other"]
    <3>1. stored' = [stored EXCEPT ![q] = bad] /\ HasRow(q) /\ UNCHANGED approval
      BY <2>4 DEF DamageHash
    <3>2. q = r => bad = [stored[r] EXCEPT !.hash = "other"]
      OBVIOUS
    <3> HIDE DEF bad
    <3>3. stored'[r] = IF q = r THEN bad ELSE stored[r]
      BY <1>t, <3>1
    <3> QED
      BY <2>1, <3>1, <3>2, <3>3
  <2> QED
    BY <1>1, <2>2, <2>3, <2>4 DEF Damage
<1>2. ASSUME NEW q \in Requests, Submit(q)
      PROVE  stored'[r] = stored[r] \/ (status[r] = NoRow /\ stored'[r] = Submitted)
  BY <1>t, <1>2 DEF Submit, SubmitEvaluate, SubmitCreate, SubmitEnter, SubmitRefuse,
     OrFails, TryTransition, Transition, Create, ExpireOutstanding, storeVars
<1>3. ASSUME NEW c \in Calls, Handler(c) \/ CallStoreError(c) PROVE UNCHANGED stored
  BY <1>3 DEF Handler, CallStoreError, DecideGet, DecideReject, DecideReport,
     DecideAccept, DecideRecord, DecideExisting, CancelCommit, OrFails, TryTransition,
     Transition, RecordSecurityEvent, AcceptApproval, storeVars
<1>4. ASSUME NEW g \in Goroutines,
             Execute(g) \/ ExecuteLoadError(g) \/ ExecutionTimer(g) \/ CommandExits(g)
      PROVE  UNCHANGED stored
  BY <1>4 DEF Execute, ExecuteLoadError, ExecutionTimer, CommandExits, ExecuteEnter,
     ExecuteLoad, ExecuteApproval, ExecuteRecheck, ExecuteExpire, ExecuteReject,
     ExecuteReport, ExecuteBegin, ExecuteStart, ExecuteReap, ExecuteFinish,
     ExecuteLeave, OrFails, TryTransition, Transition, RecordSecurityEvent,
     BeginExecution, FinishExecution, storeVars
<1>5. ASSUME NEW q \in Requests, ClockPasses(q) \/ VerdictChanges(q)
      PROVE  UNCHANGED stored
  BY <1>5 DEF ClockPasses, VerdictChanges, TimePasses, storeVars
<1> QED
  BY <1>1, <1>2, <1>3, <1>4, <1>5 DEF Next, OpenStore, RecoverStatuses,
     RecoverExecutions, MigrateLocalOnly, RecoverExpire, ExpireOutstanding,
     RecoverApproved, Crash, Close, Decide, Cancel, ExpireTick, PruneSelect,
     PruneDelete, OrFails, Prune, storeVars

\* A decision is written by a call that accepts it; damage spoils its hash.
LEMMA ApprovalFrame ==
    ASSUME BrokerInv, Next, NEW r \in Requests
    PROVE  \/ /\ approval'[r].decision = approval[r].decision
              /\ approval'[r].id = approval[r].id
              /\ approval'[r].hash = approval[r].hash
           \/ /\ Spend("damages") /\ UNCHANGED stored
              /\ approval'[r].decision = approval[r].decision
              /\ approval'[r].id = approval[r].id
              /\ approval'[r].hash = "other"
           \/ \E c \in Calls :
                 /\ DecideAccept(c) /\ args[c].req = r /\ at'[c] = "record"
                 /\ AcceptApproval(r, args[c].kind, c, seen[c].body.hash)
<1>t. approval \in [Requests -> Approvals] /\ at \in [Calls -> CallPCs]
  BY DEF BrokerInv, StoreInv, StoreTypeOK, ProcessTypeOK
<1>1. ASSUME NEW q \in Requests, Damage(q)
      PROVE  \/ approval'[r] = approval[r]
             \/ /\ Spend("damages") /\ UNCHANGED stored
                /\ approval'[r].decision = approval[r].decision
                /\ approval'[r].id = approval[r].id
                /\ approval'[r].hash = "other"
  <2>1. CASE DamageJson(q) \/ DamageHash(q)
    BY <2>1 DEF DamageJson, DamageHash
  <2>2. CASE DamageApproval(q)
    <3> DEFINE spoilt == [approval[q] EXCEPT !.hash = "other"]
    <3>1. /\ spoilt.hash = "other" /\ spoilt.decision = approval[q].decision
          /\ spoilt.id = approval[q].id
      BY <1>t, ApprovalUpdates DEF Approvals
    <3>2. approval' = [approval EXCEPT ![q] = spoilt] /\ UNCHANGED stored
      BY <2>2 DEF DamageApproval
    <3> HIDE DEF spoilt
    <3>3. approval'[r] = IF q = r THEN spoilt ELSE approval[r]
      BY <1>t, <3>2
    <3> QED
      BY <1>1, <3>1, <3>2, <3>3 DEF Damage
  <2> QED
    BY <1>1, <2>1, <2>2 DEF Damage
<1>2. ASSUME NEW c \in Calls, Handler(c) \/ CallStoreError(c)
      PROVE  \/ approval'[r] = approval[r]
             \/ /\ DecideAccept(c) /\ args[c].req = r /\ at'[c] = "record"
                /\ AcceptApproval(r, args[c].kind, c, seen[c].body.hash)
  <2>1. CASE ~DecideAccept(c)
    BY <1>2, <2>1 DEF Handler, CallStoreError, DecideGet, DecideReject, DecideReport,
       DecideRecord, DecideExisting, CancelCommit, OrFails, TryTransition,
       Transition, RecordSecurityEvent, storeVars
  <2>2. CASE DecideAccept(c)
    <3>1. CASE UNCHANGED storeVars
      BY <3>1 DEF storeVars
    <3>2. CASE /\ AcceptApproval(args[c].req, args[c].kind, c, seen[c].body.hash)
               /\ Goto(c, "record")
      <4>1. at'[c] = "record"
        BY <1>t, <3>2 DEF Goto
      <4>2. CASE args[c].req = r
        BY <2>2, <3>2, <4>1, <4>2
      <4>3. CASE args[c].req # r
        BY <1>t, <3>2, <4>3 DEF AcceptApproval
      <4> QED
        BY <4>2, <4>3
    <3> QED
      BY <2>2, <3>1, <3>2 DEF DecideAccept
  <2> QED
    BY <2>1, <2>2
<1>3. ASSUME NEW g \in Goroutines,
             Execute(g) \/ ExecuteLoadError(g) \/ ExecutionTimer(g) \/ CommandExits(g)
      PROVE  /\ approval'[r].decision = approval[r].decision
             /\ approval'[r].id = approval[r].id
             /\ approval'[r].hash = approval[r].hash
  <2>1. CASE ~ExecuteBegin(g)
    BY <1>3, <2>1 DEF Execute, ExecuteLoadError, ExecutionTimer, CommandExits,
       ExecuteEnter, ExecuteLoad, ExecuteApproval, ExecuteRecheck, ExecuteExpire,
       ExecuteReject, ExecuteReport, ExecuteStart, ExecuteReap, ExecuteFinish,
       ExecuteLeave, OrFails, TryTransition, Transition, RecordSecurityEvent,
       FinishExecution, storeVars
  <2>2. CASE UNCHANGED approval
    BY <2>2
  <2>3. CASE BeginExecution(ReqOf(g))
    <3> DEFINE q == ReqOf(g)
               used == [approval[q] EXCEPT !.consumed = "yes"]
    <3>1. approval' = [approval EXCEPT ![q] = used]
      BY <2>3 DEF BeginExecution
    <3>2. q = r => /\ used.decision = approval[r].decision /\ used.id = approval[r].id
                   /\ used.hash = approval[r].hash
      BY <1>t, ApprovalUpdates DEF Approvals
    <3> HIDE DEF used, q
    <3>3. approval'[r] = IF q = r THEN used ELSE approval[r]
      BY <1>t, <3>1
    <3> QED
      BY <3>2, <3>3
  <2> QED
    BY <2>1, <2>2, <2>3 DEF ExecuteBegin, storeVars
<1>4. ASSUME NEW q \in Requests, Submit(q) \/ ClockPasses(q) \/ VerdictChanges(q)
      PROVE  UNCHANGED approval
  BY <1>4 DEF Submit, SubmitEvaluate, SubmitCreate, SubmitEnter, SubmitRefuse,
     OrFails, TryTransition, Transition, Create, ExpireOutstanding, ClockPasses,
     VerdictChanges, TimePasses, storeVars
<1>5. CASE UNCHANGED approval
  BY <1>5
<1>6. ASSUME OpenStore \/ RecoverExpire \/ RecoverApproved \/ Crash \/ ExpireTick
               \/ PruneDelete
      PROVE  UNCHANGED approval
  BY <1>6 DEF OpenStore, RecoverStatuses, RecoverExecutions, MigrateLocalOnly,
     RecoverExpire, ExpireOutstanding, RecoverApproved, Crash, Close, ExpireTick,
     PruneDelete, OrFails, Prune, storeVars
<1>7. ASSUME NEW c \in Calls, NEW q \in Requests, NEW a \in Actors,
             \/ \E kind \in Decisions, echo \in Versions : Decide(c, kind, a, q, echo)
             \/ Cancel(c, a, q)
      PROVE  UNCHANGED approval
  BY <1>7 DEF Decide, Cancel, ExpireOutstanding, storeVars
<1>8. ASSUME NEW ids \in SUBSET Prunable \ {{}}, PruneSelect(ids)
      PROVE  UNCHANGED approval
  BY <1>8 DEF PruneSelect, storeVars
<1> QED
  BY <1>1, <1>2, <1>3, <1>4, <1>5, <1>6, <1>7, <1>8 DEF Next
-----------------------------------------------------------------------------
(* Replies and events.                                                       *)

\* What the step of a bound means for the tests on it.
LEMMA BoundsStep ==
    ASSUME BrokerInv, Spent, Next
    PROVE  /\ Spent'
           /\ Undamaged' => Undamaged /\ ~Spend("damages")
           /\ NoFault' => NoFault /\ ~Spend("faults")
<1>1. /\ left'["damages"] <= left["damages"]
      /\ left["damages"] \in Nat /\ left'["damages"] \in Nat
      /\ Spend("damages") => left'["damages"] = left["damages"] - 1
  BY LeftFrame DEF Bounds
<1>2. /\ left'["faults"] <= left["faults"]
      /\ left["faults"] \in Nat /\ left'["faults"] \in Nat
      /\ Spend("faults") => left'["faults"] = left["faults"] - 1
  BY LeftFrame DEF Bounds
<1> QED
  BY <1>1, <1>2, BrokerAssumption DEF Spent, Undamaged, NoFault

\* What the store's steps mean for a row that was decided or cancelled.
LEMMA RowKept ==
    ASSUME BrokerInv, Next, NEW r \in Requests
    PROVE  /\ approval[r].decision # "none" =>
                 /\ approval'[r].decision = approval[r].decision
                 /\ approval'[r].id = approval[r].id
           /\ status[r] \in {"CANCELLED", Pruned} => status'[r] \in {"CANCELLED", Pruned}
           /\ status'[r] = "APPROVED" /\ approval[r].decision # "none" =>
                 status[r] = "APPROVED"
           /\ status'[r] = "EXECUTING" /\ approval[r].decision # "none" =>
                 status[r] \in {"APPROVED", "EXECUTING"}
<1>1. StoreInv /\ [StoreNext]_storeVars
  BY StoreSteps DEF BrokerInv
<1>2. FinalDecisionStep(r) /\ LegalStatusStep(r)
  BY <1>1, FinalSteps, LegalSteps
<1>3. status[r] \in Statuses \cup {NoRow, Pruned}
  BY <1>1 DEF StoreInv, StoreTypeOK
<1>4. approval[r].decision # "none" =>
        status[r] \notin {"CREATED", "QUEUED", "SYNCED", "WAITING_APPROVAL", "CANCELLED",
                          NoRow, Pruned}
  BY <1>1 DEF StoreInv, DecisionMatchesStatus
<1>5. status[r] \in {"CANCELLED", Pruned} => status'[r] \in {"CANCELLED", Pruned}
  BY <1>2 DEF LegalStatusStep, transitions, Statuses, Terminal, NoRow, Pruned
<1>6. \A s \in Statuses : /\ "APPROVED" \in transitions[s] => s = "WAITING_APPROVAL"
                          /\ "EXECUTING" \in transitions[s] => s \in {"CREATED", "APPROVED"}
  BY DEF transitions, Statuses
<1> QED
  BY <1>2, <1>3, <1>4, <1>5, <1>6 DEF FinalDecisionStep, LegalStatusStep, Pruned

\* The replies stay true.
LEMMA ToldStep == ASSUME BrokerInv, Told, Next PROVE Told'
<1> SUFFICES ASSUME NEW c \in Calls PROVE Answered(c)'
  BY DEF Told
<1> DEFINE r == args[c].req
<1>t. /\ at \in [Calls -> CallPCs] /\ reply \in [Calls -> ApprovalIds \cup {Nil}]
      /\ Answered(c)
      /\ approval \in [Requests -> Approvals]
  BY DEF Told, BrokerInv, ProcessTypeOK, StoreInv, StoreTypeOK
<1>1. at[c] # "idle" => args'[c] = args[c] /\ r \in Requests
  BY ArgsKept
<1>2. ASSUME at[c] # "idle"
      PROVE  /\ approval[r].decision # "none" =>
                   /\ approval'[r].decision = approval[r].decision
                   /\ approval'[r].id = approval[r].id
             /\ status[r] \in {"CANCELLED", Pruned} => status'[r] \in {"CANCELLED", Pruned}
  BY <1>1, <1>2, RowKept
<1>3. CASE at'[c] \notin {"record", "decided", "cancelled"}
  BY <1>3 DEF Answered
<1>4. CASE at'[c] = at[c] /\ reply'[c] = reply[c]
  BY <1>t, <1>1, <1>2, <1>3, <1>4 DEF Answered, Decisions
<1>5. CASE Crash
  BY <1>t, <1>3, <1>4, <1>5 DEF Crash
<1>6. ASSUME NEW q \in Requests, NEW a \in Actors,
             \/ \E kind \in Decisions, echo \in Versions : Decide(c, kind, a, q, echo)
             \/ Cancel(c, a, q)
      PROVE  at'[c] \notin {"record", "decided", "cancelled"}
  BY <1>t, <1>6 DEF Decide, Cancel, Goto, Return
<1>7. CASE CallStoreError(c) \/ DecideGet(c) \/ DecideReject(c) \/ DecideReport(c)
  BY <1>t, <1>3, <1>7 DEF CallStoreError, DecideGet, DecideReject, DecideReport, Goto,
                          Return
<1>8. CASE DecideAccept(c)
  <2>1. CASE /\ AcceptApproval(r, args[c].kind, c, seen[c].body.hash)
             /\ at'[c] = "record"
    <3>1. args[c].kind \in Decisions /\ r \in Requests /\ args'[c] = args[c]
      BY <1>1, <1>8 DEF DecideAccept, BrokerInv, Arguments, Finished
    <3>2. approval'[r].decision = args[c].kind /\ approval'[r].id = c
      BY <1>t, <2>1, <3>1 DEF AcceptApproval
    <3> QED
      BY <2>1, <3>1, <3>2 DEF Answered
  <2> QED
    BY <1>t, <1>3, <1>8, <2>1 DEF DecideAccept, Goto
<1>9. CASE DecideRecord(c)
  <2>1. at[c] = "record" /\ at'[c] = "decided" /\ reply'[c] = c
    BY <1>t, <1>9 DEF DecideRecord, Return, Goto
  <2>2. approval[r].decision = args[c].kind /\ args[c].kind \in Decisions
        /\ approval[r].id = c
    BY <1>t, <2>1 DEF Answered
  <2> QED
    BY <1>1, <1>2, <2>1, <2>2 DEF Answered, Decisions
<1>10. CASE DecideExisting(c)
  <2>1. at[c] \in {"existing", "conflict"} /\ UNCHANGED approval
    BY <1>10 DEF DecideExisting, storeVars
  <2>2. args[c].kind \in Decisions
    BY <2>1 DEF BrokerInv, Arguments, Finished
  <2>3. CASE at'[c] = "decided"
    <3>1. approval[r].decision = args[c].kind /\ reply'[c] = approval[r].id
      BY <1>t, <1>10, <2>3 DEF DecideExisting, SameDecision, Return, Goto
    <3> QED
      BY <1>1, <2>1, <2>2, <2>3, <3>1 DEF Answered
  <2> QED
    BY <1>t, <1>3, <1>10, <2>3 DEF DecideExisting, Return, Goto
<1>11. CASE CancelCommit(c)
  <2>1. CASE Transition(r, "CANCELLED", seen[c].status) /\ at'[c] = "cancelled"
    <3>1. r \in Requests /\ args'[c] = args[c]
      BY <1>1, <1>11 DEF CancelCommit
    <3>2. status'[r] = "CANCELLED"
      BY <2>1, <3>1 DEF Transition, BrokerInv, StoreInv, StoreTypeOK
    <3> QED
      BY <2>1, <3>1, <3>2 DEF Answered
  <2> QED
    BY <1>t, <1>3, <1>11, <2>1 DEF CancelCommit, Return, Goto
<1> QED
  BY <1>3, <1>4, <1>5, <1>6, <1>7, <1>8, <1>9, <1>10, <1>11, CallFrame DEF Handler

\* Who spawns a goroutine has answered, and its request is approved.
LEMMA SpawnedStep == ASSUME BrokerInv, Spawned, Told, Next PROVE Spawned'
<1>t. /\ at \in [Calls -> CallPCs] /\ pc \in [Goroutines -> WorkPCs]
      /\ \A c \in Calls : c \in Goroutines /\ c \notin Requests
  BY BrokerAssumption DEF BrokerInv, ProcessTypeOK, Goroutines, Calls
<1>1. ASSUME NEW c \in Calls, DecideRecord(c) \/ DecideExisting(c), pc'[c] # "idle"
      PROVE  /\ at'[c] = "decided" /\ args'[c] = args[c] /\ args[c].req \in Requests
             /\ approval'[args[c].req].decision = "approve"
  <2>1. at[c] \in {"record", "existing", "conflict"} /\ pc[c] = "idle"
    BY <1>1 DEF DecideRecord, DecideExisting, Spawned
  <2>2. args'[c] = args[c] /\ args[c].req \in Requests
    BY <2>1, ArgsKept
  <2>3. CASE DecideRecord(c)
    <3>1. at'[c] = "decided" /\ args[c].kind = "approve" /\ at[c] = "record"
      BY <1>1, <1>t, <2>1, <2>3 DEF DecideRecord, Return, Goto, Spawn
    <3>2. approval[args[c].req].decision = "approve"
      BY <3>1 DEF Told, Answered
    <3> QED
      BY <2>2, <3>1, <3>2, RowKept
  <2>4. CASE DecideExisting(c)
    BY <1>1, <1>t, <2>1, <2>2, <2>4 DEF DecideExisting, SameDecision, Return, Goto, Spawn,
                                        storeVars
  <2> QED
    BY <1>1, <2>3, <2>4
<1>2. ASSUME NEW g \in Goroutines, pc'[g] # "idle", pc[g] # "idle"
      PROVE  approval'[ReqOf(g)'].decision = "approve"
  BY <1>2, RequestKept, RowKept DEF Spawned
<1>3. ASSUME NEW g \in Goroutines, pc'[g] # "idle", pc[g] = "idle"
      PROVE  \/ g \in Calls /\ (DecideRecord(g) \/ DecideExisting(g))
             \/ RecoverApproved
  <2>1. CASE Execute(g) \/ ExecuteLoadError(g) \/ CommandExits(g)
    BY <1>3, <2>1 DEF Execute, ExecuteLoadError, CommandExits, ExecuteEnter, ExecuteLoad,
              ExecuteApproval, ExecuteRecheck, ExecuteExpire, ExecuteReject,
              ExecuteReport, ExecuteBegin, ExecuteStart, ExecuteReap, ExecuteFinish,
              ExecuteLeave
  <2>2. CASE Crash
    BY <1>3, <2>2 DEF Crash
  <2> QED
    BY <1>3, <2>1, <2>2, WorkFrame
<1>4. ASSUME NEW c \in Calls, pc'[c] # "idle" PROVE at'[c] = "decided"
  <2>1. CASE pc[c] # "idle"
    <3>1. at[c] = "decided"
      BY <2>1 DEF Spawned
    <3>2. ~(Handler(c) \/ CallStoreError(c))
      BY <3>1 DEF Handler, CallStoreError, DecideGet, DecideReject, DecideReport,
         DecideAccept, DecideRecord, DecideExisting, CancelCommit
    <3> QED
      BY <1>4, <1>t, <3>1, <3>2, CallFrame DEF Crash, Decide, Cancel
  <2>2. CASE pc[c] = "idle"
    <3>1. ~RecoverApproved
      BY <1>4, <1>t, <2>2 DEF RecoverApproved
    <3> QED
      BY <1>1, <1>3, <1>4, <1>t, <2>2, <3>1
  <2> QED
    BY <2>1, <2>2
<1>5. ASSUME NEW g \in Goroutines, pc'[g] # "idle"
      PROVE  approval'[ReqOf(g)'].decision = "approve"
  <2>1. CASE RecoverApproved /\ pc[g] = "idle"
    <3>1. g \in Requests /\ status[g] = "APPROVED" /\ UNCHANGED approval
      BY <1>5, <1>t, <2>1 DEF RecoverApproved, storeVars
    <3>2. ReqOf(g)' = g
      BY <1>t, <3>1 DEF ReqOf
    <3> QED
      BY <3>1, <3>2 DEF BrokerInv, StoreInv, DecisionMatchesStatus
  <2>2. CASE g \in Calls /\ (DecideRecord(g) \/ DecideExisting(g))
    BY <1>1, <1>5, <2>2 DEF ReqOf
  <2> QED
    BY <1>2, <1>3, <1>5, <2>1, <2>2
<1> QED
  BY <1>4, <1>5 DEF Spawned

\* Only damage puts another hash into a row or into what was read from one.
LEMMA IntactStep == ASSUME BrokerInv, Spent, Intact, Next PROVE Intact'
<1> SUFFICES ASSUME Undamaged'
             PROVE  /\ \A r \in Requests :
                          stored'[r] = Submitted /\ approval'[r].hash = "submitted"
                    /\ \A c \in Calls : seen'[c].body = Submitted
                    /\ \A g \in Goroutines : item'[g] = Submitted
  BY DEF Intact
<1>1. Undamaged /\ ~Spend("damages")
  BY BoundsStep
<1>t. /\ \A r \in Requests : stored[r] = Submitted /\ approval[r].hash = "submitted"
      /\ \A c \in Calls : seen[c].body = Submitted
      /\ \A g \in Goroutines : item[g] = Submitted
      /\ seen \in [Calls -> Rows] /\ item \in [Goroutines -> Bodies]
      /\ approval \in [Requests -> Approvals]
  BY <1>1 DEF Intact, BrokerInv, ProcessTypeOK, StoreInv, StoreTypeOK
<1>2. ASSUME NEW r \in Requests PROVE stored'[r] = Submitted
  BY <1>1, <1>t, StoredFrame
<1>3. ASSUME NEW r \in Requests PROVE approval'[r].hash = "submitted"
  <2>1. ASSUME NEW c \in Calls, AcceptApproval(r, args[c].kind, c, seen[c].body.hash)
        PROVE  approval'[r].hash = "submitted"
    BY <1>t, <2>1 DEF AcceptApproval, Submitted
  <2> QED
    BY <1>1, <1>t, <2>1, ApprovalFrame
<1>4. ASSUME NEW c \in Calls PROVE seen'[c].body = Submitted
  <2>1. CASE Crash
    BY <2>1 DEF Crash, Unseen
  <2>2. CASE Handler(c) \/ CallStoreError(c)
    <3>1. at[c] # "idle"
      BY <2>2 DEF Handler, CallStoreError, DecideGet, DecideReject, DecideReport,
         DecideAccept, DecideRecord, DecideExisting, CancelCommit
    <3>2. args[c].req \in Requests
      BY <3>1, ArgsKept
    <3> QED
      BY <1>t, <2>2, <3>2 DEF Handler, CallStoreError, DecideGet, DecideReject,
         DecideReport, DecideAccept, DecideRecord, DecideExisting, CancelCommit,
         Return, Unseen
  <2>3. ASSUME NEW r \in Requests, NEW a \in Actors,
               \/ \E kind \in Decisions, echo \in Versions : Decide(c, kind, a, r, echo)
               \/ Cancel(c, a, r)
        PROVE  seen'[c].body = Submitted
    BY <1>t, <2>3 DEF Decide, Cancel, Return, Unseen
  <2> QED
    BY <1>t, <2>1, <2>2, <2>3, CallFrame
<1>5. ASSUME NEW g \in Goroutines PROVE item'[g] = Submitted
  <2>1. CASE Crash
    BY <2>1 DEF Crash
  <2>2. CASE RecoverApproved \/ (g \in Calls /\ (DecideRecord(g) \/ DecideExisting(g)))
    BY <1>t, <2>2 DEF RecoverApproved, DecideRecord, DecideExisting
  <2>3. CASE ExecuteLoad(g)
    <3>1. ReqOf(g) \in Requests
      BY <2>3, RequestKept DEF ExecuteLoad
    <3> QED
      BY <1>t, <2>3, <3>1 DEF ExecuteLoad
  <2>4. CASE (Execute(g) /\ ~ExecuteLoad(g)) \/ ExecuteLoadError(g) \/ CommandExits(g)
    BY <1>t, <2>4 DEF Execute, ExecuteLoadError, CommandExits, ExecuteEnter,
              ExecuteApproval, ExecuteRecheck, ExecuteExpire, ExecuteReject,
              ExecuteReport, ExecuteBegin, ExecuteStart, ExecuteReap, ExecuteFinish,
              ExecuteLeave
  <2> QED
    BY <1>t, <2>1, <2>2, <2>3, <2>4, WorkFrame
<1> QED
  BY <1>2, <1>3, <1>4, <1>5

\* An integrity failure is found by a check of a damaged row, or follows a failed
\* read of the approval.
LEMMA SuspicionsStep ==
    ASSUME BrokerInv, Spent, Spawned, Intact, Suspicions, Next
    PROVE  Suspicions'
<1>b. /\ Undamaged' => Undamaged /\ ~Spend("damages")
      /\ NoFault' => NoFault /\ ~Spend("faults")
  BY BoundsStep
<1>t. /\ at \in [Calls -> CallPCs] /\ why \in [Goroutines -> EventTypes \cup {"none"}]
  BY DEF BrokerInv, ProcessTypeOK
<1>i. HashMatches(Submitted) /\ Submitted.hash = "submitted"
  BY DEF HashMatches, Submitted
<1>1. ASSUME NEW c \in Calls, at'[c] \in {"reject", "report"}, Undamaged' PROVE FALSE
  <2>0. at[c] \notin {"reject", "report"}
    BY <1>1, <1>b DEF Suspicions
  <2>1. CASE Crash
    BY <1>1, <1>t, <2>0, <2>1 DEF Crash, Finished
  <2>2. CASE DecideGet(c)
    <3>1. args[c].req \in Requests
      BY <2>2, ArgsKept DEF DecideGet
    <3>2. HashMatches(stored[args[c].req])
      BY <1>1, <1>b, <1>i, <3>1 DEF Intact
    <3> QED
      BY <1>1, <1>t, <2>2, <3>2 DEF DecideGet, Goto, Return
  <2>3. CASE (Handler(c) /\ ~DecideGet(c)) \/ CallStoreError(c)
    BY <1>1, <1>t, <2>0, <2>3 DEF Handler, CallStoreError, DecideReject, DecideReport,
       DecideAccept, DecideRecord, DecideExisting, CancelCommit, Goto, Return
  <2>4. ASSUME NEW r \in Requests, NEW a \in Actors,
               \/ \E kind \in Decisions, echo \in Versions : Decide(c, kind, a, r, echo)
               \/ Cancel(c, a, r)
        PROVE  FALSE
    BY <1>1, <1>t, <2>4 DEF Decide, Cancel, Goto, Return
  <2> QED
    BY <1>1, <2>0, <2>1, <2>2, <2>3, <2>4, CallFrame
<1>2. ASSUME NEW g \in Goroutines
      PROVE  \/ why'[g] \in {why[g], "none"}
             \/ why'[g] = "request.integrity-failed" /\ ~Undamaged'
             \/ why'[g] = "approval.integrity-failed" /\ (~Undamaged' \/ ~NoFault')
  <2>1. CASE Crash
    BY <2>1 DEF Crash
  <2>2. CASE RecoverApproved \/ (g \in Calls /\ (DecideRecord(g) \/ DecideExisting(g)))
    BY <2>2 DEF RecoverApproved, DecideRecord, DecideExisting
  <2>3. CASE ExecuteLoad(g)
    <3>1. ReqOf(g) \in Requests
      BY <2>3, RequestKept DEF ExecuteLoad
    <3>2. Undamaged => HashMatches(stored[ReqOf(g)])
      BY <1>i, <3>1 DEF Intact
    <3> QED
      BY <1>t, <1>b, <2>3, <3>2 DEF ExecuteLoad
  <2>4. CASE ExecuteApproval(g)
    <3>1. ReqOf(g) \in Requests /\ approval[ReqOf(g)].decision = "approve"
      BY <2>4, RequestKept DEF ExecuteApproval, Spawned
    <3>2. Undamaged => approval[ReqOf(g)].hash = item[g].hash
      BY <1>i, <3>1 DEF Intact
    <3>3. Undamaged => BoundApproval(g)
      BY <3>1, <3>2 DEF BoundApproval
    <3> QED
      BY <1>t, <1>b, <2>4, <3>3 DEF ExecuteApproval
  <2>5. CASE ExecuteLeave(g)
    BY <1>t, <2>5 DEF ExecuteLeave
  <2>6. CASE (Execute(g) /\ ~ExecuteLoad(g) /\ ~ExecuteApproval(g) /\ ~ExecuteLeave(g))
               \/ ExecuteLoadError(g) \/ CommandExits(g)
    BY <2>6 DEF Execute, ExecuteLoadError, CommandExits, ExecuteEnter,
              ExecuteRecheck, ExecuteExpire, ExecuteReject, ExecuteReport,
              ExecuteBegin, ExecuteStart, ExecuteReap, ExecuteFinish
  <2> QED
    BY <2>1, <2>2, <2>3, <2>4, <2>5, <2>6, WorkFrame
<1> QED
  BY <1>1, <1>2, <1>b DEF Suspicions

\* Events are recorded by a handler that rejects or has decided, and by a goroutine
\* that reports.
LEMMA EventsFrame ==
    ASSUME BrokerInv, Next
    PROVE  \/ events' = events
           \/ \E c \in Calls :
                 \/ /\ at[c] = "report"
                    /\ events' = events \cup {<<"request.integrity-failed", args[c].req>>}
                 \/ /\ at[c] = "record" /\ args[c].kind = "approve"
                    /\ events' = events \cup {<<"request.approved", args[c].req>>}
                 \/ /\ at[c] = "record" /\ args[c].kind # "approve"
                    /\ events' = events \cup {<<"request.denied", args[c].req>>}
           \/ \E g \in Goroutines : events' = events \cup {<<why[g], ReqOf(g)>>}
                                    /\ pc[g] = "report"
<1>1. ASSUME NEW c \in Calls, Handler(c) \/ CallStoreError(c)
      PROVE  \/ events' = events
             \/ /\ at[c] = "report"
                /\ events' = events \cup {<<"request.integrity-failed", args[c].req>>}
             \/ /\ at[c] = "record" /\ args[c].kind = "approve"
                /\ events' = events \cup {<<"request.approved", args[c].req>>}
             \/ /\ at[c] = "record" /\ args[c].kind # "approve"
                /\ events' = events \cup {<<"request.denied", args[c].req>>}
  BY <1>1 DEF Handler, CallStoreError, DecideGet, DecideReject, DecideReport,
     DecideAccept, DecideRecord, DecideExisting, CancelCommit, OrFails, TryTransition,
     Transition, RecordSecurityEvent, AcceptApproval, storeVars
<1>2. ASSUME NEW g \in Goroutines,
             Execute(g) \/ ExecuteLoadError(g) \/ ExecutionTimer(g) \/ CommandExits(g)
      PROVE  \/ events' = events
             \/ events' = events \cup {<<why[g], ReqOf(g)>>} /\ pc[g] = "report"
  BY <1>2 DEF Execute, ExecuteLoadError, ExecutionTimer, CommandExits, ExecuteEnter,
     ExecuteLoad, ExecuteApproval, ExecuteRecheck, ExecuteExpire, ExecuteReject,
     ExecuteReport, ExecuteBegin, ExecuteStart, ExecuteReap, ExecuteFinish,
     ExecuteLeave, OrFails, TryTransition, Transition, RecordSecurityEvent,
     BeginExecution, FinishExecution, storeVars
<1>3. ASSUME NEW r \in Requests,
             Submit(r) \/ ClockPasses(r) \/ Damage(r) \/ VerdictChanges(r)
      PROVE  UNCHANGED events
  BY <1>3 DEF Submit, SubmitEvaluate, SubmitCreate, SubmitEnter, SubmitRefuse, OrFails,
     TryTransition, Transition, Create, ExpireOutstanding, ClockPasses, Damage,
     VerdictChanges, TimePasses, DamageJson, DamageHash, DamageApproval, storeVars
<1> QED
  BY <1>1, <1>2, <1>3 DEF Next, OpenStore, RecoverStatuses,
     RecoverExecutions, MigrateLocalOnly, RecoverExpire, ExpireOutstanding,
     RecoverApproved, Crash, Close, Decide, Cancel, ExpireTick, PruneSelect,
     PruneDelete, OrFails, Prune, storeVars

\* Every event is true when it is recorded and stays true.
LEMMA AuditStep == ASSUME BrokerInv, ReportInv, Next PROVE AuditIsTrue'
<1> USE DEF ReportInv
<1> SUFFICES ASSUME NEW r \in Requests
             PROVE  /\ <<"request.approved", r>> \in events' =>
                          approval'[r].decision = "approve"
                    /\ <<"request.denied", r>> \in events' => approval'[r].decision = "deny"
                    /\ <<"request.integrity-failed", r>> \in events' =>
                          left'["damages"] < MaxDamages
                    /\ <<"approval.integrity-failed", r>> \in events' =>
                          left'["damages"] < MaxDamages \/ left'["faults"] < MaxFaults
  BY DEF AuditIsTrue
<1>t. /\ MaxDamages \in Nat /\ MaxFaults \in Nat
      /\ left["damages"] \in Nat /\ left'["damages"] \in Nat
      /\ left["faults"] \in Nat /\ left'["faults"] \in Nat
      /\ left'["damages"] <= left["damages"] /\ left'["faults"] <= left["faults"]
  BY BrokerAssumption, LeftFrame DEF Bounds
<1>u. /\ ~Undamaged => left'["damages"] < MaxDamages
      /\ ~NoFault => left'["faults"] < MaxFaults
  BY <1>t DEF Undamaged, NoFault, Spent
<1>1. /\ approval[r].decision = "approve" => approval'[r].decision = "approve"
      /\ approval[r].decision = "deny" => approval'[r].decision = "deny"
  BY RowKept
<1>2. /\ <<"request.approved", r>> \in events => approval[r].decision = "approve"
      /\ <<"request.denied", r>> \in events => approval[r].decision = "deny"
      /\ <<"request.integrity-failed", r>> \in events => ~Undamaged
      /\ <<"approval.integrity-failed", r>> \in events => ~Undamaged \/ ~NoFault
  BY <1>t DEF AuditIsTrue, Undamaged, NoFault
<1>3. CASE events' = events
  BY <1>1, <1>2, <1>3, <1>u
<1>4. ASSUME NEW c \in Calls, at[c] = "report",
             events' = events \cup {<<"request.integrity-failed", args[c].req>>}
      PROVE  /\ ~Undamaged
             /\ \A e \in {"request.approved", "request.denied", "approval.integrity-failed"} :
                   <<e, r>> \in events' => <<e, r>> \in events
  BY <1>4 DEF Suspicions
<1>5. ASSUME NEW c \in Calls, at[c] = "record", args[c].kind = "approve",
             events' = events \cup {<<"request.approved", args[c].req>>}
      PROVE  /\ <<"request.approved", r>> \in events' =>
                    <<"request.approved", r>> \in events \/ approval[r].decision = "approve"
             /\ \A e \in {"request.denied", "request.integrity-failed",
                          "approval.integrity-failed"} :
                   <<e, r>> \in events' => <<e, r>> \in events
  BY <1>5 DEF Told, Answered
<1>6. ASSUME NEW c \in Calls, at[c] = "record", args[c].kind # "approve",
             events' = events \cup {<<"request.denied", args[c].req>>}
      PROVE  /\ <<"request.denied", r>> \in events' =>
                    <<"request.denied", r>> \in events \/ approval[r].decision = "deny"
             /\ \A e \in {"request.approved", "request.integrity-failed",
                          "approval.integrity-failed"} :
                   <<e, r>> \in events' => <<e, r>> \in events
  BY <1>6 DEF Told, Answered, Decisions
<1>7. ASSUME NEW g \in Goroutines, events' = events \cup {<<why[g], ReqOf(g)>>},
             pc[g] = "report"
      PROVE  /\ \A e \in {"request.approved", "request.denied"} :
                   <<e, r>> \in events' => <<e, r>> \in events
             /\ <<"request.integrity-failed", r>> \in events' =>
                   <<"request.integrity-failed", r>> \in events \/ ~Undamaged
             /\ <<"approval.integrity-failed", r>> \in events' =>
                   <<"approval.integrity-failed", r>> \in events \/ ~Undamaged \/ ~NoFault
  BY <1>7 DEF Suspicions, BrokerInv, Arguments
<1> QED
  BY <1>1, <1>2, <1>3, <1>4, <1>5, <1>6, <1>7, <1>u, EventsFrame

\* The daemon starts with no call, no event and untouched rows.
LEMMA ReportInit == Init => ReportInv
<1> SUFFICES ASSUME Init PROVE ReportInv
  OBVIOUS
<1>1. Spent /\ Spawned /\ Told /\ Suspicions /\ AuditIsTrue
  BY BrokerAssumption DEF Init, StoreInit, Spent, Bounds, Spawned, Goroutines, Told, Answered,
     Suspicions, AuditIsTrue
<1>2. \A s : \A a \in LegacyApproval(s) : a.hash = "submitted"
  BY DEF LegacyApproval, NoApproval
<1>3. Intact
  BY <1>2 DEF Init, StoreInit, Intact, Unseen
<1> QED
  BY <1>1, <1>3 DEF ReportInv

\* Every step keeps what was answered and reported true.
LEMMA ReportStep == BrokerInv /\ ReportInv /\ [Next]_vars => ReportInv'
<1> SUFFICES ASSUME BrokerInv, ReportInv, [Next]_vars PROVE ReportInv'
  OBVIOUS
<1>1. CASE Next
  BY <1>1, BoundsStep, SpawnedStep, ToldStep, IntactStep, SuspicionsStep, AuditStep
  DEF ReportInv
<1>2. CASE UNCHANGED vars
  BY <1>2 DEF vars, storeVars, brokerVars, callVars, workVars, runVars, ReportInv, Spent,
     Spawned, Told, Answered, Intact, Suspicions, AuditIsTrue, Undamaged, NoFault, ReqOf
<1> QED
  BY <1>1, <1>2

\* For every number of calls, requests, crashes, faults and damaged columns.
THEOREM ReportsCorrect == Spec => []ReportInv
  BY BrokerCorrect, ReportInit, ReportStep, PTL DEF Spec

\* A caller can rely on its reply: the decision it was told of is the stored one under
\* the ID it was given, and a request it cancelled is never decided and never runs.
THEOREM RepliesKept == Spec => []RepliesHold
<1>1. BrokerInv /\ ReportInv => RepliesHold
  <2> SUFFICES ASSUME BrokerInv, ReportInv, NEW c \in Calls
               PROVE  LET r == args[c].req
                      IN  /\ at[c] = "decided" =>
                                /\ approval[r].decision = args[c].kind
                                /\ approval[r].id = reply[c]
                          /\ at[c] = "cancelled" =>
                                /\ status[r] \in {"CANCELLED", Pruned}
                                /\ approval[r].decision = "none" /\ starts[r] = 0
    BY DEF RepliesHold
  <2>1. Answered(c)
    BY DEF ReportInv, Told
  <2>2. ASSUME at[c] = "cancelled"
        PROVE  approval[args[c].req].decision = "none" /\ starts[args[c].req] = 0
    <3>1. args[c].req \in Requests /\ status[args[c].req] \in {"CANCELLED", Pruned}
      BY <2>1, <2>2 DEF BrokerInv, Arguments, Answered
    <3>2. starts[args[c].req] \in Nat /\ ~(starts[args[c].req] > 0)
      BY <3>1 DEF BrokerInv, ProcessTypeOK, RanIsRecorded, Started, Pruned
    <3> QED
      BY <3>1, <3>2 DEF BrokerInv, StoreInv, DecisionMatchesStatus
  <2> QED
    BY <2>1, <2>2 DEF Answered
<1> QED
  BY <1>1, BrokerCorrect, ReportsCorrect, PTL

\* The security events tell what happened.
THEOREM AuditTrue == Spec => []AuditIsTrue
<1>1. ReportInv => AuditIsTrue
  BY DEF ReportInv
<1> QED
  BY <1>1, ReportsCorrect, PTL
-----------------------------------------------------------------------------
(* No approved work is abandoned.                                            *)

\* The goroutines that have not yet begun an execution, and those that are done.
Ahead == {"enter", "load", "approval", "recheck", "expire", "reject", "begin"}
Closing == {"report", "leave"}

\* A request starts to execute in BeginExecution alone.
LEMMA BeginFrame ==
    ASSUME BrokerInv, Next, NEW r \in Requests,
           status'[r] = "EXECUTING", status[r] # "EXECUTING"
    PROVE  \E g \in Goroutines : /\ ReqOf(g) = r /\ pc[g] = "begin" /\ pc'[g] = "start"
                                 /\ BeginExecution(r)
<1>t. /\ status \in [Requests -> Statuses \cup {NoRow, Pruned}]
      /\ pc \in [Goroutines -> WorkPCs]
  BY DEF BrokerInv, StoreInv, StoreTypeOK, ProcessTypeOK
<1>1. ASSUME NEW q \in Requests,
             Submit(q) \/ ClockPasses(q) \/ Damage(q) \/ VerdictChanges(q)
      PROVE  FALSE
  BY <1>1, <1>t DEF Submit, SubmitEvaluate, SubmitCreate, SubmitEnter, SubmitRefuse, OrFails,
     TryTransition, Transition, Create, ExpireOutstanding, ClockPasses, Damage,
     VerdictChanges, TimePasses, DamageJson, DamageHash, DamageApproval, storeVars
<1>2. ASSUME NEW c \in Calls, Handler(c) \/ CallStoreError(c) PROVE FALSE
  BY <1>2, <1>t DEF Handler, CallStoreError, DecideGet, DecideReject, DecideReport,
     DecideAccept, DecideRecord, DecideExisting, CancelCommit, OrFails, TryTransition,
     Transition, RecordSecurityEvent, AcceptApproval, DecidedStatus, storeVars
<1>3. ASSUME NEW g \in Goroutines,
             Execute(g) \/ ExecuteLoadError(g) \/ ExecutionTimer(g) \/ CommandExits(g)
      PROVE  ReqOf(g) = r /\ pc[g] = "begin" /\ pc'[g] = "start" /\ BeginExecution(r)
  <2>1. CASE ExecuteBegin(g)
    <3>1. pc[g] = "begin" /\ BeginExecution(ReqOf(g)) /\ Jump(g, "start")
      BY <2>1 DEF ExecuteBegin, storeVars
    <3>2. ReqOf(g) = r
      BY <1>t, <3>1 DEF BeginExecution
    <3> QED
      BY <1>t, <3>1, <3>2 DEF Jump
  <2>2. CASE ExecuteFinish(g)
    BY <2>2, <1>t DEF ExecuteFinish, OrFails, FinishExecution, FinishedStatus, storeVars
  <2>3. CASE ~ExecuteBegin(g) /\ ~ExecuteFinish(g)
    BY <1>3, <2>3, <1>t DEF Execute, ExecuteLoadError, ExecutionTimer, CommandExits, ExecuteEnter,
       ExecuteLoad, ExecuteApproval, ExecuteRecheck, ExecuteExpire, ExecuteReject,
       ExecuteReport, ExecuteStart, ExecuteReap, ExecuteLeave, OrFails, TryTransition,
       Transition, RecordSecurityEvent, storeVars
  <2> QED
    BY <2>1, <2>2, <2>3
<1>4. ASSUME OpenStore \/ RecoverExpire \/ RecoverApproved \/ Crash \/ ExpireTick
               \/ PruneDelete
      PROVE  FALSE
  BY <1>4 DEF OpenStore, RecoverStatuses, RecoverExecutions, MigrateLocalOnly,
     RecoverExpire, ExpireOutstanding, RecoverApproved, Crash, Close, ExpireTick,
     PruneDelete, OrFails, Prune, Pruned, storeVars
<1>5. ASSUME NEW c \in Calls, NEW q \in Requests, NEW a \in Actors,
             \/ \E kind \in Decisions, echo \in Versions : Decide(c, kind, a, q, echo)
             \/ Cancel(c, a, q)
      PROVE  FALSE
  BY <1>5 DEF Decide, Cancel, ExpireOutstanding, storeVars
<1>6. ASSUME NEW ids \in SUBSET Prunable \ {{}}, PruneSelect(ids) PROVE FALSE
  BY <1>6 DEF PruneSelect, storeVars
<1> QED
  BY <1>1, <1>2, <1>3, <1>4, <1>5, <1>6 DEF Next

\* Where the steps of a goroutine can lead.
LEMMA Moves ==
    ASSUME BrokerInv, Spawned, Next, ~Crash, NEW g \in Goroutines
    PROVE  /\ pc[g] \in Ahead =>
                 \/ pc'[g] \in Ahead \cup Closing \cup {"start"}
                 \/ /\ ExecuteEnter(g) /\ ReqOf(g) \in executing
                    /\ UNCHANGED <<status, approval, executing>> /\ pc'[g] = "idle"
           /\ pc[g] \in Owner => pc'[g] \in Owner \cup Closing
           /\ pc[g] \in Closing =>
                 \/ pc'[g] \in Closing
                 \/ ExecuteLeave(g) /\ executing' = executing \ {ReqOf(g)}
<1> USE DEF Ahead, Closing, Owner
<1>t. pc \in [Goroutines -> WorkPCs]
  BY DEF BrokerInv, ProcessTypeOK
<1>1. CASE pc'[g] = pc[g]
  BY <1>1
<1>2. CASE RecoverApproved
  BY <1>2 DEF RecoverApproved, BrokerInv, OnlyWhileServing
<1>3. CASE g \in Calls /\ (DecideRecord(g) \/ DecideExisting(g))
  BY <1>3 DEF Spawned, DecideRecord, DecideExisting
<1>4. CASE ExecuteEnter(g)
  BY <1>t, <1>4 DEF ExecuteEnter, Jump, storeVars
<1>5. CASE ExecuteLoad(g) \/ ExecuteLoadError(g) \/ ExecuteApproval(g) \/ ExecuteRecheck(g)
  BY <1>t, <1>5 DEF ExecuteLoad, ExecuteLoadError, ExecuteApproval, ExecuteRecheck, Jump
<1>6. CASE ExecuteExpire(g) \/ ExecuteReject(g) \/ ExecuteReport(g) \/ ExecuteBegin(g)
  BY <1>t, <1>6 DEF ExecuteExpire, ExecuteReject, ExecuteReport, ExecuteBegin, Jump
<1>7. CASE ExecuteStart(g) \/ CommandExits(g) \/ ExecuteReap(g) \/ ExecuteFinish(g)
             \/ ExecuteLeave(g)
  BY <1>t, <1>7 DEF ExecuteStart, CommandExits, ExecuteReap, ExecuteFinish, ExecuteLeave,
                    Jump
<1> QED
  BY <1>1, <1>2, <1>3, <1>4, <1>5, <1>6, <1>7, WorkFrame DEF Execute

\* A request enters the map with a goroutine, and leaves it with the last one.
LEMMA BusyStep == ASSUME BrokerInv, Spawned, Busy, Next PROVE Busy'
<1> SUFFICES ASSUME NEW r \in executing'
             PROVE  \E g \in Goroutines : ReqOf(g)' = r /\ pc'[g] \in InCharge
  BY DEF Busy
<1>t. /\ pc \in [Goroutines -> WorkPCs]
      /\ InCharge = (Ahead \ {"enter"}) \cup Closing \cup Owner
  BY DEF BrokerInv, ProcessTypeOK, InCharge, WorkPCs, Ahead, Closing, Owner
<1>1. ~Crash
  BY DEF Crash
<1>2. r \in executing \/ \E g \in Goroutines : /\ ExecuteEnter(g) /\ ReqOf(g) = r
                                               /\ pc'[g] = "load"
  <2> USE DEF brokerVars, workVars
  <2>1. ASSUME NEW g \in Goroutines, ExecuteEnter(g), r \notin executing
        PROVE  ReqOf(g) = r /\ pc'[g] = "load"
    BY <1>t, <2>1 DEF ExecuteEnter, Jump
  <2>2. ASSUME NEW g \in Goroutines, ~ExecuteEnter(g),
               Execute(g) \/ ExecuteLoadError(g) \/ ExecutionTimer(g) \/ CommandExits(g)
        PROVE  executing' \subseteq executing
    BY <2>2 DEF Execute, ExecuteLoadError, ExecutionTimer, CommandExits, ExecuteLoad,
       ExecuteApproval, ExecuteRecheck, ExecuteExpire, ExecuteReject, ExecuteReport,
       ExecuteBegin, ExecuteStart, ExecuteReap, ExecuteFinish, ExecuteLeave
  <2>3. ASSUME NEW c \in Calls, Handler(c) \/ CallStoreError(c) PROVE UNCHANGED executing
    BY <2>3 DEF Handler, CallStoreError, DecideGet, DecideReject, DecideReport,
       DecideAccept, DecideRecord, DecideExisting, CancelCommit
  <2>4. ASSUME NEW q \in Requests,
               Submit(q) \/ ClockPasses(q) \/ Damage(q) \/ VerdictChanges(q)
        PROVE  UNCHANGED executing
    BY <2>4 DEF Submit, SubmitEvaluate, SubmitCreate, SubmitEnter, SubmitRefuse,
       ClockPasses, Damage, VerdictChanges
  <2>5. ASSUME OpenStore \/ RecoverExpire \/ RecoverApproved \/ ExpireTick \/ PruneDelete
        PROVE  UNCHANGED executing
    BY <2>5 DEF OpenStore, RecoverExpire, RecoverApproved, ExpireTick, PruneDelete
  <2>6. ASSUME NEW c \in Calls, NEW q \in Requests, NEW a \in Actors,
               \/ \E kind \in Decisions, echo \in Versions : Decide(c, kind, a, q, echo)
               \/ Cancel(c, a, q)
        PROVE  UNCHANGED executing
    BY <2>6 DEF Decide, Cancel
  <2>7. ASSUME NEW ids \in SUBSET Prunable \ {{}}, PruneSelect(ids)
        PROVE  UNCHANGED executing
    BY <2>7 DEF PruneSelect
  <2> QED
    BY <1>1, <2>1, <2>2, <2>3, <2>4, <2>5, <2>6, <2>7 DEF Next
<1>3. ASSUME NEW g \in Goroutines, ExecuteEnter(g), ReqOf(g) = r, pc'[g] = "load"
      PROVE  ReqOf(g)' = r /\ pc'[g] \in InCharge
  BY <1>3, <1>t, RequestKept DEF ExecuteEnter, Ahead
<1>4. CASE r \in executing
  <2>1. PICK g \in Goroutines : ReqOf(g) = r /\ pc[g] \in InCharge
    BY <1>4 DEF Busy
  <2>2. ReqOf(g)' = r
    BY <2>1, RequestKept DEF InCharge
  <2>3. pc'[g] \in InCharge
    <3>1. pc'[g] = "enter" => pc[g] \in {"idle", "enter"}
      <4>1. CASE g \in Calls /\ (DecideRecord(g) \/ DecideExisting(g))
        BY <4>1 DEF Spawned, DecideRecord, DecideExisting
      <4>2. CASE RecoverApproved
        BY <4>2 DEF RecoverApproved, BrokerInv, OnlyWhileServing
      <4>3. CASE Execute(g) \/ ExecuteLoadError(g) \/ CommandExits(g)
        BY <1>t, <4>3 DEF Execute, ExecuteLoadError, CommandExits, ExecuteEnter,
           ExecuteLoad, ExecuteApproval, ExecuteRecheck, ExecuteExpire, ExecuteReject,
           ExecuteReport, ExecuteBegin, ExecuteStart, ExecuteReap, ExecuteFinish,
           ExecuteLeave, Jump
      <4> QED
        BY <1>1, <4>1, <4>2, <4>3, WorkFrame
    <3>2. pc[g] # "enter"
      BY <2>1 DEF InCharge
    <3> QED
      BY <1>1, <1>t, <2>1, <3>1, <3>2, Moves DEF Ahead, Closing, Owner, ExecuteEnter,
         InCharge
  <2> QED
    BY <2>2, <2>3
<1> QED
  BY <1>2, <1>3, <1>4

\* While nobody past BeginExecution owns a request, it does not execute.
LEMMA NotExecuting ==
    ASSUME BrokerInv, NoAbandonedWork, NoFault, NEW g \in Goroutines,
           pc[g] \in InCharge \ Owner
    PROVE  status[ReqOf(g)] # "EXECUTING"
<1>1. boot = "serving"
  BY Serving DEF BrokerInv, InCharge
<1>2. ReqOf(g) \in Requests
  BY ReqOfRequest DEF BrokerInv, InCharge
<1>3. status[ReqOf(g)] = "EXECUTING" =>
         \E h \in Goroutines : ReqOf(h) = ReqOf(g) /\ pc[h] \in Owner
  BY <1>1, <1>2 DEF NoAbandonedWork, NoFault, Owner
<1> QED
  BY <1>3 DEF BrokerInv, OneExecutor, InCharge, WorkPCs, Owner

\* The goroutine that ends its work has first settled the request.
LEMMA SettledStep ==
    ASSUME BrokerInv, ReportInv, Settled, NoAbandonedWork, Next
    PROVE  Settled'
<1> SUFFICES ASSUME NoFault', NEW g \in Goroutines, pc'[g] \in Closing
             PROVE  status'[ReqOf(g)'] \notin {"APPROVED", "EXECUTING"}
  BY DEF Settled, Closing
<1> DEFINE r == ReqOf(g)
<1>b. NoFault /\ ~Spend("faults")
  BY BoundsStep DEF ReportInv
<1>t. /\ pc \in [Goroutines -> WorkPCs] /\ StoreInv
      /\ status \in [Requests -> Statuses \cup {NoRow, Pruned}]
  BY DEF BrokerInv, StoreInv, StoreTypeOK, ProcessTypeOK
<1>1. pc[g] # "idle"
  <2>1. ASSUME Execute(g) \/ ExecuteLoadError(g) \/ CommandExits(g) PROVE pc[g] # "idle"
    BY <2>1 DEF Execute, ExecuteLoadError, CommandExits, ExecuteEnter,
       ExecuteLoad, ExecuteApproval, ExecuteRecheck, ExecuteExpire, ExecuteReject,
       ExecuteReport, ExecuteBegin, ExecuteStart, ExecuteReap, ExecuteFinish,
       ExecuteLeave
  <2>2. CASE g \in Calls /\ (DecideRecord(g) \/ DecideExisting(g))
    BY <1>t, <2>2 DEF DecideRecord, DecideExisting, Spawn, Closing
  <2> QED
    BY <1>t, <2>1, <2>2, WorkFrame DEF Crash, RecoverApproved, Closing
<1>2. r \in Requests /\ ReqOf(g)' = r /\ approval[r].decision = "approve"
  BY <1>1, RequestKept DEF ReportInv, Spawned
<1>3. CASE status[r] \notin {"APPROVED", "EXECUTING"}
  BY <1>2, <1>3, RowKept
<1>4. CASE pc[g] \in Closing
  BY <1>3, <1>4, <1>b DEF Settled, Closing
<1>5. ASSUME pc[g] \in InCharge \ Owner PROVE status[r] # "EXECUTING"
  BY <1>5, <1>b, NotExecuting
<1>6. CASE ExecuteLoad(g)
  <2>1. ~HasRow(r)
    BY <1>6, <1>t DEF ExecuteLoad, Jump, Closing
  <2> QED
    BY <1>3, <2>1 DEF HasRow, Statuses
<1>7. CASE ExecuteExpire(g) \/ ExecuteReject(g)
  <2>1. status[r] # "EXECUTING"
    BY <1>5, <1>7 DEF ExecuteExpire, ExecuteReject, InCharge, WorkPCs, Owner
  <2>2. \/ TryTransition(r, "EXPIRED", "APPROVED")
        \/ TryTransition(r, "POLICY_REJECTED", "APPROVED")
    BY <1>7, <1>b DEF ExecuteExpire, ExecuteReject, OrFails
  <2>3. CASE status[r] = "APPROVED"
    <3>1. \/ CanTransition(r, "EXPIRED", "APPROVED")
             /\ CanTransition(r, "POLICY_REJECTED", "APPROVED")
      BY <2>3 DEF CanTransition, transitions, Statuses
    <3>2. status'[r] \in {"EXPIRED", "POLICY_REJECTED"}
      BY <1>t, <1>2, <2>2, <3>1 DEF TryTransition, Transition
    <3> QED
      BY <1>2, <3>2
  <2> QED
    BY <1>3, <2>1, <2>3
<1>8. CASE ExecuteBegin(g)
  <2>1. status[r] # "EXECUTING"
    BY <1>5, <1>8 DEF ExecuteBegin, InCharge, WorkPCs, Owner
  <2>2. ~CanBegin(r)
    BY <1>8, <1>b, <1>t DEF ExecuteBegin, Jump, Closing
  <2>3. status[r] = "APPROVED" => CanBegin(r)
    BY <1>t, <1>2 DEF CanBegin, CanTransition, transitions, Statuses, StoreInv,
       DecisionMatchesStatus, ResultMatchesStatus, Started, StoreTypeOK
  <2> QED
    BY <1>3, <2>1, <2>2, <2>3
<1>9. CASE ExecuteFinish(g)
  <2>1. status[r] = "EXECUTING"
    BY <1>9 DEF ExecuteFinish, BrokerInv, Ownership
  <2>2. FinishExecution(r, result[g].exit, result[g].signal)
    BY <1>9, <1>b, <2>1 DEF ExecuteFinish, OrFails
  <2> QED
    BY <1>t, <1>2, <2>2 DEF FinishExecution, FinishedStatus
<1>10. CASE ExecuteLoadError(g)
  BY <1>10, <1>b DEF ExecuteLoadError
<1>11. ASSUME \/ ExecuteEnter(g) \/ ExecuteApproval(g) \/ ExecuteRecheck(g)
              \/ ExecuteStart(g) \/ CommandExits(g) \/ ExecuteReap(g) \/ ExecuteLeave(g)
       PROVE  FALSE
  BY <1>11, <1>t DEF ExecuteEnter, ExecuteApproval, ExecuteRecheck, ExecuteStart,
     CommandExits, ExecuteReap, ExecuteLeave, Jump, Closing
<1>12. CASE ExecuteReport(g)
  BY <1>4, <1>12 DEF ExecuteReport, Closing
<1>13. ~( \/ Crash \/ RecoverApproved
          \/ g \in Calls /\ (DecideRecord(g) \/ DecideExisting(g)))
  BY <1>t, <1>1 DEF Crash, RecoverApproved, DecideRecord, DecideExisting, ReportInv, Spawned,
     Closing, BrokerInv, OnlyWhileServing
<1> QED
  BY <1>4, <1>6, <1>7, <1>8, <1>9, <1>10, <1>11, <1>12, <1>13, WorkFrame DEF Execute

\* Nothing executes between Open and RecoverApproved.
LEMMA QuietStep == ASSUME BrokerInv, QuietStart, Next PROVE QuietStart'
<1> SUFFICES ASSUME boot' # "serving", handle' = "open", NEW r \in Requests,
                    status'[r] = "EXECUTING"
             PROVE  FALSE
  BY DEF QuietStart
<1>1. CASE status[r] # "EXECUTING"
  <2>1. PICK g \in Goroutines : pc'[g] = "start"
    BY <1>1, BeginFrame
  <2>2. OnlyWhileServing'
    BY Control
  <2> QED
    BY <2>1, <2>2 DEF OnlyWhileServing
<1>2. CASE status[r] = "EXECUTING"
  <2>1. boot = "serving" \/ handle # "open"
    BY <1>2 DEF QuietStart
  <2>2. CASE handle # "open"
    <3>1. boot = "opening"
      BY <2>2 DEF BrokerInv, OnlyWhileServing
    <3>2. MigrateLocalOnly
      <4>1. [StoreNext]_storeVars
        BY StoreSteps
      <4> QED
        BY <2>2, <4>1 DEF StoreNext, Routine, Environment, TimePasses, DamageJson,
           DamageHash, DamageApproval, Close, RecoverStatuses, RecoverExecutions,
           storeVars
    <3> QED
      BY <1>2, <3>2 DEF MigrateLocalOnly, BrokerInv, StoreInv, RecoveryUndisturbed
  <2>3. CASE boot = "serving"
    <3>1. boot' = boot \/ Crash
      <4> USE DEF brokerVars
      <4>1. ASSUME NEW g \in Goroutines,
                   Execute(g) \/ ExecuteLoadError(g) \/ ExecutionTimer(g) \/ CommandExits(g)
            PROVE  UNCHANGED boot
        BY <4>1 DEF Execute, ExecuteLoadError, ExecutionTimer, CommandExits, ExecuteEnter,
           ExecuteLoad, ExecuteApproval, ExecuteRecheck, ExecuteExpire, ExecuteReject,
           ExecuteReport, ExecuteBegin, ExecuteStart, ExecuteReap, ExecuteFinish,
           ExecuteLeave
      <4>2. ASSUME NEW c \in Calls, Handler(c) \/ CallStoreError(c) PROVE UNCHANGED boot
        BY <4>2 DEF Handler, CallStoreError, DecideGet, DecideReject, DecideReport,
           DecideAccept, DecideRecord, DecideExisting, CancelCommit
      <4>3. ASSUME NEW q \in Requests,
                   Submit(q) \/ ClockPasses(q) \/ Damage(q) \/ VerdictChanges(q)
            PROVE  UNCHANGED boot
        BY <4>3 DEF Submit, SubmitEvaluate, SubmitCreate, SubmitEnter, SubmitRefuse,
           ClockPasses, Damage, VerdictChanges
      <4> QED
        BY <2>3, <4>1, <4>2, <4>3 DEF Next, OpenStore, RecoverExpire, RecoverApproved,
           Decide, Cancel, ExpireTick, PruneSelect, PruneDelete
    <3> QED
      BY <2>3, <3>1 DEF Crash, Close
  <2> QED
    BY <2>1, <2>2, <2>3
<1> QED
  BY <1>1, <1>2

\* The daemon begins to serve in RecoverApproved, or with a failed expiry.
LEMMA ServingFrame ==
    ASSUME BrokerInv, Next, boot' = "serving"
    PROVE  \/ boot = "serving" /\ ~Crash /\ ~RecoverApproved
           \/ RecoverApproved
           \/ Spend("faults")
<1> USE DEF brokerVars
<1>1. ~Crash
  BY DEF Crash
<1>2. boot = "serving" => ~RecoverApproved
  BY DEF RecoverApproved
<1>3. ASSUME boot # "serving", ~RecoverApproved, ~Spend("faults") PROVE FALSE
  <2>1. /\ \A c \in Calls : at[c] \in Finished
        /\ \A g \in Goroutines : pc[g] = "idle"
        /\ \A r \in Requests : sub[r] \in {"idle", "done"}
        /\ pruning = {}
    BY <1>3 DEF BrokerInv, OnlyWhileServing
  <2>2. ASSUME NEW g \in Goroutines,
               Execute(g) \/ ExecuteLoadError(g) \/ ExecutionTimer(g) \/ CommandExits(g)
        PROVE  FALSE
    BY <2>1, <2>2 DEF Execute, ExecuteLoadError, ExecutionTimer, CommandExits, ExecuteEnter,
       ExecuteLoad, ExecuteApproval, ExecuteRecheck, ExecuteExpire, ExecuteReject,
       ExecuteReport, ExecuteBegin, ExecuteStart, ExecuteReap, ExecuteFinish,
       ExecuteLeave
  <2>3. ASSUME NEW c \in Calls, Handler(c) \/ CallStoreError(c) PROVE FALSE
    BY <2>1, <2>3 DEF Handler, CallStoreError, DecideGet, DecideReject, DecideReport,
       DecideAccept, DecideRecord, DecideExisting, CancelCommit, Finished
  <2>4. ASSUME NEW q \in Requests,
               Submit(q) \/ ClockPasses(q) \/ Damage(q) \/ VerdictChanges(q)
        PROVE  boot' = boot
    BY <2>4 DEF Submit, SubmitEvaluate, SubmitCreate, SubmitEnter, SubmitRefuse,
       ClockPasses, Damage, VerdictChanges
  <2> QED
    BY <1>1, <1>3, <2>1, <2>2, <2>3, <2>4 DEF Next, OpenStore, RecoverExpire,
       Decide, Cancel, ExpireTick, PruneSelect, PruneDelete
<1> QED
  BY <1>1, <1>2, <1>3

\* The work on a request is handed from the call that approves it to the goroutine it
\* spawns, from a goroutine that gives way to the one in charge, and after a restart
\* to the one that recovery spawns.
LEMMA HandedOn ==
    ASSUME BrokerInv, ReportInv, WorkInv, Next
    PROVE  NoAbandonedWork'
<1> USE DEF WorkInv
<1> DEFINE Somebody(r) ==
               \/ \E c \in Calls : at[c] = "record" /\ args[c].req = r
               \/ \E g \in Goroutines : ReqOf(g) = r /\ pc[g] \in Ahead
           Owned(r) == \E g \in Goroutines : ReqOf(g) = r /\ pc[g] \in Owner
<1> SUFFICES ASSUME boot' = "serving", NoFault', NEW r \in Requests
             PROVE  /\ status'[r] = "APPROVED" => Somebody(r)'
                    /\ status'[r] = "EXECUTING" => Owned(r)'
  BY DEF NoAbandonedWork, NoFault, Ahead, Owner
<1>b. NoFault /\ ~Spend("faults")
  BY BoundsStep DEF ReportInv
<1>i. BrokerInv' /\ Settled'
  BY BrokerStepInv, SettledStep
<1>t. /\ pc \in [Goroutines -> WorkPCs] /\ at \in [Calls -> CallPCs]
      /\ \A c \in Calls : c \in Goroutines /\ c \notin Requests
      /\ Requests \subseteq Goroutines
  BY BrokerAssumption DEF BrokerInv, ProcessTypeOK, Goroutines, Calls
<1>s. \A g \in Goroutines : /\ pc'[g] \in Closing => status'[ReqOf(g)'] \notin {"APPROVED", "EXECUTING"}
                            /\ pc'[g] = "start" => status'[ReqOf(g)'] = "EXECUTING"
  BY <1>i DEF Settled, Closing, BrokerInv, Ownership
<1>1. CASE RecoverApproved
  <2>1. handle = "open" /\ boot = "expired" /\ UNCHANGED status
    BY <1>1 DEF RecoverApproved, BrokerInv, OnlyWhileServing, storeVars
  <2>2. status[r] # "EXECUTING"
    BY <2>1 DEF QuietStart
  <2>3. ASSUME status[r] = "APPROVED" PROVE ReqOf(r)' = r /\ pc'[r] \in Ahead
    BY <1>1, <1>b, <1>t, <2>3 DEF RecoverApproved, ReqOf, Ahead
  <2> QED
    BY <1>t, <2>1, <2>2, <2>3
<1>2. CASE boot = "serving" /\ ~Crash /\ ~RecoverApproved
  <2>1. ASSUME status'[r] = "APPROVED" PROVE Somebody(r)'
    <3>1. CASE status[r] # "APPROVED"
      <4>1. approval[r].decision = "none" /\ approval'[r].decision = "approve"
        BY <1>i, <2>1, <3>1, RowKept DEF BrokerInv, StoreInv, DecisionMatchesStatus
      <4>2. PICK c \in Calls : DecideAccept(c) /\ args[c].req = r /\ at'[c] = "record"
        BY <4>1, ApprovalFrame
      <4>3. args'[c].req = r
        BY <4>2, ArgsKept DEF DecideAccept
      <4> QED
        BY <4>2, <4>3
    <3>2. ASSUME NEW c \in Calls, at[c] = "record", args[c].req = r, status[r] = "APPROVED"
          PROVE  Somebody(r)'
      <4>1. args'[c].req = r
        BY <3>2, ArgsKept
      <4>2. args[c].kind = "approve"
        BY <3>2 DEF ReportInv, Told, Answered, BrokerInv, StoreInv, DecisionMatchesStatus
      <4>3. CASE at'[c] = "record"
        BY <4>1, <4>3
      <4>4. CASE DecideRecord(c)
        <5>1. pc'[c] = "enter" /\ ReqOf(c)' = r
          BY <1>t, <4>1, <4>2, <4>4 DEF DecideRecord, Spawn, ReqOf
        <5> QED
          BY <1>t, <5>1 DEF Ahead
      <4>5. ASSUME (Handler(c) /\ ~DecideRecord(c)) \/ CallStoreError(c) PROVE FALSE
        BY <3>2, <4>5 DEF Handler, CallStoreError, DecideGet, DecideReject, DecideReport,
           DecideAccept, DecideExisting, CancelCommit
      <4> QED
        BY <1>2, <3>2, <4>3, <4>4, <4>5, CallFrame DEF Decide, Cancel
    <3>3. ASSUME NEW g \in Goroutines, ReqOf(g) = r, pc[g] \in Ahead, status[r] = "APPROVED"
          PROVE  Somebody(r)'
      <4>1. ReqOf(g)' = r
        BY <3>3, RequestKept DEF Ahead
      <4>2. CASE pc'[g] \in Ahead
        BY <4>1, <4>2
      <4>3. CASE /\ ExecuteEnter(g) /\ r \in executing
                 /\ UNCHANGED <<status, approval, executing>> /\ pc'[g] = "idle"
        <5>1. PICK h \in Goroutines : ReqOf(h) = r /\ pc[h] \in InCharge
          BY <4>3 DEF Busy
        <5>2. h # g /\ pc'[h] = pc[h]
          BY <1>t, <4>3, <5>1 DEF ExecuteEnter, InCharge, Jump
        <5>3. pc[h] \notin Owner
          BY <3>3, <5>1 DEF BrokerInv, Ownership, Owner
        <5>4. pc[h] \notin Closing
          BY <1>b, <3>3, <5>1 DEF Settled, Closing
        <5>5. pc[h] \in Ahead
          BY <1>t, <5>1, <5>3, <5>4 DEF InCharge, WorkPCs, Ahead, Owner, Closing
        <5>6. ReqOf(h)' = r
          BY <5>1, RequestKept DEF InCharge
        <5> QED
          BY <5>2, <5>5, <5>6
      <4> QED
        BY <1>2, <1>s, <2>1, <3>3, <4>1, <4>2, <4>3, Moves DEF ReportInv
    <3>4. status[r] = "APPROVED" => Somebody(r)
      BY <1>2, <1>b DEF NoAbandonedWork, NoFault, Ahead
    <3> QED
      BY <3>1, <3>2, <3>3, <3>4
  <2>2. ASSUME status'[r] = "EXECUTING" PROVE Owned(r)'
    <3>1. CASE status[r] # "EXECUTING"
      <4>1. PICK g \in Goroutines : ReqOf(g) = r /\ pc'[g] = "start"
        BY <2>2, <3>1, BeginFrame
      <4>2. ReqOf(g)' = r
        BY <4>1, Owners DEF Owner
      <4> QED
        BY <4>1, <4>2 DEF Owner
    <3>2. CASE status[r] = "EXECUTING"
      <4>1. PICK g \in Goroutines : ReqOf(g) = r /\ pc[g] \in Owner
        BY <1>2, <1>b, <3>2 DEF NoAbandonedWork, NoFault, Owner
      <4>2. ReqOf(g)' = r
        BY <4>1, RequestKept DEF Owner
      <4>3. pc'[g] \in Owner
        BY <1>2, <1>s, <2>2, <4>1, <4>2, Moves DEF ReportInv
      <4> QED
        BY <4>2, <4>3
    <3> QED
      BY <3>1, <3>2
  <2> QED
    BY <2>1, <2>2
<1> QED
  BY <1>1, <1>2, <1>b, ServingFrame

\* Every step leaves somebody in charge of approved work.
LEMMA WorkStep == BrokerInv /\ ReportInv /\ WorkInv /\ [Next]_vars => WorkInv'
<1> SUFFICES ASSUME BrokerInv, ReportInv, WorkInv, [Next]_vars PROVE WorkInv'
  OBVIOUS
<1>1. CASE Next
  BY <1>1, BusyStep, SettledStep, QuietStep, HandedOn DEF WorkInv, ReportInv
<1>2. CASE UNCHANGED vars
  BY <1>2 DEF vars, storeVars, brokerVars, callVars, workVars, WorkInv, Busy, Settled,
     QuietStart, NoAbandonedWork, NoFault, ReqOf
<1> QED
  BY <1>1, <1>2

\* No approved request is left without somebody to execute it, and no execution
\* without somebody to finish it, while the store calls succeed.
THEOREM WorkNotAbandoned == Spec => []NoAbandonedWork
<1>1. Init => WorkInv
  BY DEF Init, StoreInit, WorkInv, Busy, Settled, QuietStart, NoAbandonedWork
<1>2. WorkInv => NoAbandonedWork
  BY DEF WorkInv
<1> QED
  BY <1>1, <1>2, BrokerCorrect, ReportsCorrect, WorkStep, PTL DEF Spec
-----------------------------------------------------------------------------
(* What ran is what root confirmed.                                          *)

\* Decide lets only UID 0 pass, and DecideGet compares the echo with the row.
LEMMA ConfirmingStep == ASSUME BrokerInv, Confirming, Next PROVE Confirming'
<1> SUFFICES ASSUME NEW c \in Calls
             PROVE  /\ at'[c] \notin Finished \cup {"cancel"} => args'[c].actor = "root"
                    /\ at'[c] = "accept" /\ args'[c].kind = "approve" =>
                          args'[c].echo = seen'[c].body.hash
  BY DEF Confirming
<1>t. /\ at \in [Calls -> CallPCs] /\ args \in [Calls -> ArgSets] /\ seen \in [Calls -> Rows]
      /\ at[c] \notin Finished \cup {"cancel"} => args[c].actor = "root"
      /\ at[c] = "accept" /\ args[c].kind = "approve" => args[c].echo = seen[c].body.hash
  BY DEF BrokerInv, ProcessTypeOK, Confirming
<1> USE DEF Finished
<1>1. CASE Crash
  BY <1>t, <1>1 DEF Crash
<1>2. ASSUME NEW r \in Requests, NEW a \in Actors,
             \/ \E kind \in Decisions, echo \in Versions : Decide(c, kind, a, r, echo)
             \/ Cancel(c, a, r)
      PROVE  /\ at'[c] \notin Finished \cup {"cancel"} => args'[c].actor = "root"
             /\ at'[c] # "accept"
  BY <1>t, <1>2 DEF Decide, Cancel, Goto, Return
<1>3. CASE DecideGet(c)
  BY <1>t, <1>3 DEF DecideGet, Goto, Return
<1>4. CASE (Handler(c) /\ ~DecideGet(c)) \/ CallStoreError(c)
  BY <1>t, <1>4 DEF Handler, CallStoreError, DecideReject, DecideReport,
     DecideAccept, DecideRecord, DecideExisting, CancelCommit, Goto, Return
<1> QED
  BY <1>t, <1>1, <1>2, <1>3, <1>4, CallFrame

\* The ID of an approval belongs to the call that accepted it.
LEMMA SignedStep == ASSUME BrokerInv, Confirming, Signed, Next PROVE Signed'
<1> SUFFICES ASSUME NEW r \in Requests, approval'[r].id \in ApprovalIds
             PROVE  LET c == approval'[r].id
                    IN  /\ at'[c] # "idle" /\ approval'[r].decision # "none"
                        /\ args'[c].actor = "root" /\ args'[c].req = r
                        /\ args'[c].kind = approval'[r].decision
  BY DEF Signed
<1>1. CASE approval'[r].decision = approval[r].decision /\ approval'[r].id = approval[r].id
  <2>1. LET c == approval[r].id
        IN  /\ at[c] # "idle" /\ approval[r].decision # "none"
            /\ args[c].actor = "root" /\ args[c].req = r
            /\ args[c].kind = approval[r].decision
    BY <1>1 DEF Signed
  <2> QED
    BY <1>1, <2>1, ArgsKept DEF Calls
<1>2. ASSUME NEW c \in Calls, DecideAccept(c), args[c].req = r, at'[c] = "record",
             AcceptApproval(r, args[c].kind, c, seen[c].body.hash)
      PROVE  /\ approval'[r].id = c /\ at'[c] # "idle" /\ approval'[r].decision # "none"
             /\ args'[c].actor = "root" /\ args'[c].req = r
             /\ args'[c].kind = approval'[r].decision
  <2>1. approval'[r].id = c /\ approval'[r].decision = args[c].kind
    BY <1>2 DEF AcceptApproval, BrokerInv, StoreInv, StoreTypeOK
  <2>2. args[c].kind \in Decisions /\ args[c].actor = "root"
    BY <1>2 DEF DecideAccept, BrokerInv, Arguments, Confirming, Finished
  <2>3. args'[c] = args[c]
    BY <1>2, ArgsKept DEF DecideAccept
  <2> QED
    BY <1>2, <2>1, <2>2, <2>3 DEF Decisions
<1> QED
  BY <1>1, <1>2, ApprovalFrame

\* An ID stays, and so does what its call echoed.
LEMMA EchoKept ==
    ASSUME BrokerInv, Signed, Next, NEW r \in Requests, approval[r].id \in ApprovalIds
    PROVE  approval'[r].id = approval[r].id /\ Echoed(r)' = Echoed(r)
<1>1. at[approval[r].id] # "idle" /\ approval[r].decision # "none"
  BY DEF Signed
<1>2. approval'[r].id = approval[r].id
  BY <1>1, RowKept
<1>3. args'[approval[r].id] = args[approval[r].id]
  BY <1>1, ArgsKept DEF Calls
<1> QED
  BY <1>2, <1>3 DEF Echoed

\* The migration rejects what the remote-era daemon left approved.
LEMMA MigrationFrame ==
    ASSUME BrokerInv, Next, handle = "open" => migrated
    PROVE  /\ handle' = "open" => migrated'
           /\ migrated' => migrated \/ \A r \in Requests : status'[r] # "APPROVED"
<1>1. [StoreNext]_storeVars
  BY StoreSteps
<1>2. CASE MigrateLocalOnly
  <2>1. migrated'
    BY <1>2, Zenon DEF MigrateLocalOnly
  <2>2. CASE ~migrated
    BY <1>2, <2>2 DEF MigrateLocalOnly, RemotePending
  <2> QED
    BY <2>1, <2>2, Zenon
<1>3. CASE RecoverStatuses \/ RecoverExecutions
  <2>1. handle' # "open"
    BY <1>3 DEF RecoverStatuses, RecoverExecutions
  <2>2. migrated' = migrated
    BY <1>3 DEF RecoverStatuses, RecoverExecutions
  <2> QED
    BY <2>1, <2>2, Zenon
<1>4. CASE UNCHANGED <<handle, migrated>>
  BY <1>4, Zenon
<1>5. CASE Close
  BY <1>5, Zenon DEF Close
<1>6. ASSUME NEW r \in Requests,
             Operation(r) \/ \E e \in Exits, s \in Signals : FinishExecution(r, e, s)
      PROVE  UNCHANGED <<handle, migrated>>
  BY <1>6 DEF Operation, Create, Transition, AcceptApproval, BeginExecution,
     RecordSecurityEvent, FinishExecution
<1>7. ASSUME NEW r \in Requests, Environment(r) PROVE UNCHANGED <<handle, migrated>>
  BY <1>7 DEF Environment, TimePasses, DamageJson, DamageHash, DamageApproval
<1>8. ASSUME NEW ids \in SUBSET Prunable, Prune(ids) PROVE UNCHANGED <<handle, migrated>>
  BY <1>8 DEF Prune
<1>9. ASSUME ExpireOutstanding \/ UNCHANGED storeVars PROVE UNCHANGED <<handle, migrated>>
  BY <1>9 DEF ExpireOutstanding, storeVars
<1> QED
  BY <1>1, <1>2, <1>3, <1>4, <1>5, <1>6, <1>7, <1>8, <1>9 DEF StoreNext, Routine

\* So whatever is executed was approved by a call of this daemon.
LEMMA LocalOnlyStep ==
    ASSUME BrokerInv, ReportInv, Confirming, Signed, LocalOnly, Next
    PROVE  LocalOnly'
<1>t. /\ pc \in [Goroutines -> WorkPCs] /\ at \in [Calls -> CallPCs]
      /\ \A c \in Calls : c \in Goroutines /\ c \notin Requests
  BY BrokerAssumption DEF BrokerInv, ProcessTypeOK, Goroutines, Calls
<1>m. /\ handle' = "open" => migrated'
      /\ migrated' => migrated \/ \A r \in Requests : status'[r] # "APPROVED"
  BY MigrationFrame DEF LocalOnly
<1>1. ASSUME NEW r \in Requests, migrated', status'[r] = "APPROVED"
      PROVE  approval'[r].id \in ApprovalIds
  <2>0. migrated
    BY <1>1, <1>m
  <2>1. CASE approval[r].decision # "none"
    <3>1. status[r] = "APPROVED"
      BY <1>1, <2>1, RowKept
    <3>2. approval[r].id \in ApprovalIds
      BY <2>0, <3>1 DEF LocalOnly
    <3> QED
      BY <3>2, EchoKept
  <2>2. CASE approval[r].decision = "none"
    <3>1. approval'[r].decision = "approve"
      BY <1>1, BrokerStepInv DEF BrokerInv, StoreInv, DecisionMatchesStatus
    <3>2. PICK c \in Calls : AcceptApproval(r, args[c].kind, c, seen[c].body.hash)
      BY <2>2, <3>1, ApprovalFrame
    <3> QED
      BY <3>2 DEF AcceptApproval, BrokerInv, StoreInv, StoreTypeOK, Calls
  <2> QED
    BY <2>1, <2>2
<1>2. ASSUME NEW r \in Requests, status[r] = "APPROVED", handle = "open"
      PROVE  approval[r].id \in ApprovalIds
  BY <1>2 DEF LocalOnly
<1>3. ASSUME NEW g \in Goroutines, pc'[g] # "idle"
      PROVE  approval'[ReqOf(g)'].id \in ApprovalIds
  <2>1. CASE pc[g] # "idle"
    BY <2>1, RequestKept, EchoKept DEF LocalOnly
  <2>2. CASE RecoverApproved /\ pc[g] = "idle"
    <3>1. g \in Requests /\ status[g] = "APPROVED" /\ handle = "open" /\ UNCHANGED approval
      BY <1>3, <1>t, <2>2 DEF RecoverApproved, storeVars, BrokerInv, OnlyWhileServing
    <3>2. ReqOf(g)' = g
      BY <1>t, <3>1 DEF ReqOf
    <3> QED
      BY <1>2, <3>1, <3>2
  <2>3. CASE g \in Calls /\ DecideRecord(g)
    <3>1. args'[g] = args[g] /\ args[g].req \in Requests /\ at[g] = "record"
      BY <2>3, ArgsKept DEF DecideRecord
    <3>2. approval[args[g].req].id = g
      BY <2>3, <3>1 DEF ReportInv, Told, Answered
    <3> QED
      BY <2>3, <3>1, <3>2, EchoKept DEF ReqOf, Calls
  <2>4. CASE g \in Calls /\ DecideExisting(g) /\ pc[g] = "idle"
    <3>1. args'[g] = args[g] /\ args[g].req \in Requests
      BY <2>4, ArgsKept DEF DecideExisting
    <3>2. at[g] = "existing" /\ seen[g].status = "APPROVED"
      BY <1>3, <2>4 DEF DecideExisting
    <3>3. approval[args[g].req].id \in ApprovalIds
      BY <2>4, <3>2 DEF LocalOnly
    <3> QED
      BY <2>4, <3>1, <3>3, EchoKept DEF ReqOf
  <2>5. ASSUME Crash \/ Execute(g) \/ ExecuteLoadError(g) \/ CommandExits(g)
        PROVE  pc[g] # "idle"
    BY <1>3, <2>5 DEF Crash, Execute, ExecuteLoadError, CommandExits, ExecuteEnter,
       ExecuteLoad, ExecuteApproval, ExecuteRecheck, ExecuteExpire, ExecuteReject,
       ExecuteReport, ExecuteBegin, ExecuteStart, ExecuteReap, ExecuteFinish,
       ExecuteLeave
  <2> QED
    BY <1>3, <2>1, <2>2, <2>3, <2>4, <2>5, WorkFrame
<1>4. ASSUME NEW c \in Calls, at'[c] = "existing", seen'[c].status = "APPROVED"
      PROVE  approval'[args'[c].req].id \in ApprovalIds
  <2>1. CASE at[c] = "existing" /\ seen[c].status = "APPROVED"
    <3>1. args'[c] = args[c] /\ args[c].req \in Requests
      BY <2>1, ArgsKept
    <3> QED
      BY <2>1, <3>1, EchoKept DEF LocalOnly
  <2>2. CASE DecideGet(c)
    <3>1. args'[c] = args[c] /\ args[c].req \in Requests /\ UNCHANGED approval
      BY <2>2, ArgsKept DEF DecideGet, storeVars
    <3>2. handle = "open"
      BY <2>2, Serving DEF DecideGet, BrokerInv, Finished
    <3>3. status[args[c].req] = "APPROVED"
      BY <1>4, <1>t, <2>2 DEF DecideGet, Goto, Return, BrokerInv, ProcessTypeOK
    <3> QED
      BY <1>2, <3>1, <3>2, <3>3
  <2>3. ASSUME (Handler(c) /\ ~DecideGet(c)) \/ CallStoreError(c) PROVE FALSE
    BY <1>4, <1>t, <2>3 DEF Handler, CallStoreError, DecideReject, DecideReport,
       DecideAccept, DecideRecord, DecideExisting, CancelCommit, Goto, Return
  <2>4. ASSUME NEW r \in Requests, NEW a \in Actors,
               \/ \E kind \in Decisions, echo \in Versions : Decide(c, kind, a, r, echo)
               \/ Cancel(c, a, r)
        PROVE  FALSE
    BY <1>4, <1>t, <2>4 DEF Decide, Cancel, Goto, Return
  <2>5. ~Crash
    BY <1>4, <1>t DEF Crash, Finished
  <2> QED
    BY <1>4, <2>1, <2>2, <2>3, <2>4, <2>5, CallFrame
<1>5. handle' = "open" => migrated'
  BY <1>m
<1> QED
  BY <1>1, <1>3, <1>4, <1>5 DEF LocalOnly

\* A damaged column is paid for with one of the damages, and a forged approval does
\* not name the submitted version.
LEMMA CountedStep ==
    ASSUME BrokerInv, Confirming, Signed, Counted, Next
    PROVE  Counted'
<1> SUFFICES ASSUME NEW r \in Requests
             PROVE  /\ Columns(r)' + left'["damages"] <= MaxDamages
                    /\ ForgedApproval(r)' => approval'[r].hash = "other"
  BY DEF Counted
<1> DEFINE d == left["damages"]
           e == left'["damages"]
           j == One(stored[r].json = "other")
           h == One(stored[r].hash = "other")
           f == One(ForgedApproval(r))
           jj == One(stored'[r].json = "other")
           hh == One(stored'[r].hash = "other")
           ff == One(ForgedApproval(r)')
<1>t. /\ stored[r] \in Bodies /\ MaxDamages \in Nat
      /\ d \in Nat /\ e \in Nat /\ e <= d /\ (Spend("damages") => e = d - 1)
  BY BrokerAssumption, LeftFrame DEF BrokerInv, StoreInv, StoreTypeOK, Bounds
<1>n. /\ j \in {0, 1} /\ h \in {0, 1} /\ f \in {0, 1}
      /\ jj \in {0, 1} /\ hh \in {0, 1} /\ ff \in {0, 1}
  BY DEF One
<1>1. /\ j + h + f + d <= MaxDamages
      /\ ForgedApproval(r) => approval[r].hash = "other"
  BY DEF Counted, Columns
<1>2. ASSUME /\ approval'[r].decision = approval[r].decision
             /\ approval'[r].id = approval[r].id
             /\ approval'[r].hash = approval[r].hash
      PROVE  ForgedApproval(r)' <=> ForgedApproval(r)
  BY <1>2, EchoKept DEF ForgedApproval
<1>3. ASSUME NEW c \in Calls, DecideAccept(c), args[c].req = r,
             AcceptApproval(r, args[c].kind, c, seen[c].body.hash)
      PROVE  ~ForgedApproval(r)'
  <2>1. /\ approval'[r].id = c /\ approval'[r].decision = args[c].kind
        /\ approval'[r].hash = seen[c].body.hash
    BY <1>3 DEF AcceptApproval, BrokerInv, StoreInv, StoreTypeOK
  <2>2. args[c].kind = "approve" => args[c].echo = seen[c].body.hash
    BY <1>3 DEF DecideAccept, Confirming
  <2>3. args'[c] = args[c]
    BY <1>3, ArgsKept DEF DecideAccept
  <2> QED
    BY <2>1, <2>2, <2>3 DEF ForgedApproval, Echoed
<1>4. \/ (ForgedApproval(r)' => ForgedApproval(r) /\ approval'[r].hash = approval[r].hash)
      \/ Spend("damages") /\ UNCHANGED stored /\ approval'[r].hash = "other"
  BY <1>2, <1>3, ApprovalFrame
<1>5. \/ jj + hh <= j + h
      \/ Spend("damages") /\ UNCHANGED approval /\ jj + hh <= j + h + 1
  <2>1. CASE stored'[r] = stored[r]
    <3>1. jj = j /\ hh = h
      BY <2>1
    <3> QED
      BY <1>n, <3>1
  <2>2. CASE stored'[r] = Submitted
    <3>1. jj = 0 /\ hh = 0
      BY <2>2 DEF Submitted, One
    <3> QED
      BY <1>n, <3>1
  <2>3. CASE /\ Spend("damages") /\ UNCHANGED approval
             /\ stored'[r] = [stored[r] EXCEPT !.json = "other"]
    <3>1. stored'[r].hash = stored[r].hash
      BY <1>t, <2>3 DEF Bodies
    <3>2. hh = h
      BY <3>1
    <3> QED
      BY <1>n, <2>3, <3>2
  <2>4. CASE /\ Spend("damages") /\ UNCHANGED approval
             /\ stored'[r] = [stored[r] EXCEPT !.hash = "other"]
    <3>1. stored'[r].json = stored[r].json
      BY <1>t, <2>4 DEF Bodies
    <3>2. jj = j
      BY <3>1
    <3> QED
      BY <1>n, <2>4, <3>2
  <2> QED
    BY <2>1, <2>2, <2>3, <2>4, StoredFrame
<1>6. jj + hh + ff + e <= MaxDamages
  <2>1. CASE ForgedApproval(r)' => ForgedApproval(r)
    <3>1. ff <= f
      BY <2>1 DEF One
    <3> HIDE DEF d, e, j, h, f, jj, hh, ff
    <3> QED
      BY <1>t, <1>n, <1>1, <1>5, <3>1
  <2>2. CASE Spend("damages") /\ UNCHANGED stored
    <3>1. jj = j /\ hh = h
      BY <2>2
    <3> HIDE DEF d, e, j, h, f, jj, hh, ff
    <3> QED
      BY <1>t, <1>n, <1>1, <2>2, <3>1
  <2> QED
    BY <1>4, <2>1, <2>2
<1>7. Columns(r)' = jj + hh + ff
  BY DEF Columns
<1> QED
  BY <1>1, <1>4, <1>6, <1>7

\* The check of the approval catches every row that was not damaged in all three
\* columns: a forged approval and a forged body cost three.
LEMMA CheckedStep ==
    ASSUME MaxDamages <= 2, BrokerInv, ReportInv, Signed, LocalOnly, Counted, Checked, Next
    PROVE  Checked'
<1> SUFFICES ASSUME NEW g \in Goroutines, pc'[g] \in {"approval", "recheck", "begin", "start"}
             PROVE  /\ pc'[g] = "approval" =>
                          /\ HashMatches(item'[g])
                          /\ item'[g].json = "other" =>
                                stored'[ReqOf(g)'] = [json |-> "other", hash |-> "other"]
                    /\ pc'[g] \in {"recheck", "begin", "start"} =>
                          item'[g].json = Echoed(ReqOf(g))'
  BY DEF Checked, Echoed, HashMatches
<1> DEFINE r == ReqOf(g)
           Forged == [json |-> "other", hash |-> "other"]
<1>t. /\ pc \in [Goroutines -> WorkPCs] /\ item \in [Goroutines -> Bodies]
  BY DEF BrokerInv, ProcessTypeOK
<1>0. pc[g] # "idle"
  <2>1. ASSUME Execute(g) \/ ExecuteLoadError(g) \/ CommandExits(g) PROVE pc[g] # "idle"
    BY <2>1 DEF Execute, ExecuteLoadError, CommandExits, ExecuteEnter,
       ExecuteLoad, ExecuteApproval, ExecuteRecheck, ExecuteExpire, ExecuteReject,
       ExecuteReport, ExecuteBegin, ExecuteStart, ExecuteReap, ExecuteFinish,
       ExecuteLeave
  <2>2. CASE g \in Calls /\ (DecideRecord(g) \/ DecideExisting(g))
    BY <1>t, <2>2 DEF DecideRecord, DecideExisting, Spawn
  <2> QED
    BY <1>t, <2>1, <2>2, WorkFrame DEF Crash, RecoverApproved
<1>1. /\ r \in Requests /\ ReqOf(g)' = r /\ approval[r].decision = "approve"
      /\ approval[r].id \in ApprovalIds
  BY <1>0, RequestKept DEF ReportInv, Spawned, LocalOnly
<1>2. Echoed(ReqOf(g))' = Echoed(r)
  BY <1>1, EchoKept DEF Echoed
<1>3. status[r] # NoRow /\ stored[r] \in Bodies
  BY <1>1 DEF BrokerInv, StoreInv, StoreTypeOK, DecisionMatchesStatus
<1>4. stored[r] = Forged => stored'[r] = Forged
  BY <1>1, <1>3, StoredFrame DEF Bodies
<1>5. CASE pc'[g] = pc[g] /\ item'[g] = item[g]
  BY <1>1, <1>2, <1>4, <1>5 DEF Checked
<1>6. CASE ExecuteLoad(g)
  <2>1. /\ item'[g] = stored[r] /\ HashMatches(stored[r]) /\ pc'[g] = "approval"
        /\ UNCHANGED stored
    BY <1>6, <1>t DEF ExecuteLoad, Jump, storeVars
  <2>2. stored[r].json = "other" => stored[r] = Forged
    BY <1>3, <2>1 DEF Bodies, HashMatches
  <2> QED
    BY <1>1, <2>1, <2>2
<1>7. CASE ExecuteApproval(g)
  <2>1. /\ pc'[g] = "recheck" /\ item'[g] = item[g] /\ BoundApproval(g)
        /\ pc[g] = "approval"
    BY <1>7, <1>t DEF ExecuteApproval, Jump
  <2>2. item[g].json = approval[r].hash
    BY <2>1 DEF Checked, HashMatches, BoundApproval
  <2>3. ASSUME ForgedApproval(r) PROVE FALSE
    <3>1. approval[r].hash = "other"
      BY <1>1, <2>3 DEF Counted
    <3>2. stored[r] = Forged
      BY <2>1, <2>2, <3>1 DEF Checked
    <3>3. Columns(r) = 3
      BY <2>3, <3>2 DEF Columns, One
    <3>4. left["damages"] \in Nat /\ MaxDamages \in Nat
      BY BrokerAssumption DEF BrokerInv, ProcessTypeOK, Bounds
    <3>5. Columns(r) + left["damages"] <= MaxDamages
      BY <1>1 DEF Counted
    <3> QED
      BY <3>3, <3>4, <3>5
  <2>4. approval[r].hash = Echoed(r)
    BY <1>1, <2>3 DEF ForgedApproval
  <2> QED
    BY <1>2, <2>1, <2>2, <2>4
<1>8. CASE ExecuteRecheck(g) \/ ExecuteBegin(g)
  <2>1. item'[g] = item[g] /\ pc[g] \in {"recheck", "begin"} /\ pc'[g] \in {"begin", "start"}
    BY <1>8, <1>t DEF ExecuteRecheck, ExecuteBegin, Jump
  <2> QED
    BY <1>2, <2>1 DEF Checked
<1>9. ASSUME \/ ExecuteEnter(g) \/ ExecuteExpire(g) \/ ExecuteReject(g) \/ ExecuteReport(g)
             \/ ExecuteStart(g) \/ ExecuteReap(g) \/ ExecuteFinish(g) \/ ExecuteLeave(g)
             \/ ExecuteLoadError(g) \/ CommandExits(g)
      PROVE  FALSE
  BY <1>9, <1>t DEF ExecuteEnter, ExecuteExpire, ExecuteReject, ExecuteReport,
     ExecuteStart, ExecuteReap, ExecuteFinish, ExecuteLeave, ExecuteLoadError,
     CommandExits, Jump
<1>10. ~( \/ Crash \/ RecoverApproved
          \/ g \in Calls /\ (DecideRecord(g) \/ DecideExisting(g)))
  BY <1>t, <1>0 DEF Crash, RecoverApproved, DecideRecord, DecideExisting, ReportInv, Spawned,
     BrokerInv, OnlyWhileServing
<1> QED
  BY <1>5, <1>6, <1>7, <1>8, <1>9, <1>10, WorkFrame DEF Execute

\* What was run last changes with ExecuteStart alone.
LEMMA RunFrame ==
    ASSUME BrokerInv, Next
    PROVE  \/ UNCHANGED <<starts, started>>
           \/ \E g \in Goroutines : ExecuteStart(g)
<1> USE DEF brokerVars, runVars
<1>1. ASSUME NEW g \in Goroutines,
             Execute(g) \/ ExecuteLoadError(g) \/ ExecutionTimer(g) \/ CommandExits(g)
      PROVE  UNCHANGED <<starts, started>> \/ ExecuteStart(g)
  BY <1>1 DEF Execute, ExecuteLoadError, ExecutionTimer, CommandExits, ExecuteEnter,
              ExecuteLoad, ExecuteApproval, ExecuteRecheck, ExecuteExpire,
              ExecuteReject, ExecuteReport, ExecuteBegin, ExecuteReap,
              ExecuteFinish, ExecuteLeave
<1>2. ASSUME NEW c \in Calls, Handler(c) \/ CallStoreError(c)
      PROVE  UNCHANGED <<starts, started>>
  BY <1>2 DEF Handler, CallStoreError, DecideGet, DecideReject, DecideReport,
              DecideAccept, DecideRecord, DecideExisting, CancelCommit
<1>3. ASSUME NEW r \in Requests,
             Submit(r) \/ ClockPasses(r) \/ Damage(r) \/ VerdictChanges(r)
      PROVE  UNCHANGED <<starts, started>>
  BY <1>3 DEF Submit, SubmitEvaluate, SubmitCreate, SubmitEnter, SubmitRefuse, ClockPasses,
              Damage, VerdictChanges
<1> QED
  BY <1>1, <1>2, <1>3 DEF Next, OpenStore, RecoverExpire,
     RecoverApproved, Crash, Decide, Cancel, ExpireTick, PruneSelect, PruneDelete

\* A process runs the body that its goroutine has checked.
LEMMA ConfirmedStep ==
    ASSUME BrokerInv, Signed, LocalOnly, Checked, RanAsConfirmed, Next,
           BrokerInv', Signed'
    PROVE  RanAsConfirmed'
<1>k. ASSUME \A r \in Requests : starts'[r] > 0 =>
                /\ approval'[r].id \in ApprovalIds
                /\ Echoed(r)' = started'[r]
      PROVE  RanAsConfirmed'
  <2>1. \A r \in Requests : starts'[r] > 0 => approval'[r].decision = "approve"
    BY DEF BrokerInv, Ownership
  <2> QED
    BY <1>k, <2>1 DEF RanAsConfirmed, Signed, Calls, Echoed
<1> SUFFICES ASSUME NEW r \in Requests, starts'[r] > 0
             PROVE  approval'[r].id \in ApprovalIds /\ Echoed(r)' = started'[r]
  BY <1>k
<1>t. starts \in [Requests -> Nat] /\ started \in [Requests -> Versions \cup {Nil}]
  BY DEF BrokerInv, ProcessTypeOK
<1>1. CASE starts'[r] = starts[r] /\ started'[r] = started[r]
  <2>1. approval[r].id \in ApprovalIds /\ Echoed(r) = started[r]
    BY <1>1 DEF RanAsConfirmed, Calls, Echoed
  <2> QED
    BY <1>1, <2>1, EchoKept
<1>2. ASSUME NEW g \in Goroutines, ExecuteStart(g), ReqOf(g) = r
      PROVE  \/ starts'[r] = starts[r] /\ started'[r] = started[r]
             \/ approval'[r].id \in ApprovalIds /\ Echoed(r)' = started'[r]
  <2>1. CASE started'[r] = item[g].json
    <3>1. item[g].json = Echoed(r) /\ approval[r].id \in ApprovalIds
      BY <1>2 DEF Checked, LocalOnly, ExecuteStart
    <3> QED
      BY <2>1, <3>1, EchoKept
  <2>2. started'[r] = item[g].json \/ UNCHANGED <<starts, started>>
    BY <1>2, <1>t DEF ExecuteStart, runVars
  <2> QED
    BY <2>1, <2>2
<1>3. ASSUME NEW g \in Goroutines, ExecuteStart(g), ReqOf(g) # r
      PROVE  starts'[r] = starts[r] /\ started'[r] = started[r]
  BY <1>3, <1>t DEF ExecuteStart, runVars
<1> QED
  BY <1>1, <1>2, <1>3, RunFrame

\* A stuttering step leaves them alone.
LEMMA LocalKept ==
    ASSUME Confirming, Signed, LocalOnly, UNCHANGED vars
    PROVE  Confirming' /\ Signed' /\ LocalOnly'
<1>1. /\ handle' = handle /\ migrated' = migrated /\ status' = status
      /\ approval' = approval /\ pc' = pc /\ at' = at /\ seen' = seen /\ args' = args
  BY DEF vars, storeVars, brokerVars, callVars, workVars
<1>2. \A g : ReqOf(g)' = ReqOf(g)
  BY <1>1 DEF ReqOf
<1>3. Confirming' /\ Signed'
  BY <1>1 DEF Confirming, Signed
<1>4. /\ handle' = "open" => migrated'
      /\ \A g \in Goroutines : pc'[g] # "idle" => approval'[ReqOf(g)'].id \in ApprovalIds
      /\ \A c \in Calls : at'[c] = "existing" /\ seen'[c].status = "APPROVED" =>
            approval'[args'[c].req].id \in ApprovalIds
  BY <1>1, <1>2, Zenon DEF LocalOnly
<1>5. migrated' => \A r \in Requests : status'[r] = "APPROVED" =>
                                          approval'[r].id \in ApprovalIds
  BY <1>1, Zenon DEF LocalOnly
<1>6. LocalOnly'
  BY <1>4, <1>5, Zenon DEF LocalOnly
<1> QED
  BY <1>3, <1>6

\* The parts of ConfirmedInv together.
LEMMA ConfirmedStepInv ==
    ASSUME MaxDamages <= 2
    PROVE  BrokerInv /\ ReportInv /\ ConfirmedInv /\ [Next]_vars => ConfirmedInv'
<1> SUFFICES ASSUME BrokerInv, ReportInv, ConfirmedInv, [Next]_vars PROVE ConfirmedInv'
  OBVIOUS
<1>0. BrokerInv'
  BY BrokerStepInv
<1>1. CASE Next
  <2>1. Confirming' /\ Signed' /\ LocalOnly'
    BY <1>1, ConfirmingStep, SignedStep, LocalOnlyStep DEF ConfirmedInv
  <2>2. Counted' /\ Checked'
    BY <1>1, CountedStep, CheckedStep DEF ConfirmedInv
  <2>3. RanAsConfirmed'
    BY <1>0, <1>1, <2>1, ConfirmedStep DEF ConfirmedInv
  <2> QED
    BY <2>1, <2>2, <2>3 DEF ConfirmedInv
<1>2. CASE UNCHANGED vars
  <2>1. /\ handle' = handle /\ migrated' = migrated /\ status' = status
        /\ approval' = approval /\ pc' = pc /\ at' = at /\ seen' = seen /\ args' = args
        /\ stored' = stored /\ left' = left /\ item' = item /\ starts' = starts
        /\ started' = started
    BY <1>2 DEF vars, storeVars, brokerVars, callVars, workVars, runVars
  <2>2. \A g : ReqOf(g)' = ReqOf(g)
    BY <2>1 DEF ReqOf
  <2>3. LocalOnly /\ Confirming /\ Signed /\ Counted /\ Checked /\ RanAsConfirmed
    BY DEF ConfirmedInv
  <2>4. RanAsConfirmed'
    BY <2>1, <2>3 DEF RanAsConfirmed
  <2>7. Confirming' /\ Signed' /\ LocalOnly'
    BY <1>2, <2>3, LocalKept
  <2>8. Counted'
    BY <2>1, <2>3 DEF Counted, Columns, ForgedApproval, Echoed
  <2>9. Checked'
    BY <2>1, <2>2, <2>3 DEF Checked, Echoed, HashMatches
  <2> QED
    BY <2>4, <2>7, <2>8, <2>9 DEF ConfirmedInv
<1> QED
  BY <1>1, <1>2

\* A fresh or remote-era database carries no approval ID of this daemon.
LEMMA ConfirmedInit == Init => ConfirmedInv
<1> SUFFICES ASSUME Init PROVE ConfirmedInv
  OBVIOUS
<1>1. \A s : \A a \in LegacyApproval(s) : a.id = Nil
  BY DEF LegacyApproval, NoApproval
<1>2. \A r \in Requests : approval[r].id \notin ApprovalIds
  BY <1>1, StoreAssumption DEF Init, StoreInit
<1>3. Confirming /\ Signed /\ Checked /\ RanAsConfirmed
  BY <1>2 DEF Init, Confirming, Signed, Checked, RanAsConfirmed, Finished
<1>4. LocalOnly
  BY <1>2 DEF Init, StoreInit, LocalOnly
<1>5. Counted
  <2> SUFFICES ASSUME NEW r \in Requests
               PROVE  /\ Columns(r) + left["damages"] <= MaxDamages
                      /\ ForgedApproval(r) => approval[r].hash = "other"
    BY DEF Counted
  <2>1. ~ForgedApproval(r)
    BY <1>2 DEF ForgedApproval
  <2>2. stored[r].json # "other" /\ stored[r].hash # "other"
    BY DEF Init, StoreInit, Submitted
  <2>3. Columns(r) = 0
    BY <2>1, <2>2 DEF Columns, One
  <2>4. left["damages"] = MaxDamages /\ MaxDamages \in Nat
    BY BrokerAssumption DEF Init, Bounds
  <2> QED
    BY <2>1, <2>3, <2>4
<1> QED
  BY <1>3, <1>4, <1>5 DEF ConfirmedInv

\* The part of it that holds whatever is damaged.
LocalInv == Confirming /\ Signed /\ LocalOnly

\* Whatever is damaged, an approval ID leads to the root call that minted it, and no
\* handler or goroutine acts on an approval of the remote-era daemon, which has none.
THEOREM LocalApprovals == Spec => []LocalInv
<1>1. Init => LocalInv
  BY ConfirmedInit DEF ConfirmedInv, LocalInv
<1>2. BrokerInv /\ ReportInv /\ LocalInv /\ [Next]_vars => LocalInv'
  <2> SUFFICES ASSUME BrokerInv, ReportInv, LocalInv, [Next]_vars PROVE LocalInv'
    OBVIOUS
  <2>1. CASE Next
    BY <2>1, ConfirmingStep, SignedStep, LocalOnlyStep DEF LocalInv
  <2>2. CASE UNCHANGED vars
    BY <2>2, LocalKept DEF LocalInv
  <2> QED
    BY <2>1, <2>2
<1> QED
  BY <1>1, <1>2, BrokerCorrect, ReportsCorrect, PTL DEF Spec

\* While at most two of the columns body, hash and approval are damaged, what ran is
\* the body whose hash a root peer echoed in the Approve call behind the approval.
THEOREM RunsAsConfirmed ==
    ASSUME MaxDamages <= 2
    PROVE  Spec => []RanAsConfirmed
<1>1. ConfirmedInv => RanAsConfirmed
  BY DEF ConfirmedInv
<1>2. BrokerInv /\ ReportInv /\ ConfirmedInv /\ [Next]_vars => ConfirmedInv'
  BY ConfirmedStepInv
<1> QED
  BY <1>1, <1>2, BrokerCorrect, ReportsCorrect, ConfirmedInit, PTL DEF Spec
-----------------------------------------------------------------------------
(* The daemon keeps the abstract promise.                                    *)

\* The statuses of a pending and of a refused request.
Undecided == {NoRow, "CREATED", "QUEUED", "SYNCED", "WAITING_APPROVAL"}
Refused == {"DENIED", "EXPIRED", "CANCELLED", "POLICY_REJECTED", Pruned}

\* The phases of the statuses.
LEMMA Phases ==
    ASSUME NEW id
    PROVE  /\ \A s \in Undecided : PhaseOf(s, id) = "pending"
           /\ \A s \in Refused : PhaseOf(s, id) = "refused"
           /\ PhaseOf("APPROVED", id) = IF id # Nil THEN "authorised" ELSE "refused"
           /\ \A s \in Started : PhaseOf(s, id) = IF id # Nil THEN "spent" ELSE "refused"
  BY DEF PhaseOf, Started, Refused, Undecided, NoRow, Pruned

\* How the phase of a request can change in a step of the daemon.
LEMMA PhaseStep ==
    ASSUME BrokerInv, Signed, Next, NEW r \in Requests
    PROVE  LET p == PhaseOf(status[r], approval[r].id)
               q == PhaseOf(status'[r], approval'[r].id)
           IN  \/ q = p
               \/ p \in {"pending", "authorised"} /\ q = "refused"
               \/ status[r] # "APPROVED" /\ status'[r] = "APPROVED"
               \/ status[r] # "EXECUTING" /\ status'[r] = "EXECUTING"
<1>1. /\ StoreInv /\ [StoreNext]_storeVars /\ status[r] \in Statuses \cup {NoRow, Pruned}
      /\ approval[r].id \in ApprovalIds \cup {Nil}
      /\ approval[r].id \in ApprovalIds => approval[r].decision # "none"
  BY StoreSteps DEF BrokerInv, StoreInv, StoreTypeOK, Signed, Approvals
<1>2. LegalStatusStep(r) /\ FinalDecisionStep(r)
  BY <1>1, LegalSteps, FinalSteps
<1>a. CASE approval'[r].id # approval[r].id
  <2>1. PICK c \in Calls : AcceptApproval(r, args[c].kind, c, seen[c].body.hash)
    BY <1>a, ApprovalFrame
  <2>2. status[r] = "WAITING_APPROVAL" /\ status'[r] \in {"APPROVED", "DENIED"}
    <3>1. status \in [Requests -> Statuses \cup {NoRow, Pruned}]
      BY DEF BrokerInv, StoreInv, StoreTypeOK
    <3> QED
      BY <2>1, <3>1 DEF AcceptApproval, CanAccept, CanTransition, DecidedStatus
  <2> QED
    BY <2>2, Phases DEF Undecided, Refused
<1> SUFFICES ASSUME approval'[r].id = approval[r].id
             PROVE  LET p == PhaseOf(status[r], approval[r].id)
                        q == PhaseOf(status'[r], approval[r].id)
                    IN  \/ q = p
                        \/ p \in {"pending", "authorised"} /\ q = "refused"
                        \/ status[r] # "APPROVED" /\ status'[r] = "APPROVED"
                        \/ status[r] # "EXECUTING" /\ status'[r] = "EXECUTING"
  BY <1>a
<1>3. CASE status'[r] = status[r]
  BY <1>3
<1>4. CASE status[r] = NoRow /\ status'[r] = "CREATED"
  BY <1>4, Phases DEF Undecided
<1>5. CASE status[r] \in Terminal /\ status'[r] = Pruned
  <2>1. approval[r].id = Nil
    BY <1>1, <1>2, <1>5 DEF FinalDecisionStep, Statuses, Pruned
  <2>2. status[r] \in Refused \cup Started /\ status'[r] \in Refused
    BY <1>5 DEF Terminal, Refused, Started
  <2> QED
    BY <2>1, <2>2, Phases
<1>6. CASE status[r] \in Statuses /\ status'[r] \in transitions[status[r]]
  <2>1. CASE status[r] \in {"CREATED", "QUEUED", "SYNCED", "WAITING_APPROVAL"}
    <3>1. status[r] \in Undecided /\ status'[r] \in Undecided \cup Refused \cup {"APPROVED", "EXECUTING"}
      BY <1>6, <2>1 DEF transitions, Statuses, Undecided, Refused
    <3> QED
      BY <2>1, <3>1, Phases
  <2>2. CASE status[r] = "APPROVED"
    <3>1. status'[r] \in Refused \cup {"EXECUTING"}
      BY <1>6, <2>2 DEF transitions, Statuses, Refused
    <3> QED
      BY <2>2, <3>1, Phases
  <2>3. CASE status[r] = "EXECUTING"
    <3>1. status[r] \in Started /\ status'[r] \in Started
      BY <1>6, <2>3 DEF transitions, Statuses, Started
    <3> QED
      BY <3>1, Phases
  <2>4. status[r] \in {"CREATED", "QUEUED", "SYNCED", "WAITING_APPROVAL", "APPROVED",
                       "EXECUTING"}
    BY <1>6 DEF transitions, Statuses
  <2> QED
    BY <2>1, <2>2, <2>3, <2>4
<1> QED
  BY <1>2, <1>3, <1>4, <1>5, <1>6 DEF LegalStatusStep

\* Every step of the daemon grants, withdraws or uses rights as the promise allows, or
\* leaves them alone.
LEMMA PromiseStep ==
    ASSUME BrokerInv, Signed, LocalOnly, Next
    PROVE  [Promise!AuthNext]_(Promise!authVars)
<1> DEFINE P(r) == PhaseOf(status[r], approval[r].id)
           PN(r) == PhaseOf(status'[r], approval'[r].id)
           phase == [r \in Requests |-> P(r)]
           phaseN == [r \in Requests |-> PN(r)]
<1>t. /\ status \in [Requests -> Statuses \cup {NoRow, Pruned}]
      /\ approval \in [Requests -> Approvals]
      /\ starts \in [Requests -> Nat]
      /\ Nil \notin ApprovalIds
  BY StoreAssumption DEF BrokerInv, StoreInv, StoreTypeOK, ProcessTypeOK
<1>1. CASE ~UNCHANGED starts
  <2>1. PICK g \in Goroutines : /\ pc[g] = "start" /\ pc' = [pc EXCEPT ![g] = "running"]
                                /\ starts' = [starts EXCEPT ![ReqOf(g)] = @ + 1]
    BY <1>1, StartsOnce
  <2>2. UNCHANGED <<status, approval>>
    BY <1>1, StartsOnce DEF storeVars
  <2>3. ReqOf(g) \in Requests /\ starts[ReqOf(g)] = 0 /\ status[ReqOf(g)] = "EXECUTING"
    BY <2>1, ReqOfRequest DEF BrokerInv, Ownership
  <2>4. approval[ReqOf(g)].id # Nil
    BY <1>t, <2>1 DEF LocalOnly
  <2>5. phase[ReqOf(g)] = "spent" /\ phaseN = phase
    BY <2>2, <2>3, <2>4, Phases DEF Started
  <2>6. starts' = [starts EXCEPT ![ReqOf(g)] = 1]
    BY <1>t, <2>1, <2>3
  <2>7. Promise!Launch(ReqOf(g))
    BY <2>3, <2>5, <2>6 DEF Promise!Launch
  <2> QED
    BY <2>3, <2>7 DEF Promise!AuthNext
<1>2. ASSUME UNCHANGED starts, NEW r \in Requests, status[r] # "APPROVED",
             status'[r] = "APPROVED"
      PROVE  Promise!Authorise(r)
  <2>1. approval[r].decision = "none" /\ approval'[r].decision = "approve"
    BY <1>2, RowKept, BrokerStepInv DEF BrokerInv, StoreInv, DecisionMatchesStatus
  <2>2. PICK c \in Calls : AcceptApproval(r, args[c].kind, c, seen[c].body.hash)
    BY <2>1, ApprovalFrame
  <2>3. status[r] = "WAITING_APPROVAL" /\ status' = [status EXCEPT ![r] = "APPROVED"]
    <3>1. status[r] = "WAITING_APPROVAL"
          /\ status' = [status EXCEPT ![r] = DecidedStatus(args[c].kind)]
      BY <2>2 DEF AcceptApproval, CanAccept, CanTransition
    <3> QED
      BY <1>2, <1>t, <3>1
  <2>4. approval'[r].id = c /\ c # Nil
    BY <1>t, <2>2 DEF AcceptApproval, Calls
  <2>5. \A q \in Requests : q # r => approval'[q] = approval[q]
    BY <1>t, <2>2 DEF AcceptApproval
  <2>6. P(r) = "pending" /\ PN(r) = "authorised"
    BY <1>2, <2>3, <2>4, Phases DEF Undecided
  <2>7. \A q \in Requests : q # r => PN(q) = P(q)
    BY <1>t, <2>3, <2>5
  <2> HIDE DEF P, PN
  <2>8. phase[r] = "pending" /\ phaseN = [phase EXCEPT ![r] = "authorised"]
    BY <2>6, <2>7
  <2> QED
    BY <1>2, <2>8 DEF Promise!Authorise, P, PN
<1>3. ASSUME UNCHANGED starts, NEW r \in Requests, status[r] # "EXECUTING",
             status'[r] = "EXECUTING"
      PROVE  Promise!Consume(r)
  <2>1. PICK g \in Goroutines : ReqOf(g) = r /\ pc[g] = "begin" /\ BeginExecution(r)
    BY <1>3, BeginFrame
  <2>2. status[r] = "APPROVED" /\ status' = [status EXCEPT ![r] = "EXECUTING"]
    BY <2>1 DEF BeginExecution, CanBegin, CanTransition
  <2>3. \A q \in Requests : approval'[q].id = approval[q].id
    BY <1>t, <2>1 DEF BeginExecution, Approvals
  <2>4. approval[r].id # Nil
    BY <1>t, <2>1 DEF LocalOnly
  <2>5. P(r) = "authorised" /\ PN(r) = "spent"
    BY <1>3, <2>2, <2>3, <2>4, Phases DEF Started
  <2>6. \A q \in Requests : q # r => PN(q) = P(q)
    BY <1>t, <2>2, <2>3
  <2> HIDE DEF P, PN
  <2>7. phase[r] = "authorised" /\ phaseN = [phase EXCEPT ![r] = "spent"]
    BY <2>5, <2>6
  <2> QED
    BY <1>3, <2>7 DEF Promise!Consume, P, PN
<1>4. ASSUME UNCHANGED starts,
             \A r \in Requests : /\ status'[r] = "APPROVED" => status[r] = "APPROVED"
                                 /\ status'[r] = "EXECUTING" => status[r] = "EXECUTING"
      PROVE  [Promise!AuthNext]_(Promise!authVars)
  <2> DEFINE S == {r \in Requests : PN(r) # P(r)}
  <2>1. \A r \in S : P(r) \in {"pending", "authorised"} /\ PN(r) = "refused"
    BY <1>4, PhaseStep
  <2>2. phaseN = [r \in Requests |-> IF r \in S THEN "refused" ELSE phase[r]]
    BY <2>1
  <2>3. CASE S = {}
    <3>1. phaseN = phase
      BY <2>3
    <3> QED
      BY <1>4, <3>1 DEF Promise!authVars
  <2>4. CASE S # {}
    <3>1. S \in SUBSET Requests
      OBVIOUS
    <3>a. \A r \in S : phase[r] \in {"pending", "authorised"}
      BY <2>1
    <3> HIDE DEF S
    <3>2. Promise!Refuse(S)
      BY <1>4, <2>2, <2>4, <3>a DEF Promise!Refuse
    <3> QED
      BY <3>1, <3>2 DEF Promise!AuthNext
  <2> QED
    BY <2>3, <2>4
<1> QED
  BY <1>1, <1>2, <1>3, <1>4 DEF Promise!AuthNext

\* The daemon implements Authorization, with whatever rows the remote-era daemon left: a
\* command runs at most once, only on an authorisation of this daemon that was not
\* withdrawn, which is used up first.
THEOREM ImplementsPromise == Spec => Authorised
<1>1. Init => Promise!AuthInit
  <2> SUFFICES ASSUME Init PROVE Promise!AuthInit
    OBVIOUS
  <2>1. \A s : \A a \in LegacyApproval(s) : a.id = Nil
    BY DEF LegacyApproval, NoApproval
  <2>2. \A r \in Requests : approval[r].id = Nil
    BY <2>1 DEF Init, StoreInit
  <2>3. \A s : PhaseOf(s, Nil) \in {"pending", "refused"}
    BY DEF PhaseOf
  <2>4. \A r \in Requests : PhaseOf(status[r], approval[r].id) \in {"pending", "refused"}
    BY <2>2, <2>3
  <2> QED
    BY <2>4 DEF Init, Promise!AuthInit
<1>2. BrokerInv /\ LocalInv /\ [Next]_vars => [Promise!AuthNext]_(Promise!authVars)
  <2> SUFFICES ASSUME BrokerInv, LocalInv, [Next]_vars
               PROVE  [Promise!AuthNext]_(Promise!authVars)
    OBVIOUS
  <2>1. CASE Next
    BY <2>1, PromiseStep DEF LocalInv
  <2>2. CASE UNCHANGED vars
    <3>1. status' = status /\ approval' = approval /\ starts' = starts
      BY <2>2 DEF vars, storeVars, brokerVars, runVars
    <3> QED
      BY <3>1 DEF Promise!authVars
  <2> QED
    BY <2>1, <2>2
<1> QED
  BY <1>1, <1>2, BrokerCorrect, LocalApprovals, PTL DEF Spec, Authorised, Promise!AuthSpec
================================================================================
