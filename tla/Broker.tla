-------------------------------- MODULE Broker --------------------------------
(***************************************************************************)
(* The daemon: the RPC handlers of internal/daemon/service.go that change  *)
(* state, the goroutines that execute approved requests, maintenance, and  *)
(* the startup sequence of apps/daemon/cmd/shudod/main.go, composed with   *)
(* the request store.                                                      *)
(*                                                                         *)
(* A handler and a goroutine are processes with a program counter.  A step *)
(* makes at most one call of the store; what it does to its own variables  *)
(* before the next call is part of the step, since no other process sees   *)
(* it.  The process can end between any two steps, which kills every       *)
(* handler, every goroutine and (Pdeathsig) every command.                 *)
(*                                                                         *)
(* An approval ID is minted by one call and the call is named by it.  An   *)
(* execute goroutine is named by what spawned it: a call, or, for the ones *)
(* RecoverApproved spawns, the request itself.                             *)
(***************************************************************************)
EXTENDS RequestStore

CONSTANTS
    MaxCrashes,     \* how often the process ends
    MaxFaults,      \* how many store calls fail
    MaxDamages,     \* how many columns are damaged behind the daemon
    MaxChanges      \* how often the policy or the pinned files change

ASSUME BrokerAssumption ==
    /\ Nil \notin Requests
    /\ Requests \cap ApprovalIds = {}
    /\ {MaxCrashes, MaxFaults, MaxDamages, MaxChanges} \subseteq Nat

Calls == ApprovalIds
Goroutines == Calls \cup Requests

VARIABLES
    boot,        \* how far run() has come with an open store
    sub,         \* the Submit handler that creates a request
    at,          \* program counters of the Approve, Deny and Cancel handlers
    args,        \* their peers and arguments
    seen,        \* the row a handler has read
    reply,       \* the approval ID a decision was answered with
    pc,          \* program counters of the execute goroutines
    item,        \* the body and hash a goroutine has read
    why,         \* the integrity event a rejection reports
    result,      \* the exit code and signal of its command
    timer,       \* its execution timer
    executing,   \* Service.executing
    pruning,     \* the IDs PruneUnapproved has selected and not yet deleted
    verdict,     \* what the policy file and the pinned files now say of a request
    starts,      \* how many processes were started for a request
    started,     \* the version of the body the last of them ran
    left         \* what remains of the bounds

callVars == <<at, args, seen, reply>>
workVars == <<pc, item, why, result, timer, executing>>
runVars == <<starts, started>>
brokerVars == <<boot, sub, callVars, workVars, pruning, verdict, runVars, left>>
vars == <<storeVars, brokerVars>>

Verdicts == {"require-approval", "deny", "invalid"}
Kinds == {"approve", "deny", "cancel"}
Actors == {"root", "owner", "other"}
Bounds == {"crashes", "faults", "damages", "changes"}

ArgSets == [kind: Kinds, actor: Actors, req: Requests \cup {Nil}, echo: Versions]
Rows == [status: Statuses \cup {NoRow, Pruned}, body: Bodies]
Results == [exit: Exits, signal: Signals]

NoArgs == [kind |-> "cancel", actor |-> "other", req |-> Nil, echo |-> "submitted"]
Unseen == [status |-> NoRow, body |-> Submitted]
NoResult == [exit |-> "none", signal |-> "none"]

Init ==
    /\ StoreInit
    /\ boot = "opening"
    /\ sub = [r \in Requests |-> "idle"]
    /\ at = [c \in Calls |-> "idle"]
    /\ args = [c \in Calls |-> NoArgs]
    /\ seen = [c \in Calls |-> Unseen]
    /\ reply = [c \in Calls |-> Nil]
    /\ pc = [g \in Goroutines |-> "idle"]
    /\ item = [g \in Goroutines |-> Submitted]
    /\ why = [g \in Goroutines |-> "none"]
    /\ result = [g \in Goroutines |-> NoResult]
    /\ timer = [g \in Goroutines |-> "armed"]
    /\ executing = {}
    /\ pruning = {}
    /\ verdict \in [Requests -> {"require-approval", "deny"}]
    /\ starts = [r \in Requests |-> 0]
    /\ started = [r \in Requests |-> Nil]
    /\ left = [b \in Bounds |-> CASE b = "crashes" -> MaxCrashes
                                  [] b = "faults" -> MaxFaults
                                  [] b = "damages" -> MaxDamages
                                  [] b = "changes" -> MaxChanges]

\* An operation whose error the caller drops.
TryTransition(r, next, expected) ==
    \/ Transition(r, next, expected)
    \/ ~CanTransition(r, next, expected) /\ UNCHANGED storeVars

Spend(what) ==
    /\ left[what] > 0
    /\ left' = [left EXCEPT ![what] = @ - 1]

\* A store call that commits, or fails and leaves the tables alone.
OrFails(Statement) ==
    \/ Statement /\ UNCHANGED left
    \/ Spend("faults") /\ UNCHANGED storeVars

-----------------------------------------------------------------------------
(* Startup and the end of the process.                                      *)

OpenStore ==
    /\ RecoverStatuses \/ RecoverExecutions \/ MigrateLocalOnly
    /\ UNCHANGED brokerVars

\* RecoverApproved expires before it lists; a failed expiry ends the recovery.
RecoverExpire ==
    /\ handle = "open" /\ boot = "opening"
    /\ \/ /\ ExpireOutstanding
          /\ boot' = "expired"
          /\ UNCHANGED left
       \/ /\ Spend("faults")
          /\ boot' = "serving"
          /\ UNCHANGED storeVars
    /\ UNCHANGED <<sub, callVars, workVars, pruning, verdict, runVars>>

\* Mutant: approved requests are not picked up again.
RecoverApprovedNone ==
    /\ boot = "expired"
    /\ boot' = "serving"
    /\ UNCHANGED <<sub, callVars, workVars, pruning, verdict, runVars, left, storeVars>>

\* The goroutines are spawned before the socket exists; none is when the list
\* cannot be read.
RecoverApproved ==
    /\ boot = "expired"
    /\ boot' = "serving"
    /\ \/ /\ pc' = [g \in Goroutines |->
                      IF g \in Requests /\ status[g] = "APPROVED" THEN "enter"
                      ELSE "idle"]
          /\ UNCHANGED left
       \/ Spend("faults") /\ UNCHANGED pc
    /\ UNCHANGED <<sub, callVars, item, why, result, timer, executing, pruning,
                   verdict, runVars, storeVars>>

Finished == {"idle", "decided", "cancelled", "refused", "lost"}

Crash ==
    /\ Spend("crashes")
    /\ Close
    /\ boot' = "opening"
    /\ sub' = [r \in Requests |-> IF sub[r] = "idle" THEN "idle" ELSE "done"]
    /\ at' = [c \in Calls |-> IF at[c] \in Finished THEN at[c] ELSE "lost"]
    /\ seen' = [c \in Calls |-> Unseen]
    /\ pc' = [g \in Goroutines |-> "idle"]
    /\ item' = [g \in Goroutines |-> Submitted]
    /\ why' = [g \in Goroutines |-> "none"]
    /\ result' = [g \in Goroutines |-> NoResult]
    /\ timer' = [g \in Goroutines |-> "armed"]
    /\ executing' = {}
    /\ pruning' = {}
    /\ UNCHANGED <<args, reply, verdict, runVars>>

-----------------------------------------------------------------------------
(* Submit.  The handler expires what is overdue, evaluates the policy,      *)
(* creates the row and moves it on; a row is named by its handler.          *)

SubmitEvaluate(r) ==
    /\ boot = "serving"
    /\ sub[r] = "idle" /\ status[r] = NoRow
    /\ ExpireOutstanding
    /\ sub' = [sub EXCEPT ![r] = IF verdict[r] = "invalid" THEN "done"
                                 ELSE verdict[r]]
    /\ UNCHANGED <<boot, callVars, workVars, pruning, verdict, runVars, left>>

SubmitCreate(r) ==
    /\ sub[r] \in {"deny", "require-approval"}
    /\ Create(r)
    /\ sub' = [sub EXCEPT ![r] = IF sub[r] = "deny" THEN "reject" ELSE "enter"]
    /\ UNCHANGED <<boot, callVars, workVars, pruning, verdict, runVars, left>>

\* The row may have been cancelled meanwhile, and the statement may fail.
SubmitEnter(r) ==
    /\ sub[r] \in {"reject", "enter"}
    /\ OrFails(TryTransition(r, IF sub[r] = "reject" THEN "POLICY_REJECTED"
                                ELSE "WAITING_APPROVAL", "CREATED"))
    /\ sub' = [sub EXCEPT ![r] = "done"]
    /\ UNCHANGED <<boot, callVars, workVars, pruning, verdict, runVars>>

\* Invalid arguments, a limit on rate, concurrency, pending requests or storage,
\* an executable or a directory that cannot be inspected, or a failed store call:
\* the handler ends and there is no row.
SubmitRefuse(r) ==
    /\ boot = "serving"
    /\ sub[r] \in {"idle", "deny", "require-approval"} /\ status[r] = NoRow
    /\ sub' = [sub EXCEPT ![r] = "done"]
    /\ UNCHANGED <<boot, callVars, workVars, pruning, verdict, runVars, left, storeVars>>

Submit(r) == SubmitEvaluate(r) \/ SubmitCreate(r) \/ SubmitEnter(r) \/ SubmitRefuse(r)

-----------------------------------------------------------------------------
(* Approve and Deny: decide, with existingDecision.                         *)

Goto(c, where) == at' = [at EXCEPT ![c] = where]

Return(c, outcome) ==
    /\ Goto(c, outcome)
    /\ seen' = [seen EXCEPT ![c] = Unseen]

\* A peer calls; every decision is for UID 0 and expires what is overdue first.
\* An invalid reason and a failed expiry are refused too.
Decide(c, kind, actor, r, echo) ==
    /\ boot = "serving" /\ at[c] = "idle"
    /\ args' = [args EXCEPT ![c] = [kind |-> kind, actor |-> actor, req |-> r,
                                    echo |-> echo]]
    /\ \/ actor = "root" /\ ExpireOutstanding /\ Goto(c, "get")
       \/ UNCHANGED storeVars /\ Goto(c, "refused")
    /\ UNCHANGED <<boot, sub, seen, reply, workVars, pruning, verdict, runVars,
                   left>>

\* Get, and the checks that need nothing but the row.
DecideGet(c) ==
    /\ at[c] = "get"
    /\ LET r == args[c].req
           confirmed == args[c].kind = "approve" => args[c].echo = stored[r].hash
       IN  \/ ~(HasRow(r) /\ confirmed) /\ Return(c, "refused")
           \/ /\ HasRow(r) /\ confirmed
              /\ seen' = [seen EXCEPT ![c] = [status |-> status[r],
                                              body |-> stored[r]]]
              /\ \/ status[r] # "WAITING_APPROVAL" /\ Goto(c, "existing")
                 \/ /\ status[r] = "WAITING_APPROVAL"
                    /\ Goto(c, IF HashMatches(stored[r]) THEN "accept" ELSE "reject")
    /\ UNCHANGED <<boot, sub, args, reply, workVars, pruning, verdict, runVars,
                   left, storeVars>>

DecideReject(c) ==
    /\ at[c] = "reject"
    /\ OrFails(TryTransition(args[c].req, "POLICY_REJECTED", "WAITING_APPROVAL"))
    /\ Goto(c, "report")
    /\ UNCHANGED <<boot, sub, args, seen, reply, workVars, pruning, verdict, runVars>>

DecideReport(c) ==
    /\ at[c] = "report"
    /\ OrFails(RecordSecurityEvent("request.integrity-failed", args[c].req))
    /\ Return(c, "refused")
    /\ UNCHANGED <<boot, sub, args, reply, workVars, pruning, verdict, runVars>>

\* Mutant: the error of the transaction is dropped.
DecideAcceptUnchecked(c) ==
    /\ at[c] = "accept"
    /\ \/ AcceptApproval(args[c].req, args[c].kind, c, seen[c].body.hash)
       \/ UNCHANGED storeVars
    /\ Goto(c, "record")
    /\ UNCHANGED <<boot, sub, args, seen, reply, workVars, pruning, verdict,
                   runVars, left>>

\* The transaction fails when the request was decided, cancelled or expired
\* since it was read, and when the client has gone away.
DecideAccept(c) ==
    /\ at[c] = "accept"
    /\ \/ /\ AcceptApproval(args[c].req, args[c].kind, c, seen[c].body.hash)
          /\ Goto(c, "record")
       \/ UNCHANGED storeVars /\ Goto(c, "conflict")
    /\ UNCHANGED <<boot, sub, args, seen, reply, workVars, pruning, verdict,
                   runVars, left>>

\* go s.execute(...)
Spawn(g) == pc' = [pc EXCEPT ![g] = "enter"]

\* A dropped error of the event leaves the decision standing.
DecideRecord(c) ==
    /\ at[c] = "record"
    /\ OrFails(RecordSecurityEvent(IF args[c].kind = "approve"
                                   THEN "request.approved" ELSE "request.denied",
                                   args[c].req))
    /\ Return(c, "decided")
    /\ reply' = [reply EXCEPT ![c] = c]
    /\ IF args[c].kind = "approve" THEN Spawn(c) ELSE UNCHANGED pc
    /\ UNCHANGED <<boot, sub, args, item, why, result, timer, executing, pruning,
                   verdict, runVars>>

SameDecision(c) ==
    /\ approval[args[c].req].decision = args[c].kind
    /\ approval[args[c].req].hash = seen[c].body.hash

\* A retry of a decision gets the first answer, and restarts an execution that
\* was approved and has not begun.
DecideExisting(c) ==
    /\ at[c] \in {"existing", "conflict"}
    /\ \/ /\ SameDecision(c)
          /\ Return(c, "decided")
          /\ reply' = [reply EXCEPT ![c] = approval[args[c].req].id]
          /\ IF /\ at[c] = "existing" /\ args[c].kind = "approve"
                /\ seen[c].status = "APPROVED"
             THEN Spawn(c) ELSE UNCHANGED pc
       \/ ~SameDecision(c) /\ Return(c, "refused") /\ UNCHANGED <<reply, pc>>
    /\ UNCHANGED <<boot, sub, args, item, why, result, timer, executing, pruning,
                   verdict, runVars, left, storeVars>>

-----------------------------------------------------------------------------
(* Cancel.                                                                  *)

Cancel(c, actor, r) ==
    /\ boot = "serving" /\ at[c] = "idle"
    /\ args' = [args EXCEPT ![c] = [kind |-> "cancel", actor |-> actor, req |-> r,
                                    echo |-> "submitted"]]
    /\ \/ /\ actor \in {"root", "owner"}
          /\ status[r] \in {"CREATED", "WAITING_APPROVAL"}
          /\ seen' = [seen EXCEPT ![c] = [status |-> status[r], body |-> stored[r]]]
          /\ Goto(c, "cancel")
       \/ /\ \/ actor = "other"
             \/ status[r] \notin {"CREATED", "WAITING_APPROVAL"}
          /\ Return(c, "refused")
    /\ UNCHANGED <<boot, sub, reply, workVars, pruning, verdict, runVars, left,
                   storeVars>>

\* Mutant: the caller is told of a cancellation that did not happen.
CancelCommitUnchecked(c) ==
    /\ at[c] = "cancel"
    /\ TryTransition(args[c].req, "CANCELLED", seen[c].status)
    /\ Return(c, "cancelled")
    /\ UNCHANGED <<boot, sub, args, reply, workVars, pruning, verdict, runVars, left>>

CancelCommit(c) ==
    /\ at[c] = "cancel"
    /\ \/ /\ Transition(args[c].req, "CANCELLED", seen[c].status)
          /\ Return(c, "cancelled")
       \/ /\ ~CanTransition(args[c].req, "CANCELLED", seen[c].status)
          /\ UNCHANGED storeVars
          /\ Return(c, "refused")
    /\ UNCHANGED <<boot, sub, args, reply, workVars, pruning, verdict, runVars, left>>

\* A failed read or write ends the handler with an error; the commit of a
\* decision that fails is a step of DecideAccept.
CallStoreError(c) ==
    /\ at[c] \in {"get", "existing", "conflict", "cancel"}
    /\ Spend("faults")
    /\ Return(c, "refused")
    /\ UNCHANGED <<boot, sub, args, reply, workVars, pruning, verdict, runVars,
                   storeVars>>

Handler(c) ==
    \/ DecideGet(c) \/ DecideReject(c) \/ DecideReport(c) \/ DecideAccept(c)
    \/ DecideRecord(c) \/ DecideExisting(c) \/ CancelCommit(c)

-----------------------------------------------------------------------------
(* The execute goroutine.                                                   *)

ReqOf(g) == IF g \in Calls THEN args[g].req ELSE g

Jump(g, where) == pc' = [pc EXCEPT ![g] = where]

\* Mutant: Store without the test.
ExecuteEnterAlways(g) ==
    /\ pc[g] = "enter"
    /\ Jump(g, "load")
    /\ executing' = executing \cup {ReqOf(g)}
    /\ UNCHANGED <<boot, sub, callVars, item, why, result, timer, pruning, verdict,
                   runVars, left, storeVars>>

\* Service.executing.LoadOrStore: one goroutine per request goes on.
ExecuteEnter(g) ==
    /\ pc[g] = "enter"
    /\ \/ ReqOf(g) \in executing /\ Jump(g, "idle") /\ UNCHANGED executing
       \/ /\ ReqOf(g) \notin executing /\ Jump(g, "load")
          /\ executing' = executing \cup {ReqOf(g)}
    /\ UNCHANGED <<boot, sub, callVars, item, why, result, timer, pruning, verdict,
                   runVars, left, storeVars>>

\* Mutant: the stored hash is trusted.
ExecuteLoadTrusting(g) ==
    /\ pc[g] = "load"
    /\ LET r == ReqOf(g)
       IN  IF HasRow(r)
           THEN item' = [item EXCEPT ![g] = stored[r]] /\ Jump(g, "approval")
           ELSE Jump(g, "leave") /\ UNCHANGED item
    /\ UNCHANGED <<boot, sub, callVars, why, result, timer, executing, pruning,
                   verdict, runVars, left, storeVars>>

\* Get, and the checks of the row: the clock, then the request hash.
ExecuteLoad(g) ==
    /\ pc[g] = "load"
    /\ LET r == ReqOf(g)
       IN  \/ ~HasRow(r) /\ Jump(g, "leave") /\ UNCHANGED <<item, why>>
           \/ HasRow(r) /\ r \in expired /\ Jump(g, "expire") /\ UNCHANGED <<item, why>>
           \/ /\ HasRow(r) /\ r \notin expired
              /\ item' = [item EXCEPT ![g] = stored[r]]
              /\ \/ HashMatches(stored[r]) /\ Jump(g, "approval") /\ UNCHANGED why
                 \/ /\ ~HashMatches(stored[r]) /\ Jump(g, "reject")
                    /\ why' = [why EXCEPT ![g] = "request.integrity-failed"]
    /\ UNCHANGED <<boot, sub, callVars, result, timer, executing, pruning, verdict,
                   runVars, left, storeVars>>

\* A failed Get ends the goroutine.
ExecuteLoadError(g) ==
    /\ pc[g] = "load"
    /\ Spend("faults")
    /\ Jump(g, "leave")
    /\ UNCHANGED <<boot, sub, callVars, item, why, result, timer, executing, pruning,
                   verdict, runVars, storeVars>>

BoundApproval(g) ==
    /\ approval[ReqOf(g)].decision = "approve"
    /\ approval[ReqOf(g)].hash = item[g].hash

\* A failed read of the approval counts as a missing one.
ExecuteApproval(g) ==
    /\ pc[g] = "approval"
    /\ \/ BoundApproval(g) /\ Jump(g, "recheck") /\ UNCHANGED <<why, left>>
       \/ /\ (~BoundApproval(g) /\ UNCHANGED left) \/ Spend("faults")
          /\ Jump(g, "reject")
          /\ why' = [why EXCEPT ![g] = "approval.integrity-failed"]
    /\ UNCHANGED <<boot, sub, callVars, item, result, timer, executing, pruning,
                   verdict, runVars, storeVars>>

\* The policy is loaded and evaluated again; the working directory, executable
\* and interpreter are opened and verified.
ExecuteRecheck(g) ==
    /\ pc[g] = "recheck"
    /\ Jump(g, IF verdict[ReqOf(g)] = "require-approval" THEN "begin" ELSE "reject")
    /\ UNCHANGED <<boot, sub, callVars, item, why, result, timer, executing, pruning,
                   verdict, runVars, left, storeVars>>

ExecuteExpire(g) ==
    /\ pc[g] = "expire"
    /\ OrFails(TryTransition(ReqOf(g), "EXPIRED", "APPROVED"))
    /\ Jump(g, "leave")
    /\ UNCHANGED <<boot, sub, callVars, item, why, result, timer, executing, pruning,
                   verdict, runVars>>

ExecuteReject(g) ==
    /\ pc[g] = "reject"
    /\ OrFails(TryTransition(ReqOf(g), "POLICY_REJECTED", "APPROVED"))
    /\ Jump(g, IF why[g] = "none" THEN "leave" ELSE "report")
    /\ UNCHANGED <<boot, sub, callVars, item, why, result, timer, executing, pruning,
                   verdict, runVars>>

ExecuteReport(g) ==
    /\ pc[g] = "report"
    /\ OrFails(RecordSecurityEvent(why[g], ReqOf(g)))
    /\ Jump(g, "leave")
    /\ UNCHANGED <<boot, sub, callVars, item, why, result, timer, executing, pruning,
                   verdict, runVars>>

\* Mutant: the command is started although BeginExecution failed.
ExecuteBeginUnchecked(g) ==
    /\ pc[g] = "begin"
    /\ OrFails(BeginExecution(ReqOf(g)) \/ UNCHANGED storeVars)
    /\ Jump(g, "start")
    /\ UNCHANGED <<boot, sub, callVars, item, why, result, timer, executing, pruning,
                   verdict, runVars>>

ExecuteBegin(g) ==
    /\ pc[g] = "begin"
    /\ \/ BeginExecution(ReqOf(g)) /\ Jump(g, "start") /\ UNCHANGED left
       \/ /\ (~CanBegin(ReqOf(g)) /\ UNCHANGED left) \/ Spend("faults")
          /\ Jump(g, "leave")
          /\ UNCHANGED storeVars
    /\ UNCHANGED <<boot, sub, callVars, item, why, result, timer, executing, pruning,
                   verdict, runVars>>

\* Pipes and Start; without a process the exit code is 127.
ExecuteStart(g) ==
    /\ pc[g] = "start"
    /\ \/ /\ starts' = [starts EXCEPT ![ReqOf(g)] = @ + 1]
          /\ started' = [started EXCEPT ![ReqOf(g)] = item[g].json]
          /\ Jump(g, "running")
          /\ UNCHANGED result
       \/ /\ result' = [result EXCEPT ![g] = [exit |-> "nonzero", signal |-> "none"]]
          /\ Jump(g, "finish")
          /\ UNCHANGED runVars
    /\ UNCHANGED <<boot, sub, callVars, item, why, timer, executing, pruning, verdict,
                   left, storeVars>>

\* The timer fires until Wait has returned, and so after the command has exited.
ExecutionTimer(g) ==
    /\ pc[g] \in {"running", "exited"} /\ timer[g] = "armed"
    /\ timer' = [timer EXCEPT ![g] = "fired"]
    /\ UNCHANGED <<boot, sub, callVars, pc, item, why, result, executing, pruning,
                   verdict, runVars, left, storeVars>>

\* The command ends by itself, by a signal, or by the timer's SIGKILL.
CommandExits(g) ==
    /\ pc[g] = "running"
    /\ \E r \in {[exit |-> "zero", signal |-> "none"],
                 [exit |-> "nonzero", signal |-> "none"],
                 [exit |-> "none", signal |-> "signal"]} :
          result' = [result EXCEPT ![g] = r]
    /\ Jump(g, "exited")
    /\ UNCHANGED <<boot, sub, callVars, item, why, timer, executing, pruning, verdict,
                   runVars, left, storeVars>>

\* Wait has returned, the timer is stopped, the pipes are drained.
ExecuteReap(g) ==
    /\ pc[g] = "exited"
    /\ Jump(g, "finish")
    /\ result' = IF timer[g] = "armed" THEN result
                 ELSE [result EXCEPT ![g] = [exit |-> result[g].exit,
                                             signal |-> "EXECUTION_TIMEOUT"]]
    /\ UNCHANGED <<boot, sub, callVars, item, why, timer, executing, pruning, verdict,
                   runVars, left, storeVars>>

\* The error of FinishExecution is dropped.
ExecuteFinish(g) ==
    /\ pc[g] = "finish"
    /\ OrFails(\/ FinishExecution(ReqOf(g), result[g].exit, result[g].signal)
               \/ status[ReqOf(g)] # "EXECUTING" /\ UNCHANGED storeVars)
    /\ Jump(g, "leave")
    /\ UNCHANGED <<boot, sub, callVars, item, why, result, timer, executing, pruning,
                   verdict, runVars>>

\* The deferred Delete.
ExecuteLeave(g) ==
    /\ pc[g] = "leave"
    /\ Jump(g, "idle")
    /\ executing' = executing \ {ReqOf(g)}
    /\ item' = [item EXCEPT ![g] = Submitted]
    /\ why' = [why EXCEPT ![g] = "none"]
    /\ result' = [result EXCEPT ![g] = NoResult]
    /\ timer' = [timer EXCEPT ![g] = "armed"]
    /\ UNCHANGED <<boot, sub, callVars, pruning, verdict, runVars, left, storeVars>>

Execute(g) ==
    \/ ExecuteEnter(g) \/ ExecuteLoad(g) \/ ExecuteApproval(g)
    \/ ExecuteRecheck(g) \/ ExecuteExpire(g) \/ ExecuteReject(g)
    \/ ExecuteReport(g) \/ ExecuteBegin(g) \/ ExecuteStart(g)
    \/ ExecuteReap(g) \/ ExecuteFinish(g) \/ ExecuteLeave(g)

-----------------------------------------------------------------------------
(* Maintenance, which the daemon runs while it serves, and the environment. *)

\* The ticker; Watch and ListRequests expire what is overdue too.
ExpireTick ==
    /\ boot = "serving"
    /\ ExpireOutstanding
    /\ UNCHANGED brokerVars

PruneSelect(ids) ==
    /\ boot = "serving" /\ pruning = {}
    /\ pruning' = ids
    /\ UNCHANGED <<boot, sub, callVars, workVars, verdict, runVars, left, storeVars>>

PruneDelete ==
    /\ pruning # {}
    /\ pruning' = {}
    /\ OrFails(Prune(pruning) \/ (~CanPrune(pruning) /\ UNCHANGED storeVars))
    /\ UNCHANGED <<boot, sub, callVars, workVars, verdict, runVars>>

ClockPasses(r) == TimePasses(r) /\ UNCHANGED brokerVars

Damage(r) ==
    /\ DamageJson(r) \/ DamageHash(r) \/ DamageApproval(r)
    /\ Spend("damages")
    /\ UNCHANGED <<boot, sub, callVars, workVars, pruning, verdict, runVars>>

\* Root edits the policy, or someone replaces a file the request pinned.
VerdictChanges(r) ==
    /\ Spend("changes")
    /\ \E v \in Verdicts \ {verdict[r]} : verdict' = [verdict EXCEPT ![r] = v]
    /\ UNCHANGED <<boot, sub, callVars, workVars, pruning, runVars, storeVars>>

-----------------------------------------------------------------------------
Next ==
    \/ OpenStore
    \/ RecoverExpire
    \/ RecoverApproved
    \/ Crash
    \/ \E r \in Requests : Submit(r)
    \/ \E c \in Calls, r \in Requests, a \in Actors :
          \/ \E kind \in Decisions, echo \in Versions : Decide(c, kind, a, r, echo)
          \/ Cancel(c, a, r)
    \/ \E c \in Calls : Handler(c) \/ CallStoreError(c)
    \/ \E g \in Goroutines :
          Execute(g) \/ ExecuteLoadError(g) \/ ExecutionTimer(g) \/ CommandExits(g)
    \/ ExpireTick
    \/ \E ids \in SUBSET Prunable \ {{}} : PruneSelect(ids)
    \/ PruneDelete
    \/ \E r \in Requests : ClockPasses(r) \/ Damage(r) \/ VerdictChanges(r)

Spec == Init /\ [][Next]_vars

(***************************************************************************)
(* The scheduler runs every started handler and goroutine on, the clock    *)
(* reaches every expiry, the expiry ticker keeps firing, systemd restarts  *)
(* the daemon, and SIGKILL ends a command.  Clients and reviewers owe      *)
(* nothing, and a command may run for ever until its timer fires.          *)
(***************************************************************************)
Fairness ==
    /\ WF_vars(OpenStore) /\ WF_vars(RecoverExpire) /\ WF_vars(RecoverApproved)
    /\ WF_vars(ExpireTick)
    /\ \A r \in Requests :
          /\ WF_vars(ClockPasses(r))
          /\ WF_vars(SubmitCreate(r) \/ SubmitEnter(r))
    /\ \A c \in Calls : WF_vars(Handler(c))
    /\ \A g \in Goroutines :
          /\ WF_vars(Execute(g))
          /\ WF_vars(ExecutionTimer(g))
          /\ WF_vars(timer[g] = "fired" /\ CommandExits(g))

FairSpec == Spec /\ Fairness

-----------------------------------------------------------------------------
(* Properties.                                                              *)

SubPCs == {"idle", "deny", "require-approval", "reject", "enter", "done"}
CallPCs == Finished \cup {"get", "reject", "report", "accept", "record",
                          "existing", "conflict", "cancel"}
WorkPCs == {"idle", "enter", "load", "approval", "recheck", "expire", "reject",
            "report", "begin", "start", "running", "exited", "finish", "leave"}

ProcessTypeOK ==
    /\ boot \in {"opening", "expired", "serving"}
    /\ sub \in [Requests -> SubPCs]
    /\ at \in [Calls -> CallPCs]
    /\ args \in [Calls -> ArgSets]
    /\ seen \in [Calls -> Rows]
    /\ reply \in [Calls -> ApprovalIds \cup {Nil}]
    /\ pc \in [Goroutines -> WorkPCs]
    /\ item \in [Goroutines -> Bodies]
    /\ why \in [Goroutines -> EventTypes \cup {"none"}]
    /\ result \in [Goroutines -> Results]
    /\ timer \in [Goroutines -> {"armed", "fired"}]
    /\ executing \subseteq Requests
    /\ pruning \subseteq Requests
    /\ verdict \in [Requests -> Verdicts]
    /\ starts \in [Requests -> Nat]
    /\ started \in [Requests -> Versions \cup {Nil}]
    /\ left \in [Bounds -> Nat]

\* Every column and every variable of the daemon holds a value of its type.
TypeOK == StoreTypeOK /\ ProcessTypeOK

\* Retried approvals, concurrent executors, failed store calls, crashes and the
\* recovery of approved requests never start a second process for a request.
AtMostOnce == \A r \in Requests : starts[r] <= 1

\* A request whose command was started is shown as started for ever: no denial,
\* cancellation, expiry, rejection or deletion can be recorded for it.
RanIsRecorded == \A r \in Requests : starts[r] > 0 => status[r] \in Started

\* What ran is the body whose hash a root peer echoed in the very Approve call
\* whose approval the request carries; in particular a remote-era request never
\* runs.  Two damaged columns of the three (body, hash, approval) do not change
\* this, so MaxDamages is at most 2.
RanAsConfirmed ==
    \A r \in Requests : starts[r] > 0 =>
        \E c \in Calls : /\ approval[r].id = c
                         /\ args[c].actor = "root" /\ args[c].kind = "approve"
                         /\ args[c].req = r /\ args[c].echo = started[r]

\* What a caller was told holds from then on: an accepted decision is the stored
\* one and every retry names the same approval ID; a cancelled request is never
\* decided and never runs.
RepliesHold ==
    \A c \in Calls :
        LET r == args[c].req
        IN  /\ at[c] = "decided" =>
                  /\ approval[r].decision = args[c].kind
                  /\ approval[r].id = reply[c]
            /\ at[c] = "cancelled" =>
                  /\ status[r] \in {"CANCELLED", Pruned}
                  /\ approval[r].decision = "none" /\ starts[r] = 0

InCharge == WorkPCs \ {"idle", "enter"}

\* The executing map is a lock: at most one goroutine of a request is past
\* LoadOrStore, and while one is the map holds the request.
OneExecutor ==
    \A g \in Goroutines : pc[g] \in InCharge =>
        /\ ReqOf(g) \in executing
        /\ \A h \in Goroutines :
              pc[h] \in InCharge /\ ReqOf(h) = ReqOf(g) => h = g

\* Handlers, goroutines and maintenance exist only while the daemon serves, with
\* an open store.
OnlyWhileServing ==
    /\ boot # "opening" => handle = "open"
    /\ boot # "serving" =>
          /\ \A r \in Requests : sub[r] \in {"idle", "done"}
          /\ \A c \in Calls : at[c] \in Finished
          /\ \A g \in Goroutines : pc[g] = "idle"
          /\ executing = {} /\ pruning = {}

\* A handler works on a request with the arguments its method takes, a goroutine
\* on the request of the handler that spawned it.
Arguments ==
    /\ \A c \in Calls :
          /\ at[c] # "idle" => args[c].req \in Requests
          /\ pc[c] # "idle" => at[c] # "idle"
          /\ at[c] \notin Finished \cup {"cancel"} => args[c].kind \in Decisions
          /\ at[c] = "cancel" => seen[c].status \in {"CREATED", "WAITING_APPROVAL"}
    /\ \A g \in Goroutines : pc[g] = "report" => why[g] \in EventTypes

\* What PruneUnapproved selected is still terminal and undecided when it deletes
\* it, although any call may run between the query and the transaction.
SelectionHolds == pruning \subseteq Prunable

\* A goroutine past BeginExecution owns an EXECUTING request, and has the only
\* right to start its process; a process that was started had an approval.
Ownership ==
    /\ \A g \in Goroutines :
          /\ pc[g] \in {"start", "running", "exited", "finish"} =>
                status[ReqOf(g)] = "EXECUTING"
          /\ pc[g] = "start" =>
                /\ starts[ReqOf(g)] = 0
                /\ approval[ReqOf(g)].decision = "approve"
    /\ \A r \in Requests : starts[r] > 0 => approval[r].decision = "approve"

\* The inductive invariant behind AtMostOnce.
BrokerInv ==
    /\ StoreInv
    /\ ProcessTypeOK
    /\ OnlyWhileServing
    /\ Arguments
    /\ OneExecutor
    /\ SelectionHolds
    /\ Ownership
    /\ RanIsRecorded
    /\ AtMostOnce

\* While the daemon serves and no store call has failed, an APPROVED request has
\* somebody who will execute it and an EXECUTING one somebody who will finish it:
\* goroutines that give way to each other in LoadOrStore never all give way.
NoAbandonedWork ==
    boot = "serving" /\ left["faults"] = MaxFaults =>
        \A r \in Requests :
            /\ status[r] = "APPROVED" =>
                  \/ \E c \in Calls : at[c] = "record" /\ args[c].req = r
                  \/ \E g \in Goroutines :
                        /\ ReqOf(g) = r
                        /\ pc[g] \in {"enter", "load", "approval", "recheck",
                                          "expire", "reject", "begin"}
            /\ status[r] = "EXECUTING" =>
                  \E g \in Goroutines :
                     /\ ReqOf(g) = r
                     /\ pc[g] \in {"start", "running", "exited", "finish"}

\* A security event reports only what happened: a decision event the stored
\* decision, an integrity event a damaged row (or a failed read of the approval).
AuditIsTrue ==
    \A r \in Requests :
        /\ <<"request.approved", r>> \in events => approval[r].decision = "approve"
        /\ <<"request.denied", r>> \in events => approval[r].decision = "deny"
        /\ <<"request.integrity-failed", r>> \in events => left["damages"] < MaxDamages
        /\ <<"approval.integrity-failed", r>> \in events =>
              left["damages"] < MaxDamages \/ left["faults"] < MaxFaults

\* The authorisation a request holds, as the abstract specification sees it.  What the
\* remote-era daemon approved or began carries no approval ID of this one and is no
\* authorisation.
PhaseOf(s, id) ==
    CASE s \in {NoRow, "CREATED", "QUEUED", "SYNCED", "WAITING_APPROVAL"} -> "pending"
      [] s = "APPROVED" /\ id # Nil -> "authorised"
      [] s \in Started /\ id # Nil -> "spent"
      [] OTHER -> "refused"

Promise == INSTANCE Authorization WITH
              phase <- [r \in Requests |-> PhaseOf(status[r], approval[r].id)],
              launches <- starts

\* The daemon implements the abstract promise.
Authorised == Promise!AuthSpec

\* Every request that waits, is approved or executes reaches a terminal status,
\* whatever clients and reviewers do and however often the process ends, as long
\* as the store calls succeed.
RequestsSettle ==
    \A r \in Requests :
        status[r] \in {"WAITING_APPROVAL", "APPROVED", "EXECUTING"} ~>
            status[r] \in Terminal \cup {Pruned}

\* The request timeout bounds the wait for an approval: every stored request
\* reaches a terminal status.
EveryRequestSettles ==
    \A r \in Requests :
        status[r] \in Outstanding ~> status[r] \in Terminal \cup {Pruned}
===============================================================================
