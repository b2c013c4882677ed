-------------------------- MODULE ReviewerCLI_proofs ---------------------------
(***************************************************************************)
(* What a reviewer is told is true for every number of reviewers and       *)
(* requests, store faults and restarts.  The argument: a call that was     *)
(* given up can no longer begin its transaction, and a lookup that reads   *)
(* the row waits until no transaction is open.                             *)
(***************************************************************************)
EXTENDS ReviewerCLI, TLAPS

Unstored(v) == \A r \in Requests : approval[r].id # v

\* The call of v can no longer commit: it has ended, or it was given up and has no
\* transaction.
Over(v) == handler[v] = "none" \/ (ctx[v] = "done" /\ handler[v] # "tx")

\* A stored approval is the decision its reviewer asked for, and decides the request.
StoredIsWanted ==
    /\ \A r \in Requests : status[r] = "WAITING_APPROVAL" => approval[r].decision = "none"
    /\ \A v \in Reviewers, r \in Requests :
          approval[r].id = v =>
              r = want[v].req /\ approval[r].decision = want[v].kind /\ cli[v] # "idle"

\* What the handler of a call knows.
HandlerKnows ==
    \A v \in Reviewers :
        /\ handler[v] # "none" => cli[v] # "idle"
        /\ cli[v] # "idle" => want[v].req \in Requests
        /\ handler[v] \in {"expire", "get", "accept", "tx", "refused"} => Unstored(v)
        /\ handler[v] = "accepted" =>
              /\ approval[want[v].req].decision = want[v].kind
              /\ approval[want[v].req].id = resp[v]

\* What the process of a call knows.
ProcessKnows ==
    \A v \in Reviewers :
        /\ cli[v] = "reconcile" => handler[v] = "none" \/ ctx[v] = "done"
        /\ cli[v] \in {"record", "pending", "refused"} => Over(v)
        /\ cli[v] = "record" /\ looked[v] = "WAITING_APPROVAL" => Unstored(v)

ReviewInv ==
    /\ TypeOK
    /\ StoredIsWanted
    /\ HandlerKnows
    /\ ProcessKnows
    /\ NotCommittedIsFinal
    /\ ConfirmedIsStored

-----------------------------------------------------------------------------
\* The statements of bystanders, and of the handler before its transaction, decide
\* nothing and make no request wait again.
Undecided ==
    /\ StoreTypeOK' /\ UNCHANGED approval
    /\ \A r \in Requests : status'[r] = "WAITING_APPROVAL" => status[r] = "WAITING_APPROVAL"

\* Expiry, cancellation and the clock leave every decision alone.
LEMMA Bystanders ==
    ASSUME StoreTypeOK,
           \/ ExpireOutstanding
           \/ \E r \in Requests : Transition(r, "CANCELLED", "WAITING_APPROVAL")
           \/ \E r \in Requests : TimePasses(r)
           \/ UNCHANGED storeVars
    PROVE  Undecided
<1> USE DEF StoreTypeOK, Undecided, Statuses, NoRow, Pruned
<1>1. CASE ExpireOutstanding
  BY <1>1 DEF ExpireOutstanding
<1>2. ASSUME NEW r \in Requests, Transition(r, "CANCELLED", "WAITING_APPROVAL")
      PROVE  Undecided
  BY <1>2 DEF Transition, CanTransition
<1>3. ASSUME NEW r \in Requests, TimePasses(r) PROVE Undecided
  BY <1>3 DEF TimePasses
<1>4. CASE UNCHANGED storeVars
  BY <1>4 DEF storeVars
<1> QED
  BY <1>1, <1>2, <1>3, <1>4

\* Requests that nobody has decided satisfy the invariant.
LEMMA ReviewInit == Init => ReviewInv
<1> SUFFICES ASSUME Init PROVE ReviewInv
  OBVIOUS
<1>1. /\ Submitted \in Bodies /\ NoApproval \in Approvals /\ NoExecution \in Executions
      /\ NoWant \in [kind: Decisions, req: Requests \cup {Nil}]
  BY DEF Submitted, Bodies, Versions, NoApproval, Approvals, NoExecution, Executions,
         Exits, Signals, NoWant, Decisions
<1>2. TypeOK
  BY <1>1, StoreAssumption, ReviewAssumption
  DEF Init, TypeOK, StoreTypeOK, Statuses, Reviewers
<1>3. \A r \in Requests : approval[r].decision = "none" /\ approval[r].id = Nil
  BY DEF Init, NoApproval
<1> QED
  BY <1>2, <1>3, StoreAssumption
  DEF Init, ReviewInv, StoredIsWanted, HandlerKnows, ProcessKnows, NotCommittedIsFinal,
      ConfirmedIsStored, Reviewers

\* The steps of decide before and after its transaction preserve the invariant.
LEMMA HandlerStep ==
    ASSUME ReviewInv, NEW v \in Reviewers,
           HandlerExpire(v) \/ HandlerGet(v) \/ HandlerBegin(v) \/ HandlerExisting(v)
    PROVE  ReviewInv'
<1> USE DEF ReviewInv, To, Reviewers
<1>1. Undecided
  BY Bystanders DEF HandlerExpire, HandlerGet, HandlerBegin, HandlerExisting, TypeOK
<1>2. TypeOK'
  <2>1. want[v].req \in Requests => approval[want[v].req].id \in Reviewers \cup {Nil}
    BY DEF TypeOK, StoreTypeOK, Approvals
  <2>2. handler[v] # "none" => want[v].req \in Requests
    BY DEF HandlerKnows
  <2>3. faults' \in 0..MaxFaults /\ restarts' \in 0..MaxRestarts
    BY ReviewAssumption
    DEF TypeOK, HandlerExpire, HandlerGet, HandlerBegin, HandlerExisting, boundVars, Fault
  <2>4. resp' \in [Reviewers -> Reviewers \cup {Nil}]
    BY <2>1, <2>2
    DEF TypeOK, HandlerExpire, HandlerGet, HandlerBegin, HandlerExisting
  <2>5. /\ handler' \in [Reviewers -> {"none", "expire", "get", "accept", "tx",
                                       "existing", "accepted", "refused", "error"}]
        /\ \A w \in Reviewers : conn' = w <=> handler'[w] = "tx"
        /\ conn' \in Reviewers \cup {Nil}
    <3>1. PICK where \in {"get", "accept", "tx", "existing", "accepted", "refused",
                          "error"} :
              /\ handler' = [handler EXCEPT ![v] = where]
              /\ conn' = IF where = "tx" THEN v ELSE conn
      BY DEF HandlerExpire, HandlerGet, HandlerBegin, HandlerExisting
    <3>2. conn = Nil
      BY DEF HandlerExpire, HandlerGet, HandlerBegin, HandlerExisting
    <3> QED
      BY <3>1, <3>2, StoreAssumption DEF TypeOK
  <2> QED
    BY <1>1, <2>3, <2>4, <2>5
    DEF TypeOK, Undecided, HandlerExpire, HandlerGet, HandlerBegin, HandlerExisting,
        cliVars
<1>3. /\ UNCHANGED <<cli, want, answer, looked, ctx>>
      /\ \A w \in Reviewers \ {v} : handler'[w] = handler[w] /\ resp'[w] = resp[w]
  BY DEF HandlerExpire, HandlerGet, HandlerBegin, HandlerExisting, cliVars, TypeOK
<1>4. StoredIsWanted'
  BY <1>1, <1>3 DEF Undecided, StoredIsWanted
<1>5. HandlerKnows'
  BY <1>1, <1>3 DEF Undecided, HandlerKnows, Unstored, StoredIsWanted, TypeOK,
     HandlerExpire, HandlerGet, HandlerBegin, HandlerExisting
<1>6. ProcessKnows'
  BY <1>1, <1>3 DEF Undecided, ProcessKnows, Over, Unstored, TypeOK,
     HandlerExpire, HandlerGet, HandlerBegin, HandlerExisting
<1>7. NotCommittedIsFinal' /\ ConfirmedIsStored'
  BY <1>1, <1>3 DEF Undecided, NotCommittedIsFinal, ConfirmedIsStored
<1> QED
  BY <1>2, <1>4, <1>5, <1>6, <1>7

\* So does the commit, which is the only step that stores a decision: the call that
\* commits has not committed before, and no process of the reviewer is past asking.
LEMMA CommitStep ==
    ASSUME ReviewInv, NEW v \in Reviewers, HandlerCommit(v)
    PROVE  ReviewInv'
<1> USE DEF ReviewInv, To, Reviewers
<1> DEFINE r == want[v].req
<1>1. /\ handler[v] = "tx" /\ r \in Requests /\ conn' = Nil /\ conn = v
      /\ UNCHANGED <<cli, want, answer, looked, ctx>>
  BY DEF HandlerCommit, HandlerKnows, cliVars, TypeOK
<1>2. \A w \in Reviewers \ {v} : handler'[w] = handler[w] /\ resp'[w] = resp[w]
  BY DEF HandlerCommit, TypeOK
<1>3. /\ faults' \in 0..MaxFaults /\ restarts' \in 0..MaxRestarts
      /\ handler' \in [Reviewers -> {"none", "expire", "get", "accept", "tx",
                                     "existing", "accepted", "refused", "error"}]
      /\ \A w \in Reviewers : conn' = w <=> handler'[w] = "tx"
      /\ resp' \in [Reviewers -> Reviewers \cup {Nil}]
  <2>1. faults' \in 0..MaxFaults /\ restarts' \in 0..MaxRestarts
    BY ReviewAssumption DEF TypeOK, HandlerCommit, boundVars, Fault
  <2>2. PICK where \in {"accepted", "existing"} : handler' = [handler EXCEPT ![v] = where]
    BY DEF HandlerCommit
  <2>3. resp' \in [Reviewers -> Reviewers \cup {Nil}]
    BY DEF TypeOK, HandlerCommit
  <2> QED
    BY <1>1, <2>1, <2>2, <2>3, StoreAssumption DEF TypeOK
<1>4. Unstored(v)
  BY <1>1 DEF HandlerKnows
<1>5. CASE AcceptApproval(r, want[v].kind, v, stored[r].hash)
           /\ resp'[v] = v /\ handler'[v] = "accepted"
  <2> DEFINE given == [decision |-> want[v].kind, id |-> v, hash |-> stored[r].hash,
                       consumed |-> "no"]
  <2>1. /\ given \in Approvals
        /\ given.decision = want[v].kind /\ given.id = v
        /\ approval[r].decision = "none" /\ approval' = [approval EXCEPT ![r] = given]
        /\ status' = [status EXCEPT ![r] = DecidedStatus(want[v].kind)]
        /\ DecidedStatus(want[v].kind) \in Statuses \ {"WAITING_APPROVAL"}
        /\ UNCHANGED <<stored, execution, events, migrated, expired, handle>>
    BY <1>1, <1>5 DEF AcceptApproval, CanAccept, DecidedStatus, Statuses, Approvals,
       TypeOK, StoreTypeOK, Bodies, Decisions
  <2> HIDE DEF given
  <2>2. TypeOK'
    BY <1>1, <1>3, <2>1 DEF TypeOK, StoreTypeOK
  <2>3. \A q \in Requests \ {r} : approval'[q] = approval[q] /\ status'[q] = status[q]
    BY <2>1 DEF TypeOK, StoreTypeOK
  <2>4. approval'[r] = given /\ status'[r] # "WAITING_APPROVAL"
    BY <1>1, <2>1 DEF TypeOK, StoreTypeOK
  <2>5. cli[v] # "idle" /\ ~Over(v) /\ \A w \in Reviewers \ {v} : given.id # w
    BY <1>1, <2>1, StoreAssumption DEF HandlerKnows, ProcessKnows, Over, TypeOK
  <2>6. cli[v] \notin {"record", "pending", "refused"}
    BY <2>5 DEF ProcessKnows
  <2>7. StoredIsWanted'
    BY <1>1, <2>1, <2>3, <2>4, <2>5 DEF StoredIsWanted
  <2>8. \A w \in Reviewers \ {v} : Unstored(w) => Unstored(w)'
    BY <2>1, <2>3, <2>4, <2>5 DEF Unstored
  <2>9. HandlerKnows'
    BY <1>1, <1>2, <1>5, <2>1, <2>3, <2>4, <2>8 DEF HandlerKnows, TypeOK, Decisions
  <2>10. ProcessKnows'
    BY <1>1, <1>2, <1>5, <2>6, <2>8 DEF ProcessKnows, Over
  <2>11. NotCommittedIsFinal'
    BY <1>1, <2>6, <2>8 DEF NotCommittedIsFinal, Unstored
  <2>12. ConfirmedIsStored'
    BY <1>1, <2>1, <2>3, <2>4 DEF ConfirmedIsStored, HandlerKnows, TypeOK, Decisions
  <2> QED
    BY <2>2, <2>7, <2>9, <2>10, <2>11, <2>12
<1>6. CASE UNCHANGED storeVars /\ UNCHANGED resp /\ handler'[v] = "existing"
  <2>1. Undecided
    BY <1>6, Bystanders DEF TypeOK
  <2>2. TypeOK'
    BY <1>1, <1>3, <2>1 DEF TypeOK, Undecided
  <2>3. StoredIsWanted' /\ HandlerKnows'
    BY <1>1, <1>2, <1>6, <2>1 DEF Undecided, StoredIsWanted, HandlerKnows, Unstored
  <2>4. ProcessKnows' /\ NotCommittedIsFinal' /\ ConfirmedIsStored'
    BY <1>1, <1>2, <1>6, <2>1
    DEF Undecided, ProcessKnows, Over, Unstored, NotCommittedIsFinal, ConfirmedIsStored
  <2> QED
    BY <2>2, <2>3, <2>4
<1> QED
  BY <1>5, <1>6 DEF HandlerCommit, TypeOK

\* The steps of runAdmin preserve it: a process looks a decision up only after its
\* call ended or was given up.
LEMMA ProcessStep ==
    ASSUME ReviewInv, NEW v \in Reviewers,
           \/ \E r \in Requests, k \in Decisions : Calls(v, r, k)
           \/ Receives(v) \/ GivesUp(v)
           \/ LookupRow(v) \/ LookupApproval(v) \/ LookupFails(v)
    PROVE  ReviewInv'
<1> USE DEF ReviewInv, To, Tell, Reviewers
<1>1. UNCHANGED <<storeVars, conn>> /\ Undecided
  <2>1. UNCHANGED <<storeVars, conn>>
    BY DEF Calls, Receives, GivesUp, LookupRow, LookupApproval, LookupFails, handlerVars
  <2> QED
    BY <2>1, Bystanders DEF TypeOK
<1>2. faults' \in 0..MaxFaults /\ restarts' \in 0..MaxRestarts
  BY ReviewAssumption DEF Calls, Receives, GivesUp, LookupRow, LookupApproval,
     LookupFails, TypeOK, boundVars, Fault
<1>3. ASSUME NEW r \in Requests, NEW k \in Decisions, Calls(v, r, k)
      PROVE  ReviewInv'
  <2>1. Unstored(v)
    BY <1>3 DEF Calls, StoredIsWanted, Unstored
  <2>2. TypeOK'
    <3>1. [kind |-> k, req |-> r] \in [kind: Decisions, req: Requests \cup {Nil}]
      OBVIOUS
    <3>2. handler[v] # "tx"
      BY <1>3 DEF Calls, HandlerKnows
    <3> QED
      BY <1>1, <1>2, <1>3, <3>1, <3>2 DEF Calls, TypeOK, Undecided
  <2>3. StoredIsWanted' /\ HandlerKnows'
    BY <1>1, <1>3, <2>1 DEF Undecided, Calls, StoredIsWanted, HandlerKnows, Unstored, TypeOK
  <2>4. ProcessKnows' /\ NotCommittedIsFinal' /\ ConfirmedIsStored'
    BY <1>1, <1>3, <2>1
    DEF Undecided, Calls, ProcessKnows, Over, Unstored, NotCommittedIsFinal,
        ConfirmedIsStored, TypeOK
  <2> QED
    BY <2>2, <2>3, <2>4
<1>4. CASE Receives(v)
  <2>1. TypeOK'
    BY <1>1, <1>2, <1>4, StoreAssumption DEF Receives, TypeOK, Undecided
  <2>2. StoredIsWanted' /\ HandlerKnows'
    BY <1>1, <1>4 DEF Undecided, Receives, StoredIsWanted, HandlerKnows, Unstored, TypeOK
  <2>3. ProcessKnows' /\ NotCommittedIsFinal' /\ ConfirmedIsStored'
    BY <1>1, <1>4
    DEF Undecided, Receives, ProcessKnows, Over, Unstored, NotCommittedIsFinal,
        ConfirmedIsStored, HandlerKnows, TypeOK
  <2> QED
    BY <2>1, <2>2, <2>3
<1>5. CASE GivesUp(v)
  <2>1. TypeOK'
    BY <1>1, <1>2, <1>5 DEF GivesUp, TypeOK, Undecided
  <2>2. StoredIsWanted' /\ HandlerKnows'
    BY <1>1, <1>5 DEF Undecided, GivesUp, StoredIsWanted, HandlerKnows, Unstored, TypeOK
  <2>3. ProcessKnows' /\ NotCommittedIsFinal' /\ ConfirmedIsStored'
    BY <1>1, <1>5
    DEF Undecided, GivesUp, ProcessKnows, Over, Unstored, NotCommittedIsFinal,
        ConfirmedIsStored, TypeOK
  <2> QED
    BY <2>1, <2>2, <2>3
<1>6. CASE LookupRow(v)
  <2>1. want[v].req \in Requests /\ handler[v] # "tx" /\ Over(v)
    BY <1>6, StoreAssumption DEF LookupRow, HandlerKnows, ProcessKnows, Over, TypeOK
  <2>2. status[want[v].req] = "WAITING_APPROVAL" => Unstored(v)
    BY <2>1 DEF StoredIsWanted, Unstored, TypeOK, Decisions
  <2>3. TypeOK'
    BY <1>1, <1>2, <1>6, <2>1 DEF LookupRow, TypeOK, StoreTypeOK, Undecided, handlerVars
  <2>4. StoredIsWanted' /\ HandlerKnows'
    BY <1>1, <1>6 DEF Undecided, LookupRow, handlerVars, StoredIsWanted, HandlerKnows,
       Unstored, TypeOK
  <2>5. ProcessKnows' /\ NotCommittedIsFinal' /\ ConfirmedIsStored'
    BY <1>1, <1>6, <2>1, <2>2
    DEF Undecided, LookupRow, handlerVars, ProcessKnows, Over, Unstored,
        NotCommittedIsFinal, ConfirmedIsStored, TypeOK
  <2> QED
    BY <2>3, <2>4, <2>5
<1>7. CASE LookupApproval(v)
  <2> DEFINE a == approval[want[v].req]
  <2>1. /\ want[v].req \in Requests /\ a.id \in Reviewers \cup {Nil}
        /\ a.decision \in Decisions \cup {"none"} /\ want[v].kind \in Decisions
    BY <1>7 DEF LookupApproval, HandlerKnows, TypeOK, StoreTypeOK, Approvals
  <2>2. PICK told :
          /\ cli' = [cli EXCEPT ![v] = told]
          /\ told \in {"accepted", "conflict", "pending", "undecided"}
          /\ told = "pending" => looked[v] = "WAITING_APPROVAL"
          /\ told = "accepted" => a.decision = want[v].kind /\ answer'[v] = a.id
          /\ told = "conflict" => a.decision \in Decisions \ {want[v].kind}
    BY <1>7, <2>1 DEF LookupApproval, Outcome, TypeOK, Decisions
  <2>3. /\ answer' \in [Reviewers -> Reviewers \cup {Nil}]
        /\ \A w \in Reviewers \ {v} : answer'[w] = answer[w]
    BY <1>7, <2>1 DEF LookupApproval, TypeOK
  <2>4. UNCHANGED <<want, looked, handler, resp, ctx>> /\ cli[v] = "record"
    BY <1>7 DEF LookupApproval, handlerVars
  <2>5. TypeOK'
    BY <1>1, <1>2, <2>2, <2>3, <2>4 DEF TypeOK, Undecided
  <2>6. StoredIsWanted' /\ HandlerKnows'
    BY <1>1, <2>2, <2>4 DEF Undecided, StoredIsWanted, HandlerKnows, Unstored, TypeOK
  <2>7. ProcessKnows' /\ NotCommittedIsFinal'
    BY <1>1, <2>2, <2>4 DEF Undecided, ProcessKnows, Over, Unstored, NotCommittedIsFinal,
       TypeOK
  <2>8. ConfirmedIsStored'
    BY <1>1, <2>2, <2>3, <2>4 DEF Undecided, ConfirmedIsStored, TypeOK
  <2> QED
    BY <2>5, <2>6, <2>7, <2>8
<1>8. CASE LookupFails(v)
  <2>1. TypeOK'
    BY <1>1, <1>2, <1>8 DEF LookupFails, TypeOK, Undecided, handlerVars
  <2>2. StoredIsWanted' /\ HandlerKnows'
    BY <1>1, <1>8 DEF Undecided, LookupFails, handlerVars, StoredIsWanted, HandlerKnows,
       Unstored, TypeOK
  <2>3. ProcessKnows' /\ NotCommittedIsFinal' /\ ConfirmedIsStored'
    BY <1>1, <1>8
    DEF Undecided, LookupFails, handlerVars, ProcessKnows, Over, Unstored,
        NotCommittedIsFinal, ConfirmedIsStored, TypeOK
  <2> QED
    BY <2>1, <2>2, <2>3
<1> QED
  BY <1>3, <1>4, <1>5, <1>6, <1>7, <1>8

\* Every step preserves the invariant.
LEMMA ReviewStep == ReviewInv /\ [Next]_vars => ReviewInv'
<1> SUFFICES ASSUME ReviewInv, [Next]_vars PROVE ReviewInv'
  OBVIOUS
<1>1. CASE UNCHANGED vars
  BY <1>1 DEF vars, storeVars, cliVars, handlerVars, boundVars, ReviewInv, TypeOK,
     StoreTypeOK, StoredIsWanted, HandlerKnows, ProcessKnows, Over, Unstored,
     NotCommittedIsFinal, ConfirmedIsStored
<1>2. CASE ExpireTick \/ \E r \in Requests : Withdrawn(r) \/ Overdue(r)
  <2>1. Undecided /\ UNCHANGED <<cliVars, handlerVars, boundVars>>
    BY <1>2, Bystanders DEF ExpireTick, Withdrawn, Overdue, ReviewInv, TypeOK
  <2> QED
    BY <2>1 DEF Undecided, cliVars, handlerVars, boundVars, ReviewInv, TypeOK,
       StoredIsWanted, HandlerKnows, ProcessKnows, Over, Unstored,
       NotCommittedIsFinal, ConfirmedIsStored
<1>3. CASE Restart
  <2>1. Undecided /\ UNCHANGED <<want, answer, looked, resp, ctx>>
    BY <1>3, Bystanders DEF Restart, ReviewInv, TypeOK
  <2>2. /\ cli' \in [Reviewers -> {"idle", "deciding", "reconcile", "record",
                          "accepted", "refused", "pending", "undecided", "conflict",
                          "uncertain"}]
        /\ \A v \in Reviewers :
              /\ cli'[v] = "idle" <=> cli[v] = "idle"
              /\ cli'[v] \in {"accepted", "conflict", "pending", "refused"} => cli'[v] = cli[v]
              /\ cli'[v] # "record"
    BY <1>3 DEF Restart, ReviewInv, TypeOK
  <2>3. conn' = Nil /\ handler' = [v \in Reviewers |-> "none"]
    BY <1>3 DEF Restart
  <2>4. TypeOK'
    BY <1>3, <2>1, <2>2, <2>3, StoreAssumption, ReviewAssumption
    DEF Restart, Undecided, ReviewInv, TypeOK, Reviewers
  <2> QED
    BY <2>1, <2>2, <2>3, <2>4 DEF Undecided, ReviewInv, StoredIsWanted, HandlerKnows,
       ProcessKnows, Over, Unstored, NotCommittedIsFinal, ConfirmedIsStored
<1> QED
  BY <1>1, <1>2, <1>3, HandlerStep, CommitStep, ProcessStep DEF Next, Handler

\* For every number of reviewers, requests, faults and restarts the invariant holds.
THEOREM ReviewCorrect == Spec => []ReviewInv
  BY ReviewInit, ReviewStep, PTL DEF Spec

\* A decision that the CLI reported as not committed, or as refused, is never stored:
\* the retry that decisionResponseFromRecord invites to cannot meet its own past.
THEOREM NotCommittedForEver == Spec => []NotCommittedIsFinal
<1>1. ReviewInv => NotCommittedIsFinal
  BY DEF ReviewInv
<1> QED
  BY <1>1, ReviewCorrect, PTL

\* A decision that the CLI reported is the stored one, under the stored approval ID.
THEOREM ConfirmedForEver == Spec => []ConfirmedIsStored
<1>1. ReviewInv => ConfirmedIsStored
  BY DEF ReviewInv
<1> QED
  BY <1>1, ReviewCorrect, PTL

-----------------------------------------------------------------------------
\* Every step of a review is a step of the open store, or leaves the tables alone.
LEMMA ReviewStoreStep ==
    ASSUME ReviewInv, handle = "open", [Next]_vars
    PROVE  [StoreNext]_storeVars /\ handle' = "open"
<1>1. CASE UNCHANGED storeVars
  BY <1>1 DEF storeVars
<1>2. CASE ExpireOutstanding
  BY <1>2 DEF StoreNext, Routine, ExpireOutstanding
<1>3. ASSUME NEW r \in Requests, TimePasses(r) PROVE [StoreNext]_storeVars /\ handle' = "open"
  BY <1>3 DEF StoreNext, Routine, Environment, TimePasses
<1>4. ASSUME NEW r \in Requests, Transition(r, "CANCELLED", "WAITING_APPROVAL")
      PROVE  [StoreNext]_storeVars /\ handle' = "open"
  <2>1. \E t \in TransitionCalls : Transition(r, t[1], t[2])
    <3>1. <<"CANCELLED", "WAITING_APPROVAL">> \in TransitionCalls
      BY DEF TransitionCalls
    <3> QED
      BY <1>4, <3>1
  <2> QED
    BY <1>4, <2>1 DEF StoreNext, Routine, Operation, Transition
<1>5. ASSUME NEW v \in Reviewers, handler[v] = "tx",
             AcceptApproval(want[v].req, want[v].kind, v, stored[want[v].req].hash)
      PROVE  [StoreNext]_storeVars /\ handle' = "open"
  <2>1. want[v].req \in Requests /\ want[v].kind \in Decisions /\ v \in ApprovalIds
    BY <1>5 DEF ReviewInv, HandlerKnows, TypeOK, Reviewers
  <2>2. stored[want[v].req].hash \in Versions
    BY <2>1 DEF ReviewInv, TypeOK, StoreTypeOK, Bodies
  <2>3. handle' = "open"
    BY <1>5 DEF AcceptApproval
  <2> QED
    BY <1>5, <2>1, <2>2, <2>3 DEF StoreNext, Routine, Operation
<1>6. CASE UNCHANGED vars
  BY <1>1, <1>6 DEF vars
<1>7. ASSUME NEW v \in Reviewers, Handler(v) PROVE [StoreNext]_storeVars /\ handle' = "open"
  BY <1>1, <1>2, <1>5, <1>7 DEF Handler, HandlerExpire, HandlerGet, HandlerBegin,
     HandlerCommit, HandlerExisting
<1>8. ASSUME NEW v \in Reviewers,
             \/ \E r \in Requests, k \in Decisions : Calls(v, r, k)
             \/ Receives(v) \/ GivesUp(v) \/ LookupRow(v) \/ LookupApproval(v)
             \/ LookupFails(v)
      PROVE  UNCHANGED storeVars
  BY <1>8 DEF Calls, Receives, GivesUp, LookupRow, LookupApproval, LookupFails
<1>9. CASE Restart
  BY <1>1, <1>9 DEF Restart
<1>10. ASSUME NEW r \in Requests, Withdrawn(r) \/ Overdue(r)
       PROVE  [StoreNext]_storeVars /\ handle' = "open"
  BY <1>3, <1>4, <1>10 DEF Withdrawn, Overdue
<1>11. CASE ExpireTick
  BY <1>2, <1>11 DEF ExpireTick
<1>12. CASE Next
  BY <1>1, <1>7, <1>8, <1>9, <1>10, <1>11, <1>12 DEF Next
<1> QED
  BY <1>6, <1>12

\* The reviewers, the open transactions and the lookups use the store as StoreNext
\* allows: what the transaction of decide does in several steps here is the one step
\* AcceptApproval of the store, as in Broker.
THEOREM ReviewObeysStore == Spec => [][StoreNext]_storeVars
<1> DEFINE Open == handle = "open"
<1>1. Init => Open
  BY DEF Init
<1>2. ReviewInv /\ Open /\ [Next]_vars => [StoreNext]_storeVars /\ Open'
  BY ReviewStoreStep
<1> HIDE DEF Open
<1> QED
  BY <1>1, <1>2, ReviewCorrect, PTL DEF Spec
===============================================================================
