------------------------------ MODULE Admission -------------------------------
(***************************************************************************)
(* The limits of internal/daemon/service.go: the rate and concurrency of   *)
(* submissions, the number of outstanding requests, and the watchers.      *)
(* Concurrent Submit handlers count the outstanding rows twice, once       *)
(* before they inspect files and once under submitMu before they create    *)
(* the row.  What a request goes through afterwards is in Broker: here a   *)
(* row is outstanding until it settles.                                    *)
(***************************************************************************)
EXTENDS Naturals, FiniteSets, Sums

CONSTANTS
    Uids,                      \* peers
    Handlers,                  \* Submit and Watch calls in progress
    Requests,                  \* requests that are watched
    Nobody,                    \* no holder of submitMu
    MaxSubmissionsPerMinute, MaxConcurrentPerUID, MaxConcurrentTotal,
    MaxPendingPerUID, MaxPendingTotal,
    MaxWatchersPerUID, MaxWatchersPerRequest,
    Minute,                    \* a minute, in ticks of the clock
    MaxClock,                  \* how long the clock runs
    MaxRestarts                \* how often the daemon restarts

\* The limits LoadDaemon accepts, without their upper bounds.
ValidLimits ==
    /\ {MaxSubmissionsPerMinute, MaxConcurrentPerUID, MaxPendingPerUID,
        MaxWatchersPerRequest} \subseteq Nat \ {0}
    /\ {MaxConcurrentTotal, MaxPendingTotal, MaxWatchersPerUID} \subseteq Nat
    /\ MaxPendingPerUID <= MaxPendingTotal
    /\ MaxConcurrentPerUID <= MaxConcurrentTotal
    /\ MaxWatchersPerRequest <= MaxWatchersPerUID

ASSUME AdmissionAssumption ==
    /\ Nobody \notin Handlers /\ IsFiniteSet(Handlers) /\ IsFiniteSet(Uids)
    /\ ValidLimits
    /\ Minute \in Nat \ {0} /\ {MaxClock, MaxRestarts} \subseteq Nat

VARIABLES
    clock,
    submissionTimes,     \* per UID: how many accepted submissions it has per tick
    submitting, submittingTotal,
    pc,                  \* program counters of the handlers
    uid,                 \* their peers
    watched,             \* what a Watch handler watches
    submitMu,            \* the handler that holds submitMu, or Nobody
    outstanding,         \* per UID: the rows OutstandingCounts counts
    watchersByUID, watchersByRequest,
    accepted,            \* submissions accepted since the start, per UID and tick
    restarts

limitVars == <<submissionTimes, submitting, submittingTotal, accepted>>
watcherVars == <<watchersByUID, watchersByRequest>>
vars == <<clock, limitVars, pc, uid, watched, submitMu, outstanding, watcherVars,
          restarts>>

Ticks == 0..MaxClock
NoTimes == [u \in Uids |-> [t \in Ticks |-> 0]]
Zero(S) == [x \in S |-> 0]

Init ==
    /\ submissionTimes = NoTimes /\ accepted = NoTimes
    /\ submitting = Zero(Uids) /\ submittingTotal = 0
    /\ watchersByUID = Zero(Uids) /\ watchersByRequest = Zero(Requests)
    /\ pc = [h \in Handlers |-> "idle"]
    /\ submitMu = Nobody
    /\ clock = 0
    /\ uid \in [Handlers -> Uids]
    /\ watched \in [Handlers -> Requests]
    /\ outstanding = Zero(Uids)
    /\ restarts = 0

Goto(h, where) == pc' = [pc EXCEPT ![h] = where]

-----------------------------------------------------------------------------
(* Submit.                                                                  *)

\* The submissions of the last minute, the others forgotten.
Recent(u) == [t \in Ticks |-> IF t + Minute > clock THEN submissionTimes[u][t] ELSE 0]

\* Mutant: the rate is compared off by one.
AdmissibleOneMore(u) ==
    /\ Total(Recent(u)) <= MaxSubmissionsPerMinute
    /\ submitting[u] < MaxConcurrentPerUID /\ submittingTotal < MaxConcurrentTotal

\* Mutant: the concurrency of a UID is not limited.
AdmissibleTogether(u) ==
    Total(Recent(u)) < MaxSubmissionsPerMinute /\ submittingTotal < MaxConcurrentTotal

Admissible(u) ==
    /\ Total(Recent(u)) < MaxSubmissionsPerMinute
    /\ submitting[u] < MaxConcurrentPerUID /\ submittingTotal < MaxConcurrentTotal

acquireSubmission(h) ==
    /\ pc[h] = "idle"
    /\ LET u == uid[h]
       IN  \/ /\ Admissible(u)
              /\ submissionTimes' =
                    [submissionTimes EXCEPT ![u] = [Recent(u) EXCEPT ![clock] = @ + 1]]
              /\ submitting' = [submitting EXCEPT ![u] = @ + 1]
              /\ submittingTotal' = submittingTotal + 1
              /\ accepted' = [accepted EXCEPT ![u][clock] = @ + 1]
              /\ Goto(h, "count")
           \/ /\ ~Admissible(u)
              /\ submissionTimes' = [submissionTimes EXCEPT ![u] = Recent(u)]
              /\ UNCHANGED <<submitting, submittingTotal, accepted, pc>>
    /\ UNCHANGED <<clock, uid, watched, submitMu, outstanding, watcherVars, restarts>>

HasPlace(u) ==
    outstanding[u] < MaxPendingPerUID /\ Total(outstanding) < MaxPendingTotal

\* The first count, for which submitMu is taken and given back.  A handler that
\* finds a place goes on to inspect the files and to evaluate the policy, which
\* may end it.
SubmitCount(h) ==
    /\ pc[h] = "count" /\ submitMu = Nobody
    /\ \/ HasPlace(uid[h]) /\ Goto(h, "inspected")
       \/ Goto(h, "release")
    /\ UNCHANGED <<clock, limitVars, uid, watched, submitMu, outstanding, watcherVars,
                   restarts>>

SubmitLock(h) ==
    /\ pc[h] = "inspected" /\ submitMu = Nobody
    /\ submitMu' = h
    /\ Goto(h, "recount")
    /\ UNCHANGED <<clock, limitVars, uid, watched, outstanding, watcherVars, restarts>>

\* Mutant: the first count is trusted.
SubmitRecountTrusting(h) ==
    /\ pc[h] = "recount"
    /\ Goto(h, "create")
    /\ UNCHANGED <<clock, limitVars, uid, watched, submitMu, outstanding, watcherVars,
                   restarts>>

\* Mutant: the handler that finds no place returns with submitMu held.
SubmitRecountHolding(h) ==
    /\ pc[h] = "recount"
    /\ Goto(h, IF HasPlace(uid[h]) THEN "create" ELSE "release")
    /\ UNCHANGED <<clock, limitVars, uid, watched, submitMu, outstanding, watcherVars,
                   restarts>>

SubmitRecount(h) ==
    /\ pc[h] = "recount"
    /\ Goto(h, IF HasPlace(uid[h]) THEN "create" ELSE "unlock")
    /\ UNCHANGED <<clock, limitVars, uid, watched, submitMu, outstanding, watcherVars,
                   restarts>>

\* The row is outstanding from its creation, whether or not the transition that
\* follows succeeds; the policy may reject it, and the storage may be full.
SubmitCreate(h) ==
    /\ pc[h] = "create"
    /\ \/ outstanding' = [outstanding EXCEPT ![uid[h]] = @ + 1]
       \/ UNCHANGED outstanding
    /\ Goto(h, "unlock")
    /\ UNCHANGED <<clock, limitVars, uid, watched, submitMu, watcherVars, restarts>>

\* The deferred calls, the last one first.
SubmitUnlock(h) ==
    /\ pc[h] = "unlock"
    /\ submitMu' = Nobody
    /\ Goto(h, "release")
    /\ UNCHANGED <<clock, limitVars, uid, watched, outstanding, watcherVars, restarts>>

releaseSubmission(h) ==
    /\ pc[h] = "release"
    /\ submitting' = [submitting EXCEPT ![uid[h]] = @ - 1]
    /\ submittingTotal' = submittingTotal - 1
    /\ Goto(h, "idle")
    /\ UNCHANGED <<clock, submissionTimes, accepted, uid, watched, submitMu,
                   outstanding, watcherVars, restarts>>

Submit(h) ==
    \/ SubmitCount(h) \/ SubmitLock(h) \/ SubmitRecount(h) \/ SubmitCreate(h)
    \/ SubmitUnlock(h) \/ releaseSubmission(h)

-----------------------------------------------------------------------------
(* Watch.                                                                   *)

\* Mutant: a handler is counted for its peer only.
acquireWatcherOfUID(h) ==
    /\ pc[h] = "idle"
    /\ watchersByUID[uid[h]] < MaxWatchersPerUID
    /\ watchersByUID' = [watchersByUID EXCEPT ![uid[h]] = @ + 1]
    /\ Goto(h, "watching")
    /\ UNCHANGED <<clock, limitVars, uid, watched, submitMu, outstanding,
                   watchersByRequest, restarts>>

\* A handler that finds no place ends at once.
acquireWatcher(h) ==
    /\ pc[h] = "idle"
    /\ watchersByUID[uid[h]] < MaxWatchersPerUID
    /\ watchersByRequest[watched[h]] < MaxWatchersPerRequest
    /\ watchersByUID' = [watchersByUID EXCEPT ![uid[h]] = @ + 1]
    /\ watchersByRequest' = [watchersByRequest EXCEPT ![watched[h]] = @ + 1]
    /\ Goto(h, "watching")
    /\ UNCHANGED <<clock, limitVars, uid, watched, submitMu, outstanding, restarts>>

releaseWatcher(h) ==
    /\ pc[h] = "watching"
    /\ watchersByUID' = [watchersByUID EXCEPT ![uid[h]] = @ - 1]
    /\ watchersByRequest' = [watchersByRequest EXCEPT ![watched[h]] = @ - 1]
    /\ Goto(h, "idle")
    /\ UNCHANGED <<clock, limitVars, uid, watched, submitMu, outstanding, restarts>>

-----------------------------------------------------------------------------
(* Requests settle, time passes, and the daemon restarts with its rows and  *)
(* without its counters.                                                    *)

Settle(u) ==
    /\ outstanding[u] > 0
    /\ outstanding' = [outstanding EXCEPT ![u] = @ - 1]
    /\ UNCHANGED <<clock, limitVars, pc, uid, watched, submitMu, watcherVars, restarts>>

Tick ==
    /\ clock < MaxClock
    /\ clock' = clock + 1
    /\ UNCHANGED <<limitVars, pc, uid, watched, submitMu, outstanding, watcherVars,
                   restarts>>

Restart ==
    /\ restarts < MaxRestarts /\ restarts' = restarts + 1
    /\ submissionTimes' = NoTimes /\ accepted' = NoTimes
    /\ submitting' = Zero(Uids) /\ submittingTotal' = 0
    /\ watchersByUID' = Zero(Uids) /\ watchersByRequest' = Zero(Requests)
    /\ pc' = [h \in Handlers |-> "idle"]
    /\ submitMu' = Nobody
    /\ UNCHANGED <<clock, uid, watched, outstanding>>

Next ==
    \/ \E h \in Handlers : acquireSubmission(h) \/ Submit(h)
    \/ \E h \in Handlers : acquireWatcher(h) \/ releaseWatcher(h)
    \/ \E u \in Uids : Settle(u)
    \/ Tick
    \/ Restart

Spec == Init /\ [][Next]_vars

-----------------------------------------------------------------------------
(* Properties.                                                              *)

\* Every variable holds a value of its type; no counter falls below zero.
TypeOK ==
    /\ clock \in Ticks
    /\ submissionTimes \in [Uids -> [Ticks -> Nat]]
    /\ submitting \in [Uids -> Nat] /\ submittingTotal \in Nat
    /\ pc \in [Handlers -> {"idle", "count", "inspected", "recount", "create",
                            "unlock", "release", "watching"}]
    /\ uid \in [Handlers -> Uids] /\ watched \in [Handlers -> Requests]
    /\ submitMu \in Handlers \cup {Nobody}
    /\ outstanding \in [Uids -> Nat]
    /\ watchersByUID \in [Uids -> Nat] /\ watchersByRequest \in [Requests -> Nat]
    /\ accepted \in [Uids -> [Ticks -> Nat]]
    /\ restarts \in 0..MaxRestarts

\* However submissions interleave and however long they inspect files between
\* the two counts, no UID and not all together have more outstanding requests
\* than configured, restarts included.
PendingBounded ==
    /\ \A u \in Uids : outstanding[u] <= MaxPendingPerUID
    /\ Total(outstanding) <= MaxPendingTotal

Submitters == {h \in Handlers : pc[h] \notin {"idle", "watching"}}
Watchers == {h \in Handlers : pc[h] = "watching"}

\* The counters are what they count, on every path out of a handler: a place is
\* given back exactly once, and so no UID, no request and not all together ever have
\* more submissions or watchers in progress than configured, nor are their places
\* used up by handlers that have ended.
CountersAgree ==
    /\ \A u \in Uids :
          /\ submitting[u] = Cardinality({h \in Submitters : uid[h] = u})
          /\ watchersByUID[u] = Cardinality({h \in Watchers : uid[h] = u})
          /\ submitting[u] <= MaxConcurrentPerUID /\ watchersByUID[u] <= MaxWatchersPerUID
    /\ submittingTotal = Cardinality(Submitters) /\ submittingTotal <= MaxConcurrentTotal
    /\ \A r \in Requests :
          /\ watchersByRequest[r] = Cardinality({h \in Watchers : watched[h] = r})
          /\ watchersByRequest[r] <= MaxWatchersPerRequest

\* In no minute since the daemon started were more submissions of a UID accepted
\* than configured, although the handler forgets what is a minute old.
RateBounded ==
    \A u \in Uids, t \in Ticks :
        Total([i \in Ticks |-> IF i <= t /\ t < i + Minute THEN accepted[u][i] ELSE 0])
            <= MaxSubmissionsPerMinute

\* submitMu is held exactly while a handler is between the second lock and its
\* deferred unlock: two handlers are never there together, and no return path of
\* Submit, a restart included, leaves the lock behind, which would block every
\* later submission for ever.
SubmitMuHeldOnPurpose ==
    \A h \in Handlers : submitMu = h <=> pc[h] \in {"recount", "create", "unlock"}
===============================================================================
