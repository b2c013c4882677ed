--------------------------- MODULE Admission_proofs ---------------------------
(***************************************************************************)
(* The limits of Admission hold for any number of peers and handlers, any  *)
(* limits that LoadDaemon accepts and any length of a minute.              *)
(***************************************************************************)
EXTENDS Admission, Sums_proofs

-----------------------------------------------------------------------------
(* The inductive invariant.                                                 *)

\* How many elements of S the function f maps to v.
Count(S, f, v) == Cardinality({x \in S : f[x] = v})

\* The counters are the numbers of the handlers they count, those of the watchers
\* of a request included, and keep within their limits.
Counted ==
    /\ \A u \in Uids : /\ submitting[u] = Count(Submitters, uid, u)
                       /\ watchersByUID[u] = Count(Watchers, uid, u)
                       /\ submitting[u] <= MaxConcurrentPerUID
                       /\ watchersByUID[u] <= MaxWatchersPerUID
    /\ submittingTotal = Cardinality(Submitters)
    /\ submittingTotal <= MaxConcurrentTotal
    /\ \A r \in Requests :
          /\ watchersByRequest[r] = Count(Watchers, watched, r)
          /\ watchersByRequest[r] <= MaxWatchersPerRequest

\* The place that the second count found is still there when the row is created.
PlaceKept == \A h \in Handlers : pc[h] = "create" => HasPlace(uid[h])

\* submissionTimes has all that was accepted in the last minute, and nothing was
\* accepted in the future.
Remembered ==
    \A u \in Uids, t \in Ticks :
        /\ t + Minute > clock => submissionTimes[u][t] = accepted[u][t]
        /\ t > clock => accepted[u][t] = 0

\* The inductive invariant.
AdmissionInv ==
    /\ TypeOK
    /\ SubmitMuHeldOnPurpose
    /\ Counted
    /\ PendingBounded /\ PlaceKept
    /\ Remembered /\ RateBounded

-----------------------------------------------------------------------------
(* What an action does to the handlers.                                     *)

\* The number grows by one with an element that counts.
LEMMA CountWith ==
    ASSUME NEW S, IsFiniteSet(S), NEW h, h \notin S, NEW f, NEW v
    PROVE  /\ Count(S, f, v) \in Nat
           /\ f[h] = v => Count(S \cup {h}, f, v) = Count(S, f, v) + 1
           /\ f[h] # v => Count(S \cup {h}, f, v) = Count(S, f, v)
<1> DEFINE before == {x \in S : f[x] = v}
           after == {x \in S \cup {h} : f[x] = v}
<1>1. IsFiniteSet(before) /\ h \notin before
  BY FS_Subset
<1>2. Cardinality(before) \in Nat
  BY <1>1, FS_CardinalityType
<1>3. f[h] = v => after = before \cup {h}
  OBVIOUS
<1>4. f[h] # v => after = before
  OBVIOUS
<1> HIDE DEF before, after
<1>5. Cardinality(before \cup {h}) = Cardinality(before) + 1
  BY <1>1, FS_AddElement
<1>6. /\ Cardinality(before) \in Nat
      /\ f[h] = v => Cardinality(after) = Cardinality(before) + 1
      /\ f[h] # v => Cardinality(after) = Cardinality(before)
  BY <1>2, <1>3, <1>4, <1>5
<1> QED
  BY <1>6 DEF before, after, Count

\* The handlers in progress are finitely many.
LEMMA HandlersFinite ==
    /\ IsFiniteSet(Submitters) /\ IsFiniteSet(Watchers)
    /\ Cardinality(Submitters) \in Nat
<1>1. Submitters \in SUBSET Handlers /\ Watchers \in SUBSET Handlers
  BY DEF Submitters, Watchers
<1>2. IsFiniteSet(Submitters) /\ IsFiniteSet(Watchers)
  BY <1>1, AdmissionAssumption, FS_Subset
<1> QED
  BY <1>2, FS_CardinalityType

\* A handler that joins or leaves the submitters or the watchers; one that moves on
\* within them.
LEMMA HandlerMoves ==
    ASSUME TypeOK, NEW h \in Handlers, NEW where, Goto(h, where),
           where \in {"idle", "count", "inspected", "recount", "create", "unlock",
                      "release", "watching"}
    PROVE  /\ Submitters' = IF where \in {"idle", "watching"} THEN Submitters \ {h}
                            ELSE Submitters \cup {h}
           /\ Watchers' = IF where = "watching" THEN Watchers \cup {h}
                          ELSE Watchers \ {h}
           /\ h \in Submitters <=> pc[h] \notin {"idle", "watching"}
           /\ h \in Watchers <=> pc[h] = "watching"
<1>1. pc \in [Handlers -> {"idle", "count", "inspected", "recount", "create", "unlock",
                           "release", "watching"}]
  BY DEF TypeOK
<1>2. pc' = [pc EXCEPT ![h] = where]
  BY DEF Goto
<1>3. Submitters' = {x \in Handlers : pc'[x] \notin {"idle", "watching"}}
  BY DEF Submitters
<1>4. Watchers' = {x \in Handlers : pc'[x] = "watching"}
  BY DEF Watchers
<1> QED
  BY <1>1, <1>2, <1>3, <1>4 DEF Submitters, Watchers

-----------------------------------------------------------------------------
(* submitMu.                                                                *)

\* Only the handler that takes submitMu is between the second lock and the unlock.
LEMMA MuStep ==
    ASSUME TypeOK, SubmitMuHeldOnPurpose, [Next]_vars
    PROVE  SubmitMuHeldOnPurpose'
<1> USE AdmissionAssumption DEF SubmitMuHeldOnPurpose, TypeOK, Goto
<1>1. CASE UNCHANGED <<pc, submitMu>>
  BY <1>1
<1>2. ASSUME NEW h \in Handlers, acquireSubmission(h) PROVE SubmitMuHeldOnPurpose'
  BY <1>2 DEF acquireSubmission
<1>3. ASSUME NEW h \in Handlers, Submit(h) PROVE SubmitMuHeldOnPurpose'
  <2>1. CASE SubmitCount(h)
    BY <2>1 DEF SubmitCount
  <2>2. CASE SubmitLock(h)
    BY <2>2 DEF SubmitLock
  <2>3. CASE SubmitRecount(h)
    BY <2>3 DEF SubmitRecount
  <2>4. CASE SubmitCreate(h)
    BY <2>4 DEF SubmitCreate
  <2>5. CASE SubmitUnlock(h)
    BY <2>5 DEF SubmitUnlock
  <2>6. CASE releaseSubmission(h)
    BY <2>6 DEF releaseSubmission
  <2> QED
    BY <1>3, <2>1, <2>2, <2>3, <2>4, <2>5, <2>6 DEF Submit
<1>4. ASSUME NEW h \in Handlers, acquireWatcher(h) \/ releaseWatcher(h)
      PROVE  SubmitMuHeldOnPurpose'
  BY <1>4 DEF acquireWatcher, releaseWatcher
<1>5. CASE Restart
  BY <1>5 DEF Restart
<1> QED
  BY <1>1, <1>2, <1>3, <1>4, <1>5 DEF Next, Settle, Tick, vars

-----------------------------------------------------------------------------
(* The counters.                                                            *)

counters == <<submitting, submittingTotal, watchersByUID, watchersByRequest>>

\* A step that changes no counter and moves no handler in or out keeps the count.
LEMMA CountedSame ==
    ASSUME Counted, UNCHANGED <<counters, uid, watched>>,
           Submitters' = Submitters, Watchers' = Watchers
    PROVE  Counted'
BY DEF Counted, counters

\* A submission takes its place.
LEMMA CountedAcquire ==
    ASSUME TypeOK, Counted, NEW h \in Handlers, pc[h] = "idle", Goto(h, "count"),
           Admissible(uid[h]),
           submitting' = [submitting EXCEPT ![uid[h]] = @ + 1],
           submittingTotal' = submittingTotal + 1,
           UNCHANGED <<uid, watched, watcherVars>>
    PROVE  Counted'
<1>1. /\ uid[h] \in Uids /\ submitting \in [Uids -> Nat] /\ submittingTotal \in Nat
      /\ {MaxConcurrentPerUID, MaxConcurrentTotal} \subseteq Nat
  BY AdmissionAssumption DEF TypeOK, ValidLimits
<1>2. Submitters' = Submitters \cup {h} /\ Watchers' = Watchers /\ h \notin Submitters
  BY HandlerMoves
<1>3. Cardinality(Submitters') = Cardinality(Submitters) + 1
  BY <1>2, HandlersFinite, FS_AddElement
<1>4. \A u \in Uids : /\ submitting'[u] = Count(Submitters', uid', u)
                      /\ submitting'[u] <= MaxConcurrentPerUID
  <2> SUFFICES ASSUME NEW u \in Uids
               PROVE  /\ submitting'[u] = Count(Submitters \cup {h}, uid, u)
                      /\ submitting'[u] <= MaxConcurrentPerUID
    BY <1>2
  <2>1. submitting[u] = Count(Submitters, uid, u) /\ submitting[u] <= MaxConcurrentPerUID
    BY DEF Counted
  <2>2. submitting'[u] = IF u = uid[h] THEN submitting[u] + 1 ELSE submitting[u]
    BY <1>1
  <2>3. /\ u = uid[h] => Count(Submitters \cup {h}, uid, u) = Count(Submitters, uid, u) + 1
        /\ u # uid[h] => Count(Submitters \cup {h}, uid, u) = Count(Submitters, uid, u)
    BY <1>2, HandlersFinite, CountWith
  <2>4. submitting'[u] <= MaxConcurrentPerUID
    BY <1>1, <2>1, <2>2 DEF Admissible
  <2> QED
    BY <2>1, <2>2, <2>3, <2>4
<1>5. submittingTotal' <= MaxConcurrentTotal
  BY <1>1 DEF Admissible
<1> QED
  BY <1>2, <1>3, <1>4, <1>5 DEF Counted, watcherVars

\* A submission gives its place back; the counters do not fall below zero.
LEMMA CountedRelease ==
    ASSUME TypeOK, Counted, NEW h \in Handlers, releaseSubmission(h)
    PROVE  /\ Counted'
           /\ submitting' \in [Uids -> Nat] /\ submittingTotal' \in Nat
<1>1. /\ uid[h] \in Uids /\ submitting \in [Uids -> Nat] /\ submittingTotal \in Nat
      /\ {MaxConcurrentPerUID, MaxConcurrentTotal} \subseteq Nat
  BY AdmissionAssumption DEF TypeOK, ValidLimits
<1>2. /\ submitting' = [submitting EXCEPT ![uid[h]] = @ - 1]
      /\ submittingTotal' = submittingTotal - 1
      /\ UNCHANGED <<uid, watched, watcherVars>>
      /\ pc[h] = "release" /\ Goto(h, "idle")
  BY DEF releaseSubmission
<1>3. Submitters' = Submitters \ {h} /\ Watchers' = Watchers /\ h \in Submitters
  BY <1>2, HandlerMoves
<1> DEFINE S == Submitters \ {h}
<1>4. Submitters = S \cup {h} /\ h \notin S /\ IsFiniteSet(S)
  BY <1>3, HandlersFinite, FS_RemoveElement
<1>5. Cardinality(S) \in Nat /\ Cardinality(Submitters) = Cardinality(S) + 1
  BY <1>3, HandlersFinite, OneLess
<1>6. ASSUME NEW u \in Uids
      PROVE  /\ submitting'[u] \in Nat
             /\ submitting'[u] = Count(S, uid, u)
             /\ submitting'[u] <= MaxConcurrentPerUID
  <2>1. submitting[u] = Count(Submitters, uid, u) /\ submitting[u] <= MaxConcurrentPerUID
    BY DEF Counted
  <2> HIDE DEF S
  <2>2. submitting[u] = Count(S \cup {h}, uid, u)
    BY <1>4, <2>1
  <2>3. submitting'[u] = IF u = uid[h] THEN submitting[u] - 1 ELSE submitting[u]
    BY <1>1, <1>2
  <2>4. /\ Count(S, uid, u) \in Nat
        /\ u = uid[h] => submitting[u] = Count(S, uid, u) + 1
        /\ u # uid[h] => submitting[u] = Count(S, uid, u)
    BY <1>4, <2>2, CountWith
  <2> QED
    BY <1>1, <2>1, <2>3, <2>4
<1>7. submitting' \in [Uids -> Nat]
  BY <1>1, <1>2, <1>6
<1>8. submittingTotal' = Cardinality(S) /\ submittingTotal' <= MaxConcurrentTotal
  BY <1>1, <1>2, <1>5 DEF Counted
<1>9. Counted'
  BY <1>2, <1>3, <1>6, <1>8 DEF Counted, watcherVars
<1> QED
  BY <1>5, <1>7, <1>8, <1>9

\* A watcher takes its place.
LEMMA CountedAcquireWatcher ==
    ASSUME TypeOK, Counted, NEW h \in Handlers, acquireWatcher(h)
    PROVE  Counted'
<1>1. /\ uid[h] \in Uids /\ watched[h] \in Requests
      /\ watchersByUID \in [Uids -> Nat] /\ watchersByRequest \in [Requests -> Nat]
      /\ {MaxWatchersPerUID, MaxWatchersPerRequest} \subseteq Nat
  BY AdmissionAssumption DEF TypeOK, ValidLimits
<1>2. /\ watchersByUID' = [watchersByUID EXCEPT ![uid[h]] = @ + 1]
      /\ watchersByRequest' = [watchersByRequest EXCEPT ![watched[h]] = @ + 1]
      /\ watchersByUID[uid[h]] < MaxWatchersPerUID
      /\ watchersByRequest[watched[h]] < MaxWatchersPerRequest
      /\ UNCHANGED <<uid, watched, submitting, submittingTotal>>
      /\ pc[h] = "idle" /\ Goto(h, "watching")
  BY DEF acquireWatcher, limitVars
<1>3. Submitters' = Submitters /\ Watchers' = Watchers \cup {h} /\ h \notin Watchers
  BY <1>2, HandlerMoves
<1>4. \A u \in Uids : /\ watchersByUID'[u] = Count(Watchers', uid', u)
                      /\ watchersByUID'[u] <= MaxWatchersPerUID
  <2> SUFFICES ASSUME NEW u \in Uids
               PROVE  /\ watchersByUID'[u] = Count(Watchers \cup {h}, uid, u)
                      /\ watchersByUID'[u] <= MaxWatchersPerUID
    BY <1>2, <1>3
  <2>1. watchersByUID[u] = Count(Watchers, uid, u) /\ watchersByUID[u] <= MaxWatchersPerUID
    BY DEF Counted
  <2>2. watchersByUID'[u] = IF u = uid[h] THEN watchersByUID[u] + 1 ELSE watchersByUID[u]
    BY <1>1, <1>2
  <2>3. watchersByUID'[u] <= MaxWatchersPerUID
    BY <1>1, <1>2, <2>1, <2>2
  <2> QED
    BY <1>3, <2>1, <2>2, <2>3, HandlersFinite, CountWith
<1>5. \A r \in Requests :
          /\ watchersByRequest'[r] = Count(Watchers', watched', r)
          /\ watchersByRequest'[r] <= MaxWatchersPerRequest
  <2> SUFFICES ASSUME NEW r \in Requests
               PROVE  /\ watchersByRequest'[r] =
                             Count(Watchers \cup {h}, watched, r)
                      /\ watchersByRequest'[r] <= MaxWatchersPerRequest
    BY <1>2, <1>3
  <2>1. /\ watchersByRequest[r] = Count(Watchers, watched, r)
        /\ watchersByRequest[r] <= MaxWatchersPerRequest
    BY DEF Counted
  <2>2. watchersByRequest'[r] =
            IF r = watched[h] THEN watchersByRequest[r] + 1 ELSE watchersByRequest[r]
    BY <1>1, <1>2
  <2>3. watchersByRequest'[r] <= MaxWatchersPerRequest
    BY <1>1, <1>2, <2>1, <2>2
  <2> QED
    BY <1>3, <2>1, <2>2, <2>3, HandlersFinite, CountWith
<1> QED
  BY <1>2, <1>3, <1>4, <1>5 DEF Counted

\* A watcher gives its place back; the counters do not fall below zero.
LEMMA CountedReleaseWatcher ==
    ASSUME TypeOK, Counted, NEW h \in Handlers, releaseWatcher(h)
    PROVE  /\ Counted'
           /\ watchersByUID' \in [Uids -> Nat] /\ watchersByRequest' \in [Requests -> Nat]
<1>1. /\ uid[h] \in Uids /\ watched[h] \in Requests
      /\ watchersByUID \in [Uids -> Nat] /\ watchersByRequest \in [Requests -> Nat]
      /\ {MaxWatchersPerUID, MaxWatchersPerRequest} \subseteq Nat
  BY AdmissionAssumption DEF TypeOK, ValidLimits
<1>2. /\ watchersByUID' = [watchersByUID EXCEPT ![uid[h]] = @ - 1]
      /\ watchersByRequest' = [watchersByRequest EXCEPT ![watched[h]] = @ - 1]
      /\ UNCHANGED <<uid, watched, submitting, submittingTotal>>
      /\ pc[h] = "watching" /\ Goto(h, "idle")
  BY DEF releaseWatcher, limitVars
<1>3. Submitters' = Submitters /\ Watchers' = Watchers \ {h} /\ h \in Watchers
  BY <1>2, HandlerMoves
<1> DEFINE S == Watchers \ {h}
<1>4. Watchers = S \cup {h} /\ h \notin S /\ IsFiniteSet(S)
  BY <1>3, HandlersFinite, FS_RemoveElement
<1>5. ASSUME NEW u \in Uids
      PROVE  /\ watchersByUID'[u] \in Nat
             /\ watchersByUID'[u] = Count(S, uid, u)
             /\ watchersByUID'[u] <= MaxWatchersPerUID
  <2>1. watchersByUID[u] = Count(Watchers, uid, u) /\ watchersByUID[u] <= MaxWatchersPerUID
    BY DEF Counted
  <2> HIDE DEF S
  <2>2. watchersByUID[u] = Count(S \cup {h}, uid, u)
    BY <1>4, <2>1
  <2>3. watchersByUID'[u] = IF u = uid[h] THEN watchersByUID[u] - 1 ELSE watchersByUID[u]
    BY <1>1, <1>2
  <2>4. /\ Count(S, uid, u) \in Nat
        /\ u = uid[h] => watchersByUID[u] = Count(S, uid, u) + 1
        /\ u # uid[h] => watchersByUID[u] = Count(S, uid, u)
    BY <1>4, <2>2, CountWith
  <2> QED
    BY <1>1, <2>1, <2>3, <2>4
<1>6. ASSUME NEW r \in Requests
      PROVE  /\ watchersByRequest'[r] \in Nat
             /\ watchersByRequest'[r] = Count(S, watched, r)
             /\ watchersByRequest'[r] <= MaxWatchersPerRequest
  <2>1. /\ watchersByRequest[r] = Count(Watchers, watched, r)
        /\ watchersByRequest[r] <= MaxWatchersPerRequest
    BY DEF Counted
  <2> HIDE DEF S
  <2>2. watchersByRequest[r] = Count(S \cup {h}, watched, r)
    BY <1>4, <2>1
  <2>3. watchersByRequest'[r] =
            IF r = watched[h] THEN watchersByRequest[r] - 1 ELSE watchersByRequest[r]
    BY <1>1, <1>2
  <2>4. /\ Count(S, watched, r) \in Nat
        /\ r = watched[h] => watchersByRequest[r] = Count(S, watched, r) + 1
        /\ r # watched[h] => watchersByRequest[r] = Count(S, watched, r)
    BY <1>4, <2>2, CountWith
  <2> QED
    BY <1>1, <2>1, <2>3, <2>4
<1>7. watchersByUID' \in [Uids -> Nat] /\ watchersByRequest' \in [Requests -> Nat]
  BY <1>1, <1>2, <1>5, <1>6
<1>8. Counted'
  BY <1>2, <1>3, <1>5, <1>6 DEF Counted
<1> QED
  BY <1>7, <1>8

\* No counter counts anything after a start.
LEMMA CountedNone ==
    ASSUME submitting = Zero(Uids), submittingTotal = 0, watchersByUID = Zero(Uids),
           watchersByRequest = Zero(Requests), pc = [h \in Handlers |-> "idle"]
    PROVE  Counted
<1>1. Submitters = {} /\ Watchers = {}
  BY DEF Submitters, Watchers
<1>2. Cardinality({}) = 0
  BY FS_EmptySet
<1>3. /\ 0 <= MaxConcurrentTotal /\ 0 <= MaxWatchersPerRequest
      /\ 0 <= MaxConcurrentPerUID /\ 0 <= MaxWatchersPerUID
  BY AdmissionAssumption DEF ValidLimits
<1>4. \A u : {h \in {} : uid[h] = u} = {} /\ {h \in {} : watched[h] = u} = {}
  OBVIOUS
<1> QED
  BY <1>1, <1>2, <1>3, <1>4 DEF Counted, Count, Zero

\* Every step keeps the counters and the types: a counter falls only when what it
\* counts is there.
LEMMA CountedStep ==
    ASSUME TypeOK, Counted, [Next]_vars
    PROVE  Counted' /\ TypeOK'
<1> DEFINE Places == {"idle", "count", "inspected", "recount", "create", "unlock",
                      "release", "watching"}
<1>1. ASSUME NEW h \in Handlers, acquireSubmission(h) PROVE Counted' /\ TypeOK'
  <2> DEFINE u == uid[h]
  <2>1. /\ u \in Uids /\ clock \in Ticks /\ submissionTimes \in [Uids -> [Ticks -> Nat]]
        /\ Recent(u) \in [Ticks -> Nat]
    BY DEF TypeOK, Recent
  <2>2. CASE Admissible(u)
    <3>1. /\ submissionTimes' =
                [submissionTimes EXCEPT ![u] = [Recent(u) EXCEPT ![clock] = @ + 1]]
          /\ submitting' = [submitting EXCEPT ![u] = @ + 1]
          /\ submittingTotal' = submittingTotal + 1
          /\ accepted' = [accepted EXCEPT ![u][clock] = @ + 1]
          /\ pc[h] = "idle" /\ Goto(h, "count")
          /\ UNCHANGED <<clock, uid, watched, submitMu, outstanding, watcherVars, restarts>>
      BY <1>1, <2>2 DEF acquireSubmission
    <3>2. Counted'
      BY <2>2, <3>1, CountedAcquire
    <3>3. submissionTimes' \in [Uids -> [Ticks -> Nat]]
      <4>1. [Recent(u) EXCEPT ![clock] = @ + 1] \in [Ticks -> Nat]
        BY <2>1
      <4> QED
        BY <2>1, <3>1, <4>1
    <3>4. accepted' \in [Uids -> [Ticks -> Nat]]
      BY <2>1, <3>1 DEF TypeOK
    <3>5. submitting' \in [Uids -> Nat] /\ submittingTotal' \in Nat
      BY <2>1, <3>1 DEF TypeOK
    <3>6. pc' \in [Handlers -> Places]
      BY <3>1 DEF TypeOK, Goto
    <3> QED
      BY <3>1, <3>2, <3>3, <3>4, <3>5, <3>6 DEF TypeOK, watcherVars
  <2>3. CASE ~Admissible(u)
    <3>1. /\ submissionTimes' = [submissionTimes EXCEPT ![u] = Recent(u)]
          /\ UNCHANGED <<submitting, submittingTotal, accepted, pc>>
          /\ UNCHANGED <<clock, uid, watched, submitMu, outstanding, watcherVars, restarts>>
      BY <1>1, <2>3 DEF acquireSubmission
    <3>2. Submitters' = Submitters /\ Watchers' = Watchers
      BY <3>1 DEF Submitters, Watchers
    <3>3. Counted'
      BY <3>1, <3>2, CountedSame DEF counters, watcherVars
    <3>4. submissionTimes' \in [Uids -> [Ticks -> Nat]]
      BY <2>1, <3>1
    <3> QED
      BY <3>1, <3>3, <3>4 DEF TypeOK, watcherVars
  <2> QED
    BY <2>2, <2>3
<1>2. ASSUME NEW h \in Handlers, NEW where \in Places \ {"idle", "watching"},
             pc[h] \notin {"idle", "watching"}, Goto(h, where),
             UNCHANGED <<clock, limitVars, uid, watched, watcherVars, restarts>>,
             submitMu' \in Handlers \cup {Nobody}, outstanding' \in [Uids -> Nat]
      PROVE  Counted' /\ TypeOK'
  <2>1. Submitters' = Submitters /\ Watchers' = Watchers
    BY <1>2, HandlerMoves
  <2>2. Counted'
    BY <1>2, <2>1, CountedSame DEF counters, limitVars, watcherVars
  <2> QED
    BY <1>2, <2>2 DEF TypeOK, Goto, limitVars, watcherVars
<1>3. ASSUME NEW h \in Handlers, Submit(h) PROVE Counted' /\ TypeOK'
  <2>1. CASE SubmitCount(h)
    <3>1. PICK where \in {"inspected", "release"} : Goto(h, where)
      BY <2>1 DEF SubmitCount
    <3> QED
      BY <1>2, <2>1, <3>1 DEF SubmitCount, TypeOK
  <2>2. CASE SubmitLock(h)
    BY <1>2, <2>2 DEF SubmitLock, TypeOK
  <2>3. CASE SubmitRecount(h)
    <3>1. PICK where \in {"create", "unlock"} : Goto(h, where)
      BY <2>3 DEF SubmitRecount
    <3>2. /\ pc[h] = "recount"
          /\ UNCHANGED <<clock, limitVars, uid, watched, submitMu, outstanding,
                         watcherVars, restarts>>
      BY <2>3 DEF SubmitRecount
    <3> QED
      BY <1>2, <3>1, <3>2 DEF TypeOK
  <2>4. CASE SubmitCreate(h)
    <3>1. outstanding' \in [Uids -> Nat]
      <4>1. uid[h] \in Uids /\ outstanding \in [Uids -> Nat]
        BY DEF TypeOK
      <4>2. \/ outstanding' = [outstanding EXCEPT ![uid[h]] = @ + 1]
            \/ UNCHANGED outstanding
        BY <2>4 DEF SubmitCreate
      <4> QED
        BY <4>1, <4>2
    <3> QED
      BY <1>2, <2>4, <3>1 DEF SubmitCreate, TypeOK
  <2>5. CASE SubmitUnlock(h)
    BY <1>2, <2>5 DEF SubmitUnlock, TypeOK
  <2>6. CASE releaseSubmission(h)
    <3>1. Counted' /\ submitting' \in [Uids -> Nat] /\ submittingTotal' \in Nat
      BY <2>6, CountedRelease
    <3> QED
      BY <2>6, <3>1 DEF releaseSubmission, TypeOK, Goto, watcherVars
  <2> QED
    BY <1>3, <2>1, <2>2, <2>3, <2>4, <2>5, <2>6 DEF Submit
<1>4. ASSUME NEW h \in Handlers, acquireWatcher(h) PROVE Counted' /\ TypeOK'
  <2>1. Counted'
    BY <1>4, CountedAcquireWatcher
  <2>2. watchersByUID' \in [Uids -> Nat] /\ watchersByRequest' \in [Requests -> Nat]
    BY <1>4 DEF acquireWatcher, TypeOK
  <2> QED
    BY <1>4, <2>1, <2>2 DEF acquireWatcher, TypeOK, Goto, limitVars
<1>5. ASSUME NEW h \in Handlers, releaseWatcher(h) PROVE Counted' /\ TypeOK'
  <2>1. /\ Counted'
        /\ watchersByUID' \in [Uids -> Nat] /\ watchersByRequest' \in [Requests -> Nat]
    BY <1>5, CountedReleaseWatcher
  <2> QED
    BY <1>5, <2>1 DEF releaseWatcher, TypeOK, Goto, limitVars
<1>6. CASE (\E u \in Uids : Settle(u)) \/ Tick \/ UNCHANGED vars
  <2>1. /\ UNCHANGED <<limitVars, pc, uid, watched, submitMu, watcherVars, restarts>>
        /\ outstanding' \in [Uids -> Nat] /\ clock' \in Ticks
    <3>1. CASE \E u \in Uids : Settle(u)
      BY <3>1 DEF Settle, TypeOK
    <3>2. CASE Tick
      <4>1. clock' \in Ticks
        BY <3>2, AdmissionAssumption DEF Tick, TypeOK, Ticks
      <4> QED
        BY <3>2, <4>1 DEF Tick, TypeOK
    <3>3. CASE UNCHANGED vars
      BY <3>3 DEF vars, TypeOK, limitVars, watcherVars
    <3> QED
      BY <1>6, <3>1, <3>2, <3>3
  <2>2. Submitters' = Submitters /\ Watchers' = Watchers
    BY <2>1 DEF Submitters, Watchers
  <2>3. Counted'
    BY <2>1, <2>2, CountedSame DEF counters, limitVars, watcherVars
  <2> QED
    BY <2>1, <2>3 DEF TypeOK, limitVars, watcherVars
<1>7. CASE Restart
  <2>1. Counted'
    <3>1. /\ submitting' = Zero(Uids) /\ submittingTotal' = 0
          /\ watchersByUID' = Zero(Uids) /\ watchersByRequest' = Zero(Requests)
          /\ pc' = [h \in Handlers |-> "idle"]
      BY <1>7 DEF Restart
    <3>2. (/\ submitting = Zero(Uids) /\ submittingTotal = 0
           /\ watchersByUID = Zero(Uids) /\ watchersByRequest = Zero(Requests)
           /\ pc = [h \in Handlers |-> "idle"])' => Counted'
      BY CountedNone, PTL
    <3> QED
      BY <3>1, <3>2 DEF Zero
  <2> QED
    BY <1>7, <2>1, AdmissionAssumption DEF Restart, TypeOK, NoTimes, Zero
<1> QED
  BY <1>1, <1>3, <1>4, <1>5, <1>6, <1>7 DEF Next

-----------------------------------------------------------------------------
(* The outstanding requests.                                                *)

\* The sum of the outstanding requests is a number.
LEMMA OutstandingTotal ==
    ASSUME TypeOK
    PROVE  Total(outstanding) \in Nat
BY AdmissionAssumption, TotalType DEF TypeOK

\* A row less leaves a place where one was.
LEMMA PlaceStays ==
    ASSUME TypeOK, NEW u \in Uids, Settle(u)
    PROVE  /\ PendingBounded => PendingBounded'
           /\ \A v \in Uids : HasPlace(v) => HasPlace(v)'
<1>1. /\ outstanding \in [Uids -> Nat] /\ outstanding[u] > 0
      /\ outstanding' = [outstanding EXCEPT ![u] = @ - 1]
      /\ {MaxPendingPerUID, MaxPendingTotal} \subseteq Nat
  BY AdmissionAssumption DEF Settle, TypeOK, ValidLimits
<1>2. outstanding' \in [Uids -> Nat] /\ \A v \in Uids : outstanding'[v] <= outstanding[v]
  BY <1>1
<1>3. Total(outstanding') <= Total(outstanding)
  BY <1>1, <1>2, AdmissionAssumption, TotalMonotone
<1>4. Total(outstanding) \in Nat /\ Total(outstanding') \in Nat
  BY <1>1, <1>2, AdmissionAssumption, TotalType
<1>5. PendingBounded => PendingBounded'
  <2> SUFFICES ASSUME PendingBounded PROVE PendingBounded'
    OBVIOUS
  <2>1. Total(outstanding') <= MaxPendingTotal
    BY <1>1, <1>3, <1>4 DEF PendingBounded
  <2>2. ASSUME NEW v \in Uids PROVE outstanding'[v] <= MaxPendingPerUID
    <3>1. outstanding[v] <= MaxPendingPerUID /\ outstanding'[v] <= outstanding[v]
      BY <1>2 DEF PendingBounded
    <3>2. outstanding[v] \in Nat /\ outstanding'[v] \in Nat
      BY <1>1, <1>2
    <3> QED
      BY <1>1, <3>1, <3>2
  <2> QED
    BY <2>1, <2>2 DEF PendingBounded
<1>6. ASSUME NEW v \in Uids, HasPlace(v) PROVE HasPlace(v)'
  <2>1. outstanding[v] \in Nat /\ outstanding'[v] \in Nat /\ outstanding'[v] <= outstanding[v]
    BY <1>1, <1>2
  <2>2. outstanding[v] < MaxPendingPerUID /\ Total(outstanding) < MaxPendingTotal
    BY <1>6 DEF HasPlace
  <2>3. outstanding'[v] < MaxPendingPerUID /\ Total(outstanding') < MaxPendingTotal
    BY <1>1, <1>3, <1>4, <2>1, <2>2
  <2> QED
    BY <2>3 DEF HasPlace
<1> QED
  BY <1>5, <1>6

\* A row is created only where the recount found a place, and since then nobody but
\* the holder of submitMu has created one.
LEMMA PendingStep ==
    ASSUME TypeOK, TypeOK', SubmitMuHeldOnPurpose, PendingBounded, PlaceKept, [Next]_vars
    PROVE  PendingBounded' /\ PlaceKept'
<1> DEFINE Places == {"idle", "count", "inspected", "recount", "create", "unlock",
                      "release", "watching"}
<1>1. pc \in [Handlers -> Places] /\ uid \in [Handlers -> Uids]
  BY DEF TypeOK
<1>2. ASSUME UNCHANGED <<outstanding, uid>>,
             \A h \in Handlers : pc'[h] = "create" => pc[h] = "create" \/ HasPlace(uid[h])
      PROVE  PendingBounded' /\ PlaceKept'
  <2>1. PendingBounded'
    BY <1>2 DEF PendingBounded
  <2>2. \A v : HasPlace(v) => HasPlace(v)'
    BY <1>2 DEF HasPlace
  <2>3. PlaceKept'
    BY <1>2, <2>2 DEF PlaceKept
  <2> QED
    BY <2>1, <2>3
<1>3. ASSUME NEW h \in Handlers, acquireSubmission(h) PROVE PendingBounded' /\ PlaceKept'
  BY <1>1, <1>2, <1>3 DEF acquireSubmission, Goto
<1>4. ASSUME NEW h \in Handlers, Submit(h) PROVE PendingBounded' /\ PlaceKept'
  <2>1. CASE SubmitCount(h)
    BY <1>1, <1>2, <2>1 DEF SubmitCount, Goto
  <2>2. CASE SubmitLock(h)
    BY <1>1, <1>2, <2>2 DEF SubmitLock, Goto
  <2>3. CASE SubmitRecount(h)
    BY <1>1, <1>2, <2>3 DEF SubmitRecount, Goto
  <2>4. CASE SubmitCreate(h)
    <3>1. CASE UNCHANGED outstanding
      BY <1>1, <1>2, <2>4, <3>1 DEF SubmitCreate, Goto
    <3>2. CASE outstanding' = [outstanding EXCEPT ![uid[h]] = @ + 1]
      <4>1. /\ outstanding \in [Uids -> Nat] /\ outstanding' \in [Uids -> Nat]
            /\ {MaxPendingPerUID, MaxPendingTotal} \subseteq Nat /\ uid[h] \in Uids
        BY <1>1, AdmissionAssumption DEF TypeOK, ValidLimits
      <4>2. outstanding[uid[h]] < MaxPendingPerUID /\ Total(outstanding) < MaxPendingTotal
        BY <2>4 DEF PlaceKept, HasPlace, SubmitCreate
      <4>3. /\ outstanding'[uid[h]] = outstanding[uid[h]] + 1
            /\ \A v \in Uids \ {uid[h]} : outstanding'[v] = outstanding[v]
        BY <3>2, <4>1
      <4>4. /\ Total(outstanding) \in Nat /\ Total(outstanding') \in Nat
            /\ Total(outstanding') + outstanding[uid[h]]
                   = Total(outstanding) + outstanding'[uid[h]]
        BY <4>1, <4>3, AdmissionAssumption, TotalChanged
      <4>5. Total(outstanding') <= MaxPendingTotal
        BY <4>1, <4>2, <4>3, <4>4
      <4>6. \A v \in Uids : outstanding'[v] <= MaxPendingPerUID
        BY <4>1, <4>2, <4>3 DEF PendingBounded
      <4>7. \A g \in Handlers : pc'[g] # "create"
        <5>1. \A g \in Handlers : pc[g] = "create" => g = h
          BY <2>4 DEF SubmitMuHeldOnPurpose, SubmitCreate
        <5> QED
          BY <1>1, <2>4, <5>1 DEF SubmitCreate, Goto
      <4> QED
        BY <4>5, <4>6, <4>7 DEF PendingBounded, PlaceKept
    <3> QED
      BY <2>4, <3>1, <3>2 DEF SubmitCreate
  <2>5. CASE SubmitUnlock(h)
    BY <1>1, <1>2, <2>5 DEF SubmitUnlock, Goto
  <2>6. CASE releaseSubmission(h)
    BY <1>1, <1>2, <2>6 DEF releaseSubmission, Goto
  <2> QED
    BY <1>4, <2>1, <2>2, <2>3, <2>4, <2>5, <2>6 DEF Submit
<1>5. ASSUME NEW h \in Handlers, acquireWatcher(h) \/ releaseWatcher(h)
      PROVE  PendingBounded' /\ PlaceKept'
  BY <1>1, <1>2, <1>5 DEF acquireWatcher, releaseWatcher, Goto
<1>6. ASSUME NEW u \in Uids, Settle(u) PROVE PendingBounded' /\ PlaceKept'
  <2>1. PendingBounded' /\ \A v \in Uids : HasPlace(v) => HasPlace(v)'
    BY <1>6, PlaceStays
  <2>2. UNCHANGED <<pc, uid>>
    BY <1>6 DEF Settle
  <2>3. PlaceKept'
    BY <1>1, <2>1, <2>2 DEF PlaceKept, HasPlace
  <2> QED
    BY <2>1, <2>3
<1>7. CASE Tick \/ UNCHANGED vars
  BY <1>2, <1>7 DEF Tick, vars
<1>8. CASE Restart
  BY <1>2, <1>8 DEF Restart
<1> QED
  BY <1>3, <1>4, <1>5, <1>6, <1>7, <1>8 DEF Next

-----------------------------------------------------------------------------
(* The rate.                                                                *)

\* The submissions of u accepted in the minute that ends with tick t.
Window(u, t) ==
    [i \in Ticks |-> IF i <= t /\ t < i + Minute THEN accepted[u][i] ELSE 0]

\* RateBounded says that no window has more submissions than configured.
LEMMA RateIsWindows ==
    RateBounded <=> \A u \in Uids, t \in Ticks : Total(Window(u, t)) <= MaxSubmissionsPerMinute
BY DEF RateBounded, Window

\* The clock's ticks are finitely many numbers, and a window is a function on them.
LEMMA TicksFinite ==
    /\ IsFiniteSet(Ticks) /\ Ticks \subseteq Nat /\ Minute \in Nat /\ Minute > 0
    /\ MaxSubmissionsPerMinute \in Nat /\ MaxSubmissionsPerMinute > 0
<1>1. MaxClock \in Nat /\ Minute \in Nat \ {0} /\ MaxSubmissionsPerMinute \in Nat \ {0}
  BY AdmissionAssumption DEF ValidLimits
<1>2. IsFiniteSet(0..MaxClock)
  BY <1>1, FS_Interval
<1> QED
  BY <1>1, <1>2 DEF Ticks

\* When an accepted submission is added to the recent ones there are still no more
\* than configured, and every window that has it consists of recent ones.
LEMMA WindowBounded ==
    ASSUME TypeOK, Remembered, RateBounded, NEW u \in Uids, Admissible(u),
           accepted' = [accepted EXCEPT ![u][clock] = @ + 1], TypeOK',
           NEW t \in Ticks
    PROVE  Total(Window(u, t)') <= MaxSubmissionsPerMinute
<1> DEFINE R == Recent(u)
           after == [R EXCEPT ![clock] = @ + 1]
           W == [i \in Ticks |-> IF i <= t /\ t < i + Minute THEN accepted'[u][i] ELSE 0]
<1>1. /\ clock \in Ticks /\ submissionTimes \in [Uids -> [Ticks -> Nat]]
      /\ accepted \in [Uids -> [Ticks -> Nat]]
      /\ accepted' \in [Uids -> [Ticks -> Nat]]
  BY DEF TypeOK
<1>2. R \in [Ticks -> Nat]
  BY <1>1 DEF Recent
<1>3. after \in [Ticks -> Nat] /\ after[clock] = R[clock] + 1 /\ R[clock] \in Nat
      /\ \A i \in Ticks \ {clock} : after[i] = R[i]
  <2> HIDE DEF R
  <2> QED
    BY <1>1, <1>2
<1>4. /\ accepted'[u][clock] = accepted[u][clock] + 1
      /\ \A i \in Ticks \ {clock} : accepted'[u][i] = accepted[u][i]
  BY <1>1
<1>5. /\ \A i \in Ticks : i + Minute > clock => R[i] = accepted[u][i]
      /\ \A i \in Ticks : i > clock => accepted[u][i] = 0
  BY <1>1 DEF Recent, Remembered
<1>6. W \in [Ticks -> Nat]
  BY <1>1
<1>7. Total(R) < MaxSubmissionsPerMinute
  BY DEF Admissible
<1>8. Window(u, t)' = W
  BY DEF Window
<1> HIDE DEF R, after
<1>9. Total(after) <= MaxSubmissionsPerMinute
  <2>1. /\ Total(R) \in Nat /\ Total(after) \in Nat
        /\ Total(after) + R[clock] = Total(R) + after[clock]
    <3>1. /\ IsFiniteSet(Ticks) /\ clock \in Ticks /\ after \in [Ticks -> Nat]
          /\ \A i \in Ticks \ {clock} : after[i] = R[i]
      BY <1>1, <1>3, TicksFinite
    <3> QED
      BY ONLY <1>2, <3>1, TotalChanged
  <2> QED
    BY <1>3, <1>7, <2>1, TicksFinite
<1>10. CASE t >= clock
  <2>1. ASSUME NEW i \in Ticks PROVE W[i] <= after[i]
    <3>1. {i, t, clock, Minute, after[i], R[i], accepted[u][i], accepted'[u][i]} \subseteq Nat
      BY <1>1, <1>2, <1>3, TicksFinite
    <3>2. CASE ~(i <= t /\ t < i + Minute)
      <4>1. W[i] = 0
        BY <3>2
      <4> QED
        BY <3>1, <4>1
    <3>3. CASE i <= t /\ t < i + Minute
      <4>1. W[i] = accepted'[u][i]
        BY <3>3
      <4>2. i + Minute > clock
        BY <1>10, <3>1, <3>3
      <4>3. R[i] = accepted[u][i]
        BY <1>5, <4>2
      <4>4. accepted'[u][i] = after[i]
        BY <1>3, <1>4, <4>3
      <4> QED
        BY <3>1, <4>1, <4>4
    <3> QED
      BY <3>2, <3>3
  <2>2. Total(W) <= Total(after)
    <3> HIDE DEF W
    <3> QED
      BY <1>3, <1>6, <2>1, TicksFinite, TotalMonotone
  <2>3. Total(W) \in Nat /\ Total(after) \in Nat
    <3> HIDE DEF W
    <3> QED
      BY <1>3, <1>6, TicksFinite, TotalType
  <2>4. Total(W) <= MaxSubmissionsPerMinute
    <3> HIDE DEF W
    <3> QED
      BY <1>9, <2>2, <2>3, TicksFinite
  <2> QED
    BY <1>8, <2>4
<1>11. CASE ~(t >= clock)
  <2>1. W = Window(u, t)
    <3>1. \A i \in Ticks : i <= t => i # clock
      BY <1>1, <1>11, TicksFinite
    <3> QED
      BY <1>4, <3>1 DEF Window
  <2> QED
    BY <1>8, <2>1, RateIsWindows
<1> QED
  BY <1>10, <1>11

\* Accepted submissions are remembered for a minute and bounded in every minute.
LEMMA RateStep ==
    ASSUME TypeOK, TypeOK', Remembered, RateBounded, [Next]_vars
    PROVE  Remembered' /\ RateBounded'
<1>1. /\ clock \in Ticks /\ submissionTimes \in [Uids -> [Ticks -> Nat]]
      /\ accepted \in [Uids -> [Ticks -> Nat]]
  BY DEF TypeOK
<1>2. CASE UNCHANGED <<clock, submissionTimes, accepted>>
  BY <1>2 DEF Remembered, RateBounded
<1>3. ASSUME NEW h \in Handlers, acquireSubmission(h) PROVE Remembered' /\ RateBounded'
  <2> DEFINE u == uid[h]
  <2>1. u \in Uids /\ clock' = clock
    BY <1>3 DEF TypeOK, acquireSubmission
  <2>2. /\ Recent(u) \in [Ticks -> Nat]
        /\ \A t \in Ticks : t + Minute > clock => Recent(u)[t] = accepted[u][t]
    BY <1>1, <2>1 DEF Recent, Remembered
  <2>3. CASE Admissible(u)
    <3>1. /\ submissionTimes' =
                [submissionTimes EXCEPT ![u] = [Recent(u) EXCEPT ![clock] = @ + 1]]
          /\ accepted' = [accepted EXCEPT ![u][clock] = @ + 1]
      BY <1>3, <2>3 DEF acquireSubmission
    <3> HIDE DEF u
    <3>2. /\ submissionTimes'[u] = [Recent(u) EXCEPT ![clock] = @ + 1]
          /\ accepted'[u] = [accepted[u] EXCEPT ![clock] = @ + 1]
          /\ \A v \in Uids \ {u} : /\ submissionTimes'[v] = submissionTimes[v]
                                   /\ accepted'[v] = accepted[v]
      BY <1>1, <2>1, <3>1
    <3>3. ASSUME NEW v \in Uids, NEW t \in Ticks
          PROVE  /\ t + Minute > clock => submissionTimes'[v][t] = accepted'[v][t]
                 /\ t > clock => accepted'[v][t] = 0
      <4>1. CASE v # u
        BY <3>2, <4>1 DEF Remembered
      <4>2. CASE v = u /\ t # clock
        <5>1. submissionTimes'[u][t] = Recent(u)[t] /\ accepted'[u][t] = accepted[u][t]
          BY <1>1, <2>1, <2>2, <3>2, <4>2
        <5>2. t > clock => accepted[u][t] = 0
          BY <2>1 DEF Remembered
        <5> QED
          BY <2>2, <4>2, <5>1, <5>2
      <4>3. CASE v = u /\ t = clock
        <5>1. clock + Minute > clock /\ ~(clock > clock)
          BY <1>1, TicksFinite
        <5>2. /\ submissionTimes'[u][clock] = Recent(u)[clock] + 1
              /\ accepted'[u][clock] = accepted[u][clock] + 1
          BY <1>1, <2>1, <2>2, <3>2
        <5> QED
          BY <1>1, <2>2, <4>3, <5>1, <5>2
      <4> QED
        BY <4>1, <4>2, <4>3
    <3>4. Remembered'
      BY <2>1, <3>3 DEF Remembered
    <3>5. ASSUME NEW v \in Uids, NEW t \in Ticks
          PROVE  Total(Window(v, t)') <= MaxSubmissionsPerMinute
      <4>1. CASE v = u
        BY <2>1, <2>3, <3>1, <4>1, WindowBounded
      <4>2. CASE v # u
        <5>1. Window(v, t)' = Window(v, t)
          BY <3>2, <4>2 DEF Window
        <5> QED
          BY <5>1, RateIsWindows
      <4> QED
        BY <4>1, <4>2
    <3>6. RateBounded'
      BY <3>5 DEF RateBounded, Window
    <3> QED
      BY <3>4, <3>6
  <2>4. CASE ~Admissible(u)
    <3>1. submissionTimes' = [submissionTimes EXCEPT ![u] = Recent(u)] /\ accepted' = accepted
      BY <1>3, <2>4 DEF acquireSubmission
    <3> HIDE DEF u
    <3>2. Remembered'
      BY <1>1, <2>1, <2>2, <3>1 DEF Remembered
    <3>3. RateBounded'
      BY <3>1 DEF RateBounded
    <3> QED
      BY <3>2, <3>3
  <2> QED
    BY <2>3, <2>4
<1>4. CASE Tick
  <2>1. clock' = clock + 1 /\ UNCHANGED <<submissionTimes, accepted>>
    BY <1>4 DEF Tick, limitVars
  <2>2. Remembered'
    <3> SUFFICES ASSUME NEW u \in Uids, NEW t \in Ticks
                 PROVE  /\ t + Minute > clock' => submissionTimes[u][t] = accepted[u][t]
                        /\ t > clock' => accepted[u][t] = 0
      BY <2>1 DEF Remembered
    <3>1. /\ t + Minute > clock => submissionTimes[u][t] = accepted[u][t]
          /\ t > clock => accepted[u][t] = 0
      BY DEF Remembered
    <3>2. {t, clock, Minute} \subseteq Nat
      BY <1>1, TicksFinite
    <3> QED
      BY <2>1, <3>1, <3>2
  <2> QED
    BY <2>1, <2>2 DEF RateBounded
<1>5. CASE Restart
  <2>1. submissionTimes' = NoTimes /\ accepted' = NoTimes
    BY <1>5 DEF Restart
  <2>2. Remembered'
    BY <2>1 DEF Remembered, NoTimes
  <2>3. ASSUME NEW u \in Uids, NEW t \in Ticks
        PROVE  Total(Window(u, t)') <= MaxSubmissionsPerMinute
    <3> DEFINE W == [i \in Ticks |-> 0]
    <3>1. Window(u, t)' = W
      BY <2>1 DEF Window, NoTimes
    <3>2. Total(W) = 0
      <4>1. W \in [Ticks -> Nat] /\ \A i \in Ticks : W[i] = 0
        OBVIOUS
      <4> HIDE DEF W
      <4> QED
        BY <4>1, TicksFinite, TotalZero
    <3> QED
      BY <3>1, <3>2, TicksFinite
  <2>4. RateBounded'
    BY <2>3 DEF RateBounded, Window
  <2> QED
    BY <2>2, <2>4
<1>6. ASSUME NEW h \in Handlers, Submit(h) PROVE UNCHANGED <<clock, submissionTimes, accepted>>
  BY <1>6 DEF Submit, SubmitCount, SubmitLock, SubmitRecount, SubmitCreate, SubmitUnlock,
              releaseSubmission, limitVars
<1>7. ASSUME NEW h \in Handlers, acquireWatcher(h) \/ releaseWatcher(h)
      PROVE  UNCHANGED <<clock, submissionTimes, accepted>>
  BY <1>7 DEF acquireWatcher, releaseWatcher, limitVars
<1>8. ASSUME NEW u \in Uids, Settle(u) PROVE UNCHANGED <<clock, submissionTimes, accepted>>
  BY <1>8 DEF Settle, limitVars
<1>9. CASE UNCHANGED vars
  BY <1>2, <1>9 DEF vars, limitVars
<1> QED
  BY <1>2, <1>3, <1>4, <1>5, <1>6, <1>7, <1>8, <1>9 DEF Next

-----------------------------------------------------------------------------
(* The theorems.                                                            *)

\* The daemon starts with nothing counted and nothing outstanding.
LEMMA InitSound == Init => AdmissionInv
<1> SUFFICES ASSUME Init PROVE AdmissionInv
  OBVIOUS
<1>1. TypeOK
  BY AdmissionAssumption DEF Init, TypeOK, NoTimes, Zero, Ticks
<1>2. SubmitMuHeldOnPurpose
  BY AdmissionAssumption DEF Init, SubmitMuHeldOnPurpose
<1>3. Counted
  BY CountedNone DEF Init
<1>4. PendingBounded /\ PlaceKept
  <2>1. outstanding = Zero(Uids) /\ pc = [h \in Handlers |-> "idle"]
    BY DEF Init
  <2>2. /\ outstanding \in [Uids -> Nat] /\ \A u \in Uids : outstanding[u] = 0
        /\ IsFiniteSet(Uids)
    BY <2>1, AdmissionAssumption DEF Zero
  <2>3. Total(outstanding) = 0
    BY ONLY <2>2, TotalZero
  <2>4. 0 <= MaxPendingTotal /\ 0 <= MaxPendingPerUID
    BY AdmissionAssumption DEF ValidLimits
  <2> QED
    BY <2>1, <2>2, <2>3, <2>4 DEF PendingBounded, PlaceKept
<1>5. Remembered
  BY DEF Init, Remembered, NoTimes
<1>6. RateBounded
  <2> SUFFICES ASSUME NEW u \in Uids, NEW t \in Ticks
               PROVE  Total(Window(u, t)) <= MaxSubmissionsPerMinute
    BY RateIsWindows
  <2> DEFINE W == Window(u, t)
  <2>1. W \in [Ticks -> Nat] /\ \A i \in Ticks : W[i] = 0
    BY DEF Init, Window, NoTimes
  <2> HIDE DEF W
  <2>2. Total(W) = 0
    BY <2>1, TicksFinite, TotalZero
  <2>3. Total(W) <= MaxSubmissionsPerMinute
    BY <2>2, TicksFinite
  <2> QED
    BY <2>3 DEF W
<1> QED
  BY <1>1, <1>2, <1>3, <1>4, <1>5, <1>6 DEF AdmissionInv

\* The inductive invariant holds in every state.
THEOREM AdmissionCorrect == Spec => []AdmissionInv
<1>1. AdmissionInv /\ [Next]_vars => AdmissionInv'
  BY CountedStep, MuStep, PendingStep, RateStep DEF AdmissionInv
<1> QED
  BY <1>1, InitSound, PTL DEF Spec

\* Every variable of the service holds a value of its type; no counter falls below
\* zero, whatever path a handler takes out of Submit or Watch.
THEOREM CountersTyped == Spec => []TypeOK
<1>1. AdmissionInv => TypeOK
  BY DEF AdmissionInv
<1> QED
  BY <1>1, AdmissionCorrect, PTL

\* submitMu is held exactly between the second lock of a Submit handler and its
\* deferred unlock.
THEOREM MuOnPurpose == Spec => []SubmitMuHeldOnPurpose
<1>1. AdmissionInv => SubmitMuHeldOnPurpose
  BY DEF AdmissionInv
<1> QED
  BY <1>1, AdmissionCorrect, PTL

\* The counters of submissions and watchers are what they count, and their limits,
\* per UID, per request and in total, hold.
THEOREM CountersCount == Spec => []CountersAgree
<1>1. AdmissionInv => CountersAgree
  BY DEF AdmissionInv, Counted, CountersAgree, Count
<1> QED
  BY <1>1, AdmissionCorrect, PTL

\* No UID has more outstanding requests than configured, nor have all together.
THEOREM OutstandingBounded == Spec => []PendingBounded
<1>1. AdmissionInv => PendingBounded
  BY DEF AdmissionInv
<1> QED
  BY <1>1, AdmissionCorrect, PTL

\* In no minute are more submissions of a UID accepted than configured.
THEOREM SubmissionsBounded == Spec => []RateBounded
<1>1. AdmissionInv => RateBounded
  BY DEF AdmissionInv
<1> QED
  BY <1>1, AdmissionCorrect, PTL
===============================================================================
