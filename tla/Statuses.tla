------------------------------- MODULE Statuses -------------------------------
(* The request statuses of internal/model/model.go, the transition table of   *)
(* internal/state/state.go and the classes of statuses that queries select.   *)

Statuses == {"CREATED", "POLICY_REJECTED", "QUEUED", "SYNCED",
             "WAITING_APPROVAL", "APPROVED", "DENIED", "EXPIRED",
             "EXECUTING", "SUCCEEDED", "FAILED", "CANCELLED"}

\* The status of an ID that has no row in the requests table: not yet used, and
\* deleted.  IDs are random UUIDs, so a deleted ID is not used again.
NoRow == "NONE"
Pruned == "PRUNED"

Terminal == {"POLICY_REJECTED", "DENIED", "EXPIRED", "SUCCEEDED", "FAILED",
             "CANCELLED"}

\* What OutstandingCounts counts against the pending limits.
Outstanding == {"CREATED", "QUEUED", "SYNCED", "WAITING_APPROVAL", "APPROVED",
                "EXECUTING"}

\* Mutant: an expiry query that forgets the requests nobody decided.
ExpirableDecided == {"QUEUED", "SYNCED", "APPROVED"}

\* What ExpireOutstanding may expire; CREATED is not among them.
Expirable == {"QUEUED", "SYNCED", "WAITING_APPROVAL", "APPROVED"}

\* What the local-only migration rejects.
RemotePending == {"QUEUED", "SYNCED", "WAITING_APPROVAL", "APPROVED"}

transitions ==
    [s \in Statuses |->
        CASE s = "CREATED" -> {"POLICY_REJECTED", "QUEUED", "WAITING_APPROVAL",
                               "EXECUTING", "CANCELLED", "EXPIRED"}
          [] s = "QUEUED" -> {"SYNCED", "WAITING_APPROVAL", "POLICY_REJECTED",
                              "CANCELLED", "EXPIRED"}
          [] s = "SYNCED" -> {"WAITING_APPROVAL", "POLICY_REJECTED",
                              "CANCELLED", "EXPIRED"}
          [] s = "WAITING_APPROVAL" -> {"APPROVED", "DENIED",
                                        "POLICY_REJECTED", "CANCELLED",
                                        "EXPIRED"}
          [] s = "APPROVED" -> {"EXECUTING", "POLICY_REJECTED", "EXPIRED"}
          [] s = "EXECUTING" -> {"SUCCEEDED", "FAILED"}
          [] OTHER -> {}]
===============================================================================
