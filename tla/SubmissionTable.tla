--------------------------- MODULE SubmissionTable ---------------------------
(***************************************************************************)
(* The Submission table of the catalog database: the one piece of state    *)
(* the reviewers' web handlers and the build workers share.  A row is kept *)
(* to the columns that decide what happens to it next; the row updates     *)
(* below are the UPDATE statements of apps/worker/src/db.ts and of         *)
(* apps/web/lib/db/admin-submissions.ts, column by column.                 *)
(*                                                                         *)
(* Submissions are numbered in submittedAt order.  availableAfter is NULL  *)
(* ("none"), a time still to come ("future") or one that has passed        *)
(* ("past").  Columns nothing reads to decide a step (messages, URLs,      *)
(* buildStartedAt, decidedAt, decidedById) are left out.                   *)
(***************************************************************************)
EXTENDS Naturals

CONSTANTS Submission,        \* ids, in the order of submittedAt
          MaxTotalAttempts,  \* MAX_TOTAL_ATTEMPTS, 3 in the code
          Faults             \* what may go wrong in this instance

AllFaults ==
    {"crash",      \* the worker's process or host stops at any point
     "database",   \* a database call of the worker throws, without effect
     "ack",        \* a database call of the worker takes effect and throws
     "request"}    \* a review request stops between two database calls

ASSUME SubmissionAssumption == Submission \subseteq Nat \ {0}
ASSUME AttemptsAssumption   == MaxTotalAttempts \in Nat \ {0}
ASSUME FaultsAssumption     == Faults \subseteq AllFaults

VARIABLE sub   \* sub[s]: the row of submission s

NoSub == 0

Status == {"pending", "changes_requested", "approved", "building", "built",
           "failed", "scan_rejected", "worker_failures", "rejected"}

Row == [status         : Status,
        attemptCount   : Nat,
        availableAfter : {"none", "future", "past"},
        buildErrorKind : {"none", "user", "system", "scan"}]

NewRow == [status |-> "pending", attemptCount |-> 0,
           availableAfter |-> "none", buildErrorKind |-> "none"]

----------------------------------------------------------------------------
(* The build worker's updates.  None of them looks at the row's status.    *)

Claimed(row) == [row EXCEPT !.status = "building"]

Built(row) == [row EXCEPT !.status = "built"]

\* Mutant: the kind goes into the status column as it is.
FailedAsKind(row, kind) ==
    [row EXCEPT !.status = kind, !.buildErrorKind = kind]

Failed(row, kind) ==
    [row EXCEPT !.status = IF kind = "scan" THEN "scan_rejected" ELSE "failed",
                !.buildErrorKind = kind]

DeadLettered(row, attempt) ==
    [row EXCEPT !.status = "worker_failures", !.attemptCount = attempt,
                !.buildErrorKind = "system"]

Requeued(row, attempt) ==
    [row EXCEPT !.status = "approved", !.attemptCount = attempt,
                !.availableAfter = "future", !.buildErrorKind = "system"]

\* Mutant: the dead-letter comparison is > instead of >=.
FailedOrRetryOffByOne(row, snapshot) ==
    IF snapshot + 1 > MaxTotalAttempts THEN DeadLettered(row, snapshot + 1)
                                       ELSE Requeued(row, snapshot + 1)

\* Mutant: it is off by one the other way.
FailedOrRetryTooSoon(row, snapshot) ==
    IF snapshot + 2 >= MaxTotalAttempts THEN DeadLettered(row, snapshot + 1)
                                        ELSE Requeued(row, snapshot + 1)

\* A system failure, from the attemptCount the worker read when it claimed
\* the row: a retry behind a backoff window, or the dead-letter status.
FailedOrRetry(row, snapshot) ==
    IF snapshot + 1 >= MaxTotalAttempts THEN DeadLettered(row, snapshot + 1)
                                        ELSE Requeued(row, snapshot + 1)

----------------------------------------------------------------------------
(* The reviewers' updates.                                                 *)

\* Mutant: the retry leaves the exhausted attempt budget in place.
RetriedWithoutReset(row) ==
    [row EXCEPT !.status = "approved", !.buildErrorKind = "none",
                !.availableAfter = "none"]

Retried(row) ==
    [row EXCEPT !.status = "approved", !.buildErrorKind = "none",
                !.attemptCount = 0, !.availableAfter = "none"]

Decided(op, row) ==
    CASE op = "approve"         -> [row EXCEPT !.status = "approved"]
      [] op = "reject"          -> [row EXCEPT !.status = "rejected"]
      [] op = "request_changes" -> [row EXCEPT !.status = "changes_requested"]
      [] op = "retry"           -> Retried(row)

\* Mutant: approval is offered for a failed row too.
DecidableLoosely(op, row) ==
    CASE op = "approve"         -> row.status \in {"pending", "changes_requested", "failed"}
      [] op = "reject"          -> row.status \notin {"built", "rejected"}
      [] op = "request_changes" -> row.status = "pending"
      [] op = "retry"           -> row.status = "worker_failures"

\* Mutant: changes may be requested whatever was decided before.
DecidableAgain(op, row) ==
    CASE op = "approve"         -> row.status \in {"pending", "changes_requested"}
      [] op = "reject"          -> row.status \notin {"built", "rejected"}
      [] op = "request_changes" -> TRUE
      [] op = "retry"           -> row.status = "worker_failures"

\* The early returns of the four handlers, on the row each has read.
Decidable(op, row) ==
    CASE op = "approve"         -> row.status \in {"pending", "changes_requested"}
      [] op = "reject"          -> row.status \notin {"built", "rejected"}
      [] op = "request_changes" -> row.status = "pending"
      [] op = "retry"           -> \/ row.status = "worker_failures"
                                   \/ row.status = "failed" /\ row.buildErrorKind = "system"

----------------------------------------------------------------------------
(* What the claim query may take, and the clock it compares with.          *)

\* Mutant: the query does not look at the status.
ClaimableAnyStatus(row) == row.availableAfter # "future"

\* Mutant: only rows that were never put off are looked for.
ClaimableOnce(row) == row.status = "approved" /\ row.availableAfter = "none"

Claimable(row) == row.status = "approved" /\ row.availableAfter # "future"

\* Time passes for a row in its backoff window (availableAfter <= NOW()).
BackoffElapses(s) ==
    /\ sub[s].availableAfter = "future"
    /\ sub' = [sub EXCEPT ![s].availableAfter = "past"]

=============================================================================
