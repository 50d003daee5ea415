-------------------------- MODULE SubmissionPipeline -------------------------
(***************************************************************************)
(* The submission pipeline: reviewers deciding on rows and build workers   *)
(* claiming them, over one Submission table.                               *)
(***************************************************************************)
EXTENDS ReviewDesk, BuildWorker

vars == <<sub, desk, audit, stage, job, snapshot, catalog, onHold, abandoned, failures>>

Init ==
    /\ sub = [s \in Submission |-> NewRow]
    /\ DeskInit
    /\ WorkerInit

\* Rows some request's UPDATE may have locked at this moment.
Locked == {desk[r].row : r \in {x \in Reviewer : desk[x].step = "update"}}

\* A decision; a retry also ends the row's present failure count.
ReviewStep(r) ==
    /\ Review(r)
    /\ failures' = [s \in Submission |->
                       IF desk[r].step = "update" /\ desk[r].op = "retry" /\ desk[r].row = s
                          /\ desk'[r].step = "audit"
                       THEN 0 ELSE failures[s]]
    /\ UNCHANGED <<stage, job, snapshot, catalog, onHold, abandoned>>

WorkerStep(w) ==
    /\ Claim(w, Locked) \/ Process(w) \/ Stop(w) \/ Crash(w) \/ Restart(w)
    /\ UNCHANGED deskVars

TimePasses(s) == BackoffElapses(s) /\ UNCHANGED <<deskVars, workerVars>>

Next ==
    \/ \E r \in Reviewer : ReviewStep(r)
    \/ \E w \in Worker : WorkerStep(w)
    \/ \E s \in Submission : TimePasses(s)

Spec == Init /\ [][Next]_vars

(* Fairness.  A worker that is up polls, and works on what it claimed.     *)
(* Polling is strong: mainLoop tests for shutdown only before a claim, so  *)
(* a worker that is stopped and started again and again claims in between. *)
(* One that is down comes back: systemd restarts it after a crash, and     *)
(* whoever stopped it starts it.  Clocks run.  Reviewers owe the system    *)
(* nothing, and neither stopping nor any of the faults has to happen.      *)
FairSpec ==
    /\ Spec
    /\ \A w \in Worker : /\ SF_vars(Claim(w, Locked) /\ UNCHANGED deskVars)
                         /\ WF_vars(Process(w) /\ UNCHANGED deskVars)
                         /\ WF_vars(Restart(w) /\ UNCHANGED deskVars)
    /\ \A s \in Submission : WF_vars(TimePasses(s))

----------------------------------------------------------------------------
(* Type correctness of the table, the desk and the workers.                *)
TypeOK ==
    /\ sub \in [Submission -> Row]
    /\ DeskTypeOK
    /\ WorkerTypeOK

Held(s) == \E w \in Worker : job[w] = s

(* A row is never left in "building" with no worker on it: whichever way a *)
(* stage ends, the worker that claimed the row writes it before it lets    *)
(* go, unless its process or the database stopped it.                      *)
BuildingIsHeld ==
    \A s \in Submission :
        sub[s].status = "building" =>
            \/ s \in abandoned
            \/ \E w \in Worker : job[w] = s /\ stage[w] \in Working \cup Writing

(* A built row that no worker is still promoting is in the catalog, was    *)
(* beaten to its slug, is held by the policy gate, or was cut short.       *)
BuiltIsAccounted ==
    \A s \in Submission :
        sub[s].status = "built" =>
            \/ s \in onHold \cup abandoned
            \/ catalog[SlugOf[s]] # NoSub
            \/ \E w \in Worker :
                  job[w] = s /\ stage[w] \in {"gate", "lookup", "insert", "recover"}

(* The dead-letter status is for rows that used up the attempts they are   *)
(* allowed, all of them on the system's account: retryBuild relies on it   *)
(* (admin-submissions.ts:470-472).                                         *)
DeadLetterExhausted ==
    \A s \in Submission :
        sub[s].status = "worker_failures" =>
            /\ sub[s].attemptCount >= MaxTotalAttempts
            /\ sub[s].buildErrorKind = "system"

(* One worker at a time works on a submission: the claim flips the row and *)
(* nothing offers it again until that worker has written it.               *)
SingleHolder ==
    \A v, w \in Worker : v # w /\ job[v] # NoSub => job[v] # job[w]

(* attemptCount is written from the value the claim read, minutes before;  *)
(* it still counts every system failure since the last reset, no more and  *)
(* no fewer, and a row that may still run has an attempt left.             *)
AttemptCountIsFailures ==
    \A s \in Submission :
        /\ sub[s].attemptCount = failures[s]
        /\ sub[s].attemptCount <= MaxTotalAttempts
        /\ sub[s].status \in {"approved", "building"} => failures[s] < MaxTotalAttempts

(* Every row that has left "pending" has a decision in the audit trail, or *)
(* one on its way there (schema.prisma: one audit row per action).         *)
DecisionAudited ==
    \A s \in Submission :
        sub[s].status # "pending" =>
            \/ \E op \in AllOps : <<s, op>> \in audit
            \/ \E r \in Reviewer : desk[r].step = "audit" /\ desk[r].row = s

(* A rejection is undone only by a worker that was on the row already.     *)
RejectionStands ==
    [][\A s \in Submission :
          sub[s].status = "rejected" /\ ~Held(s) => sub'[s].status = "rejected"]_vars

(* A submitter's own failure is not retried: only a rejection may follow.  *)
SubmitterFailureStands ==
    [][\A s \in Submission :
          \/ sub[s].status = "scan_rejected"
          \/ sub[s].status = "failed" /\ sub[s].buildErrorKind = "user"
          => sub'[s].status \in {sub[s].status, "rejected"}]_vars

(* A slug in the catalog stays with the submission that published it, when *)
(* two builds of the same name race between lookup and insert.             *)
FirstPublisherKeepsSlug ==
    [][\A g \in Slug : catalog[g] # NoSub => catalog'[g] = catalog[g]]_vars

(* Nothing reaches the catalog that a reviewer did not approve, nor under  *)
(* a name it did not ask for: the approval is in the audit trail, or the   *)
(* handler that took it is about to write it there.                        *)
PublishedWasApproved ==
    \A g \in Slug : catalog[g] # NoSub =>
        /\ SlugOf[catalog[g]] = g
        /\ \/ <<catalog[g], "approve">> \in audit
           \/ \E r \in Reviewer : desk[r] = [step |-> "audit", op |-> "approve",
                                            row |-> catalog[g]]

(* As shipped, nothing that is submitted is built or published (ADR-012).  *)
NothingBuilt ==
    /\ \A s \in Submission : sub[s].status # "built"
    /\ \A g \in Slug : catalog[g] = NoSub

(* "Terminal states: built, rejected" (admin-submissions.ts:365-366).      *)
TerminalIsFinal ==
    [][\A s \in Submission :
          sub[s].status \in {"built", "rejected"} => sub'[s].status = sub[s].status]_vars

(* An approved row is drained: it settles in a failed, dead-lettered or    *)
(* rejected status and stays settled (index.ts:116-122).                   *)
Settled(s) == sub[s].status \in {"failed", "worker_failures", "rejected"} /\ ~Held(s)

LeftoversDrain ==
    \A s \in Submission : sub[s].status = "approved" ~> [] Settled(s)

(* "Worker crashes mid-build: the submission transitions to failed via the *)
(* retry/DLQ logic" (build-log-streaming-notes.md:90).                     *)
CrashedBuildIsRetried ==
    \A s \in Submission :
        sub[s].status = "building" ~> sub[s].status # "building"

----------------------------------------------------------------------------
(* The pipeline as a retry queue: a row is running while a worker is on    *)
(* it, whatever its status column says meanwhile.                          *)
JobStateOf(s) ==
    CASE Held(s) -> "running"
      [] ~Held(s) /\ sub[s].status \in {"pending", "changes_requested"} -> "waiting"
      [] ~Held(s) /\ sub[s].status = "approved" -> "queued"
      [] ~Held(s) /\ sub[s].status = "building" -> "lost"
      [] ~Held(s) /\ sub[s].status \in {"built", "failed", "scan_rejected"} -> "done"
      [] ~Held(s) /\ sub[s].status = "worker_failures" -> "dead"
      [] ~Held(s) /\ sub[s].status = "rejected" -> "withdrawn"

Queue == INSTANCE RetryQueue WITH
            Job      <- Submission,
            MaxTries <- MaxTotalAttempts,
            state    <- [s \in Submission |-> JobStateOf(s)],
            tries    <- [s \in Submission |-> sub[s].attemptCount]

(* With one decision at a time the pipeline is the retry queue.            *)
ImplementsQueue == Queue!QueueSpec

=============================================================================
