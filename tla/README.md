# Flareo, specified in TLA+

Flareo is a catalog of container modules. Publishers submit a module, reviewers
decide on it, a build worker turns an approved submission into a signed image and
a catalog entry, and everyone else browses, reviews, reports and pulls. This
directory holds TLA+ modules of the parts whose correctness depends on the order
in which several processes reach one database, the TLC configurations that check
them on small instances, and TLAPS proofs of what holds on every instance.

Paths below are relative to the repository's root.

## 1. Inventory

| Part | State it keeps | Operations | What is hard about it | What makes it correct |
|---|---|---|---|---|
| Submission row (`apps/worker/src/db.ts`, `apps/web/prisma/schema.prisma`) | `status`, `attemptCount`, `availableAfter`, `buildErrorKind` | claim, mark built, mark failed, retry or dead-letter, and the reviewers' updates | updates go by id, whatever the status is by then | a row is worked on by one worker, counts its failures, is never forgotten |
| Review desk (`apps/web/lib/db/admin-submissions.ts`) | `SubmissionAudit` | approve, reject, request changes, retry | read, update and audit are three calls with no transaction | a decision stands and is audited |
| Build worker (`apps/worker/src/index.ts`, `db.ts`, `policy.ts`, the systemd unit) | the row in hand, the attempt count it read | poll, claim, stages, terminal write, policy gate, publish, notify, shutdown | crash between steps, failing writes while handling a failure, several workers, lost acknowledgements | every way out of a stage writes the row; a built row gets to the catalog or is accounted for |
| Catalog (`Module`) | one row per slug | publish | lookup then insert | first publisher keeps the slug; only approved rows get there |
| Billing (`app/api/v1/billing/*`, `lib/billing/*`) | `User.plan`, `stripeSubscriptionId` | checkout, upgrade, replace and cancel, downgrade | Stripe delivers at least once and in no order; a write here and a cancel there | one subscription is billed, and it is the one on file |
| Submission intake and quota (`app/api/v1/submissions/route.ts`, `.../dockerfile-upload/route.ts`, `lib/billing/quota.ts`) | new rows, staged uploads | stage a Dockerfile, submit | four reads before the insert; Serializable re-check with a plan read outside it; rows that leave the count and come back | the plan's limit holds for what was counted; a row that was checked against an upload is of its uploader and of that file |
| VEX and policy (`lib/db/vex.ts`, `lib/db/policy.ts`, `lib/policy/*`, `worker/policy-evaluate`) | statements, policy revisions, one verdict per module | annotate, withdraw, save, evaluate, regenerate | two computations of one count; revision number read then created; stale verdict stored last | the gate and the verdict count alike; an undisturbed verdict is the active revision's |
| Reviews (`lib/db/reviews.ts`) | `ModuleReview.moderation` | edit, flag, hide, show | an edit is a read and two writes | a hide is not undone by an edit |
| Reports (`lib/db/reports.ts`) | `ModuleReport.state`, who triaged it | file, triage | two checks then a create; terminal state read then written | one unsettled report per user and module; every triage is signed |
| Build log (`build-log/route.ts`, `LiveBuildLog.tsx`, `appendBuildLogLine`) | `BuildLogLine` rows; the reader's cursor | emit, poll | lines land in any order; status is read before the rows | the reader shows the log in order and knows what it may miss |
| Previews (`.../preview/route.ts`, `preview/[id]/route.ts`, `lib/preview/allocator.ts`) | `PreviewInstance`, hosts at a provider | launch, delete, time to live | a row, a host and a unique index that includes the status | every host has a row that says so, and the reverse |
| Rate limiter (`lib/ratelimit/index.ts`) | times per plan and key | check | window boundary, rounding | no window holds more than the limit; Retry-After suffices |
| Signature verification (`lib/sigstore/*`, `/api/v1/verify`, `VerifyTool.tsx`) | none on the server; input and answer on the page | resolve, verify, descend into an index, map the outcome | registry failures half-way; overlapping requests | "unsigned" has looked everywhere; the page shows the answer to its question |
| Accounts and keys (`lib/db/account.ts`, `auth/*`, `keys/*`, `cli-exchange`) | `User.deletedAt`, `ApiKey` | sign in, mint, revoke, delete | keys minted while the deletion runs; sessions are JWTs | the deletion is whole or not at all |
| Publish page (`PublishWizard.tsx`, `DockerfileStep.tsx`) | step, build type, attached file | next, back, upload, skip, publish | an upload outlives its step | what is published is what was chosen |
| Command line (`packages/cli`) | local images, container, volume | run, pull, update | the catalog changes; runtime calls fail; kills | runs what was verified; tears down |
| Others (catalog queries, pages, storage, email, statistics, rebuild ledger, organisation policies, workflows) | see `PROJECT.json` | | | not modelled; reasons under `components` |

How the parts interact. The web application and the workers share only the
database. The review desk puts a row to `approved`; a worker's claim
(`FOR UPDATE SKIP LOCKED` and an `UPDATE` in one statement) takes the oldest such
row whose backoff has passed; the worker asks the web application for a policy
verdict over HTTP before it publishes, inserts the catalog row itself, and then
notifies the web application, which only sends mail. Stripe calls the billing webhook, and
the webhook calls Stripe to cancel a replaced subscription. The quota counts
the pipeline's rows and reads the plan that billing writes; a verdict reads the VEX
statements; the CLI and the verification page ask the same endpoint. `hazards` in
`PROJECT.json` lists what is hard to test in each part, at its line.

## 2. Modules

| Module | Models | How state and actions correspond |
|---|---|---|
| `SubmissionTable` | the columns of `Submission` that decide what happens next | one operator per `UPDATE`: `Claimed`, `Built`, `Failed`, `FailedOrRetry` (`markFailedOrRetry`), `Decided`; `Decidable` is the handlers' early returns; `Claimable` the claim's `WHERE`. `availableAfter` is NULL, still to come or past, and `BackoffElapses` is the clock |
| `ReviewDesk` | the four review handlers | a request is `Consider` (findUnique and early return), `Decide` (update by id), `Audit` (create); `RequestDies` between two calls |
| `BuildWorker` | one worker process and the catalog | `stage[w]` is where the worker is; `Following` is the order of the stages of `processSubmission`; `AfterWrite` names the terminal writes; the claim is one atomic step, every other database call a step of its own |
| `RetryQueue` | the abstract queue: admitted, queued, running, done, dead, withdrawn or lost, with an allowance of failed runs | no code; it is what the pipeline promises |
| `SubmissionPipeline` | review desk and workers together, and every property of them | `Queue == INSTANCE RetryQueue WITH ...` is the refinement mapping |
| `SubmissionPipeline_proofs`, `PipelineQueue_proofs` | theorems | section 5 |
| `Billing` | one user's plan, Stripe's subscriptions and the webhook | `StartCheckout` is the checkout route; `ReadForUpgrade`, `Upgrade`, `CancelStale` are `upgradeUserPlan` and what follows it; `ReadForDowngrade`, `Downgrade` the deleted handler; `Pay`, `End`, `Redeliver` are Stripe's and external |
| `SubmissionIntake` | `POST /submissions` and the upload before it | `at[r]` is where the request is: `Arrive`, `CheckQueue`, `ReadPlan`, `ReadUsage`, `CheckUpload`, `Count`, `Insert`, one action per database call; `Insert` is also the commit, and the first of two conflicting transactions wins; `PutObject` and `RecordUpload` are the two writes of an upload; `Decide` is an update by id of the review desk or of a worker, by any status the row has had (`seen`), since each reads first and writes later; `PublishRow`, `ChangePlan` are the worker's insert and billing |
| `VexDesk` | `VexStatement` and the counts left after it | `StoredCounts` translates `evaluateAndPersist`, `GateCounts` `worker/policy-evaluate`, with the statements its lookup found: all or, when it fails, none; `CountsAgree` compares them on every reachable desk |
| `PolicyVerdicts` | revisions and the stored verdict | `ReadLast`, `Create` are `savePolicy` with its one retry; `ReadActive`, `ReadVex`, `Store` are `evaluateAndPersist`; `Evaluate` is `evaluate.ts` |
| `Reviews`, `Reports` | the functions of the same names in `lib/db` | one action per database call |
| `BuildLog` | the worker's counter and its unawaited inserts, the endpoint, the reader | `ReadStatus` and `ReadRows` are the two reads of `GET`; the second also is the reader's append |
| `Previews` | rows, hosts, launches and deletions | one action per call; `LaunchDies` is a function that is stopped; `HostEnds` is the provider, from the allocation on, and `RowLapses` is `expiresAt`, which is counted from a later moment |
| `RateLimiter` | `checkMem` | one action per call, with the clock |
| `FlareoCli` | `run`, `pull`, `update` | `cmd.step` is where the command is; every runtime call may fail; `Killed`, `KilledStarting`; `FoundLocal` leaves open which local image docker, or podman, lists first |
| `PublishWizard` | the page's state | one action per handler, uploads as processes of their own |
| `VerifyImage` | `verifyImage` and `VerifyTool` | one action per network call, `Press` and `Type` for the page; `RequestFails` is every way to no answer, at any call; `TrustRootFails` a trust root that cannot be fetched, which is answered as a bad signature |
| `AccountKeys` | deletion as a transaction of three statements, keys, sign-in | `swept` are the keys the transaction has locked; a user without `email` is let in whatever `deletedAt` says |
| `Site` | the twelve modules above side by side | `focus` names the part that is followed |
| `Billing_proofs`, `SubmissionIntake_proofs`, `PolicyVerdicts_proofs`, `Services_proofs`, `Clients_proofs`, `Site_proofs` | theorems | section 5 |
| `MCSubmissionPipeline`, `MCBilling`, `MCSite` | values of the constants for TLC | |

In `Site` the parts write no state of each other, so the states of one do not depend on
when the others move; following one at a time makes the state space the sum of
the parts' and not their product. What a part takes from another is a variable of its
own that may change at any step (the signals after VEX, the plan, the catalog's
answer). The pipeline and billing are not in `Site`: they have runs of their own.

`onHold`, `abandoned` and `failures` in the pipeline, and `handled` in billing, are history
variables: no guard of an operation of the code reads them (`Redeliver`, which is
Stripe's, reads `handled`). The other modules mark theirs with "history" where they
declare them (`returned`, `slipped`, `raced`, `passed`, `orphaned`, `ended`, `strayed`, ...): they
record the exact interleaving that breaks a promise of the code, so that a property
can say that this interleaving, and no other, does. Such a property does not catch the
interleaving that it excepts: `hazards` says so where that is the hazard, and section 3 lists
the scenarios.
`seen` and `stored`, in intake, are read by guards: they stand for what a handler that is still
under way may have read or written before.

`BuildPathRetired` is TRUE in the repository: ADR-012 replaced the build by a
result that is always unsuccessful, and kept the stages after it. With FALSE the
build may succeed, and the model covers the retained stages as they are written.
Both settings are checked; `pipeline_shipped` is the code as it ships.

Faults are a constant, so a run says which it allows. `crash`: a worker dies at
any point with a row in hand. `database`: a call throws without effect. `ack`: a
call takes effect and throws. `request`: a review request stops between two
calls. In billing: `throw`, `stop`, `refuse`, `duplicate`, `reorder`, described
in the module.

## 3. Runs

Passing runs:

| Run | Instance | Shows |
|---|---|---|
| `pipeline_serial` | 1 submission, 2 workers, 1 reviewer with all four decisions, crashes and failing calls, 3 attempts | `TypeOK`, `SingleHolder`, `AttemptCountIsFailures`, `DeadLetterExhausted`, `DecisionAudited`, `RejectionStands`, `SubmitterFailureStands`, and that the pipeline implements `RetryQueue` |
| `pipeline_overlap` | 2 submissions of one slug, 2 workers, 2 reviewers who approve, crashes, failing calls and lost acknowledgements, 1 attempt | under overlapping decisions and writes of unknown outcome no row is forgotten in building (`BuildingIsHeld`), the loser of the slug and every other built row is accounted for (`BuiltIsAccounted`), what is published was approved (`PublishedWasApproved`), and the first publisher keeps the slug (`FirstPublisherKeepsSlug`) |
| `pipeline_shipped` | 2 submissions, 2 workers, requests that may be cut short, build path retired, with fairness | nothing is built; every approved row settles in a failed, dead-lettered or rejected status for good |
| `billing_orderly` | 3 subscriptions, one delivery at a time, in order, failed handlers retried, with fairness | once all is answered exactly the subscription on file is billed; a payment is honoured |
| `billing_faulty` | the same with redelivery, reordering, stopped handlers and refused cancels | a user loses the plan only when the subscription on file has ended; the webhook never cancels the subscription it keeps |
| `intake_uploads` | 2 users who both upload and submit, 1 submission id, 1 request, 2 files | `FileIsSubmitters`: what an accepted row's user, digest and object have to do with the uploads under its id |
| `site` | each part of `Site` on a small instance, overlapping calls, failing and stopped ones | the eighteen invariants and one action property of the parts, listed below |

Runs that find the code at odds with its own documentation. Each checks one
property, and TLC's counterexample is the scenario.

| Run | Scenario |
|---|---|
| `pipeline_double_claim` | Two approvals read the row as pending. The first is applied and a worker claims the row; the second puts it back to approved, and a second worker claims it while the first still holds it. |
| `pipeline_terminal` | A row is rejected while a worker has it. The worker's terminal write ignores the status, so the rejection is replaced by `failed`, or even by `approved` when the worker requeues it. |
| `pipeline_crash` | A worker crashes with a row in building. Nothing looks for such rows, so it stays there for ever (the notes say the retry logic takes it). |
| `billing_duplicate` | A completed event is redelivered after its subscription ended: the user is back on pro with a cancelled subscription. |
| `billing_concurrent` | Two deliveries both read the user as free and both upgrade as fresh; neither cancels the other's subscription. |

Properties of `site`:

| Property | Says |
|---|---|
| `QuotaHolds` | among rows counted ever since they were admitted no user exceeds the limit of the best plan held, whatever requests overlap and however stale the reads are by which rows are moved; only rows that came back (a late or stale approval, a retry, a requeue of a rejected row, a publication after `markBuilt`) can be in excess |
| `CountsAgree` | the worker's gate and the stored verdict subtract the same from the scan when the gate's lookup succeeds, and the gate subtracts nothing when it fails |
| `SavesAnswerTrue` | an answered revision is on file for good; a save that gives up lost to two others |
| `VerdictIsCurrent` | a verdict is out of date only if something was saved, annotated or overlapped since its evaluation began |
| `HideStands` | a hide survives edits and flags, but for one between an edit's two writes |
| `OneUnsettled`, `TriageIsSigned` | one unsettled report per user and module but for the two races the property names; who triaged is always known |
| `LogIsFollowed` | the log is shown in order without repeats, and exactly which lines may be missing |
| `HostsAreKnown` | no host without a row that says so, no ready and current row without a host, but for failed or early deletions and hosts that the provider stopped |
| `WindowHolds`, `RetryAfterSuffices` | the sliding window holds wherever it begins; waiting as told is enough |
| `RunsWhatWasVerified`, `LeavesNothing`, `UpdateAnswersTrue` | the command line; an answer of `update` is true of a local image, whichever the runtime lists first |
| `UnsignedIsUnsigned`, `ShowsItsTarget` | verification and its page |
| `DeletionIsWhole` | a deleted account has no live key but those minted since it looked for keys |
| `PublishesTheChoice` | the file that is published is the user's latest word |

Bounds and why they are enough. Rows interact only through the claim's order, the
slug and the worker that is busy with one of them: one row exercises everything
said of a single row, and two rows of one slug the race for a catalog entry and a
worker's choice. Two workers and two requests are the least that can overlap; a
third adds no kind of overlap to any property checked, and the proofs cover any number. Attempts are
3, as in the code, where counting is the question, 2 in `pipeline_shipped`, which has both
outcomes of a failure, and 1 in `pipeline_overlap`, where the first system failure is the dead
letter. Overlapping retries are not in that run, for its state space would be too large;
`NoRowIsForgotten`, `NoBuildIsLost` and `DeadLettersAreExhausted` are proved for any
decisions. Nothing else needs a bound: `attemptCount` is bounded by the code
itself in `pipeline_serial` (which `AttemptCountIsFailures` states), and by the
snapshot a worker writes from in the others. Three subscriptions are the
least with one replaced, one replacing and one more to interfere. In
`site` two or three calls of a kind overlap (three where a property counts to two: saves that
both lose, reports filed after two others). Intake there has one user, since rows of different
users never meet in a count, and no uploads, since the quota does not depend on them: those
are in `intake_uploads`, with two users, two files and one id, the least with which an upload
is another's. Five log lines and pages of two make full, partial and empty pages; the clock runs
more than two windows of four ticks, two ticks a second, with limits of 1 and 2; two digests are
an older and a newer image, an index and its platform. `LastTick`, `LastLine`, `MostCounted` are
the only bounds on counters. The deadlock check is off there: requests, uploads and ticks run out. Symmetry is used
on workers and, where no liveness is checked, on reviewers; submissions are
numbered in the order of `submittedAt` and are never permuted.

`pipeline_serial` has one reviewer and no lost acknowledgement because its
properties fail otherwise, as `pipeline_double_claim` shows of `SingleHolder`; a
lost acknowledgement of `markFailedOrRetry` makes the loop's catch write the row a
second time when it may already be another worker's. `billing_orderly` allows neither refused nor
interrupted cancels because the code leaves those to an operator
(`webhook/route.ts:203-214`), and one delivery at a time because of
`billing_concurrent`. `DowngradedOnlyWhenEnded` also needs one delivery at a
time: the deleted handler looks the user up by subscription and then writes by user id.

Divergences met while modelling that no run is spent on. The scenarios of the first list
are behaviours of the models, and the exceptions that the properties of `site` and
`intake_uploads` name:

- Intake: an upload under an id replaces the object and the digest, also after a submission was
  accepted with the digest of the earlier one (`schema.prisma:437-439`: "The row is insert-only
  (no updates)").
- Quota: a row is built and leaves the count before its module is inserted, another is admitted
  in its place, and both are published, one more than `plans.ts:17` calls the "Max public
  modules a user on this plan can have at once". A rejected row that a worker or a stale
  approval puts back does the same.
- Previews: the unique index on user, module and status allows one expired row. Deleting a second
  preview destroys the host and then fails to update the row, which stays ready and is handed
  out again (`preview/[id]/route.ts:106-108`: "we still mark the row as expired in the DB").
  A second row of a user cannot become failed or ready either: that write throws and the row stays `allocating`,
  which blocks further launches. The feature is off by default.
- `flareo update`: docker lists by when an image was made, so after the catalog went back to an
  older image and it was pulled, the comparison is with the other (`update.rs:13`: "the
  most recently-tagged ref").
- Reports: two reports of one user are checked before either is created (`reports.ts:15-17`: "one
  open/investigating report per (user, module) at a time ... Both enforced at the write layer"). A
  triage that read a report as open writes over its resolution (`reports.ts:206-208`:
  "Once moved to resolved or dismissed, the report is terminal").
- Reviews: a hide between the two writes of an edit is undone by the second (`reviews.ts:251-252`:
  "keep "hidden" as "hidden"").
- Accounts: a key minted while the deletion runs, or after it, stays live (`account.ts:235`: "Revokes
  every API key").
- Policy: an evaluation that read the older revision may store its verdict after that of the newer
  one (`regenerate/route.ts:12-13`: "consumer-facing verdicts reflect the new rules").
- Verification: an index has no signature and its manifest cannot be fetched; the answer is
  "unsigned" though its platform may be signed (`verify.ts:112-113`: "descend to linux/amd64").
  Of two overlapping requests the answer of the first may be shown beside the question of the second.
- Publish page: Back is not disabled while an upload or the publication runs, so an upload may
  end after its step was left and replace the later choice.

And, where no property is concerned:

- Build log: the query schema refuses a negative cursor, which is its own default
  and what `LiveBuildLog` starts with, so the panel is answered 400 for ever, and a cursor of 0 skips line 0.
  "complete" with a full page stops the reader before the later lines. Nothing calls
  `appendBuildLogLine` in the worker as it ships.
- Command line: a comment of `run.rs` has a container that exits by itself end the command with 1, but it
  returns `Ok`; "cleaned up" is printed also after a teardown that failed. (The `?` of
  `inspect_with`, which would end the search at a line without `@`, cannot be reached: the
  format asked of the runtime puts one in each line.)
- Intake: the check for "the same user" asks for anyone's pending row; a serialization
  failure is called retryable and answered 500; `canSubmit` does not share the
  transaction, which `quota.ts` says. The worker does not compare the digest of the
  Dockerfile it fetches.
- Accounts: sessions are JWTs, so a deletion signs nobody out; there is no nightly purge;
  `restoreAccount` is never called; `cli-exchange` does not look at `deletedAt`.
- Verification: a trust root that cannot be fetched is reported as an invalid signature.

## 4. Fairness

`SubmissionPipeline!FairSpec`: a worker that is up polls and works on what it has
(`mainLoop` never blocks for good). Polling is strongly fair, since the loop tests
for shutdown only before a claim: a worker that is stopped and restarted over and
over still claims in between. A worker that is down is started again: by
`Restart=on-failure` in the unit after a crash, by whoever stopped it otherwise.
Clocks run. Reviewers owe nothing, and no fault has to happen or to stop
happening. `LeftoversDrain` therefore holds only without faults that can recur in a worker; a review
request that is cut short holds up nothing.
`CrashedBuildIsRetried` is refuted under this fairness, so its counterexample is
not a system that merely stops.

`Billing!FairSpec`: Stripe redelivers an event until it is answered with 200,
and a handler does not throw on every one of infinitely many tries (strong
fairness, per subscription, of taking up its events and of finishing). Users owe
nothing. In billing the deadlock check is off: a user may have ended every subscription,
with nothing left to deliver. In the pipeline it is on: idle workers may always be
stopped and restarted.

`site` checks safety only: its calls owe each other nothing, and the only promise of
progress in those parts (the build log's "complete") depends on a browser that keeps polling.

## 5. Proofs

Every invariant, action property and refinement that a passing run checks is also a
theorem, for every value of the constants; the two liveness properties are not.
The proofs are hierarchical and use the SMT backend, Zenon and, for the temporal step of each
theorem, LS4.

### The pipeline

`SubmissionPipeline_proofs`, for any number of submissions, slugs, workers,
reviewers and attempts and any set of faults:

| Theorem | Says |
|---|---|
| `TypeCorrect` | `Spec => []TypeOK` |
| `NoRowIsForgotten` | a row in building is in the hands of a worker that still has to write it, or was cut short by a crash or by the database |
| `NoBuildIsLost` | a built row is in the catalog, was beaten to its slug, is held by the gate, is being promoted, or was cut short |
| `DeadLettersAreExhausted` | a dead-lettered row has used its attempts and failed on the system's account |
| `PublishedOnce` | a catalog entry never changes hands |
| `RetiredMeansNothingBuilt` | with `BuildPathRetired`, nothing is built or published |

Assumptions of these: those the modules declare on their constants (submissions are
positive numbers, at least one attempt, decisions among the four, each submission asks for
a slug), which TLC evaluates on every run. Faults need no assumption: more of them
only add behaviours the proofs already cover.

The invariant. `BuildingIsHeld` says some worker holds a row, but not that a
worker in a given stage has a row at all, and a review request writes to the row it
considered earlier. `IInv` adds both: `HandsMatchStage` (a worker holds a row
exactly when it is neither idle nor down) and `DeskMatchesStep` (a request in
flight names a row and a decision). The three row invariants are proved together,
since each worker step must keep all of them. Every step is one of a few shapes, and there is a
lemma per shape: it moves a worker (`StepKeepsInv`), makes it let go
(`LetGoKeepsInv`), writes the row (`WriteKeepsInv`), claims (`ClaimKeepsInv`),
places a built row (`PlacedKeepsInv`) or changes a row that no worker need hold
(`RowChangeKeepsInv`). `WrittenRow` says what any terminal write makes of any row,
which is where the dead-letter arithmetic is. `NextKeepsIInv` goes through the
actions; `Invariance` is the temporal step. `PublishedOnce` rests on
`CatalogOnlyGrows`: the only writes to the catalog are guarded by the unique slug.

`PipelineQueue_proofs` builds on it:

| Theorem | Hypotheses | Says |
|---|---|---|
| `ClaimsAreExclusive`, `AttemptsAreCounted` | `OneDecision`, no `ack` | a row has one holder; the stored count is the number of system failures since the last reset |
| `RejectionsStand`, `SubmitterFailuresStand` | the same | what nobody is building stays rejected; what the submitter got wrong is not tried again |
| `PipelineIsAQueue` | the same | `Spec => ImplementsQueue`: the refinement of `RetryQueue` |
| `PublishedIsApproved`, `DecisionsAreAudited` | no `request` | nothing is published, and no row leaves pending, without a decision, however requests and workers overlap |

`OneDecision` says one review request is in flight at a time (one that ends may be
followed by another, by anybody). It is needed: `pipeline_double_claim` is two requests
that overlap. So is the absence of `ack`: after a lost acknowledgement the loop's
catch writes a row that may be another worker's by then. `request` has to be excluded
for the audit trail because the desk writes the row and the audit row in two calls
and nothing makes up for the second. Crashes and calls that throw without effect are
allowed throughout.

For the first five the invariant is `SerialInv`: `HolderInv` (who holds a row, in
which status a worker in a given stage may find it, and that a request in flight
considered the row as it still is) and `CountInv` (stored count, allowance and the
worker's snapshot against the failures counted). A worker's step is brought into one of three forms
first (`Claims`, `Writes`, `Moves`), so that the invariants and the refinement each have
three cases instead of one per stage. The refinement maps each step to a step of the queue
or to none by comparing the state of each job before and after (`JobStates`,
`NextIsQueueStep`). The other two rest on `ApprovalInv` (whatever a worker may yet
publish was approved, and the approval is on record or about to be) and `AuditInv`.

### Billing

`Billing_proofs`, for any number of subscriptions. `BillingTypeCorrect` has no hypothesis.
`DowngradesAreDue` and `CancelsSpareOnFile` assume one delivery at a time
(`OneDelivery`), with redelivery, reordering, stopped handlers and refused cancels
allowed; their invariant `DeliveryInv` says that what a handler read is still so and that
an event that says a subscription ended is true. `BillingAgrees` also assumes `OnlyThrows`:
nothing goes wrong but handlers that throw before they write, which are retried. Its
invariant `BillingInv` adds that every subscription that is billed is on file or has an event
or a cancel to come (`BilledIsKept`), that a user on pro has paid for what is on file
(`PlanIsPaid`), and that events are served in order. The hypotheses are those of the
runs, and section 3 says why the code does not support less; `billing_concurrent` is what happens
without the first.

### The parts of the site

Each part has one inductive invariant and a theorem per property it implies, for any
number of calls, rows, users, keys, uploads, lines or digests. None has a hypothesis
beyond the assumptions that its module declares.

| Module | Theorems | The strengthening |
|---|---|---|
| `SubmissionIntake_proofs` | `FilesAreSubmitters` | `RecordInv`: what is on record of an id was uploaded there, the user by one upload and the digest perhaps by another, and the object is a file that was; `VouchedUpload`: so is what a request was vouched for, and nothing undoes it |
| | `QuotasHold` | `QuotaInv`: `AdmittedHaveRoom`, a request that has counted and is not beaten still finds room for its own row, because the first of two that conflict beats the other; `PlanInv`, the plan a request read is one the user has had; `RowInv`, finitely many rows exist. A row that moves by a stale read either stays in the count, leaves it or is in `returned`, so room never shrinks but by an insert |
| `PolicyVerdicts_proofs` | `SavedIsOnFile`, `VerdictsAreCurrent` | `SaveKnows`: how many other saves one that reads again must have lost to; `UndisturbedIsCurrent`: what an evaluation holds that nothing has disturbed |
| `Services_proofs` | `HidesStand`, `OneReportUnsettled`, `TriagesAreSigned` | `ResetsAreSlipped`; `CheckStillHolds` (without a race a report that passed the check finds none unsettled); `TriageIsOfReport` |
| | `NoHostIsUnknown` | `RequestTells`: what the row and the host can be at each point of a launch, of which the host may end at any; `MarksTheGone` |
| | `DeletionsAreWhole` | `SweepSawAll`: once the deletion has looked, a live key was found or is newer |
| | `NoWindowOverflows`, `WaitingIsEnough` | `TierInv`: the list is in the order of its times and holds the latest of the successes, and a refusal's answer reaches past the moment the oldest entry leaves |
| | `LogsAreFollowed` | `FollowsLog`: all that is shown is at or before the cursor and in order, and what is not shown is accounted for |
| | `BothCountsAgree` | no invariant but the types: see below; `RawCounts` for the failed lookup |
| `Clients_proofs` | `PublishedAsChosen`, `VerifiedIsRun`, `TeardownIsClean`, `UpdatesAreTrue`, `UnsignedLookedEverywhere`, `PageShowsItsTarget` | `UploadIsOnScreen`; `RunInv`; `AnswerInv`, the local image that was found is there while update works; `Knows`, what a request knows at each step |

`Site_proofs` puts them together. Each behaviour of `Site` is one of every part's
specification, by the shape of `Site` (the lemma `SiteIsItsParts`). Hence
`SiteKeepsItsPromises`, all of the above at once, and `SiteTypeCorrect`.

Assumptions on constants that these use: a value for "none" is none of the others;
limits, window and page are positive or natural; the CVEs that are annotated are finitely many;
an index lists manifests of images only (`VerifyAssumption`), which `verify.ts` takes for granted by
looking one level down.

Data. Three proofs are about what the code computes and not only about the order of its
steps. The list of the limiter is filtered by time: `ThoseBelowAreFirst` and
`EndOfSequence` show that what is dropped is its beginning, and `Quotient` bounds the
rounding of Retry-After. A page of the log is any list that is in order, lies below the rest of
the rows and is full or complete: `PageExists` shows that there is one, by adding the least row
that is left. And `evaluateAndPersist` walks the VEX statements in whatever order
the database returns them, as a fold over a set: `WalkEndsInLeft` shows that it ends with a
closed form (`LeftBy`), the same for every order, of which the gate's sums are another
reading. Where such a proof is an induction, it is one by a least counterexample
(`LeastNatural`, from the well-foundedness of the natural numbers).

The invariants were checked by TLC before they were proved. `SerialInv`, `DeliveryInv`,
`BillingInv`, `QuotaInv`, `LimiterInv` and `LogInv` hold of every reachable state of small instances;
of `ApprovalInv` and `AuditInv`, whose state spaces with two reviewers are too large, more than
20 million states were explored.

Only model-checked: `LeftoversDrain` and `PaidIsHonoured`, for liveness under fairness is
beyond the prover. The five properties that the code violates have their counterexamples.

## 6. What is left out, and the plan

Abstracted in the modelled parts: build commands, log text, SBOM contents, URLs,
messages, who decided and when, certificate and transparency-log formats. Backoff lengths are not
modelled, only that a backoff ends. Several users of billing do not interact (a session carries its
user's id and the subscription id is unique), so one is modelled. The header of
`admin-submissions.ts` (6-12) speaks of a resubmission from `changes_requested` to
`pending`; no code does it, so there is no such action.

Not modelled: pages that only render (most of the repository's lines), scripted
demonstrations and sample data; catalog queries and statistics, which only read; mail
and analytics, whose results nothing reads back; of object storage all but the Dockerfile a
submission refers to, which is `object` in `SubmissionIntake`; `recordRebuildAttempt` and
organisation policies, which no code calls; featured modules, profile and notification settings,
which are single-row writes nothing decides by; the Upstash limiter and Stripe's and GitHub's own
services; the CLI's commands that send a request and print the answer; workflows.

What is left, most important first:

1. The liveness of the two fair specifications rests on TLC alone; the safety half of the argument
   (a measure that every fair step of a worker lowers) can be stated and proved.
2. Module rebuilds and organisation policies, once something calls them.
3. The catalog's queries, as operators over the rows that publication and verdicts leave.

## 7. Running

    tlc -workers 2 -config pipeline_serial.cfg MCSubmissionPipeline
    tlc -workers 2 -config billing_orderly.cfg MCBilling
    tlc -workers 2 -config site.cfg MCSite
    tlc -workers 2 -config intake_uploads.cfg SubmissionIntake
    tlapm SubmissionPipeline_proofs.tla
    tlapm PipelineQueue_proofs.tla
    tlapm Site_proofs.tla

`PROJECT.json` lists the runs, the source lines each definition stands for, and for
every property of a passing run a mutated definition that breaks it.
