------------------------------ MODULE BuildWorker ----------------------------
(***************************************************************************)
(* The build worker of apps/worker: the poll loop, the claim, the stages   *)
(* of processSubmission, and the terminal write each way out of a stage    *)
(* leads to.  Any number of workers poll one table.                        *)
(*                                                                         *)
(* BuildPathRetired is the code as it ships: ADR-012 replaced the build by *)
(* a result that is always unsuccessful, and the stages after it were kept *)
(* but cannot be reached.  With FALSE the build may succeed, and the model *)
(* covers those stages as they are written.                                *)
(***************************************************************************)
EXTENDS SubmissionTable

CONSTANTS Worker,            \* worker processes
          Slug,              \* module names
          SlugOf,            \* SlugOf[s]: the slug submission s asks for
          BuildPathRetired   \* TRUE in the repository (ADR-012)

ASSUME SlugAssumption    == SlugOf \in [Submission -> Slug]
ASSUME RetiredAssumption == BuildPathRetired \in BOOLEAN

VARIABLES stage,     \* stage[w]: where worker w is
          job,       \* job[w]: the row it claimed, or NoSub
          snapshot,  \* snapshot[w]: attemptCount as read by the claim
          catalog,   \* catalog[g]: the submission published under g, or NoSub
          onHold,    \* history: rows built and held back by the policy gate
          abandoned, \* history: rows whose worker stopped before it was done
          failures   \* history: system failures recorded since the last reset

workerVars == <<stage, job, snapshot, catalog, onHold, abandoned, failures>>

\* The stages of processSubmission that do work, in order, and what follows.
Following == [fetch |-> "build", build |-> "scan", scan |-> "sbom",
              sbom  |-> "push",  push  |-> "sign", sign |-> "record"]
Working == DOMAIN Following

\* The stages whose failure the code treats as the system's own.
SystemStages == Working \ {"build"}

\* Where the worker is about to write the row, and where it is afterwards.
AfterWrite == [nofile   |-> "idle",   userfail |-> "notify",
               scanfail |-> "notify", sysfail  |-> "idle",
               recover  |-> "idle",   record   |-> "gate"]
Writing == DOMAIN AfterWrite

Stages == {"down", "idle", "gate", "lookup", "insert", "notify"} \cup Working \cup Writing

WorkerTypeOK ==
    /\ stage \in [Worker -> Stages]
    /\ job \in [Worker -> Submission \cup {NoSub}]
    /\ snapshot \in [Worker -> Nat]
    /\ catalog \in [Slug -> Submission \cup {NoSub}]
    /\ onHold \subseteq Submission
    /\ abandoned \subseteq Submission
    /\ failures \in [Submission -> Nat]

WorkerInit ==
    /\ stage = [w \in Worker |-> "idle"]
    /\ job = [w \in Worker |-> NoSub]
    /\ snapshot = [w \in Worker |-> 0]
    /\ catalog = [g \in Slug |-> NoSub]
    /\ onHold = {}
    /\ abandoned = {}
    /\ failures = [s \in Submission |-> 0]

----------------------------------------------------------------------------
(* Moving a worker on; "idle" and "down" let go of the row.                *)

Goto(w, next) ==
    /\ stage' = [stage EXCEPT ![w] = next]
    /\ job' = IF next \in {"idle", "down"} THEN [job EXCEPT ![w] = NoSub] ELSE job
    /\ snapshot' = IF next \in {"idle", "down"} THEN [snapshot EXCEPT ![w] = 0]
                                                ELSE snapshot

Step(w, from, to) ==
    /\ stage[w] = from
    /\ Goto(w, to)
    /\ UNCHANGED <<sub, catalog, onHold, abandoned, failures>>

----------------------------------------------------------------------------
(* claimNextApprovedSubmission                                             *)

\* The row the claim query returns: the oldest claimable one, where SKIP
\* LOCKED passes over rows another transaction (`locked') is updating.
OldestClaimable(s, locked) ==
    /\ Claimable(sub[s])
    /\ \A t \in Submission : Claimable(sub[t]) /\ t < s => t \in locked

\* Mutant: the claim does not mark the row.
ClaimWithoutMark(w, s) ==
    /\ stage[w] = "idle"
    /\ stage' = [stage EXCEPT ![w] = "fetch"]
    /\ job' = [job EXCEPT ![w] = s]
    /\ snapshot' = [snapshot EXCEPT ![w] = sub[s].attemptCount]
    /\ onHold' = onHold \ {s}
    /\ abandoned' = abandoned \ {s}
    /\ UNCHANGED <<sub, catalog, failures>>

\* SELECT ... FOR UPDATE SKIP LOCKED and the UPDATE commit together.
ClaimRow(w, s) ==
    /\ stage[w] = "idle"
    /\ sub' = [sub EXCEPT ![s] = Claimed(@)]
    /\ stage' = [stage EXCEPT ![w] = "fetch"]
    /\ job' = [job EXCEPT ![w] = s]
    /\ snapshot' = [snapshot EXCEPT ![w] = sub[s].attemptCount]
    /\ onHold' = onHold \ {s}
    /\ abandoned' = abandoned \ {s}
    /\ UNCHANGED <<catalog, failures>>

\* The claim commits but the call throws: the loop only logs and goes on.
ClaimUnacknowledged(w, s) ==
    /\ "ack" \in Faults
    /\ stage[w] = "idle"
    /\ sub' = [sub EXCEPT ![s] = Claimed(@)]
    /\ onHold' = onHold \ {s}
    /\ abandoned' = abandoned \cup {s}
    /\ UNCHANGED <<stage, job, snapshot, catalog, failures>>

Claim(w, locked) ==
    \E s \in Submission :
        /\ OldestClaimable(s, locked)
        /\ ClaimRow(w, s) \/ ClaimUnacknowledged(w, s)

----------------------------------------------------------------------------
(* processSubmission                                                       *)

\* Mutant: the build runs again.
AdvanceUnretired(w) == \E st \in Working : Step(w, st, Following[st])

\* A stage succeeds.
Advance(w) ==
    \E st \in Working :
        /\ st = "build" => ~BuildPathRetired
        /\ Step(w, st, Following[st])

\* A stage throws and is caught: systemFailure.
StageFails(w) == \E st \in SystemStages : Step(w, st, "sysfail")

\* JSON.parse of flagsJson throws; mainLoop's catch takes over.
FlagsUnreadable(w) == Step(w, "fetch", "recover")

\* The failures that are the submitter's: no Dockerfile, a build that
\* fails (always, once retired), critical CVEs.
SubmitterFails(w) ==
    \/ Step(w, "fetch", "nofile")
    \/ Step(w, "build", "userfail")
    \/ Step(w, "scan", "scanfail")

\* What each terminal write makes of the row.
Written(st, row, snap) ==
    CASE st \in {"nofile", "userfail"} -> Failed(row, "user")
      [] st = "scanfail"               -> Failed(row, "scan")
      [] st \in {"sysfail", "recover"} -> FailedOrRetry(row, snap)
      [] st = "record"                 -> Built(row)

WriteRow(w) ==
    /\ sub' = [sub EXCEPT ![job[w]] = Written(stage[w], @, snapshot[w])]
    /\ failures' = IF stage[w] \in {"sysfail", "recover"}
                   THEN [failures EXCEPT ![job[w]] = @ + 1]
                   ELSE failures

\* Mutant: a failure while handling a failure is dropped on the floor.
FinishOrForget(w) ==
    /\ stage[w] \in Writing
    /\ \/ WriteRow(w)
       \/ stage[w] = "sysfail" /\ UNCHANGED <<sub, failures>>
    /\ Goto(w, AfterWrite[stage[w]])
    /\ UNCHANGED <<catalog, onHold, abandoned>>

\* markFailed, markFailedOrRetry, markBuilt: by id, whatever the status.
Finish(w) ==
    /\ stage[w] \in Writing
    /\ WriteRow(w)
    /\ Goto(w, AfterWrite[stage[w]])
    /\ UNCHANGED <<catalog, onHold, abandoned>>

\* The write throws out of processSubmission.  mainLoop's catch retries or
\* dead-letters the row; if that write throws too, it is only logged.
FinishThrows(w) ==
    /\ stage[w] \in Writing
    /\ \/ "database" \in Faults /\ UNCHANGED <<sub, failures>>
       \/ "ack" \in Faults /\ WriteRow(w)
    /\ IF stage[w] = "recover"
       THEN Goto(w, "idle") /\ abandoned' = abandoned \cup {job[w]}
       ELSE Goto(w, "recover") /\ UNCHANGED abandoned
    /\ UNCHANGED <<catalog, onHold>>

----------------------------------------------------------------------------
(* After markBuilt: the policy gate and the catalog.                       *)

\* Verdict pass or warn.
GatePasses(w) == Step(w, "gate", "lookup")

\* Verdict fail, or no verdict at all: fail closed.
GateHolds(w) ==
    /\ stage[w] = "gate"
    /\ onHold' = onHold \cup {job[w]}
    /\ Goto(w, "notify")
    /\ UNCHANGED <<sub, catalog, abandoned, failures>>

\* SELECT slug FROM "Module": taken means not published, and no error.
LookUpSlug(w) ==
    /\ stage[w] = "lookup"
    /\ \/ catalog[SlugOf[job[w]]] # NoSub /\ Step(w, "lookup", "notify")
       \/ catalog[SlugOf[job[w]]] = NoSub /\ Step(w, "lookup", "insert")

\* Mutant: without the unique slug the later insert wins.
InsertWithoutUnique(w) ==
    /\ stage[w] = "insert"
    /\ catalog' = [catalog EXCEPT ![SlugOf[job[w]]] = job[w]]
    /\ Goto(w, "notify")
    /\ UNCHANGED <<sub, onHold, abandoned, failures>>

\* INSERT INTO "Module", where slug is unique.
InsertModule(w) ==
    /\ stage[w] = "insert"
    /\ catalog[SlugOf[job[w]]] = NoSub
    /\ catalog' = [catalog EXCEPT ![SlugOf[job[w]]] = job[w]]
    /\ Goto(w, "notify")
    /\ UNCHANGED <<sub, onHold, abandoned, failures>>

\* Mutant: an exception of the insert is swallowed.
PublishFailureSwallowed(w) == Step(w, "insert", "notify")

\* Publishing throws: the lookup does, or the INSERT does (the slug was
\* taken since the lookup, or the random id, one of 9999, is in use), or
\* the INSERT committed and its acknowledgement is lost.
PublishThrows(w) ==
    \/ "database" \in Faults /\ Step(w, "lookup", "recover")
    \/ Step(w, "insert", "recover")
    \/ /\ "ack" \in Faults
       /\ stage[w] = "insert"
       /\ catalog[SlugOf[job[w]]] = NoSub
       /\ catalog' = [catalog EXCEPT ![SlugOf[job[w]]] = job[w]]
       /\ Goto(w, "recover")
       /\ UNCHANGED <<sub, onHold, abandoned, failures>>

\* notifyMainApp swallows every error; the worker is done with the row.
Notify(w) == Step(w, "notify", "idle")

Process(w) ==
    \/ Advance(w) \/ StageFails(w) \/ FlagsUnreadable(w) \/ SubmitterFails(w)
    \/ Finish(w) \/ FinishThrows(w)
    \/ GatePasses(w) \/ GateHolds(w) \/ LookUpSlug(w)
    \/ InsertModule(w) \/ PublishThrows(w) \/ Notify(w)

----------------------------------------------------------------------------
(* The process itself.                                                     *)

\* SIGTERM lets the row in hand finish: the loop ends at "idle".
Stop(w) == Step(w, "idle", "down")

\* The process dies with a row in hand (SIGKILL after TimeoutStopSec, OOM,
\* power).  What it held stays as it was in the table.
Crash(w) ==
    /\ "crash" \in Faults
    /\ stage[w] \notin {"idle", "down"}
    /\ abandoned' = IF stage[w] = "notify" THEN abandoned ELSE abandoned \cup {job[w]}
    /\ Goto(w, "down")
    /\ UNCHANGED <<sub, catalog, onHold, failures>>

\* systemd starts it again; mainLoop remembers nothing of before.
Restart(w) == Step(w, "down", "idle")

=============================================================================
