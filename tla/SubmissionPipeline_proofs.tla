---------------------- MODULE SubmissionPipeline_proofs ----------------------
(***************************************************************************)
(* What holds of the submission pipeline for any number of submissions,    *)
(* reviewers, workers and attempts, and under all the faults: its types,   *)
(* and the three invariants that say no row is lost on its way.            *)
(***************************************************************************)
EXTENDS SubmissionPipeline, TLAPS

(* A worker has a row in hand exactly while it is in a stage that needs    *)
(* one, and a request in flight is about a row and a decision.             *)
HandsMatchStage ==
    \A w \in Worker : job[w] = NoSub <=> stage[w] \in {"idle", "down"}

DeskMatchesStep ==
    \A r \in Reviewer : desk[r].step # "idle" => desk[r].row \in Submission
                                                 /\ desk[r].op \in AllOps

(* The invariants over the table and the workers, and those of the desk.   *)
PipeInv ==
    /\ sub \in [Submission -> Row]
    /\ WorkerTypeOK
    /\ HandsMatchStage
    /\ BuildingIsHeld
    /\ BuiltIsAccounted
    /\ DeadLetterExhausted

DeskInv == DeskTypeOK /\ DeskMatchesStep

IInv == PipeInv /\ DeskInv

(* The stages of a worker that holds a built row it still has to place.    *)
Promoting == {"gate", "lookup", "insert", "recover"}

USE SubmissionAssumption, AttemptsAssumption, OpsAssumption, SlugAssumption

----------------------------------------------------------------------------
(* The row updates: what each makes of a row.                              *)

LEMMA ClaimedRow ==
    ASSUME NEW row \in Row
    PROVE  Claimed(row) \in Row /\ Claimed(row).status = "building"
BY DEF Claimed, Row, Status

LEMMA DecidedRow ==
    ASSUME NEW row \in Row, NEW op \in AllOps
    PROVE  /\ Decided(op, row) \in Row
           /\ Decided(op, row).status \in {"approved", "rejected", "changes_requested"}
BY DEF Decided, Retried, Row, Status, AllOps

LEMMA DeadLetteredRow ==
    ASSUME NEW row \in Row, NEW n \in Nat
    PROVE  /\ DeadLettered(row, n) \in Row
           /\ DeadLettered(row, n).status = "worker_failures"
           /\ DeadLettered(row, n).attemptCount = n
           /\ DeadLettered(row, n).buildErrorKind = "system"
BY DEF DeadLettered, Row, Status

LEMMA RequeuedRow ==
    ASSUME NEW row \in Row, NEW n \in Nat
    PROVE  Requeued(row, n) \in Row /\ Requeued(row, n).status = "approved"
BY DEF Requeued, Row, Status

LEMMA WrittenRow ==
    ASSUME NEW row \in Row, NEW st \in Writing, NEW snap \in Nat
    PROVE  /\ Written(st, row, snap) \in Row
           /\ Written(st, row, snap).status # "building"
           /\ Written(st, row, snap).status = "built" => st = "record"
           /\ Written(st, row, snap).status = "worker_failures" =>
                 /\ Written(st, row, snap).attemptCount >= MaxTotalAttempts
                 /\ Written(st, row, snap).buildErrorKind = "system"
<1>1. CASE st \in {"nofile", "userfail", "scanfail"}
  BY <1>1 DEF Written, Failed, Row, Status
<1>2. CASE st \in {"sysfail", "recover"}
  <2>1. Written(st, row, snap) = FailedOrRetry(row, snap)
    BY <1>2 DEF Written
  <2>2. CASE snap + 1 >= MaxTotalAttempts
    <3>1. Written(st, row, snap) = DeadLettered(row, snap + 1)
      BY <2>1, <2>2 DEF FailedOrRetry
    <3> QED  BY <2>2, <3>1, DeadLetteredRow, snap + 1 \in Nat
  <2>3. CASE ~(snap + 1 >= MaxTotalAttempts)
    <3>1. Written(st, row, snap) = Requeued(row, snap + 1)
      BY <2>1, <2>3 DEF FailedOrRetry
    <3> QED  BY <3>1, RequeuedRow, snap + 1 \in Nat
  <2> QED  BY <2>2, <2>3
<1>3. CASE st = "record"
  BY <1>3 DEF Written, Built, Row, Status
<1> QED  BY <1>1, <1>2, <1>3 DEF Writing, AfterWrite

----------------------------------------------------------------------------
(* The kinds of step a worker takes, and that each keeps the invariant.    *)

LEMMA StageSets ==
    /\ Working = {"fetch", "build", "scan", "sbom", "push", "sign"}
    /\ Writing = {"nofile", "userfail", "scanfail", "sysfail", "recover", "record"}
    /\ Stages = {"down", "idle", "gate", "lookup", "insert", "notify"} \cup Working \cup Writing
BY DEF Working, Writing, Stages, Following, AfterWrite

(* Where a worker may be sent, and what that does to its hands.            *)
LEMMA GotoKeepsHands ==
    ASSUME PipeInv, NEW w \in Worker, NEW next \in Stages, Goto(w, next),
           stage[w] \in {"idle", "down"} => next \in {"idle", "down"}
    PROVE  /\ stage' \in [Worker -> Stages]
           /\ job' \in [Worker -> Submission \cup {NoSub}]
           /\ snapshot' \in [Worker -> Nat]
           /\ HandsMatchStage'
           /\ stage'[w] = next
           /\ next \notin {"idle", "down"} => job' = job
           /\ \A v \in Worker \ {w} : stage'[v] = stage[v] /\ job'[v] = job[v]
<1>1. /\ stage \in [Worker -> Stages]
      /\ job \in [Worker -> Submission \cup {NoSub}]
      /\ snapshot \in [Worker -> Nat]
      /\ HandsMatchStage
  BY DEF PipeInv, WorkerTypeOK
<1>2. CASE next \in {"idle", "down"}
  BY <1>1, <1>2 DEF Goto, HandsMatchStage, NoSub
<1>3. CASE next \notin {"idle", "down"}
  BY <1>1, <1>3 DEF Goto, HandsMatchStage, NoSub
<1> QED  BY <1>2, <1>3

(* A step that only moves the worker: it must not walk away from a row in  *)
(* work, nor from a built row it has not placed.                           *)
LEMMA StepKeepsInv ==
    ASSUME PipeInv, NEW w \in Worker, NEW from \in Stages, NEW to \in Stages,
           Step(w, from, to),
           from \in {"idle", "down"} => to \in {"idle", "down"},
           from \in Working \cup Writing => to \in Working \cup Writing,
           from \in Promoting =>
               to \in Promoting \/ catalog[SlugOf[job[w]]] # NoSub
    PROVE  PipeInv'
<1>1. /\ stage[w] = from
      /\ Goto(w, to)
      /\ UNCHANGED <<sub, catalog, onHold, abandoned, failures>>
  BY DEF Step
<1>2. /\ stage' \in [Worker -> Stages]
      /\ job' \in [Worker -> Submission \cup {NoSub}]
      /\ snapshot' \in [Worker -> Nat]
      /\ HandsMatchStage'
      /\ stage'[w] = to
      /\ to \notin {"idle", "down"} => job' = job
      /\ \A v \in Worker \ {w} : stage'[v] = stage[v] /\ job'[v] = job[v]
  BY <1>1, GotoKeepsHands
<1>3. (sub \in [Submission -> Row] /\ WorkerTypeOK)'
  BY <1>1, <1>2 DEF PipeInv, WorkerTypeOK
<1>4. BuildingIsHeld'
  <2> SUFFICES ASSUME NEW s \in Submission, sub[s].status = "building", s \notin abandoned
               PROVE  \E v \in Worker : job'[v] = s /\ stage'[v] \in Working \cup Writing
    BY <1>1 DEF BuildingIsHeld
  <2>1. PICK v \in Worker : job[v] = s /\ stage[v] \in Working \cup Writing
    BY DEF PipeInv, BuildingIsHeld
  <2>2. CASE v = w
    BY <1>1, <1>2, <2>1, <2>2, StageSets
  <2>3. CASE v # w
    BY <1>2, <2>1, <2>3
  <2> QED  BY <2>2, <2>3
<1>5. BuiltIsAccounted'
  <2> SUFFICES ASSUME NEW s \in Submission, sub[s].status = "built",
                      s \notin onHold \cup abandoned, catalog[SlugOf[s]] = NoSub
               PROVE  \E v \in Worker : job'[v] = s /\ stage'[v] \in Promoting
    BY <1>1 DEF BuiltIsAccounted, Promoting
  <2>1. PICK v \in Worker : job[v] = s /\ stage[v] \in Promoting
    BY DEF PipeInv, BuiltIsAccounted, Promoting
  <2>2. CASE v = w
    BY <1>1, <1>2, <2>1, <2>2 DEF Promoting
  <2>3. CASE v # w
    BY <1>2, <2>1, <2>3
  <2> QED  BY <2>2, <2>3
<1>6. DeadLetterExhausted'
  BY <1>1 DEF PipeInv, DeadLetterExhausted
<1> QED  BY <1>2, <1>3, <1>4, <1>5, <1>6 DEF PipeInv

(* Letting go of a row nobody has written leaves it among the abandoned.   *)
LEMMA LetGoKeepsInv ==
    ASSUME PipeInv, NEW w \in Worker, NEW next \in {"idle", "down"},
           stage[w] \notin {"idle", "down"}, Goto(w, next),
           \/ abandoned' = abandoned \cup {job[w]}
           \/ stage[w] = "notify" /\ abandoned' = abandoned,
           UNCHANGED <<sub, catalog, onHold, failures>>
    PROVE  PipeInv'
<1>1. next \in Stages
  BY StageSets
<1>2. /\ stage' \in [Worker -> Stages]
      /\ job' \in [Worker -> Submission \cup {NoSub}]
      /\ snapshot' \in [Worker -> Nat]
      /\ HandsMatchStage'
      /\ \A v \in Worker \ {w} : stage'[v] = stage[v] /\ job'[v] = job[v]
  BY <1>1, GotoKeepsHands
<1>3. job[w] \in Submission
  BY DEF PipeInv, HandsMatchStage, WorkerTypeOK
<1>4. (sub \in [Submission -> Row] /\ WorkerTypeOK)'
  BY <1>2, <1>3 DEF PipeInv, WorkerTypeOK
<1>5. BuildingIsHeld'
  <2> SUFFICES ASSUME NEW s \in Submission, sub[s].status = "building", s \notin abandoned'
               PROVE  \E v \in Worker : job'[v] = s /\ stage'[v] \in Working \cup Writing
    BY DEF BuildingIsHeld
  <2>1. PICK v \in Worker : job[v] = s /\ stage[v] \in Working \cup Writing
    BY DEF PipeInv, BuildingIsHeld
  <2>2. v # w
    BY <2>1, StageSets
  <2> QED  BY <1>2, <2>1, <2>2
<1>6. BuiltIsAccounted'
  <2> SUFFICES ASSUME NEW s \in Submission, sub[s].status = "built",
                      s \notin onHold \cup abandoned', catalog[SlugOf[s]] = NoSub
               PROVE  \E v \in Worker : job'[v] = s /\ stage'[v] \in Promoting
    BY DEF BuiltIsAccounted, Promoting
  <2>1. PICK v \in Worker : job[v] = s /\ stage[v] \in Promoting
    BY DEF PipeInv, BuiltIsAccounted, Promoting
  <2>2. v # w
    BY <2>1 DEF Promoting
  <2> QED  BY <1>2, <2>1, <2>2
<1>7. DeadLetterExhausted'
  BY DEF PipeInv, DeadLetterExhausted
<1> QED  BY <1>2, <1>4, <1>5, <1>6, <1>7 DEF PipeInv

(* A terminal write replaces "building" by a status that says how the run  *)
(* ended; only markBuilt leaves the row to be placed, and by this worker.  *)
LEMMA WriteKeepsInv ==
    ASSUME PipeInv, NEW w \in Worker, NEW next \in Stages,
           stage[w] \in Writing, WriteRow(w), Goto(w, next),
           stage[w] = "record" => next \in {"gate", "recover"},
           abandoned \subseteq abandoned', abandoned' \subseteq Submission,
           UNCHANGED <<catalog, onHold>>
    PROVE  PipeInv'
<1> DEFINE row == Written(stage[w], sub[job[w]], snapshot[w])
<1>1. /\ stage' \in [Worker -> Stages]
      /\ job' \in [Worker -> Submission \cup {NoSub}]
      /\ snapshot' \in [Worker -> Nat]
      /\ HandsMatchStage'
      /\ stage'[w] = next
      /\ next \notin {"idle", "down"} => job' = job
      /\ \A v \in Worker \ {w} : stage'[v] = stage[v] /\ job'[v] = job[v]
  <2>1. stage[w] \notin {"idle", "down"}
    BY StageSets
  <2> QED  BY <2>1, GotoKeepsHands
<1>2. job[w] \in Submission /\ sub[job[w]] \in Row /\ snapshot[w] \in Nat
  BY StageSets DEF PipeInv, HandsMatchStage, WorkerTypeOK
<1>3. /\ row \in Row
      /\ row.status # "building"
      /\ row.status = "built" => stage[w] = "record"
      /\ row.status = "worker_failures" =>
            row.attemptCount >= MaxTotalAttempts /\ row.buildErrorKind = "system"
  BY <1>2, WrittenRow
<1>4. sub' = [sub EXCEPT ![job[w]] = row]
  BY DEF WriteRow
<1> HIDE DEF row
<1>5. /\ sub' \in [Submission -> Row]
      /\ sub'[job[w]] = row
      /\ \A s \in Submission \ {job[w]} : sub'[s] = sub[s]
  BY <1>2, <1>3, <1>4 DEF PipeInv
<1>6. failures' \in [Submission -> Nat]
  <2>1. failures \in [Submission -> Nat]
    BY DEF PipeInv, WorkerTypeOK
  <2>2. failures[job[w]] \in Nat
    BY <1>2, <2>1
  <2>3. [failures EXCEPT ![job[w]] = @ + 1] \in [Submission -> Nat]
    BY <1>2, <2>1, <2>2
  <2> QED  BY <2>1, <2>3 DEF WriteRow
<1>7. WorkerTypeOK'
  BY <1>1, <1>6 DEF PipeInv, WorkerTypeOK
<1>8. BuildingIsHeld'
  <2> SUFFICES ASSUME NEW s \in Submission, sub'[s].status = "building", s \notin abandoned'
               PROVE  \E v \in Worker : job'[v] = s /\ stage'[v] \in Working \cup Writing
    BY DEF BuildingIsHeld
  <2>1. s # job[w] /\ sub[s].status = "building" /\ s \notin abandoned
    BY <1>3, <1>5
  <2>2. PICK v \in Worker : job[v] = s /\ stage[v] \in Working \cup Writing
    BY <2>1 DEF PipeInv, BuildingIsHeld
  <2> QED  BY <1>1, <2>1, <2>2
<1>9. BuiltIsAccounted'
  <2> SUFFICES ASSUME NEW s \in Submission, sub'[s].status = "built",
                      s \notin onHold \cup abandoned', catalog[SlugOf[s]] = NoSub
               PROVE  \E v \in Worker : job'[v] = s /\ stage'[v] \in Promoting
    BY DEF BuiltIsAccounted, Promoting
  <2>1. CASE s = job[w]
    <3>1. next \in {"gate", "recover"}
      BY <1>3, <1>5, <2>1
    <3>2. job'[w] = s /\ stage'[w] \in Promoting
      BY <1>1, <2>1, <3>1 DEF Promoting
    <3> QED  BY <3>2
  <2>2. CASE s # job[w]
    <3>1. sub[s].status = "built" /\ s \notin onHold \cup abandoned
      BY <1>5, <2>2
    <3>2. PICK v \in Worker : job[v] = s /\ stage[v] \in Promoting
      BY <3>1 DEF PipeInv, BuiltIsAccounted, Promoting
    <3> QED  BY <1>1, <2>2, <3>2
  <2> QED  BY <2>1, <2>2
<1>10. DeadLetterExhausted'
  BY <1>2, <1>3, <1>5 DEF PipeInv, DeadLetterExhausted
<1> QED  BY <1>1, <1>5, <1>7, <1>8, <1>9, <1>10 DEF PipeInv

(* A claim puts the row in the hands of the worker that took it, or, when  *)
(* its acknowledgement is lost, among the abandoned.                       *)
LEMMA ClaimKeepsInv ==
    ASSUME PipeInv, NEW w \in Worker, NEW s \in Submission,
           ClaimRow(w, s) \/ ClaimUnacknowledged(w, s)
    PROVE  PipeInv'
<1>1. /\ stage[w] = "idle"
      /\ sub' = [sub EXCEPT ![s] = Claimed(@)]
      /\ onHold' = onHold \ {s}
      /\ UNCHANGED <<catalog, failures>>
  BY DEF ClaimRow, ClaimUnacknowledged
<1>2. /\ sub \in [Submission -> Row]
      /\ WorkerTypeOK
      /\ HandsMatchStage
  BY DEF PipeInv
<1>3. Claimed(sub[s]) \in Row /\ Claimed(sub[s]).status = "building"
  BY <1>2, ClaimedRow
<1>4. /\ sub' \in [Submission -> Row]
      /\ sub'[s].status = "building"
      /\ \A t \in Submission \ {s} : sub'[t] = sub[t]
  BY <1>1, <1>2, <1>3
<1>5. DeadLetterExhausted'
  BY <1>4 DEF PipeInv, DeadLetterExhausted
<1>6. job[w] = NoSub
  BY <1>1, <1>2 DEF HandsMatchStage
<1>7. /\ WorkerTypeOK'
      /\ HandsMatchStage'
      /\ abandoned \ {s} \subseteq abandoned'
      /\ \/ s \in abandoned'
         \/ job'[w] = s /\ stage'[w] \in Working
      /\ \A v \in Worker \ {w} : stage'[v] = stage[v] /\ job'[v] = job[v]
  <2>1. CASE ClaimRow(w, s)
    <3>1. /\ stage' = [stage EXCEPT ![w] = "fetch"]
          /\ job' = [job EXCEPT ![w] = s]
          /\ snapshot' = [snapshot EXCEPT ![w] = sub[s].attemptCount]
          /\ abandoned' = abandoned \ {s}
      BY <2>1 DEF ClaimRow
    <3>2. "fetch" \in Working /\ "fetch" \in Stages
      BY StageSets
    <3>3. sub[s].attemptCount \in Nat
      BY <1>2 DEF Row
    <3>4. WorkerTypeOK'
      BY <1>1, <1>2, <3>1, <3>2, <3>3 DEF WorkerTypeOK
    <3>5. s # NoSub
      BY DEF NoSub
    <3>6. job'[w] = s /\ stage'[w] = "fetch"
      BY <1>2, <3>1 DEF WorkerTypeOK
    <3>7. \A v \in Worker \ {w} : stage'[v] = stage[v] /\ job'[v] = job[v]
      BY <1>2, <3>1 DEF WorkerTypeOK
    <3>8. HandsMatchStage'
      BY <1>2, <3>5, <3>6, <3>7 DEF HandsMatchStage, NoSub
    <3> QED  BY <3>1, <3>2, <3>4, <3>6, <3>7, <3>8
  <2>2. CASE ClaimUnacknowledged(w, s)
    BY <1>1, <1>2, <2>2 DEF ClaimUnacknowledged, WorkerTypeOK, HandsMatchStage, NoSub
  <2> QED  BY <2>1, <2>2
<1>8. BuildingIsHeld'
  <2> SUFFICES ASSUME NEW t \in Submission, sub'[t].status = "building", t \notin abandoned'
               PROVE  \E v \in Worker : job'[v] = t /\ stage'[v] \in Working \cup Writing
    BY DEF BuildingIsHeld
  <2>1. CASE t = s
    BY <1>7, <2>1
  <2>2. CASE t # s
    <3>1. sub[t].status = "building" /\ t \notin abandoned
      BY <1>4, <1>7, <2>2
    <3>2. PICK v \in Worker : job[v] = t /\ stage[v] \in Working \cup Writing
      BY <3>1 DEF PipeInv, BuildingIsHeld
    <3>3. v # w
      BY <1>6, <3>2 DEF NoSub
    <3> QED  BY <1>7, <3>2, <3>3
  <2> QED  BY <2>1, <2>2
<1>9. BuiltIsAccounted'
  <2> SUFFICES ASSUME NEW t \in Submission, sub'[t].status = "built",
                      t \notin onHold' \cup abandoned', catalog[SlugOf[t]] = NoSub
               PROVE  \E v \in Worker : job'[v] = t /\ stage'[v] \in Promoting
    BY <1>1 DEF BuiltIsAccounted, Promoting
  <2>1. t # s /\ sub[t].status = "built" /\ t \notin onHold \cup abandoned
    BY <1>1, <1>4, <1>7
  <2>2. PICK v \in Worker : job[v] = t /\ stage[v] \in Promoting
    BY <2>1 DEF PipeInv, BuiltIsAccounted, Promoting
  <2>3. v # w
    BY <1>6, <2>2 DEF NoSub
  <2> QED  BY <1>7, <2>2, <2>3
<1> QED  BY <1>4, <1>5, <1>7, <1>8, <1>9 DEF PipeInv

(* A built row is placed in the catalog, or held back by the policy gate.  *)
LEMMA PlacedKeepsInv ==
    ASSUME PipeInv, NEW w \in Worker, NEW next \in {"notify", "recover"},
           stage[w] \in {"gate", "insert"}, Goto(w, next),
           \/ /\ catalog[SlugOf[job[w]]] = NoSub
              /\ catalog' = [catalog EXCEPT ![SlugOf[job[w]]] = job[w]]
              /\ onHold' = onHold
           \/ catalog' = catalog /\ onHold' = onHold \cup {job[w]},
           UNCHANGED <<sub, abandoned, failures>>
    PROVE  PipeInv'
<1>1. next \in Stages
  BY StageSets
<1>2. /\ stage' \in [Worker -> Stages]
      /\ job' = job
      /\ snapshot' \in [Worker -> Nat]
      /\ HandsMatchStage'
      /\ stage'[w] = next
      /\ \A v \in Worker \ {w} : stage'[v] = stage[v]
  BY <1>1, GotoKeepsHands
<1>3. job[w] \in Submission /\ WorkerTypeOK
  BY DEF PipeInv, HandsMatchStage, WorkerTypeOK
<1>4. job[w] # NoSub /\ SlugOf[job[w]] \in Slug
  BY <1>3 DEF NoSub
<1>5. WorkerTypeOK'
  <2>1. catalog' \in [Slug -> Submission \cup {NoSub}]
    BY <1>3, <1>4 DEF WorkerTypeOK
  <2>2. onHold' \subseteq Submission
    BY <1>3 DEF WorkerTypeOK
  <2> QED  BY <1>2, <1>3, <2>1, <2>2 DEF WorkerTypeOK
<1>6. /\ \A g \in Slug : catalog[g] # NoSub => catalog'[g] # NoSub
      /\ onHold \subseteq onHold'
      /\ catalog'[SlugOf[job[w]]] # NoSub \/ job[w] \in onHold'
  BY <1>3, <1>4 DEF WorkerTypeOK
<1>7. BuildingIsHeld'
  <2> SUFFICES ASSUME NEW s \in Submission, sub[s].status = "building", s \notin abandoned
               PROVE  \E v \in Worker : job'[v] = s /\ stage'[v] \in Working \cup Writing
    BY DEF BuildingIsHeld
  <2>1. PICK v \in Worker : job[v] = s /\ stage[v] \in Working \cup Writing
    BY DEF PipeInv, BuildingIsHeld
  <2>2. v # w
    BY <2>1, StageSets
  <2> QED  BY <1>2, <2>1, <2>2
<1>8. BuiltIsAccounted'
  <2> SUFFICES ASSUME NEW s \in Submission, sub[s].status = "built",
                      s \notin onHold' \cup abandoned, catalog'[SlugOf[s]] = NoSub
               PROVE  \E v \in Worker : job'[v] = s /\ stage'[v] \in Promoting
    BY DEF BuiltIsAccounted, Promoting
  <2>1. catalog[SlugOf[s]] = NoSub /\ s \notin onHold \cup abandoned /\ s # job[w]
    BY <1>6
  <2>2. PICK v \in Worker : job[v] = s /\ stage[v] \in Promoting
    BY <2>1 DEF PipeInv, BuiltIsAccounted, Promoting
  <2> QED  BY <1>2, <2>1, <2>2
<1>9. DeadLetterExhausted'
  BY DEF PipeInv, DeadLetterExhausted
<1> QED  BY <1>2, <1>5, <1>7, <1>8, <1>9 DEF PipeInv

(* A change of rows the workers have no part in: a decision, or the clock. *)
LEMMA RowChangeKeepsInv ==
    ASSUME PipeInv, sub' \in [Submission -> Row],
           \A s \in Submission :
              \/ sub'[s].status \in {"approved", "rejected", "changes_requested"}
              \/ /\ sub'[s].status = sub[s].status
                 /\ sub'[s].attemptCount = sub[s].attemptCount
                 /\ sub'[s].buildErrorKind = sub[s].buildErrorKind,
           failures' \in [Submission -> Nat],
           UNCHANGED <<stage, job, snapshot, catalog, onHold, abandoned>>
    PROVE  PipeInv'
<1>1. WorkerTypeOK' /\ HandsMatchStage'
  BY DEF PipeInv, WorkerTypeOK, HandsMatchStage
<1>2. BuildingIsHeld'
  BY DEF PipeInv, BuildingIsHeld
<1>3. BuiltIsAccounted'
  BY DEF PipeInv, BuiltIsAccounted
<1>4. DeadLetterExhausted'
  BY DEF PipeInv, DeadLetterExhausted
<1> QED  BY <1>1, <1>2, <1>3, <1>4 DEF PipeInv

----------------------------------------------------------------------------
(* The invariant is inductive: one step per action.                        *)

LEMMA InitEstablishesIInv == Init => IInv
<1> SUFFICES ASSUME Init PROVE IInv
  OBVIOUS
<1>1. sub \in [Submission -> Row] /\ \A s \in Submission : sub[s].status = "pending"
  BY DEF Init, NewRow, Row, Status
<1>2. WorkerTypeOK /\ HandsMatchStage
  BY StageSets DEF Init, WorkerInit, WorkerTypeOK, HandsMatchStage
<1>3. DeskInv
  BY DEF Init, DeskInit, DeskInv, DeskTypeOK, DeskMatchesStep, AtRest, DeskState
<1> QED
  BY <1>1, <1>2, <1>3
     DEF IInv, PipeInv, BuildingIsHeld, BuiltIsAccounted, DeadLetterExhausted

LEMMA ReviewStepKeepsIInv ==
    ASSUME IInv, NEW r \in Reviewer, ReviewStep(r)
    PROVE  IInv'
<1> DEFINE d == desk[r]
<1>1. /\ desk \in [Reviewer -> DeskState] /\ audit \subseteq Submission \X AllOps
      /\ DeskMatchesStep
      /\ sub \in [Submission -> Row]
      /\ failures \in [Submission -> Nat]
  BY DEF IInv, DeskInv, DeskTypeOK, PipeInv, WorkerTypeOK
<1>2. failures' \in [Submission -> Nat]
  BY <1>1 DEF ReviewStep
<1>3. UNCHANGED <<stage, job, snapshot, catalog, onHold, abandoned>>
  BY DEF ReviewStep
<1>4. CASE \E op \in Ops, s \in Submission : Consider(r, op, s)
  <2> PICK op \in Ops, s \in Submission : Consider(r, op, s)
    BY <1>4
  <2>1. DeskInv'
    BY <1>1 DEF Consider, DeskInv, DeskTypeOK, DeskMatchesStep, DeskState
  <2>2. PipeInv'
    BY <1>1, <1>2, <1>3, RowChangeKeepsInv DEF Consider, IInv
  <2> QED  BY <2>1, <2>2 DEF IInv
<1>5. CASE Decide(r)
  <2>1. d.row \in Submission /\ d.op \in AllOps
    BY <1>1, <1>5 DEF Decide, DeskMatchesStep
  <2>2. /\ Decided(d.op, sub[d.row]) \in Row
        /\ Decided(d.op, sub[d.row]).status \in {"approved", "rejected", "changes_requested"}
    BY <1>1, <2>1, DecidedRow
  <2>3. sub' = [sub EXCEPT ![d.row] = Decided(d.op, sub[d.row])]
    BY <1>5 DEF Decide
  <2>4. PipeInv'
    BY <1>1, <1>2, <1>3, <2>1, <2>2, <2>3, RowChangeKeepsInv DEF IInv
  <2>5. DeskInv'
    BY <1>1, <1>5, <2>1 DEF Decide, DeskInv, DeskTypeOK, DeskMatchesStep, DeskState
  <2> QED  BY <2>4, <2>5 DEF IInv
<1>6. CASE Audit(r)
  <2>1. d.row \in Submission /\ d.op \in AllOps
    BY <1>1, <1>6 DEF Audit, DeskMatchesStep
  <2>2. DeskInv'
    BY <1>1, <1>6, <2>1 DEF Audit, AtRest, DeskInv, DeskTypeOK, DeskMatchesStep, DeskState
  <2>3. PipeInv'
    BY <1>1, <1>2, <1>3, <1>6, RowChangeKeepsInv DEF Audit, IInv
  <2> QED  BY <2>2, <2>3 DEF IInv
<1>7. CASE RequestDies(r)
  <2>1. DeskInv'
    BY <1>1, <1>7 DEF RequestDies, AtRest, DeskInv, DeskTypeOK, DeskMatchesStep, DeskState
  <2>2. PipeInv'
    BY <1>1, <1>2, <1>3, <1>7, RowChangeKeepsInv DEF RequestDies, IInv
  <2> QED  BY <2>1, <2>2 DEF IInv
<1> QED  BY <1>4, <1>5, <1>6, <1>7 DEF ReviewStep, Review

LEMMA ProcessKeepsInv ==
    ASSUME PipeInv, NEW w \in Worker, Process(w)
    PROVE  PipeInv'
<1>1. CASE Advance(w)
  <2>1. PICK st \in Working : Step(w, st, Following[st])
    BY <1>1 DEF Advance
  <2>2. Following[st] \in Working \cup Writing
    BY StageSets DEF Following
  <2> QED  BY <2>1, <2>2, StageSets, StepKeepsInv DEF Promoting
<1>2. CASE StageFails(w)
  <2>1. PICK st \in Working : Step(w, st, "sysfail")
    BY <1>2 DEF StageFails, SystemStages
  <2> QED  BY <2>1, StageSets, StepKeepsInv DEF Promoting
<1>3. CASE FlagsUnreadable(w)
  BY <1>3, StageSets, StepKeepsInv DEF FlagsUnreadable, Promoting
<1>4. CASE SubmitterFails(w)
  BY <1>4, StageSets, StepKeepsInv DEF SubmitterFails, Promoting
<1>5. CASE Finish(w)
  <2>1. /\ stage[w] \in Writing /\ WriteRow(w) /\ Goto(w, AfterWrite[stage[w]])
        /\ UNCHANGED <<catalog, onHold, abandoned>>
    BY <1>5 DEF Finish
  <2>2. /\ AfterWrite[stage[w]] \in Stages
        /\ stage[w] = "record" => AfterWrite[stage[w]] = "gate"
    BY <2>1, StageSets DEF AfterWrite
  <2>3. abandoned \subseteq Submission
    BY DEF PipeInv, WorkerTypeOK
  <2> QED  BY <2>1, <2>2, <2>3, WriteKeepsInv
<1>6. CASE FinishThrows(w)
  <2>1. stage[w] \in Writing /\ UNCHANGED <<catalog, onHold>>
    BY <1>6 DEF FinishThrows
  <2>2. job[w] \in Submission /\ abandoned \subseteq Submission
    BY <2>1, StageSets DEF PipeInv, HandsMatchStage, WorkerTypeOK
  <2>3. CASE stage[w] = "recover"
    <3>1. Goto(w, "idle") /\ abandoned' = abandoned \cup {job[w]}
      BY <1>6, <2>3 DEF FinishThrows
    <3>2. CASE UNCHANGED <<sub, failures>>
      BY <2>1, <2>3, <3>1, <3>2, LetGoKeepsInv
    <3>3. CASE WriteRow(w)
      BY <2>1, <2>2, <2>3, <3>1, <3>3, StageSets, WriteKeepsInv
    <3> QED  BY <1>6, <3>2, <3>3 DEF FinishThrows
  <2>4. CASE stage[w] # "recover"
    <3>1. Goto(w, "recover") /\ UNCHANGED abandoned
      BY <1>6, <2>4 DEF FinishThrows
    <3>2. CASE UNCHANGED <<sub, failures>>
      <4>1. Step(w, stage[w], "recover")
        BY <2>1, <3>1, <3>2 DEF Step
      <4> QED  BY <2>1, <4>1, StageSets, StepKeepsInv DEF Promoting
    <3>3. CASE WriteRow(w)
      BY <2>1, <2>2, <3>1, <3>3, StageSets, WriteKeepsInv
    <3> QED  BY <1>6, <3>2, <3>3 DEF FinishThrows
  <2> QED  BY <2>3, <2>4
<1>7. CASE GatePasses(w)
  BY <1>7, StageSets, StepKeepsInv DEF GatePasses, Promoting
<1>8. CASE GateHolds(w)
  BY <1>8, PlacedKeepsInv DEF GateHolds
<1>9. CASE LookUpSlug(w)
  BY <1>9, StageSets, StepKeepsInv DEF LookUpSlug, Promoting
<1>10. CASE InsertModule(w)
  BY <1>10, PlacedKeepsInv DEF InsertModule
<1>11. CASE PublishThrows(w)
  <2>1. CASE Step(w, "lookup", "recover") \/ Step(w, "insert", "recover")
    BY <2>1, StageSets, StepKeepsInv DEF Promoting
  <2>2. CASE /\ stage[w] = "insert"
             /\ catalog[SlugOf[job[w]]] = NoSub
             /\ catalog' = [catalog EXCEPT ![SlugOf[job[w]]] = job[w]]
             /\ Goto(w, "recover")
             /\ UNCHANGED <<sub, onHold, abandoned, failures>>
    BY <2>2, PlacedKeepsInv
  <2> QED  BY <1>11, <2>1, <2>2 DEF PublishThrows
<1>12. CASE Notify(w)
  BY <1>12, StageSets, StepKeepsInv DEF Notify, Promoting
<1> QED
  BY <1>1, <1>2, <1>3, <1>4, <1>5, <1>6, <1>7, <1>8, <1>9, <1>10, <1>11, <1>12
     DEF Process

LEMMA WorkerStepKeepsIInv ==
    ASSUME IInv, NEW w \in Worker, WorkerStep(w)
    PROVE  IInv'
<1>1. PipeInv
  BY DEF IInv
<1>2. DeskInv'
  BY DEF IInv, WorkerStep, deskVars, DeskInv, DeskTypeOK, DeskMatchesStep
<1> SUFFICES PipeInv'
  BY <1>2 DEF IInv
<1>3. CASE Claim(w, Locked)
  BY <1>1, <1>3, ClaimKeepsInv DEF Claim
<1>4. CASE Process(w)
  BY <1>1, <1>4, ProcessKeepsInv
<1>5. CASE Stop(w) \/ Restart(w)
  BY <1>1, <1>5, StageSets, StepKeepsInv DEF Stop, Restart, Promoting
<1>6. CASE Crash(w)
  <2>1. \/ abandoned' = abandoned \cup {job[w]}
        \/ stage[w] = "notify" /\ abandoned' = abandoned
    BY <1>6 DEF Crash
  <2> QED  BY <1>1, <1>6, <2>1, LetGoKeepsInv DEF Crash
<1> QED  BY <1>3, <1>4, <1>5, <1>6 DEF WorkerStep

LEMMA TimePassesKeepsIInv ==
    ASSUME IInv, NEW s \in Submission, TimePasses(s)
    PROVE  IInv'
<1>1. sub \in [Submission -> Row] /\ PipeInv /\ DeskInv
  BY DEF IInv, PipeInv
<1>2. /\ sub' = [sub EXCEPT ![s].availableAfter = "past"]
      /\ UNCHANGED <<deskVars, workerVars>>
  BY DEF TimePasses, BackoffElapses
<1>3. sub' \in [Submission -> Row]
  BY <1>1, <1>2 DEF Row
<1>4. PipeInv'
  BY <1>1, <1>2, <1>3, RowChangeKeepsInv DEF workerVars, Row, PipeInv, WorkerTypeOK
<1>5. DeskInv'
  BY <1>1, <1>2 DEF deskVars, DeskInv, DeskTypeOK, DeskMatchesStep
<1> QED  BY <1>4, <1>5 DEF IInv

LEMMA NextKeepsIInv == IInv /\ [Next]_vars => IInv'
<1> SUFFICES ASSUME IInv, [Next]_vars PROVE IInv'
  OBVIOUS
<1>1. CASE Next
  BY <1>1, ReviewStepKeepsIInv, WorkerStepKeepsIInv, TimePassesKeepsIInv DEF Next
<1>2. CASE UNCHANGED vars
  BY <1>2 DEF vars, IInv, PipeInv, WorkerTypeOK, HandsMatchStage, BuildingIsHeld,
              BuiltIsAccounted, DeadLetterExhausted, DeskInv, DeskTypeOK, DeskMatchesStep
<1> QED  BY <1>1, <1>2

LEMMA Invariance == Spec => []IInv
BY InitEstablishesIInv, NextKeepsIInv, PTL DEF Spec

----------------------------------------------------------------------------
(* Every variable has its type, in every behaviour of the pipeline.        *)
THEOREM TypeCorrect == Spec => []TypeOK
<1>1. IInv => TypeOK
  BY DEF IInv, PipeInv, DeskInv, TypeOK
<1> QED  BY <1>1, Invariance, PTL

(* No row is left in "building" by a worker that is still running: every   *)
(* way out of every stage of processSubmission writes the row first.       *)
THEOREM NoRowIsForgotten == Spec => []BuildingIsHeld
<1>1. IInv => BuildingIsHeld
  BY DEF IInv, PipeInv
<1> QED  BY <1>1, Invariance, PTL

(* No built row is lost between markBuilt and the catalog.                 *)
THEOREM NoBuildIsLost == Spec => []BuiltIsAccounted
<1>1. IInv => BuiltIsAccounted
  BY DEF IInv, PipeInv
<1> QED  BY <1>1, Invariance, PTL

(* Whatever retryBuild finds dead-lettered has used up its attempts and    *)
(* failed on the system's account, also when decisions overlap.            *)
THEOREM DeadLettersAreExhausted == Spec => []DeadLetterExhausted
<1>1. IInv => DeadLetterExhausted
  BY DEF IInv, PipeInv
<1> QED  BY <1>1, Invariance, PTL

----------------------------------------------------------------------------
(* A catalog entry is never taken over: of two builds of one name that     *)
(* both found it free, the second INSERT does not happen.                  *)
LEMMA CatalogOnlyGrows ==
    ASSUME IInv, Next, NEW g \in Slug, catalog[g] # NoSub
    PROVE  catalog'[g] = catalog[g]
<1>1. CASE \E r \in Reviewer : ReviewStep(r)
  BY <1>1 DEF ReviewStep
<1>2. CASE \E s \in Submission : TimePasses(s)
  BY <1>2 DEF TimePasses, workerVars
<1>3. CASE \E w \in Worker : WorkerStep(w)
  <2> PICK w \in Worker : WorkerStep(w)
    BY <1>3
  <2>1. CASE /\ catalog[SlugOf[job[w]]] = NoSub
             /\ catalog' = [catalog EXCEPT ![SlugOf[job[w]]] = job[w]]
    BY <2>1 DEF IInv, PipeInv, WorkerTypeOK
  <2>2. CASE UNCHANGED catalog
    BY <2>2
  <2>3. ~UNCHANGED catalog => InsertModule(w) \/ PublishThrows(w)
    BY DEF WorkerStep, Claim, ClaimRow, ClaimUnacknowledged, Process, Advance, StageFails,
           FlagsUnreadable, SubmitterFails, Finish, FinishThrows, GatePasses, GateHolds,
           LookUpSlug, Notify, Stop, Crash, Restart, Step
  <2> QED  BY <2>1, <2>2, <2>3 DEF InsertModule, PublishThrows, Step
<1> QED  BY <1>1, <1>2, <1>3 DEF Next

THEOREM PublishedOnce == Spec => FirstPublisherKeepsSlug
<1>1. IInv /\ [Next]_vars =>
         [\A g \in Slug : catalog[g] # NoSub => catalog'[g] = catalog[g]]_vars
  BY CatalogOnlyGrows
<1> QED  BY <1>1, Invariance, PTL DEF Spec, FirstPublisherKeepsSlug

----------------------------------------------------------------------------
(* With the build retired, no worker gets past the build stage.            *)
ReachableWhenRetired ==
    {"down", "idle", "fetch", "build", "nofile", "userfail", "sysfail", "recover", "notify"}

RetiredInv == NothingBuilt /\ \A w \in Worker : stage[w] \in ReachableWhenRetired

LEMMA RetiredStep ==
    ASSUME BuildPathRetired, IInv, RetiredInv, [Next]_vars
    PROVE  RetiredInv'
<1>1. /\ sub \in [Submission -> Row]
      /\ WorkerTypeOK
      /\ HandsMatchStage
      /\ \A w \in Worker : stage[w] \in ReachableWhenRetired
      /\ \A s \in Submission : sub[s].status # "built"
      /\ \A g \in Slug : catalog[g] = NoSub
  BY DEF IInv, PipeInv, RetiredInv, NothingBuilt
<1>2. CASE UNCHANGED vars
  BY <1>2 DEF vars, RetiredInv, NothingBuilt
<1>3. CASE \E r \in Reviewer : ReviewStep(r)
  <2> PICK r \in Reviewer : ReviewStep(r)
    BY <1>3
  <2>1. UNCHANGED <<stage, catalog>>
    BY DEF ReviewStep
  <2>2. CASE Decide(r)
    <3>1. desk[r].row \in Submission /\ desk[r].op \in AllOps
      BY <2>2 DEF Decide, IInv, DeskInv, DeskMatchesStep
    <3>2. Decided(desk[r].op, sub[desk[r].row]).status # "built"
      BY <1>1, <3>1, DecidedRow
    <3>3. \A s \in Submission : sub'[s].status # "built"
      BY <1>1, <2>2, <3>1, <3>2 DEF Decide
    <3> QED  BY <1>1, <2>1, <3>3 DEF RetiredInv, NothingBuilt
  <2>3. CASE UNCHANGED sub
    BY <1>1, <2>1, <2>3 DEF RetiredInv, NothingBuilt
  <2> QED
    BY <2>2, <2>3 DEF ReviewStep, Review, Consider, Audit, RequestDies
<1>4. CASE \E s \in Submission : TimePasses(s)
  <2> PICK s \in Submission : TimePasses(s)
    BY <1>4
  <2>1. /\ sub' = [sub EXCEPT ![s].availableAfter = "past"]
        /\ UNCHANGED workerVars
    BY DEF TimePasses, BackoffElapses
  <2>2. \A t \in Submission : sub'[t].status # "built"
    BY <1>1, <2>1 DEF Row
  <2> QED  BY <1>1, <2>1, <2>2 DEF workerVars, RetiredInv, NothingBuilt
<1>5. CASE \E w \in Worker : WorkerStep(w)
  <2> PICK w \in Worker : WorkerStep(w)
    BY <1>5
  <2>1. stage[w] \in ReachableWhenRetired
    BY <1>1
  <2>2. \A x \in ReachableWhenRetired : Goto(w, x) =>
           \A v \in Worker : stage'[v] \in ReachableWhenRetired
    BY <1>1 DEF Goto, WorkerTypeOK
  <2>3. WriteRow(w) /\ stage[w] \in Writing => \A s \in Submission : sub'[s].status # "built"
    <3> SUFFICES ASSUME WriteRow(w), stage[w] \in Writing, NEW s \in Submission
                 PROVE  sub'[s].status # "built"
      OBVIOUS
    <3> DEFINE row == Written(stage[w], sub[job[w]], snapshot[w])
    <3>1. job[w] \in Submission /\ snapshot[w] \in Nat /\ sub[job[w]] \in Row
      BY <1>1, StageSets DEF HandsMatchStage, WorkerTypeOK
    <3>2. row.status # "built"
      BY <2>1, <3>1, WrittenRow DEF ReachableWhenRetired
    <3>3. sub' = [sub EXCEPT ![job[w]] = row]
      BY DEF WriteRow
    <3> HIDE DEF row
    <3> QED  BY <1>1, <3>1, <3>2, <3>3
  <2>4. CASE Claim(w, Locked)
    <3>1. PICK s \in Submission : ClaimRow(w, s) \/ ClaimUnacknowledged(w, s)
      BY <2>4 DEF Claim
    <3>2. sub' = [sub EXCEPT ![s] = Claimed(sub[s])] /\ UNCHANGED catalog
      BY <3>1 DEF ClaimRow, ClaimUnacknowledged
    <3>3. Claimed(sub[s]) \in Row /\ Claimed(sub[s]).status # "built"
      BY <1>1, ClaimedRow
    <3>4. \A t \in Submission : sub'[t].status # "built"
      BY <1>1, <3>2, <3>3
    <3>5. \A v \in Worker : stage'[v] \in ReachableWhenRetired
      BY <1>1, <3>1 DEF ClaimRow, ClaimUnacknowledged, ReachableWhenRetired, WorkerTypeOK
    <3> QED  BY <1>1, <3>2, <3>4, <3>5 DEF RetiredInv, NothingBuilt
  <2>5. CASE \E from \in Stages, to \in ReachableWhenRetired : Step(w, from, to)
    BY <1>1, <2>2, <2>5 DEF Step, RetiredInv, NothingBuilt
  <2>6. CASE Advance(w)
    <3>1. PICK st \in Working : (st = "build" => ~BuildPathRetired) /\ Step(w, st, Following[st])
      BY <2>6 DEF Advance
    <3>2. st = "fetch"
      BY <2>1, <3>1, StageSets DEF Step, ReachableWhenRetired
    <3>3. Following[st] \in ReachableWhenRetired
      BY <3>2 DEF Following, ReachableWhenRetired
    <3> QED  BY <2>5, <3>1, <3>3, StageSets
  <2>7. CASE StageFails(w) \/ FlagsUnreadable(w) \/ Notify(w) \/ Stop(w) \/ Restart(w)
    BY <2>5, <2>7, StageSets
       DEF StageFails, SystemStages, FlagsUnreadable, Notify, Stop, Restart, ReachableWhenRetired
  <2>8. CASE SubmitterFails(w)
    BY <2>1, <2>5, <2>8, StageSets DEF SubmitterFails, ReachableWhenRetired, Step
  <2>9. CASE Finish(w)
    <3>1. stage[w] \in Writing /\ WriteRow(w) /\ Goto(w, AfterWrite[stage[w]])
          /\ UNCHANGED catalog
      BY <2>9 DEF Finish
    <3>2. AfterWrite[stage[w]] \in ReachableWhenRetired
      BY <2>1, <3>1, StageSets DEF AfterWrite, ReachableWhenRetired
    <3> QED  BY <1>1, <2>2, <2>3, <3>1, <3>2 DEF RetiredInv, NothingBuilt
  <2>10. CASE FinishThrows(w)
    <3>1. stage[w] \in Writing /\ UNCHANGED catalog /\ (UNCHANGED sub \/ WriteRow(w))
      BY <2>10 DEF FinishThrows
    <3>2. PICK x \in ReachableWhenRetired : Goto(w, x)
      BY <2>10 DEF FinishThrows, ReachableWhenRetired
    <3> QED  BY <1>1, <2>2, <2>3, <3>1, <3>2 DEF RetiredInv, NothingBuilt
  <2>11. ~(GatePasses(w) \/ GateHolds(w) \/ LookUpSlug(w) \/ InsertModule(w) \/ PublishThrows(w))
    BY <2>1 DEF GatePasses, GateHolds, LookUpSlug, InsertModule, PublishThrows, Step,
                ReachableWhenRetired
  <2>12. CASE Crash(w)
    BY <1>1, <2>2, <2>12 DEF Crash, ReachableWhenRetired, RetiredInv, NothingBuilt
  <2> QED
    BY <2>4, <2>6, <2>7, <2>8, <2>9, <2>10, <2>11, <2>12 DEF WorkerStep, Process
<1> QED  BY <1>2, <1>3, <1>4, <1>5 DEF Next

(* As the worker ships (ADR-012), no submission is built and none reaches  *)
(* the catalog, whatever fails and however decisions interleave.           *)
THEOREM RetiredMeansNothingBuilt ==
    ASSUME BuildPathRetired
    PROVE  Spec => []NothingBuilt
<1>1. Init => RetiredInv
  BY DEF Init, WorkerInit, NewRow, RetiredInv, NothingBuilt, ReachableWhenRetired
<1>2. IInv /\ IInv' /\ RetiredInv /\ [Next]_vars => RetiredInv'
  BY RetiredStep
<1>3. RetiredInv => NothingBuilt
  BY DEF RetiredInv
<1> QED  BY <1>1, <1>2, <1>3, Invariance, PTL DEF Spec

=============================================================================
