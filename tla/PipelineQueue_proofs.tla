------------------------- MODULE PipelineQueue_proofs ------------------------
(***************************************************************************)
(* What holds of the submission pipeline when its decisions do not         *)
(* overlap and no database call takes effect and throws all the same, for  *)
(* any number of submissions, workers and attempts, with crashes and       *)
(* failing calls: it is the retry queue.  And what holds of the audit      *)
(* trail however decisions overlap, as long as no request dies half-way.   *)
(***************************************************************************)
EXTENDS SubmissionPipeline_proofs

USE SubmissionAssumption, AttemptsAssumption, OpsAssumption, SlugAssumption

\* One decision is in flight at a time.
OneDecision == \A q, r \in Reviewer : q = r

----------------------------------------------------------------------------
(* What a worker's step can do to the table and to its hands: it claims a  *)
(* row, writes the row it holds, or moves on and writes nothing.           *)

\* The statuses of a row that a worker in stage st may find it in.
StatusAt(st) ==
    {"built", "rejected"}
    \cup (IF st \in Working \cup Writing THEN {"building"} ELSE {})
    \cup (IF st = "notify" THEN {"failed", "scan_rejected"} ELSE {})

Claims(w) == \E s \in Submission : Claimable(sub[s]) /\ ClaimRow(w, s)

Writes(w) ==
    /\ stage[w] \in Writing
    /\ WriteRow(w)
    /\ Goto(w, AfterWrite[stage[w]])

MovesTo(w, to) ==
    /\ Goto(w, to)
    /\ stage[w] \in {"idle", "down"} => to \in {"idle", "down"}
    /\ to \notin {"idle", "down"} => StatusAt(stage[w]) \subseteq StatusAt(to)
    /\ UNCHANGED <<sub, failures>>

Moves(w) == \E to \in Stages : MovesTo(w, to)

LEMMA StepMoves ==
    ASSUME NEW w \in Worker, NEW from \in Stages, NEW to \in Stages, Step(w, from, to),
           from \in {"idle", "down"} => to \in {"idle", "down"},
           to \notin {"idle", "down"} => StatusAt(from) \subseteq StatusAt(to)
    PROVE  Moves(w)
BY DEF Step, Moves, MovesTo

LEMMA StatusSets ==
    /\ \A st \in Working \cup Writing : StatusAt(st) = {"built", "rejected", "building"}
    /\ \A st \in {"gate", "lookup", "insert"} : StatusAt(st) = {"built", "rejected"}
    /\ StatusAt("notify") = {"built", "rejected", "failed", "scan_rejected"}
BY StageSets DEF StatusAt

LEMMA WorkerEffect ==
    ASSUME "ack" \notin Faults, NEW w \in Worker, stage[w] \in Stages, WorkerStep(w)
    PROVE  Claims(w) \/ Writes(w) \/ Moves(w)
<1>1. CASE Claim(w, Locked)
  BY <1>1 DEF Claim, OldestClaimable, ClaimUnacknowledged, Claims
<1>2. CASE Advance(w)
  <2>1. PICK st \in Working : Step(w, st, Following[st])
    BY <1>2 DEF Advance
  <2>2. Following[st] \in Working \cup Writing
    BY StageSets DEF Following
  <2> QED  BY <2>1, <2>2, StageSets, StatusSets, StepMoves
<1>3. CASE StageFails(w) \/ FlagsUnreadable(w) \/ SubmitterFails(w)
  <2>1. PICK from \in Working, to \in Writing : Step(w, from, to)
    BY <1>3, StageSets DEF StageFails, SystemStages, FlagsUnreadable, SubmitterFails
  <2> QED  BY <2>1, StageSets, StatusSets, StepMoves
<1>4. CASE Finish(w)
  BY <1>4 DEF Finish, Writes
<1>5. CASE FinishThrows(w)
  <2>1. stage[w] \in Writing /\ UNCHANGED <<sub, failures>>
    BY <1>5 DEF FinishThrows
  <2>2. Goto(w, "idle") \/ Goto(w, "recover")
    BY <1>5 DEF FinishThrows
  <2> QED  BY <2>1, <2>2, StageSets, StatusSets DEF Moves, MovesTo
<1>6. CASE GatePasses(w)
  BY <1>6, StageSets, StatusSets, StepMoves DEF GatePasses
<1>7. CASE GateHolds(w)
  BY <1>7, StageSets, StatusSets DEF GateHolds, Moves, MovesTo
<1>8. CASE LookUpSlug(w)
  BY <1>8, StageSets, StatusSets, StepMoves DEF LookUpSlug
<1>9. CASE InsertModule(w)
  BY <1>9, StageSets, StatusSets DEF InsertModule, Moves, MovesTo
<1>10. CASE PublishThrows(w)
  <2>1. Step(w, "lookup", "recover") \/ Step(w, "insert", "recover")
    BY <1>10 DEF PublishThrows
  <2> QED  BY <2>1, StageSets, StatusSets, StepMoves
<1>11. CASE Notify(w) \/ Stop(w) \/ Restart(w)
  BY <1>11, StageSets, StepMoves DEF Notify, Stop, Restart
<1>12. CASE Crash(w)
  BY <1>12, StageSets DEF Crash, Moves, MovesTo
<1> QED
  BY <1>1, <1>2, <1>3, <1>4, <1>5, <1>6, <1>7, <1>8, <1>9, <1>10, <1>11, <1>12
     DEF WorkerStep, Process

----------------------------------------------------------------------------
(* The invariant of one decision at a time.                                *)

(* A worker's row has a status that its stage can find it in.              *)
HolderFits ==
    \A w \in Worker : job[w] # NoSub => sub[job[w]].status \in StatusAt(stage[w])

(* A decision that was open when the row was read is open when it is       *)
(* written, but for a rejection: a worker may be faster.                   *)
DecisionStands ==
    \A r \in Reviewer :
        desk[r].step = "update" =>
            desk[r].op = "reject" \/ Decidable(desk[r].op, sub[desk[r].row])

(* The count that the worker read when it claimed the row is still the     *)
(* row's, and leaves it an attempt.                                        *)
SnapshotIsCurrent ==
    \A w \in Worker :
        job[w] # NoSub => /\ snapshot[w] = sub[job[w]].attemptCount
                          /\ snapshot[w] < MaxTotalAttempts

FailedIsSubmitters ==
    \A s \in Submission : sub[s].status = "failed" => sub[s].buildErrorKind = "user"

WaitingIsUntried ==
    \A s \in Submission :
        sub[s].status \in {"pending", "changes_requested"} => sub[s].attemptCount = 0

\* The part about rows and their holders, and the part about the counts.
HolderInv == SingleHolder /\ HolderFits /\ DecisionStands /\ FailedIsSubmitters
CountInv  == SnapshotIsCurrent /\ WaitingIsUntried /\ AttemptCountIsFailures

SerialInv == HolderInv /\ CountInv

(* A claim takes a row that no worker holds, for no row in hand has the    *)
(* status "approved".                                                      *)
LEMMA ClaimKeepsSerial ==
    ASSUME IInv, SerialInv, NEW w \in Worker, Claims(w), UNCHANGED deskVars
    PROVE  SerialInv'
<1>1. PICK s \in Submission : Claimable(sub[s]) /\ ClaimRow(w, s)
  BY DEF Claims
<1>2. /\ sub \in [Submission -> Row] /\ WorkerTypeOK /\ HandsMatchStage
      /\ desk \in [Reviewer -> DeskState] /\ DeskMatchesStep
  BY DEF IInv, PipeInv, DeskInv, DeskTypeOK
<1>3. /\ sub[s].status = "approved"
      /\ sub[s] \in Row
      /\ sub[s].attemptCount < MaxTotalAttempts
  BY <1>1, <1>2 DEF Claimable, SerialInv, CountInv, AttemptCountIsFailures
<1>4. /\ sub' = [sub EXCEPT ![s] = [sub[s] EXCEPT !.status = "building"]]
      /\ stage' = [stage EXCEPT ![w] = "fetch"]
      /\ job' = [job EXCEPT ![w] = s]
      /\ snapshot' = [snapshot EXCEPT ![w] = sub[s].attemptCount]
      /\ UNCHANGED <<failures, desk>>
  BY <1>1 DEF ClaimRow, Claimed, deskVars
<1>5. /\ sub'[s].status = "building"
      /\ sub'[s].attemptCount = sub[s].attemptCount
      /\ \A t \in Submission \ {s} : sub'[t] = sub[t]
  BY <1>2, <1>3, <1>4 DEF Row
<1>6. /\ job'[w] = s /\ stage'[w] = "fetch" /\ snapshot'[w] = sub[s].attemptCount
      /\ \A v \in Worker \ {w} :
            job'[v] = job[v] /\ stage'[v] = stage[v] /\ snapshot'[v] = snapshot[v]
  BY <1>2, <1>4 DEF WorkerTypeOK
<1>7. \A v \in Worker : job[v] # s
  <2> SUFFICES ASSUME NEW v \in Worker, job[v] = s
               PROVE  FALSE
    OBVIOUS
  <2>1. s # NoSub
    BY DEF NoSub
  <2>2. sub[s].status \in StatusAt(stage[v])
    BY <2>1 DEF SerialInv, HolderInv, HolderFits
  <2> QED  BY <1>3, <2>2 DEF StatusAt
<1>8. SingleHolder'
  BY <1>6, <1>7 DEF SerialInv, HolderInv, SingleHolder
<1>9. HolderFits'
  <2> SUFFICES ASSUME NEW v \in Worker, job'[v] # NoSub
               PROVE  sub'[job'[v]].status \in StatusAt(stage'[v])
    BY DEF HolderFits
  <2>1. CASE v = w
    BY <1>5, <1>6, <2>1, StageSets, StatusSets
  <2>2. CASE v # w
    <3>1. job[v] \in Submission \ {s}
      BY <1>2, <1>6, <1>7, <2>2 DEF WorkerTypeOK
    <3> QED  BY <1>5, <1>6, <2>2, <3>1 DEF SerialInv, HolderInv, HolderFits
  <2> QED  BY <2>1, <2>2
<1>10. DecisionStands'
  <2> SUFFICES ASSUME NEW r \in Reviewer, desk[r].step = "update", desk[r].op # "reject"
               PROVE  Decidable(desk[r].op, sub'[desk[r].row])
    BY <1>4 DEF DecisionStands
  <2>1. desk[r].row \in Submission /\ desk[r].op \in AllOps
    BY <1>2 DEF DeskMatchesStep
  <2>2. Decidable(desk[r].op, sub[desk[r].row])
    BY DEF SerialInv, HolderInv, DecisionStands
  <2>3. desk[r].row # s
    BY <1>3, <2>1, <2>2 DEF Decidable, AllOps
  <2> QED  BY <1>5, <2>1, <2>2, <2>3
<1>11. FailedIsSubmitters' /\ WaitingIsUntried'
  BY <1>5 DEF SerialInv, HolderInv, CountInv, FailedIsSubmitters, WaitingIsUntried
<1>12. AttemptCountIsFailures'
  BY <1>3, <1>4, <1>5 DEF SerialInv, CountInv, AttemptCountIsFailures
<1>13. SnapshotIsCurrent'
  <2> SUFFICES ASSUME NEW v \in Worker, job'[v] # NoSub
               PROVE  /\ snapshot'[v] = sub'[job'[v]].attemptCount
                      /\ snapshot'[v] < MaxTotalAttempts
    BY DEF SnapshotIsCurrent
  <2>1. CASE v = w
    BY <1>3, <1>5, <1>6, <2>1
  <2>2. CASE v # w
    <3>1. job[v] \in Submission \ {s}
      BY <1>2, <1>6, <1>7, <2>2 DEF WorkerTypeOK
    <3> QED  BY <1>5, <1>6, <2>2, <3>1 DEF SerialInv, CountInv, SnapshotIsCurrent
  <2> QED  BY <2>1, <2>2
<1> QED  BY <1>8, <1>9, <1>10, <1>11, <1>12, <1>13 DEF SerialInv, HolderInv, CountInv

(* Moving a worker changes nobody else's hands.                            *)
LEMMA GotoMoves ==
    ASSUME IInv, NEW w \in Worker, NEW to \in Stages, Goto(w, to)
    PROVE  /\ stage'[w] = to
           /\ to \in {"idle", "down"} => job'[w] = NoSub
           /\ to \notin {"idle", "down"} => job'[w] = job[w] /\ snapshot'[w] = snapshot[w]
           /\ \A v \in Worker \ {w} :
                 job'[v] = job[v] /\ stage'[v] = stage[v] /\ snapshot'[v] = snapshot[v]
<1>1. WorkerTypeOK
  BY DEF IInv, PipeInv
<1>2. CASE to \in {"idle", "down"}
  BY <1>1, <1>2 DEF Goto, WorkerTypeOK
<1>3. CASE to \notin {"idle", "down"}
  BY <1>1, <1>3 DEF Goto, WorkerTypeOK
<1> QED  BY <1>2, <1>3

LEMMA MoveKeepsSerial ==
    ASSUME IInv, SerialInv, NEW w \in Worker, Moves(w), UNCHANGED deskVars
    PROVE  SerialInv'
<1>1. PICK to \in Stages : MovesTo(w, to)
  BY DEF Moves
<1>2. /\ stage'[w] = to
      /\ to \in {"idle", "down"} => job'[w] = NoSub
      /\ to \notin {"idle", "down"} => job'[w] = job[w] /\ snapshot'[w] = snapshot[w]
      /\ \A v \in Worker \ {w} :
            job'[v] = job[v] /\ stage'[v] = stage[v] /\ snapshot'[v] = snapshot[v]
  BY <1>1, GotoMoves DEF MovesTo
<1>3. /\ to \notin {"idle", "down"} => StatusAt(stage[w]) \subseteq StatusAt(to)
      /\ UNCHANGED <<sub, failures, desk>>
  BY <1>1 DEF MovesTo, deskVars
<1>4. SingleHolder'
  BY <1>2 DEF SerialInv, HolderInv, SingleHolder
<1>5. HolderFits'
  BY <1>2, <1>3 DEF SerialInv, HolderInv, HolderFits
<1>6. DecisionStands' /\ FailedIsSubmitters' /\ WaitingIsUntried' /\ AttemptCountIsFailures'
  BY <1>3 DEF SerialInv, HolderInv, CountInv, DecisionStands, FailedIsSubmitters,
              WaitingIsUntried, AttemptCountIsFailures
<1>7. SnapshotIsCurrent'
  BY <1>2, <1>3 DEF SerialInv, CountInv, SnapshotIsCurrent
<1> QED  BY <1>4, <1>5, <1>6, <1>7 DEF SerialInv, HolderInv, CountInv

(* What a terminal write makes of a row, by the stage that leads to it.    *)
LEMMA WrittenCases ==
    ASSUME NEW row \in Row, NEW snap \in Nat
    PROVE  /\ \A st \in {"nofile", "userfail"} :
                 /\ Written(st, row, snap).status = "failed"
                 /\ Written(st, row, snap).buildErrorKind = "user"
                 /\ Written(st, row, snap).attemptCount = row.attemptCount
           /\ Written("scanfail", row, snap).status = "scan_rejected"
           /\ Written("scanfail", row, snap).attemptCount = row.attemptCount
           /\ Written("record", row, snap).status = "built"
           /\ Written("record", row, snap).attemptCount = row.attemptCount
           /\ \A st \in {"sysfail", "recover"} :
                 /\ Written(st, row, snap).attemptCount = snap + 1
                 /\ \/ /\ snap + 1 >= MaxTotalAttempts
                       /\ Written(st, row, snap).status = "worker_failures"
                    \/ /\ snap + 1 < MaxTotalAttempts
                       /\ Written(st, row, snap).status = "approved"
<1>1. \A st \in {"nofile", "userfail"} : Written(st, row, snap) = Failed(row, "user")
  BY DEF Written
<1>2. Written("scanfail", row, snap) = Failed(row, "scan")
  BY DEF Written
<1>3. Written("record", row, snap) = Built(row)
  BY DEF Written
<1>4. ASSUME NEW st \in {"sysfail", "recover"}
      PROVE  Written(st, row, snap) = IF snap + 1 >= MaxTotalAttempts
                                      THEN DeadLettered(row, snap + 1)
                                      ELSE Requeued(row, snap + 1)
  BY DEF Written, FailedOrRetry
<1>5. /\ Failed(row, "user").status = "failed" /\ Failed(row, "user").buildErrorKind = "user"
      /\ Failed(row, "user").attemptCount = row.attemptCount
      /\ Failed(row, "scan").status = "scan_rejected"
      /\ Failed(row, "scan").attemptCount = row.attemptCount
      /\ Built(row).status = "built" /\ Built(row).attemptCount = row.attemptCount
  BY DEF Failed, Built, Row
<1>6. /\ Requeued(row, snap + 1).status = "approved"
      /\ Requeued(row, snap + 1).attemptCount = snap + 1
      /\ DeadLettered(row, snap + 1).status = "worker_failures"
      /\ DeadLettered(row, snap + 1).attemptCount = snap + 1
  BY DEF Requeued, DeadLettered, Row
<1> QED  BY <1>1, <1>2, <1>3, <1>4, <1>5, <1>6

(* A write finds the row as its stage expects it, so no decision but a     *)
(* rejection can be under way on it, and no other worker is on it.         *)
LEMMA WriteKeepsSerial ==
    ASSUME IInv, SerialInv, NEW w \in Worker, Writes(w), UNCHANGED deskVars
    PROVE  SerialInv'
<1> DEFINE s    == job[w]
           st   == stage[w]
           row  == Written(st, sub[s], snapshot[w])
           next == AfterWrite[st]
<1>1. /\ sub \in [Submission -> Row] /\ WorkerTypeOK /\ HandsMatchStage
      /\ desk \in [Reviewer -> DeskState] /\ DeskMatchesStep
  BY DEF IInv, PipeInv, DeskInv, DeskTypeOK
<1>2. /\ st \in Writing /\ next \in Stages
      /\ s \in Submission /\ s # NoSub /\ sub[s] \in Row /\ snapshot[w] \in Nat
  <2>1. st \in Writing
    BY DEF Writes
  <2>2. next \in Stages
    BY <2>1, StageSets DEF AfterWrite
  <2>3. st \notin {"idle", "down"}
    BY <2>1, StageSets
  <2>4. s # NoSub /\ s \in Submission
    BY <1>1, <2>3 DEF HandsMatchStage, WorkerTypeOK
  <2> QED  BY <1>1, <2>1, <2>2, <2>4 DEF WorkerTypeOK
<1>3. /\ sub' = [sub EXCEPT ![s] = row]
      /\ failures' = IF st \in {"sysfail", "recover"}
                     THEN [failures EXCEPT ![s] = @ + 1] ELSE failures
      /\ UNCHANGED desk
  BY DEF Writes, WriteRow, deskVars
<1>4. /\ sub[s].status \in {"built", "rejected", "building"}
      /\ snapshot[w] = sub[s].attemptCount
      /\ snapshot[w] < MaxTotalAttempts
      /\ sub[s].attemptCount = failures[s]
  BY <1>2, StatusSets
     DEF SerialInv, HolderInv, CountInv, HolderFits, SnapshotIsCurrent, AttemptCountIsFailures
<1>5. /\ sub'[s] = row
      /\ \A t \in Submission \ {s} : sub'[t] = sub[t]
  BY <1>1, <1>2, <1>3
<1>6. /\ stage'[w] = next
      /\ next \in {"idle", "down"} => job'[w] = NoSub
      /\ next \notin {"idle", "down"} => job'[w] = s /\ snapshot'[w] = snapshot[w]
      /\ \A v \in Worker \ {w} :
            job'[v] = job[v] /\ stage'[v] = stage[v] /\ snapshot'[v] = snapshot[v]
  BY <1>2, GotoMoves DEF Writes
<1>7. \/ st \in {"nofile", "userfail"} /\ row.status = "failed" /\ row.buildErrorKind = "user"
                                       /\ row.attemptCount = sub[s].attemptCount
      \/ st = "scanfail" /\ row.status = "scan_rejected"
                         /\ row.attemptCount = sub[s].attemptCount
      \/ st = "record" /\ row.status = "built" /\ row.attemptCount = sub[s].attemptCount
      \/ /\ st \in {"sysfail", "recover"}
         /\ row.attemptCount = snapshot[w] + 1
         /\ \/ snapshot[w] + 1 >= MaxTotalAttempts /\ row.status = "worker_failures"
            \/ snapshot[w] + 1 < MaxTotalAttempts /\ row.status = "approved"
  BY <1>2, WrittenCases, StageSets
<1>8. /\ st \in {"nofile", "sysfail", "recover"} => next = "idle"
      /\ st \in {"userfail", "scanfail"} => next = "notify"
      /\ st = "record" => next = "gate"
  BY DEF AfterWrite
<1>9. /\ \A t \in Submission \ {s} : failures'[t] = failures[t]
      /\ st \in {"sysfail", "recover"} => failures'[s] = failures[s] + 1
      /\ st \notin {"sysfail", "recover"} => failures'[s] = failures[s]
  <2>1. failures \in [Submission -> Nat]
    BY <1>1 DEF WorkerTypeOK
  <2> QED  BY <1>2, <1>3, <2>1
<1>10. \A v \in Worker \ {w} : job[v] # NoSub => job[v] \in Submission \ {s}
  BY <1>1, <1>2 DEF SerialInv, HolderInv, SingleHolder, WorkerTypeOK
<1> HIDE DEF row, next, s, st
<1>11. SingleHolder'
  BY <1>6, <1>10 DEF SerialInv, HolderInv, SingleHolder, s
<1>12. HolderFits'
  <2> SUFFICES ASSUME NEW v \in Worker, job'[v] # NoSub
               PROVE  sub'[job'[v]].status \in StatusAt(stage'[v])
    BY DEF HolderFits
  <2>1. CASE v = w
    <3>1. next \notin {"idle", "down"} /\ job'[v] = s /\ stage'[v] = next
      BY <1>6, <2>1
    <3>2. st \in {"userfail", "scanfail", "record"}
      BY <1>2, <1>8, <3>1, StageSets
    <3> QED  BY <1>5, <1>7, <1>8, <3>1, <3>2, StatusSets
  <2>2. CASE v # w
    BY <1>5, <1>6, <1>10, <2>2 DEF SerialInv, HolderInv, HolderFits
  <2> QED  BY <2>1, <2>2
<1>13. DecisionStands'
  <2> SUFFICES ASSUME NEW r \in Reviewer, desk[r].step = "update", desk[r].op # "reject"
               PROVE  Decidable(desk[r].op, sub'[desk[r].row])
    BY <1>3 DEF DecisionStands
  <2>1. desk[r].row \in Submission /\ desk[r].op \in AllOps
    BY <1>1 DEF DeskMatchesStep
  <2>2. Decidable(desk[r].op, sub[desk[r].row])
    BY DEF SerialInv, HolderInv, DecisionStands
  <2>3. desk[r].row # s
    BY <1>4, <2>1, <2>2 DEF Decidable, AllOps
  <2> QED  BY <1>5, <2>1, <2>2, <2>3
<1>14. FailedIsSubmitters' /\ WaitingIsUntried'
  BY <1>5, <1>7 DEF SerialInv, HolderInv, CountInv, FailedIsSubmitters, WaitingIsUntried
<1>15. AttemptCountIsFailures'
  <2> SUFFICES ASSUME NEW t \in Submission
               PROVE  /\ sub'[t].attemptCount = failures'[t]
                      /\ sub'[t].attemptCount <= MaxTotalAttempts
                      /\ sub'[t].status \in {"approved", "building"}
                            => failures'[t] < MaxTotalAttempts
    BY DEF AttemptCountIsFailures
  <2>1. CASE t = s
    BY <1>2, <1>4, <1>5, <1>7, <1>9, <2>1
  <2>2. CASE t # s
    BY <1>5, <1>9, <2>2 DEF SerialInv, CountInv, AttemptCountIsFailures
  <2> QED  BY <2>1, <2>2
<1>16. SnapshotIsCurrent'
  <2> SUFFICES ASSUME NEW v \in Worker, job'[v] # NoSub
               PROVE  /\ snapshot'[v] = sub'[job'[v]].attemptCount
                      /\ snapshot'[v] < MaxTotalAttempts
    BY DEF SnapshotIsCurrent
  <2>1. CASE v = w
    <3>1. next \notin {"idle", "down"} /\ job'[v] = s /\ snapshot'[v] = snapshot[w]
      BY <1>6, <2>1
    <3>2. st \notin {"sysfail", "recover"}
      BY <1>8, <3>1
    <3> QED  BY <1>4, <1>5, <1>7, <3>1, <3>2
  <2>2. CASE v # w
    <3>1. job'[v] = job[v] /\ snapshot'[v] = snapshot[v] /\ job[v] # NoSub
      BY <1>6, <2>2
    <3>2. sub'[job[v]] = sub[job[v]]
      BY <1>5, <1>10, <2>2, <3>1
    <3>3. snapshot[v] = sub[job[v]].attemptCount /\ snapshot[v] < MaxTotalAttempts
      BY <3>1 DEF SerialInv, CountInv, SnapshotIsCurrent
    <3> QED  BY <3>1, <3>2, <3>3
  <2> QED  BY <2>1, <2>2
<1> QED
  BY <1>11, <1>12, <1>13, <1>14, <1>15, <1>16 DEF SerialInv, HolderInv, CountInv

LEMMA WorkerStepKeepsSerial ==
    ASSUME "ack" \notin Faults, IInv, SerialInv, NEW w \in Worker, WorkerStep(w)
    PROVE  SerialInv'
<1>1. stage[w] \in Stages
  BY DEF IInv, PipeInv, WorkerTypeOK
<1>2. UNCHANGED deskVars
  BY DEF WorkerStep
<1> QED
  BY <1>1, <1>2, WorkerEffect, ClaimKeepsSerial, WriteKeepsSerial, MoveKeepsSerial

(* What a decision that still stands makes of its row, which no worker     *)
(* holds unless the decision is a rejection.                               *)
DecisionMakes(op, old, row) ==
    \/ /\ op = "reject"
       /\ row.status = "rejected"
       /\ row.attemptCount = old.attemptCount
    \/ /\ op \in {"approve", "request_changes"}
       /\ old.status \in {"pending", "changes_requested"}
       /\ op = "request_changes" => old.status = "pending"
       /\ row.status = IF op = "approve" THEN "approved" ELSE "changes_requested"
       /\ row.attemptCount = 0
       /\ old.attemptCount = 0
    \/ /\ op = "retry"
       /\ old.status = "worker_failures"
       /\ row.status = "approved"
       /\ row.attemptCount = 0

LEMMA StandingDecision ==
    ASSUME IInv, SerialInv, NEW r \in Reviewer, desk[r].step = "update",
           NEW s \in Submission, s = desk[r].row
    PROVE  DecisionMakes(desk[r].op, sub[s], Decided(desk[r].op, sub[s]))
<1> DEFINE row == Decided(desk[r].op, sub[s])
<1> USE DEF DecisionMakes
<1>1. sub[s] \in Row /\ desk[r].op \in AllOps
  BY DEF IInv, PipeInv, DeskInv, DeskMatchesStep
<1>2. desk[r].op = "reject" \/ Decidable(desk[r].op, sub[s])
  BY DEF SerialInv, HolderInv, DecisionStands
<1>3. CASE desk[r].op = "reject"
  BY <1>1, <1>3 DEF Decided, Row
<1>4. CASE desk[r].op = "approve"
  <2>1. sub[s].status \in {"pending", "changes_requested"}
    BY <1>2, <1>4 DEF Decidable
  <2>2. row = [sub[s] EXCEPT !.status = "approved"]
    BY <1>4 DEF Decided
  <2> QED  BY <1>1, <1>4, <2>1, <2>2 DEF SerialInv, CountInv, WaitingIsUntried, Row
<1>5. CASE desk[r].op = "request_changes"
  <2>1. sub[s].status = "pending"
    BY <1>2, <1>5 DEF Decidable
  <2>2. row = [sub[s] EXCEPT !.status = "changes_requested"]
    BY <1>5 DEF Decided
  <2> QED  BY <1>1, <1>5, <2>1, <2>2 DEF SerialInv, CountInv, WaitingIsUntried, Row
<1>6. CASE desk[r].op = "retry"
  <2>1. sub[s].status = "worker_failures"
    BY <1>2, <1>6 DEF Decidable, SerialInv, HolderInv, FailedIsSubmitters
  <2>2. row = Retried(sub[s])
    BY <1>6 DEF Decided
  <2> QED  BY <1>1, <1>6, <2>1, <2>2 DEF Retried, Row
<1> QED  BY <1>1, <1>3, <1>4, <1>5, <1>6 DEF AllOps

LEMMA DecideKeepsSerial ==
    ASSUME OneDecision, IInv, SerialInv, NEW r \in Reviewer, ReviewStep(r), Decide(r)
    PROVE  SerialInv'
<1> DEFINE s   == desk[r].row
           row == Decided(desk[r].op, sub[s])
<1>1. /\ sub \in [Submission -> Row] /\ WorkerTypeOK
      /\ desk \in [Reviewer -> DeskState] /\ DeskMatchesStep
  BY DEF IInv, PipeInv, DeskInv, DeskTypeOK
<1>2. /\ desk[r].step = "update"
      /\ s \in Submission /\ desk[r].op \in AllOps
      /\ sub' = [sub EXCEPT ![s] = row]
      /\ desk' = [desk EXCEPT ![r].step = "audit"]
      /\ UNCHANGED <<stage, job, snapshot>>
  BY <1>1 DEF Decide, DeskMatchesStep, ReviewStep
<1>3. desk'[r].step = "audit"
  BY <1>1, <1>2 DEF DeskState
<1>4. /\ \A t \in Submission \ {s} : failures'[t] = failures[t]
      /\ failures'[s] = IF desk[r].op = "retry" THEN 0 ELSE failures[s]
  BY <1>2, <1>3 DEF ReviewStep
<1>5. \/ /\ desk[r].op = "reject"
         /\ row.status = "rejected"
         /\ row.attemptCount = sub[s].attemptCount
      \/ /\ desk[r].op \in {"approve", "request_changes"}
         /\ sub[s].status \in {"pending", "changes_requested"}
         /\ row.status = IF desk[r].op = "approve" THEN "approved" ELSE "changes_requested"
         /\ row.attemptCount = 0
         /\ sub[s].attemptCount = 0
      \/ /\ desk[r].op = "retry"
         /\ sub[s].status = "worker_failures"
         /\ row.status = "approved"
         /\ row.attemptCount = 0
  <2>1. DecisionMakes(desk[r].op, sub[s], row)
    BY <1>2, StandingDecision
  <2> QED  BY <2>1 DEF DecisionMakes
<1> HIDE DEF row, s
<1>6. /\ sub'[s] = row
      /\ \A t \in Submission \ {s} : sub'[t] = sub[t]
  BY <1>1, <1>2
<1>7. \A w \in Worker : job[w] = s => desk[r].op = "reject"
  <2> SUFFICES ASSUME NEW w \in Worker, job[w] = s, desk[r].op # "reject"
               PROVE  FALSE
    OBVIOUS
  <2>1. sub[s].status \in StatusAt(stage[w])
    BY <1>2 DEF SerialInv, HolderInv, HolderFits, NoSub
  <2> QED  BY <1>5, <2>1 DEF StatusAt
<1>8. SingleHolder'
  BY <1>2 DEF SerialInv, HolderInv, SingleHolder
<1>9. HolderFits'
  <2> SUFFICES ASSUME NEW w \in Worker, job[w] # NoSub
               PROVE  sub'[job[w]].status \in StatusAt(stage[w])
    BY <1>2 DEF HolderFits
  <2>1. job[w] \in Submission
    BY <1>1 DEF WorkerTypeOK
  <2>2. CASE job[w] = s
    BY <1>5, <1>6, <1>7, <2>2 DEF StatusAt
  <2>3. CASE job[w] # s
    BY <1>6, <2>1, <2>3 DEF SerialInv, HolderInv, HolderFits
  <2> QED  BY <2>2, <2>3
<1>10. DecisionStands'
  BY <1>3 DEF OneDecision, DecisionStands
<1>11. FailedIsSubmitters' /\ WaitingIsUntried'
  BY <1>5, <1>6 DEF SerialInv, HolderInv, CountInv, FailedIsSubmitters, WaitingIsUntried
<1>12. AttemptCountIsFailures'
  <2> SUFFICES ASSUME NEW t \in Submission
               PROVE  /\ sub'[t].attemptCount = failures'[t]
                      /\ sub'[t].attemptCount <= MaxTotalAttempts
                      /\ sub'[t].status \in {"approved", "building"}
                            => failures'[t] < MaxTotalAttempts
    BY DEF AttemptCountIsFailures
  <2>1. CASE t = s
    BY <1>4, <1>5, <1>6, <2>1 DEF SerialInv, CountInv, AttemptCountIsFailures
  <2>2. CASE t # s
    BY <1>4, <1>6, <2>2 DEF SerialInv, CountInv, AttemptCountIsFailures
  <2> QED  BY <2>1, <2>2
<1>13. SnapshotIsCurrent'
  <2> SUFFICES ASSUME NEW w \in Worker, job[w] # NoSub
               PROVE  /\ snapshot[w] = sub'[job[w]].attemptCount
                      /\ snapshot[w] < MaxTotalAttempts
    BY <1>2 DEF SnapshotIsCurrent
  <2>1. job[w] \in Submission
    BY <1>1 DEF WorkerTypeOK
  <2>2. CASE job[w] = s
    BY <1>5, <1>6, <1>7, <2>2 DEF SerialInv, CountInv, SnapshotIsCurrent
  <2>3. CASE job[w] # s
    BY <1>6, <2>1, <2>3 DEF SerialInv, CountInv, SnapshotIsCurrent
  <2> QED  BY <2>2, <2>3
<1> QED  BY <1>8, <1>9, <1>10, <1>11, <1>12, <1>13 DEF SerialInv, HolderInv, CountInv

(* The steps of the desk that leave the table alone, and the clock.        *)
LEMMA RestKeepsSerial ==
    ASSUME IInv, SerialInv, sub' \in [Submission -> Row],
           \A s \in Submission : /\ sub'[s].status = sub[s].status
                                 /\ sub'[s].attemptCount = sub[s].attemptCount
                                 /\ sub'[s].buildErrorKind = sub[s].buildErrorKind
                                 /\ failures'[s] = failures[s],
           UNCHANGED <<stage, job, snapshot>>, DecisionStands'
    PROVE  SerialInv'
<1>1. WorkerTypeOK
  BY DEF IInv, PipeInv
<1>2. SingleHolder' /\ FailedIsSubmitters' /\ WaitingIsUntried' /\ AttemptCountIsFailures'
  BY DEF SerialInv, HolderInv, CountInv, SingleHolder, FailedIsSubmitters, WaitingIsUntried,
         AttemptCountIsFailures
<1>3. \A w \in Worker : job[w] # NoSub => job[w] \in Submission
  BY <1>1 DEF WorkerTypeOK
<1>4. HolderFits'
  BY <1>3 DEF SerialInv, HolderInv, HolderFits
<1>5. SnapshotIsCurrent'
  BY <1>3 DEF SerialInv, CountInv, SnapshotIsCurrent
<1> QED  BY <1>2, <1>4, <1>5 DEF SerialInv, HolderInv, CountInv

LEMMA ReviewStepKeepsSerial ==
    ASSUME OneDecision, IInv, SerialInv, NEW r \in Reviewer, ReviewStep(r)
    PROVE  SerialInv'
<1>1. /\ sub \in [Submission -> Row] /\ desk \in [Reviewer -> DeskState]
      /\ UNCHANGED <<stage, job, snapshot>>
  BY DEF IInv, PipeInv, DeskInv, DeskTypeOK, ReviewStep
<1>2. CASE \E op \in Ops, s \in Submission : Consider(r, op, s)
  <2> PICK op \in Ops, s \in Submission : Consider(r, op, s)
    BY <1>2
  <2>1. /\ desk[r].step = "idle"
        /\ Decidable(op, sub[s])
        /\ desk' = [desk EXCEPT ![r] = [step |-> "update", op |-> op, row |-> s]]
        /\ UNCHANGED sub
    BY DEF Consider
  <2>2. DecisionStands'
    BY <1>1, <2>1 DEF DecisionStands, SerialInv, HolderInv
  <2>3. \A t \in Submission : failures'[t] = failures[t]
    BY <2>1 DEF ReviewStep
  <2> QED  BY <1>1, <2>1, <2>2, <2>3, RestKeepsSerial
<1>3. CASE Decide(r)
  BY <1>3, DecideKeepsSerial
<1>4. CASE Audit(r) \/ RequestDies(r)
  <2>1. desk' = [desk EXCEPT ![r] = AtRest] /\ UNCHANGED sub
    BY <1>4 DEF Audit, RequestDies
  <2>2. desk'[r].step = "idle"
    BY <1>1, <2>1 DEF AtRest
  <2>3. DecisionStands'
    BY <1>1, <2>1, <2>2 DEF DecisionStands, SerialInv, HolderInv
  <2>4. \A t \in Submission : failures'[t] = failures[t]
    BY <2>2 DEF ReviewStep
  <2> QED  BY <1>1, <2>1, <2>3, <2>4, RestKeepsSerial
<1> QED  BY <1>2, <1>3, <1>4 DEF ReviewStep, Review

LEMMA TimePassesKeepsSerial ==
    ASSUME IInv, SerialInv, NEW s \in Submission, TimePasses(s)
    PROVE  SerialInv'
<1>1. /\ sub \in [Submission -> Row]
      /\ sub' = [sub EXCEPT ![s].availableAfter = "past"]
      /\ UNCHANGED <<deskVars, workerVars>>
  BY DEF IInv, PipeInv, TimePasses, BackoffElapses
<1>2. sub' \in [Submission -> Row]
  BY <1>1 DEF Row
<1>3. \A t \in Submission : /\ sub'[t].status = sub[t].status
                            /\ sub'[t].attemptCount = sub[t].attemptCount
                            /\ sub'[t].buildErrorKind = sub[t].buildErrorKind
  BY <1>1 DEF Row
<1>4. DecisionStands'
  <2> SUFFICES ASSUME NEW r \in Reviewer, desk[r].step = "update", desk[r].op # "reject"
               PROVE  Decidable(desk[r].op, sub'[desk[r].row])
    BY <1>1 DEF DecisionStands, deskVars
  <2>1. desk[r].row \in Submission /\ desk[r].op \in AllOps
    BY DEF IInv, DeskInv, DeskMatchesStep
  <2>2. Decidable(desk[r].op, sub[desk[r].row])
    BY DEF SerialInv, HolderInv, DecisionStands
  <2> QED  BY <1>3, <2>1, <2>2 DEF Decidable, AllOps
<1> QED  BY <1>1, <1>2, <1>3, <1>4, RestKeepsSerial DEF workerVars

LEMMA SerialStep ==
    ASSUME OneDecision, "ack" \notin Faults, IInv, SerialInv, [Next]_vars
    PROVE  SerialInv'
<1>1. CASE Next
  BY <1>1, ReviewStepKeepsSerial, WorkerStepKeepsSerial, TimePassesKeepsSerial DEF Next
<1>2. CASE UNCHANGED vars
  BY <1>2
     DEF vars, SerialInv, HolderInv, CountInv, SingleHolder, HolderFits, DecisionStands,
         FailedIsSubmitters, WaitingIsUntried, AttemptCountIsFailures, SnapshotIsCurrent
<1> QED  BY <1>1, <1>2

LEMMA SerialStart == Init => SerialInv
<1> SUFFICES ASSUME Init
             PROVE  SerialInv
  OBVIOUS
<1>1. /\ \A w \in Worker : job[w] = NoSub
      /\ \A r \in Reviewer : desk[r].step = "idle"
      /\ \A s \in Submission : /\ sub[s].status = "pending"
                               /\ sub[s].attemptCount = 0 /\ failures[s] = 0
  BY DEF Init, WorkerInit, DeskInit, AtRest, NewRow
<1> QED
  BY <1>1 DEF SerialInv, HolderInv, CountInv, SingleHolder, HolderFits, DecisionStands,
              FailedIsSubmitters, WaitingIsUntried, AttemptCountIsFailures, SnapshotIsCurrent

LEMMA SerialInvariance ==
    ASSUME OneDecision, "ack" \notin Faults
    PROVE  Spec => []SerialInv
<1>1. IInv /\ SerialInv /\ [Next]_vars => SerialInv'
  BY SerialStep
<1> QED  BY <1>1, SerialStart, Invariance, PTL DEF Spec

----------------------------------------------------------------------------
(* A claimed row belongs to one worker until that worker has written it or *)
(* was cut short: SKIP LOCKED and the status keep the others away.         *)
THEOREM ClaimsAreExclusive ==
    ASSUME OneDecision, "ack" \notin Faults
    PROVE  Spec => []SingleHolder
<1>1. SerialInv => SingleHolder
  BY DEF SerialInv, HolderInv
<1> QED  BY <1>1, SerialInvariance, PTL

(* The attempt count, written from a snapshot that is minutes old, is the  *)
(* number of system failures since the last reset, and a row that may run  *)
(* has an attempt left (db.ts, markFailedOrRetry).                         *)
THEOREM AttemptsAreCounted ==
    ASSUME OneDecision, "ack" \notin Faults
    PROVE  Spec => []AttemptCountIsFailures
<1>1. SerialInv => AttemptCountIsFailures
  BY DEF SerialInv, CountInv
<1> QED  BY <1>1, SerialInvariance, PTL

(* What a step can do to the status of one row.                            *)
LEMMA StatusStep ==
    ASSUME "ack" \notin Faults, IInv, SerialInv, [Next]_vars, NEW s \in Submission
    PROVE  \/ sub'[s].status = sub[s].status
           \/ sub[s].status = "approved"
           \/ Held(s) /\ sub[s].status \in {"built", "rejected", "building"}
           \/ sub'[s].status = "rejected"
           \/ sub[s].status \in {"pending", "changes_requested", "worker_failures"}
<1>1. sub \in [Submission -> Row] /\ WorkerTypeOK /\ HandsMatchStage
  BY DEF IInv, PipeInv
<1>2. CASE UNCHANGED vars
  BY <1>2 DEF vars
<1>3. CASE \E t \in Submission : TimePasses(t)
  BY <1>1, <1>3 DEF TimePasses, BackoffElapses, Row
<1>4. ASSUME NEW w \in Worker, WorkerStep(w)
      PROVE  \/ sub'[s].status = sub[s].status
             \/ sub[s].status = "approved"
             \/ Held(s) /\ sub[s].status \in {"built", "rejected", "building"}
  <2>1. Claims(w) \/ Writes(w) \/ Moves(w)
    BY <1>1, <1>4, WorkerEffect DEF WorkerTypeOK
  <2>2. CASE Claims(w)
    BY <1>1, <2>2 DEF Claims, ClaimRow, Claimable
  <2>3. CASE Writes(w)
    <3>1. CASE job[w] = s
      <4>1. s # NoSub /\ stage[w] \in Writing
        BY <2>3 DEF Writes, NoSub
      <4>2. sub[s].status \in StatusAt(stage[w])
        BY <3>1, <4>1 DEF SerialInv, HolderInv, HolderFits
      <4> QED  BY <3>1, <4>1, <4>2, StatusSets DEF Held
    <3>2. CASE job[w] # s
      BY <1>1, <2>3, <3>2 DEF Writes, WriteRow
    <3> QED  BY <3>1, <3>2
  <2>4. CASE Moves(w)
    BY <2>4 DEF Moves, MovesTo
  <2> QED  BY <2>1, <2>2, <2>3, <2>4
<1>5. ASSUME NEW r \in Reviewer, ReviewStep(r)
      PROVE  \/ sub'[s].status = sub[s].status
             \/ sub'[s].status = "rejected"
             \/ sub[s].status \in {"pending", "changes_requested", "worker_failures"}
  <2>1. CASE Decide(r)
    <3>1. /\ desk[r].step = "update" /\ desk[r].row \in Submission
          /\ sub' = [sub EXCEPT ![desk[r].row] = Decided(desk[r].op, sub[desk[r].row])]
      BY <2>1 DEF Decide, IInv, DeskInv, DeskMatchesStep
    <3>2. \/ Decided(desk[r].op, sub[desk[r].row]).status = "rejected"
          \/ sub[desk[r].row].status \in {"pending", "changes_requested", "worker_failures"}
      <4>1. DecisionMakes(desk[r].op, sub[desk[r].row], Decided(desk[r].op, sub[desk[r].row]))
        BY <3>1, StandingDecision
      <4> QED  BY <4>1 DEF DecisionMakes
    <3> QED  BY <1>1, <3>1, <3>2
  <2>2. CASE UNCHANGED sub
    BY <2>2
  <2> QED  BY <1>5, <2>1, <2>2 DEF ReviewStep, Review, Consider, Audit, RequestDies
<1> QED  BY <1>2, <1>3, <1>4, <1>5 DEF Next

(* A rejection is final once no worker is on the row (rejectSubmission):   *)
(* nothing that reads the row later offers it to a worker or a reviewer.   *)
THEOREM RejectionsStand ==
    ASSUME OneDecision, "ack" \notin Faults
    PROVE  Spec => RejectionStands
<1>1. IInv /\ SerialInv /\ [Next]_vars =>
         [\A s \in Submission :
             sub[s].status = "rejected" /\ ~Held(s) => sub'[s].status = "rejected"]_vars
  BY StatusStep
<1> QED  BY <1>1, Invariance, SerialInvariance, PTL DEF Spec, RejectionStands

(* What the submitter got wrong is not tried again: the build has neither  *)
(* a retry nor a second worker that could write over the outcome.          *)
THEOREM SubmitterFailuresStand ==
    ASSUME OneDecision, "ack" \notin Faults
    PROVE  Spec => SubmitterFailureStands
<1>1. IInv /\ SerialInv /\ [Next]_vars =>
         [\A s \in Submission :
             \/ sub[s].status = "scan_rejected"
             \/ sub[s].status = "failed" /\ sub[s].buildErrorKind = "user"
             => sub'[s].status \in {sub[s].status, "rejected"}]_vars
  BY StatusStep
<1> QED  BY <1>1, Invariance, SerialInvariance, PTL DEF Spec, SubmitterFailureStands

----------------------------------------------------------------------------
(* The pipeline is the retry queue.                                        *)

Bar == [s \in Submission |-> JobStateOf(s)]
BarTries == [s \in Submission |-> sub[s].attemptCount]

\* Where a row is that no worker holds.
Unheld(status) ==
    CASE status \in {"pending", "changes_requested"} -> "waiting"
      [] status = "approved" -> "queued"
      [] status = "building" -> "lost"
      [] status \in {"built", "failed", "scan_rejected"} -> "done"
      [] status = "worker_failures" -> "dead"
      [] status = "rejected" -> "withdrawn"

LEMMA JobStates ==
    ASSUME NEW s \in Submission, sub[s] \in Row
    PROVE  JobStateOf(s) = IF Held(s) THEN "running" ELSE Unheld(sub[s].status)
<1>1. CASE Held(s)
  BY <1>1 DEF JobStateOf
<1>2. CASE ~Held(s)
  BY <1>2 DEF JobStateOf, Unheld, Row, Status
<1> QED  BY <1>1, <1>2

LEMMA UnheldStates ==
    /\ Unheld("pending") = "waiting" /\ Unheld("changes_requested") = "waiting"
    /\ Unheld("approved") = "queued" /\ Unheld("building") = "lost"
    /\ Unheld("built") = "done" /\ Unheld("failed") = "done" /\ Unheld("scan_rejected") = "done"
    /\ Unheld("worker_failures") = "dead" /\ Unheld("rejected") = "withdrawn"
BY DEF Unheld

LEMMA NextJobStates ==
    ASSUME NEW s \in Submission, sub'[s] \in Row
    PROVE  JobStateOf(s)' = IF Held(s)' THEN "running" ELSE Unheld(sub'[s].status)
<1>1. CASE Held(s)'
  BY <1>1 DEF JobStateOf
<1>2. CASE ~Held(s)'
  BY <1>2 DEF JobStateOf, Unheld, Row, Status
<1> QED  BY <1>1, <1>2

QueueStep == [Queue!QueueNext]_<<Bar, BarTries>>

(* A step that concerns one row moves one job, and the queue allows the    *)
(* moves that are listed.                                                  *)
LEMMA OneJobMoves ==
    ASSUME NEW s \in Submission,
           \A t \in Submission \ {s} :
              JobStateOf(t)' = JobStateOf(t) /\ sub'[t].attemptCount = sub[t].attemptCount,
           LET from == JobStateOf(s)   to == JobStateOf(s)'
               n == sub[s].attemptCount   m == sub'[s].attemptCount
           IN  \/ from = to /\ m = n
               \/ from = "waiting" /\ to = "queued" /\ m = n
               \/ from = "queued" /\ to = "running" /\ m = n
               \/ from = "running" /\ to \in {"done", "lost", "withdrawn"} /\ m = n
               \/ from = "running" /\ to = "queued" /\ m = n + 1 /\ n + 1 < MaxTotalAttempts
               \/ from = "running" /\ to = "dead" /\ m = n + 1 /\ n + 1 = MaxTotalAttempts
               \/ from = "dead" /\ to = "queued" /\ m = 0
               \/ /\ from \in {"waiting", "queued", "done", "dead", "lost"}
                  /\ to = "withdrawn" /\ m = n
    PROVE  QueueStep
<1>1. /\ Bar' = [Bar EXCEPT ![s] = JobStateOf(s)']
      /\ BarTries' = [BarTries EXCEPT ![s] = sub'[s].attemptCount]
  BY DEF Bar, BarTries
<1>2. Bar[s] = JobStateOf(s) /\ BarTries[s] = sub[s].attemptCount
  BY DEF Bar, BarTries
<1> DEFINE Same == sub'[s].attemptCount = sub[s].attemptCount
<1>3. CASE JobStateOf(s) = JobStateOf(s)' /\ Same
  BY <1>3 DEF Bar, BarTries, QueueStep
<1>4. CASE JobStateOf(s) = "waiting" /\ JobStateOf(s)' = "queued" /\ Same
  BY <1>1, <1>2, <1>4
     DEF QueueStep, Queue!QueueNext, Queue!Admit, Queue!Move, Queue!Keep, Bar, BarTries
<1>5. CASE JobStateOf(s) = "queued" /\ JobStateOf(s)' = "running" /\ Same
  BY <1>1, <1>2, <1>5
     DEF QueueStep, Queue!QueueNext, Queue!Start, Queue!Move, Queue!Keep, Bar, BarTries
<1>6. CASE JobStateOf(s) = "running" /\ JobStateOf(s)' = "done" /\ Same
  BY <1>1, <1>2, <1>6
     DEF QueueStep, Queue!QueueNext, Queue!Complete, Queue!Move, Queue!Keep, Bar, BarTries
<1>7. CASE JobStateOf(s) = "running" /\ JobStateOf(s)' = "lost" /\ Same
  BY <1>1, <1>2, <1>7
     DEF QueueStep, Queue!QueueNext, Queue!Lose, Queue!Move, Queue!Keep, Bar, BarTries
<1>8. CASE JobStateOf(s) = "running" /\ JobStateOf(s)' = "withdrawn" /\ Same
  BY <1>1, <1>2, <1>8
     DEF QueueStep, Queue!QueueNext, Queue!Drop, Queue!Move, Queue!Keep, Bar, BarTries
<1>9. CASE /\ JobStateOf(s) \in {"waiting", "queued", "done", "dead", "lost"}
           /\ JobStateOf(s)' = "withdrawn" /\ Same
  BY <1>1, <1>2, <1>9
     DEF QueueStep, Queue!QueueNext, Queue!Withdraw, Queue!Move, Queue!Keep, Queue!JobState,
         Bar, BarTries
<1>10. CASE JobStateOf(s) = "dead" /\ JobStateOf(s)' = "queued" /\ sub'[s].attemptCount = 0
  BY <1>1, <1>2, <1>10
     DEF QueueStep, Queue!QueueNext, Queue!Revive, Queue!Move, Bar, BarTries
<1>11. CASE /\ JobStateOf(s) = "running" /\ JobStateOf(s)' = "queued"
           /\ sub'[s].attemptCount = sub[s].attemptCount + 1
           /\ sub[s].attemptCount + 1 < MaxTotalAttempts
  BY <1>1, <1>2, <1>11
     DEF QueueStep, Queue!QueueNext, Queue!FailAgain, Queue!Move, Bar, BarTries
<1>12. CASE /\ JobStateOf(s) = "running" /\ JobStateOf(s)' = "dead"
           /\ sub'[s].attemptCount = sub[s].attemptCount + 1
           /\ sub[s].attemptCount + 1 = MaxTotalAttempts
  BY <1>1, <1>2, <1>12
     DEF QueueStep, Queue!QueueNext, Queue!FailLast, Queue!Move, Bar, BarTries
<1> QED
  BY <1>3, <1>4, <1>5, <1>6, <1>7, <1>8, <1>9, <1>10, <1>11, <1>12

(* A row that neither changes nor changes hands leaves its job alone.      *)
LEMMA OtherJobsStay ==
    ASSUME NEW t \in Submission, sub[t] \in Row, sub'[t] = sub[t], Held(t)' <=> Held(t)
    PROVE  JobStateOf(t)' = JobStateOf(t) /\ sub'[t].attemptCount = sub[t].attemptCount
BY JobStates, NextJobStates

LEMMA ClaimStarts ==
    ASSUME IInv, IInv', SerialInv, NEW w \in Worker, Claims(w)
    PROVE  QueueStep
<1>1. PICK s \in Submission : Claimable(sub[s]) /\ ClaimRow(w, s)
  BY DEF Claims
<1>2. /\ sub \in [Submission -> Row] /\ sub' \in [Submission -> Row]
      /\ WorkerTypeOK /\ HandsMatchStage
  BY DEF IInv, PipeInv
<1>3. /\ sub[s].status = "approved" /\ stage[w] = "idle"
      /\ sub' = [sub EXCEPT ![s] = Claimed(sub[s])]
      /\ job' = [job EXCEPT ![w] = s]
  BY <1>1 DEF Claimable, ClaimRow
<1>4. /\ sub'[s].attemptCount = sub[s].attemptCount
      /\ \A t \in Submission \ {s} : sub'[t] = sub[t]
  BY <1>2, <1>3 DEF Claimed, Row
<1>5. /\ job[w] = NoSub /\ job'[w] = s
      /\ \A v \in Worker \ {w} : job'[v] = job[v]
  BY <1>2, <1>3 DEF HandsMatchStage, WorkerTypeOK
<1>6. ~Held(s)
  <2> SUFFICES ASSUME NEW v \in Worker, job[v] = s
               PROVE  FALSE
    BY DEF Held
  <2>1. sub[s].status \in StatusAt(stage[v])
    BY DEF SerialInv, HolderInv, HolderFits, NoSub
  <2> QED  BY <1>3, <2>1 DEF StatusAt
<1>7. Held(s)'
  BY <1>5 DEF Held
<1>8. \A t \in Submission \ {s} : Held(t)' <=> Held(t)
  BY <1>5 DEF Held, NoSub
<1>9. JobStateOf(s) = "queued" /\ JobStateOf(s)' = "running"
  BY <1>2, <1>3, <1>6, <1>7, JobStates, NextJobStates, UnheldStates
<1>10. \A t \in Submission \ {s} :
          JobStateOf(t)' = JobStateOf(t) /\ sub'[t].attemptCount = sub[t].attemptCount
  BY <1>2, <1>4, <1>8, OtherJobsStay
<1> QED  BY <1>4, <1>9, <1>10, OneJobMoves

(* Who holds what, after a worker that held s moved on.                    *)
LEMMA HandsAfterGoto ==
    ASSUME IInv, SerialInv, NEW w \in Worker, NEW to \in Stages, Goto(w, to),
           NEW s \in Submission, job[w] = s
    PROVE  /\ Held(s)
           /\ Held(s)' <=> to \notin {"idle", "down"}
           /\ \A t \in Submission \ {s} : Held(t)' <=> Held(t)
<1>1. /\ to \in {"idle", "down"} => job'[w] = NoSub
      /\ to \notin {"idle", "down"} => job'[w] = job[w]
      /\ \A v \in Worker \ {w} : job'[v] = job[v]
  BY GotoMoves
<1>2. \A v \in Worker \ {w} : job[v] # s
  BY DEF SerialInv, HolderInv, SingleHolder, NoSub
<1> QED  BY <1>1, <1>2 DEF Held, NoSub

LEMMA MoveEndsOrStays ==
    ASSUME IInv, IInv', SerialInv, NEW w \in Worker, Moves(w)
    PROVE  QueueStep
<1>1. PICK to \in Stages : MovesTo(w, to)
  BY DEF Moves
<1>2. /\ sub \in [Submission -> Row] /\ UNCHANGED sub
      /\ WorkerTypeOK /\ HandsMatchStage
      /\ Goto(w, to)
  BY <1>1 DEF IInv, PipeInv, MovesTo
<1>3. CASE job[w] = NoSub
  <2>1. \A v \in Worker : job'[v] = job[v]
    BY <1>1, <1>2, <1>3, GotoMoves DEF MovesTo, HandsMatchStage
  <2>2. \A t \in Submission : Held(t)' <=> Held(t)
    BY <2>1 DEF Held
  <2>3. \A t \in Submission :
           JobStateOf(t)' = JobStateOf(t) /\ sub'[t].attemptCount = sub[t].attemptCount
    BY <1>2, <2>2, OtherJobsStay
  <2> QED  BY <2>3 DEF QueueStep, Bar, BarTries
<1>4. CASE job[w] # NoSub
  <2>1. PICK s \in Submission : job[w] = s
    BY <1>2, <1>4 DEF WorkerTypeOK
  <2>2. /\ Held(s)
        /\ Held(s)' <=> to \notin {"idle", "down"}
        /\ \A t \in Submission \ {s} : Held(t)' <=> Held(t)
    BY <1>2, <2>1, HandsAfterGoto
  <2>3. \A t \in Submission \ {s} :
           JobStateOf(t)' = JobStateOf(t) /\ sub'[t].attemptCount = sub[t].attemptCount
    BY <1>2, <2>2, OtherJobsStay
  <2>4. sub[s].status \in {"built", "rejected", "building", "failed", "scan_rejected"}
    <3>1. sub[s].status \in StatusAt(stage[w])
      BY <1>4, <2>1 DEF SerialInv, HolderInv, HolderFits
    <3> QED  BY <3>1 DEF StatusAt
  <2>5. /\ JobStateOf(s) = "running"
        /\ JobStateOf(s)' \in {"running", "done", "lost", "withdrawn"}
    BY <1>2, <2>2, <2>4, JobStates, NextJobStates, UnheldStates
  <2> QED  BY <1>2, <2>3, <2>5, OneJobMoves
<1> QED  BY <1>3, <1>4

LEMMA WriteEndsOrStays ==
    ASSUME IInv, IInv', SerialInv, NEW w \in Worker, Writes(w)
    PROVE  QueueStep
<1>1. /\ sub \in [Submission -> Row] /\ sub' \in [Submission -> Row]
      /\ WorkerTypeOK /\ HandsMatchStage
  BY DEF IInv, PipeInv
<1>2. PICK st \in Writing : st = stage[w] /\ Goto(w, AfterWrite[st])
  BY DEF Writes
<1>3. PICK s \in Submission : s = job[w] /\ s # NoSub
  <2>1. st \notin {"idle", "down"}
    BY <1>2, StageSets
  <2> QED  BY <1>1, <1>2, <2>1 DEF HandsMatchStage, WorkerTypeOK
<1>4. PICK n \in Nat : n = sub[s].attemptCount
  BY <1>1 DEF Row
<1>5. snapshot[w] = n /\ n < MaxTotalAttempts /\ sub[s] \in Row
  BY <1>1, <1>3, <1>4 DEF SerialInv, CountInv, SnapshotIsCurrent
<1>6. /\ sub'[s] = Written(st, sub[s], n)
      /\ \A t \in Submission \ {s} : sub'[t] = sub[t]
  <2>1. sub' = [sub EXCEPT ![s] = Written(st, sub[s], n)]
    BY <1>2, <1>3, <1>5 DEF Writes, WriteRow
  <2> QED  BY <1>1, <2>1
<1>7. AfterWrite[st] \in Stages
  BY <1>2, StageSets DEF AfterWrite
<1>8. /\ Held(s)
      /\ Held(s)' <=> AfterWrite[st] \notin {"idle", "down"}
      /\ \A t \in Submission \ {s} : Held(t)' <=> Held(t)
  BY <1>2, <1>3, <1>7, HandsAfterGoto
<1>9. \A t \in Submission \ {s} :
         JobStateOf(t)' = JobStateOf(t) /\ sub'[t].attemptCount = sub[t].attemptCount
  BY <1>1, <1>6, <1>8, OtherJobsStay
<1>10. /\ JobStateOf(s) = "running"
       /\ JobStateOf(s)' = IF AfterWrite[st] \notin {"idle", "down"} THEN "running"
                           ELSE Unheld(sub'[s].status)
  BY <1>1, <1>8, JobStates, NextJobStates
<1>11. CASE st \in {"userfail", "scanfail", "record"}
  <2>1. JobStateOf(s)' = "running"
    BY <1>10, <1>11 DEF AfterWrite
  <2>2. sub'[s].attemptCount = n
    <3>1. \A at \in {"userfail", "scanfail", "record"} :
             Written(at, sub[s], n).attemptCount = sub[s].attemptCount
      BY <1>5, WrittenCases
    <3>2. Written(st, sub[s], n).attemptCount = sub[s].attemptCount
      BY <1>11, <3>1
    <3> QED  BY <1>4, <1>6, <3>2
  <2> QED  BY <1>4, <1>9, <1>10, <2>1, <2>2, OneJobMoves
<1>12. CASE st = "nofile"
  <2>1. sub'[s].attemptCount = n /\ sub'[s].status = "failed"
    BY <1>4, <1>5, <1>6, <1>12, WrittenCases
  <2>2. JobStateOf(s)' = "done"
    BY <1>10, <1>12, <2>1, UnheldStates DEF AfterWrite
  <2> QED  BY <1>4, <1>9, <1>10, <2>1, <2>2, OneJobMoves
<1>13. CASE st \in {"sysfail", "recover"}
  <2>1. /\ sub'[s].attemptCount = n + 1
        /\ \/ n + 1 >= MaxTotalAttempts /\ sub'[s].status = "worker_failures"
           \/ n + 1 < MaxTotalAttempts /\ sub'[s].status = "approved"
    BY <1>4, <1>5, <1>6, <1>13, WrittenCases
  <2>2. \/ n + 1 = MaxTotalAttempts /\ JobStateOf(s)' = "dead"
        \/ n + 1 < MaxTotalAttempts /\ JobStateOf(s)' = "queued"
    <3>1. JobStateOf(s)' = Unheld(sub'[s].status)
      BY <1>10, <1>13 DEF AfterWrite
    <3>2. n + 1 >= MaxTotalAttempts => n + 1 = MaxTotalAttempts
      BY <1>4, <1>5
    <3> QED  BY <2>1, <3>1, <3>2, UnheldStates
  <2> QED  BY <1>4, <1>9, <1>10, <2>1, <2>2, OneJobMoves
<1> QED  BY <1>2, <1>11, <1>12, <1>13, StageSets

(* A rejection takes effect on a job that runs only when its run ends.     *)
LEMMA DecisionMoves ==
    ASSUME IInv, IInv', SerialInv, NEW r \in Reviewer, ReviewStep(r), Decide(r)
    PROVE  QueueStep
<1>1. PICK s \in Submission : s = desk[r].row
  BY DEF Decide, IInv, DeskInv, DeskMatchesStep
<1>0. PICK row : row = Decided(desk[r].op, sub[s])
  OBVIOUS
<1>2. /\ sub \in [Submission -> Row] /\ sub' \in [Submission -> Row]
      /\ desk[r].step = "update"
      /\ sub' = [sub EXCEPT ![s] = row]
      /\ UNCHANGED <<stage, job>>
  BY <1>0, <1>1 DEF IInv, PipeInv, Decide, ReviewStep
<1>3. \/ /\ desk[r].op = "reject"
         /\ row.status = "rejected"
         /\ row.attemptCount = sub[s].attemptCount
      \/ /\ desk[r].op \in {"approve", "request_changes"}
         /\ sub[s].status \in {"pending", "changes_requested"}
         /\ desk[r].op = "request_changes" => sub[s].status = "pending"
         /\ row.status = IF desk[r].op = "approve" THEN "approved" ELSE "changes_requested"
         /\ row.attemptCount = 0
         /\ sub[s].attemptCount = 0
      \/ /\ desk[r].op = "retry"
         /\ sub[s].status = "worker_failures"
         /\ row.status = "approved"
         /\ row.attemptCount = 0
  <2>1. DecisionMakes(desk[r].op, sub[s], Decided(desk[r].op, sub[s]))
    BY <1>1, <1>2, StandingDecision
  <2>2. DecisionMakes(desk[r].op, sub[s], row)
    BY <1>0, <2>1
  <2> QED  BY <2>2 DEF DecisionMakes
<1>4. /\ sub'[s] = row /\ sub[s] \in Row
      /\ \A t \in Submission \ {s} : sub'[t] = sub[t]
  BY <1>2
<1>5. \A t \in Submission : Held(t)' <=> Held(t)
  BY <1>2 DEF Held
<1>6. \A t \in Submission \ {s} :
         JobStateOf(t)' = JobStateOf(t) /\ sub'[t].attemptCount = sub[t].attemptCount
  BY <1>2, <1>4, <1>5, OtherJobsStay
<1>7. /\ JobStateOf(s) = IF Held(s) THEN "running" ELSE Unheld(sub[s].status)
      /\ JobStateOf(s)' = IF Held(s) THEN "running" ELSE Unheld(row.status)
  BY <1>2, <1>4, <1>5, JobStates, NextJobStates
<1>8. CASE Held(s)
  <2>1. PICK w \in Worker : job[w] = s
    BY <1>8 DEF Held
  <2>2. sub[s].status \in StatusAt(stage[w])
    BY <2>1 DEF SerialInv, HolderInv, HolderFits, NoSub
  <2>3. sub[s].status \notin {"pending", "changes_requested", "worker_failures"}
    BY <2>2 DEF StatusAt
  <2> QED  BY <1>3, <1>4, <1>6, <1>7, <1>8, <2>3, OneJobMoves
<1>9. CASE ~Held(s) /\ desk[r].op = "reject"
  <2>1. JobStateOf(s)' = "withdrawn"
    BY <1>3, <1>7, <1>9, UnheldStates
  <2>2. JobStateOf(s) \in {"waiting", "queued", "done", "dead", "lost", "withdrawn"}
    BY <1>4, <1>7, <1>9, UnheldStates DEF Row, Status
  <2> QED  BY <1>3, <1>4, <1>6, <1>9, <2>1, <2>2, OneJobMoves
<1>10. CASE ~Held(s) /\ desk[r].op # "reject"
  <2>1. \/ /\ JobStateOf(s) = "waiting" /\ JobStateOf(s)' \in {"waiting", "queued"}
           /\ row.attemptCount = sub[s].attemptCount
        \/ /\ JobStateOf(s) = "dead" /\ JobStateOf(s)' = "queued"
           /\ row.attemptCount = 0
    BY <1>3, <1>7, <1>10, UnheldStates
  <2> QED  BY <1>4, <1>6, <2>1, OneJobMoves
<1> QED  BY <1>8, <1>9, <1>10

LEMMA NextIsQueueStep ==
    ASSUME "ack" \notin Faults, IInv, IInv', SerialInv, [Next]_vars
    PROVE  QueueStep
<1>1. sub \in [Submission -> Row] /\ sub' \in [Submission -> Row] /\ WorkerTypeOK
  BY DEF IInv, PipeInv
<1>2. ASSUME UNCHANGED job,
             \A t \in Submission : /\ sub'[t].status = sub[t].status
                                   /\ sub'[t].attemptCount = sub[t].attemptCount
      PROVE  QueueStep
  <2>1. \A t \in Submission : Held(t)' <=> Held(t)
    BY <1>2 DEF Held
  <2>2. \A t \in Submission : JobStateOf(t)' = JobStateOf(t)
    BY <1>1, <1>2, <2>1, JobStates, NextJobStates
  <2> QED  BY <1>2, <2>2 DEF QueueStep, Bar, BarTries
<1>3. CASE UNCHANGED vars
  BY <1>2, <1>3 DEF vars
<1>4. CASE \E s \in Submission : TimePasses(s)
  BY <1>1, <1>2, <1>4 DEF TimePasses, BackoffElapses, workerVars, Row
<1>5. ASSUME NEW w \in Worker, WorkerStep(w)
      PROVE  QueueStep
  <2>1. stage[w] \in Stages
    BY <1>1 DEF WorkerTypeOK
  <2> QED  BY <1>5, <2>1, WorkerEffect, ClaimStarts, WriteEndsOrStays, MoveEndsOrStays
<1>6. ASSUME NEW r \in Reviewer, ReviewStep(r)
      PROVE  QueueStep
  <2>1. CASE Decide(r)
    BY <1>6, <2>1, DecisionMoves
  <2>2. CASE UNCHANGED sub
    BY <1>2, <1>6, <2>2 DEF ReviewStep
  <2> QED  BY <1>6, <2>1, <2>2 DEF ReviewStep, Review, Consider, Audit, RequestDies
<1> QED  BY <1>3, <1>4, <1>5, <1>6 DEF Next

LEMMA StartsAsQueue == Init => Queue!QueueInit
<1> SUFFICES ASSUME Init
             PROVE  Queue!QueueInit
  OBVIOUS
<1>1. \A s \in Submission : /\ sub[s] \in Row
                            /\ sub[s].status = "pending" /\ sub[s].attemptCount = 0
  BY DEF Init, NewRow, Row, Status
<1>2. \A s \in Submission : ~Held(s)
  BY DEF Init, WorkerInit, Held, NoSub
<1>3. \A s \in Submission : JobStateOf(s) = "waiting"
  BY <1>1, <1>2, JobStates, UnheldStates
<1> QED  BY <1>1, <1>3 DEF Queue!QueueInit

(* With one decision at a time the pipeline is a retry queue: whatever     *)
(* crashes and whichever call fails, a submission is run by one worker at  *)
(* a time, at most MaxTotalAttempts times before a human is asked, and a   *)
(* withdrawn one is not run again (the worker's loop and retry logic).     *)
THEOREM PipelineIsAQueue ==
    ASSUME OneDecision, "ack" \notin Faults
    PROVE  Spec => ImplementsQueue
<1>1. IInv /\ IInv' /\ SerialInv /\ [Next]_vars => [Queue!QueueNext]_(Queue!queueVars)
  BY NextIsQueueStep DEF QueueStep, Bar, BarTries, Queue!queueVars
<1> QED
  BY <1>1, StartsAsQueue, Invariance, SerialInvariance, PTL
     DEF Spec, ImplementsQueue, Queue!QueueSpec


----------------------------------------------------------------------------
(* The audit trail, for any number of requests in flight: what a worker    *)
(* may touch, and what stays on record, as long as no request dies.        *)

(* A worker's step writes the row it holds or marks an approved one, takes *)
(* only an approved row in hand, and publishes only the row it holds.      *)
LEMMA WorkerTouches ==
    ASSUME IInv, NEW w \in Worker, WorkerStep(w)
    PROVE  /\ \A s \in Submission :
                 \/ sub'[s] = sub[s]
                 \/ sub[s].status = "approved" /\ sub'[s].status # "pending"
                 \/ job[w] = s /\ sub'[s].status # "pending"
           /\ \A v \in Worker :
                 \/ job'[v] \in {NoSub, job[v]}
                 \/ job'[v] \in Submission /\ sub[job'[v]].status = "approved"
           /\ \A g \in Slug :
                 \/ catalog'[g] = catalog[g]
                 \/ job[w] # NoSub /\ catalog'[g] = job[w] /\ g = SlugOf[job[w]]
<1>1. sub \in [Submission -> Row] /\ WorkerTypeOK /\ HandsMatchStage
  BY DEF IInv, PipeInv
<1>2. ASSUME UNCHANGED <<sub, catalog>>, NEW to \in Stages, Goto(w, to)
      PROVE  /\ \A s \in Submission : sub'[s] = sub[s]
             /\ \A v \in Worker : job'[v] \in {NoSub, job[v]}
             /\ \A g \in Slug : catalog'[g] = catalog[g]
  BY <1>1, <1>2, GotoMoves
<1>3. ASSUME NEW s \in Submission, sub[s].status = "approved",
             sub' = [sub EXCEPT ![s] = Claimed(@)],
             \/ job' = [job EXCEPT ![w] = s]
             \/ UNCHANGED job,
             UNCHANGED catalog
      PROVE  /\ \A t \in Submission :
                   sub'[t] = sub[t] \/ (sub[t].status = "approved" /\ sub'[t].status # "pending")
             /\ \A v \in Worker :
                   \/ job'[v] = job[v]
                   \/ job'[v] \in Submission /\ sub[job'[v]].status = "approved"
             /\ \A g \in Slug : catalog'[g] = catalog[g]
  <2>1. sub'[s] = Claimed(sub[s]) /\ \A t \in Submission \ {s} : sub'[t] = sub[t]
    BY <1>1, <1>3
  <2>2. Claimed(sub[s]).status = "building"
    BY <1>1, ClaimedRow
  <2>3. \A v \in Worker : job'[v] = job[v] \/ job'[v] = s
    BY <1>1, <1>3 DEF WorkerTypeOK
  <2>4. sub'[s].status # "pending"
    BY <2>1, <2>2
  <2>5. \A t \in Submission :
           sub'[t] = sub[t] \/ (sub[t].status = "approved" /\ sub'[t].status # "pending")
    BY <1>3, <2>1, <2>4
  <2>6. \A v \in Worker :
           \/ job'[v] = job[v]
           \/ job'[v] \in Submission /\ sub[job'[v]].status = "approved"
    BY <1>3, <2>3
  <2> QED  BY <1>3, <2>5, <2>6
<1>4. ASSUME stage[w] \in Writing, WriteRow(w), UNCHANGED catalog,
             NEW to \in Stages, Goto(w, to)
      PROVE  /\ \A s \in Submission :
                   sub'[s] = sub[s] \/ (job[w] = s /\ sub'[s].status # "pending")
             /\ \A v \in Worker : job'[v] \in {NoSub, job[v]}
             /\ \A g \in Slug : catalog'[g] = catalog[g]
  <2>1. job[w] \in Submission /\ sub[job[w]] \in Row /\ snapshot[w] \in Nat
    BY <1>1, <1>4, StageSets DEF WorkerTypeOK, HandsMatchStage
  <2>2. Written(stage[w], sub[job[w]], snapshot[w]).status # "pending"
    BY <1>4, <2>1, StageSets, WrittenCases
  <2>3. sub' = [sub EXCEPT ![job[w]] = Written(stage[w], sub[job[w]], snapshot[w])]
    BY <1>4 DEF WriteRow
  <2>4. \A s \in Submission :
           sub'[s] = sub[s] \/ (job[w] = s /\ sub'[s].status # "pending")
    <3>1. sub'[job[w]] = Written(stage[w], sub[job[w]], snapshot[w])
      BY <1>1, <2>1, <2>3
    <3>2. \A s \in Submission \ {job[w]} : sub'[s] = sub[s]
      BY <1>1, <2>3
    <3> QED  BY <2>2, <3>1, <3>2
  <2>5. \A v \in Worker : job'[v] \in {NoSub, job[v]}
    BY <1>4, GotoMoves
  <2> QED  BY <1>4, <2>4, <2>5
<1>5. ASSUME stage[w] = "insert", UNCHANGED sub,
             catalog' = [catalog EXCEPT ![SlugOf[job[w]]] = job[w]],
             NEW to \in Stages, Goto(w, to)
      PROVE  /\ \A s \in Submission : sub'[s] = sub[s]
             /\ \A v \in Worker : job'[v] \in {NoSub, job[v]}
             /\ \A g \in Slug :
                   \/ catalog'[g] = catalog[g]
                   \/ job[w] # NoSub /\ catalog'[g] = job[w] /\ g = SlugOf[job[w]]
  BY <1>1, <1>5, GotoMoves DEF HandsMatchStage, WorkerTypeOK
<1>6. CASE Claim(w, Locked)
  BY <1>3, <1>6 DEF Claim, OldestClaimable, Claimable, ClaimRow, ClaimUnacknowledged
<1>7. ASSUME NEW from \in Stages, NEW to \in Stages, Step(w, from, to)
      PROVE  UNCHANGED <<sub, catalog>> /\ Goto(w, to)
  BY <1>7 DEF Step
<1>8. CASE Advance(w)
  <2>1. PICK st \in Working : Step(w, st, Following[st])
    BY <1>8 DEF Advance
  <2>2. Following[st] \in Stages
    BY StageSets DEF Following
  <2> QED  BY <1>2, <1>7, <2>1, <2>2, StageSets
<1>9. CASE StageFails(w) \/ FlagsUnreadable(w) \/ SubmitterFails(w)
  <2>1. PICK from \in Working, to \in Writing : Step(w, from, to)
    BY <1>9, StageSets DEF StageFails, SystemStages, FlagsUnreadable, SubmitterFails
  <2> QED  BY <1>2, <1>7, <2>1, StageSets
<1>10. CASE Finish(w)
  <2>1. AfterWrite[stage[w]] \in Stages
    BY <1>10, StageSets DEF Finish, AfterWrite
  <2> QED  BY <1>4, <1>10, <2>1 DEF Finish
<1>11. CASE FinishThrows(w)
  <2>1. stage[w] \in Writing /\ UNCHANGED catalog /\ (WriteRow(w) \/ UNCHANGED sub)
    BY <1>11 DEF FinishThrows
  <2>2. PICK to \in {"idle", "recover"} : Goto(w, to)
    BY <1>11 DEF FinishThrows
  <2>3. to \in Stages
    BY StageSets
  <2> QED  BY <1>2, <1>4, <2>1, <2>2, <2>3
<1>12. CASE GatePasses(w) \/ LookUpSlug(w) \/ Notify(w) \/ Stop(w) \/ Restart(w)
  <2>1. PICK from \in Stages, to \in Stages : Step(w, from, to)
    BY <1>12, StageSets DEF GatePasses, LookUpSlug, Notify, Stop, Restart
  <2> QED  BY <1>2, <1>7, <2>1
<1>13. CASE GateHolds(w) \/ Crash(w)
  BY <1>2, <1>13, StageSets DEF GateHolds, Crash
<1>14. CASE InsertModule(w)
  BY <1>5, <1>14, StageSets DEF InsertModule
<1>15. CASE PublishThrows(w)
  <2>1. CASE Step(w, "lookup", "recover") \/ Step(w, "insert", "recover")
    BY <1>2, <1>7, <2>1, StageSets
  <2>2. CASE /\ stage[w] = "insert" /\ UNCHANGED sub /\ Goto(w, "recover")
             /\ catalog' = [catalog EXCEPT ![SlugOf[job[w]]] = job[w]]
    BY <1>5, <2>2, StageSets
  <2> QED  BY <1>15, <2>1, <2>2 DEF PublishThrows
<1> QED
  BY <1>6, <1>8, <1>9, <1>10, <1>11, <1>12, <1>13, <1>14, <1>15 DEF WorkerStep, Process

\* The approval of s is in the audit trail or about to be written there.
ApprovalOnRecord(s) ==
    \/ <<s, "approve">> \in audit
    \/ \E r \in Reviewer : desk[r] = [step |-> "audit", op |-> "approve", row |-> s]

\* Any decision on s is.
DecisionOnRecord(s) ==
    \/ \E op \in AllOps : <<s, op>> \in audit
    \/ \E r \in Reviewer : desk[r].step = "audit" /\ desk[r].row = s

\* The statuses that a row has only after it was approved.
AfterApproval == {"approved", "building", "built", "failed", "scan_rejected", "worker_failures"}

\* A row stays on record when it is rejected in the hands of a worker, or
\* while its retry is under way.
ApprovalInv ==
    /\ \A s \in Submission : sub[s].status \in AfterApproval => ApprovalOnRecord(s)
    /\ \A w \in Worker : job[w] # NoSub => ApprovalOnRecord(job[w])
    /\ \A r \in Reviewer :
          desk[r].step = "update" /\ desk[r].op = "retry" => ApprovalOnRecord(desk[r].row)
    /\ PublishedWasApproved

(* What is on record stays there: the request that wrote the row goes on   *)
(* to insert its audit row, whatever the others do.                        *)
LEMMA RecordsStay ==
    ASSUME "request" \notin Faults, IInv, Next, NEW s \in Submission
    PROVE  /\ ApprovalOnRecord(s) => ApprovalOnRecord(s)'
           /\ DecisionOnRecord(s) => DecisionOnRecord(s)'
<1>1. desk \in [Reviewer -> DeskState] /\ DeskMatchesStep
  BY DEF IInv, DeskInv, DeskTypeOK
<1>2. CASE UNCHANGED deskVars
  BY <1>2 DEF deskVars, ApprovalOnRecord, DecisionOnRecord
<1>3. ASSUME NEW r \in Reviewer, ReviewStep(r)
      PROVE  /\ audit \subseteq audit'
             /\ \A q \in Reviewer \ {r} : desk'[q] = desk[q]
             /\ desk[r].step = "audit" =>
                   desk[r].row \in Submission /\ <<desk[r].row, desk[r].op>> \in audit'
  <2>1. CASE \E op \in Ops, t \in Submission : Consider(r, op, t)
    BY <1>1, <2>1 DEF Consider
  <2>2. CASE Decide(r)
    BY <1>1, <2>2 DEF Decide, DeskState
  <2>3. CASE Audit(r)
    BY <1>1, <2>3 DEF Audit, DeskMatchesStep
  <2> QED  BY <1>3, <2>1, <2>2, <2>3 DEF ReviewStep, Review, RequestDies
<1>4. ASSUME NEW r \in Reviewer, ReviewStep(r)
      PROVE  /\ ApprovalOnRecord(s) => ApprovalOnRecord(s)'
             /\ DecisionOnRecord(s) => DecisionOnRecord(s)'
  <2>1. ASSUME NEW q \in Reviewer, desk[q] = [step |-> "audit", op |-> "approve", row |-> s]
        PROVE  ApprovalOnRecord(s)'
    <3>1. CASE q = r
      BY <1>3, <1>4, <2>1, <3>1 DEF ApprovalOnRecord
    <3>2. CASE q # r
      BY <1>3, <1>4, <2>1, <3>2 DEF ApprovalOnRecord
    <3> QED  BY <3>1, <3>2
  <2>2. ASSUME NEW q \in Reviewer, desk[q].step = "audit", desk[q].row = s
        PROVE  DecisionOnRecord(s)'
    <3>1. CASE q = r
      BY <1>1, <1>3, <1>4, <2>2, <3>1 DEF DecisionOnRecord, DeskMatchesStep
    <3>2. CASE q # r
      BY <1>3, <1>4, <2>2, <3>2 DEF DecisionOnRecord
    <3> QED  BY <3>1, <3>2
  <2>3. ASSUME NEW op \in AllOps, <<s, op>> \in audit
        PROVE  DecisionOnRecord(s)'
    BY <1>3, <1>4, <2>3 DEF DecisionOnRecord
  <2>4. <<s, "approve">> \in audit => ApprovalOnRecord(s)'
    BY <1>3, <1>4 DEF ApprovalOnRecord
  <2> QED  BY <2>1, <2>2, <2>3, <2>4 DEF DecisionOnRecord, ApprovalOnRecord
<1> QED  BY <1>2, <1>4 DEF Next, WorkerStep, TimePasses

(* What a review request may do to the table: it writes the row it is      *)
(* about and is then about to write its audit row.                         *)
LEMMA ReviewTouches ==
    ASSUME IInv, NEW r \in Reviewer, ReviewStep(r)
    PROVE  /\ UNCHANGED <<job, catalog>>
           /\ \A s \in Submission :
                 \/ sub'[s] = sub[s]
                 \/ /\ desk[r].step = "update" /\ desk[r].row = s
                    /\ desk[r].op \in AllOps
                    /\ desk'[r] = [step |-> "audit", op |-> desk[r].op, row |-> s]
                    /\ sub'[s] = Decided(desk[r].op, sub[s])
           /\ \A q \in Reviewer :
                 desk'[q].step = "update" /\ desk'[q].op = "retry" =>
                     \/ desk'[q] = desk[q]
                     \/ desk'[q].row \in Submission /\ Decidable("retry", sub[desk'[q].row])
<1>1. /\ desk \in [Reviewer -> DeskState] /\ DeskMatchesStep
      /\ sub \in [Submission -> Row]
      /\ UNCHANGED <<job, catalog>>
  BY DEF IInv, PipeInv, DeskInv, DeskTypeOK, ReviewStep
<1>2. CASE \E op \in Ops, s \in Submission : Consider(r, op, s)
  <2> PICK op \in Ops, s \in Submission : Consider(r, op, s)
    BY <1>2
  <2>1. /\ UNCHANGED sub /\ Decidable(op, sub[s])
        /\ desk'[r] = [step |-> "update", op |-> op, row |-> s]
        /\ \A q \in Reviewer \ {r} : desk'[q] = desk[q]
    BY <1>1 DEF Consider
  <2> QED  BY <1>1, <2>1
<1>3. CASE Decide(r)
  <2>1. /\ desk[r].step = "update" /\ desk[r].row \in Submission /\ desk[r].op \in AllOps
        /\ sub' = [sub EXCEPT ![desk[r].row] = Decided(desk[r].op, sub[desk[r].row])]
        /\ desk' = [desk EXCEPT ![r].step = "audit"]
    BY <1>1, <1>3 DEF Decide, DeskMatchesStep
  <2>2. desk'[r] = [step |-> "audit", op |-> desk[r].op, row |-> desk[r].row]
    BY <1>1, <2>1 DEF DeskState
  <2>3. \A q \in Reviewer \ {r} : desk'[q] = desk[q]
    BY <1>1, <2>1
  <2>4. \A s \in Submission :
           s # desk[r].row => sub'[s] = sub[s]
    BY <1>1, <2>1
  <2>5. sub'[desk[r].row] = Decided(desk[r].op, sub[desk[r].row])
    BY <1>1, <2>1
  <2>6. desk'[r].step = "audit"
    BY <2>2
  <2> QED  BY <1>1, <2>1, <2>2, <2>3, <2>4, <2>5, <2>6
<1>4. CASE Audit(r) \/ RequestDies(r)
  <2>1. UNCHANGED sub /\ desk' = [desk EXCEPT ![r] = AtRest]
    BY <1>4 DEF Audit, RequestDies
  <2>2. desk'[r].step = "idle" /\ \A q \in Reviewer \ {r} : desk'[q] = desk[q]
    BY <1>1, <2>1 DEF AtRest
  <2> QED  BY <1>1, <2>1, <2>2
<1> QED  BY <1>2, <1>3, <1>4 DEF ReviewStep, Review

(* The invariant after a step, row by row.                                 *)
LEMMA NextApproval ==
    ASSUME IInv',
           \A s \in Submission : sub'[s].status \in AfterApproval => ApprovalOnRecord(s)',
           \A v \in Worker, s \in Submission : s = job'[v] => ApprovalOnRecord(s)',
           \A q \in Reviewer, s \in Submission :
              desk'[q].step = "update" /\ desk'[q].op = "retry" /\ s = desk'[q].row =>
                  ApprovalOnRecord(s)',
           \A g \in Slug, s \in Submission :
              s = catalog'[g] => SlugOf[s] = g /\ ApprovalOnRecord(s)'
    PROVE  ApprovalInv'
<1>1. /\ \A v \in Worker : job'[v] # NoSub => job'[v] \in Submission
      /\ \A q \in Reviewer : desk'[q].step = "update" => desk'[q].row \in Submission
      /\ \A g \in Slug : catalog'[g] # NoSub => catalog'[g] \in Submission
  BY DEF IInv, PipeInv, WorkerTypeOK, DeskInv, DeskTypeOK, DeskMatchesStep
<1>2. \A v \in Worker : job'[v] # NoSub => ApprovalOnRecord(job[v])'
  BY <1>1 DEF ApprovalOnRecord
<1>3. \A q \in Reviewer :
         desk'[q].step = "update" /\ desk'[q].op = "retry" => ApprovalOnRecord(desk[q].row)'
  <2> SUFFICES ASSUME NEW q \in Reviewer, desk'[q].step = "update", desk'[q].op = "retry"
               PROVE  ApprovalOnRecord(desk[q].row)'
    OBVIOUS
  <2>1. PICK s \in Submission : s = desk'[q].row
    BY <1>1
  <2>2. ApprovalOnRecord(s)'
    BY <2>1
  <2> QED  BY <2>1, <2>2 DEF ApprovalOnRecord
<1>4. PublishedWasApproved'
  BY <1>1 DEF PublishedWasApproved, ApprovalOnRecord
<1> QED  BY <1>2, <1>3, <1>4 DEF ApprovalInv

LEMMA ApprovalStep ==
    ASSUME "request" \notin Faults, IInv, ApprovalInv, [Next]_vars
    PROVE  ApprovalInv'
<1>1. /\ sub \in [Submission -> Row] /\ WorkerTypeOK
      /\ catalog \in [Slug -> Submission \cup {NoSub}]
      /\ desk \in [Reviewer -> DeskState] /\ DeskMatchesStep
  BY DEF IInv, PipeInv, WorkerTypeOK, DeskInv, DeskTypeOK
<1>2. CASE UNCHANGED vars
  BY <1>2 DEF vars, ApprovalInv, ApprovalOnRecord, PublishedWasApproved
<1>3. CASE \E s \in Submission : TimePasses(s)
  <2>1. /\ \A s \in Submission : sub'[s].status = sub[s].status
        /\ UNCHANGED <<deskVars, workerVars>>
    BY <1>1, <1>3 DEF TimePasses, BackoffElapses, Row
  <2> QED
    BY <2>1 DEF deskVars, workerVars, ApprovalInv, ApprovalOnRecord, PublishedWasApproved
<1>4. ASSUME Next, NEW s \in Submission, ApprovalOnRecord(s)
      PROVE  ApprovalOnRecord(s)'
  BY <1>4, RecordsStay
<1>5. \A g \in Slug : catalog[g] # NoSub => /\ catalog[g] \in Submission
                                            /\ SlugOf[catalog[g]] = g
                                            /\ ApprovalOnRecord(catalog[g])
  BY <1>1 DEF ApprovalInv, PublishedWasApproved, ApprovalOnRecord
<1> IInv'
  BY NextKeepsIInv
<1>6. ASSUME NEW w \in Worker, WorkerStep(w)
      PROVE  ApprovalInv'
  <2>1. Next /\ UNCHANGED desk
    BY <1>6 DEF Next, WorkerStep, deskVars
  <2>2. ASSUME NEW s \in Submission, sub'[s].status \in AfterApproval
        PROVE  ApprovalOnRecord(s)'
    <3>1. sub'[s] = sub[s] \/ sub[s].status = "approved" \/ job[w] = s
      BY <1>6, WorkerTouches
    <3>2. ApprovalOnRecord(s)
      BY <2>2, <3>1 DEF ApprovalInv, AfterApproval, NoSub
    <3> QED  BY <1>4, <2>1, <3>2
  <2>3. ASSUME NEW v \in Worker, NEW s \in Submission, s = job'[v]
        PROVE  ApprovalOnRecord(s)'
    <3>1. s # NoSub /\ (job[v] = s \/ sub[s].status = "approved")
      BY <1>6, <2>3, WorkerTouches DEF NoSub
    <3>2. ApprovalOnRecord(s)
      BY <3>1 DEF ApprovalInv, AfterApproval
    <3> QED  BY <1>4, <2>1, <3>2
  <2>4. ASSUME NEW q \in Reviewer, NEW s \in Submission,
               desk'[q].step = "update", desk'[q].op = "retry", s = desk'[q].row
        PROVE  ApprovalOnRecord(s)'
    BY <1>4, <2>1, <2>4 DEF ApprovalInv
  <2>5. ASSUME NEW g \in Slug, NEW s \in Submission, s = catalog'[g]
        PROVE  SlugOf[s] = g /\ ApprovalOnRecord(s)'
    <3>1. s # NoSub /\ (catalog[g] = s \/ (job[w] = s /\ SlugOf[s] = g))
      BY <1>6, <2>5, WorkerTouches DEF NoSub
    <3>2. SlugOf[s] = g /\ ApprovalOnRecord(s)
      BY <1>5, <3>1 DEF ApprovalInv
    <3> QED  BY <1>4, <2>1, <3>2
  <2> QED  BY <2>2, <2>3, <2>4, <2>5, NextApproval
<1>7. ASSUME NEW r \in Reviewer, ReviewStep(r)
      PROVE  ApprovalInv'
  <2>1. Next /\ UNCHANGED <<job, catalog>>
    BY <1>7, ReviewTouches DEF Next
  <2>2. ASSUME NEW s \in Submission, sub'[s].status \in AfterApproval
        PROVE  ApprovalOnRecord(s)'
    <3>1. CASE sub'[s] = sub[s]
      BY <1>4, <2>1, <2>2, <3>1 DEF ApprovalInv
    <3>2. CASE sub'[s] # sub[s]
      <4>1. /\ desk[r].step = "update" /\ desk[r].row = s /\ desk[r].op \in AllOps
            /\ desk'[r] = [step |-> "audit", op |-> desk[r].op, row |-> s]
            /\ sub'[s] = Decided(desk[r].op, sub[s])
        BY <1>7, <3>2, ReviewTouches
      <4>2. desk[r].op \in {"approve", "retry"}
        BY <1>1, <2>2, <4>1 DEF Decided, AllOps, AfterApproval, Row
      <4>3. CASE desk[r].op = "approve"
        BY <4>1, <4>3 DEF ApprovalOnRecord
      <4>4. CASE desk[r].op = "retry"
        BY <1>4, <2>1, <4>1, <4>4 DEF ApprovalInv
      <4> QED  BY <4>2, <4>3, <4>4
    <3> QED  BY <3>1, <3>2
  <2>3. ASSUME NEW v \in Worker, NEW s \in Submission, s = job'[v]
        PROVE  ApprovalOnRecord(s)'
    BY <1>4, <2>1, <2>3 DEF ApprovalInv, NoSub
  <2>4. ASSUME NEW q \in Reviewer, NEW s \in Submission,
               desk'[q].step = "update", desk'[q].op = "retry", s = desk'[q].row
        PROVE  ApprovalOnRecord(s)'
    <3>1. desk'[q] = desk[q] \/ Decidable("retry", sub[s])
      BY <1>7, <2>4, ReviewTouches
    <3>2. CASE desk'[q] = desk[q]
      BY <1>4, <2>1, <2>4, <3>2 DEF ApprovalInv
    <3>3. CASE Decidable("retry", sub[s])
      <4>1. sub[s].status \in AfterApproval
        BY <3>3 DEF Decidable, AfterApproval
      <4> QED  BY <1>4, <2>1, <4>1 DEF ApprovalInv
    <3> QED  BY <3>1, <3>2, <3>3
  <2>5. ASSUME NEW g \in Slug, NEW s \in Submission, s = catalog'[g]
        PROVE  SlugOf[s] = g /\ ApprovalOnRecord(s)'
    BY <1>4, <1>5, <2>1, <2>5 DEF NoSub
  <2> QED  BY <2>2, <2>3, <2>4, <2>5, NextApproval
<1> QED  BY <1>2, <1>3, <1>6, <1>7 DEF Next

(* Only what a reviewer approved reaches the catalog, and under the slug   *)
(* it asked for, however many requests and workers overlap: as long as a   *)
(* request that wrote its row goes on to write the audit row.              *)
THEOREM PublishedIsApproved ==
    ASSUME "request" \notin Faults
    PROVE  Spec => []PublishedWasApproved
<1>1. Init => ApprovalInv
  BY DEF Init, NewRow, WorkerInit, DeskInit, AtRest, ApprovalInv, AfterApproval,
         PublishedWasApproved, NoSub
<1>2. IInv /\ ApprovalInv /\ [Next]_vars => ApprovalInv'
  BY ApprovalStep
<1>3. ApprovalInv => PublishedWasApproved
  BY DEF ApprovalInv
<1> QED  BY <1>1, <1>2, <1>3, Invariance, PTL DEF Spec

\* A row in hand is decided, and so is one a worker writes.
AuditInv ==
    /\ DecisionAudited
    /\ \A w \in Worker : job[w] # NoSub => sub[job[w]].status # "pending"

LEMMA AuditStep ==
    ASSUME "request" \notin Faults, IInv, AuditInv, [Next]_vars
    PROVE  AuditInv'
<1>1. /\ sub \in [Submission -> Row] /\ WorkerTypeOK
      /\ desk \in [Reviewer -> DeskState] /\ DeskMatchesStep
  BY DEF IInv, PipeInv, DeskInv, DeskTypeOK
<1>2. CASE UNCHANGED vars
  BY <1>2 DEF vars, AuditInv, DecisionAudited
<1>3. CASE \E s \in Submission : TimePasses(s)
  <2>1. /\ \A s \in Submission : sub'[s].status = sub[s].status
        /\ UNCHANGED <<deskVars, workerVars>>
    BY <1>1, <1>3 DEF TimePasses, BackoffElapses, Row
  <2>2. DecisionAudited'
    BY <2>1 DEF deskVars, AuditInv, DecisionAudited
  <2>3. \A w \in Worker : job[w] # NoSub => job[w] \in Submission
    BY <1>1 DEF WorkerTypeOK
  <2> QED  BY <2>1, <2>2, <2>3 DEF workerVars, AuditInv
<1>4. ASSUME Next, NEW s \in Submission, sub[s].status # "pending"
      PROVE  DecisionOnRecord(s)'
  BY <1>4, RecordsStay DEF AuditInv, DecisionAudited, DecisionOnRecord
<1>5. ASSUME NEW w \in Worker, WorkerStep(w)
      PROVE  AuditInv'
  <2>1. \A s \in Submission : \/ sub'[s] = sub[s]
                              \/ sub[s].status # "pending" /\ sub'[s].status # "pending"
    BY <1>5, WorkerTouches DEF AuditInv, NoSub
  <2>2. DecisionAudited'
    BY <1>4, <1>5, <2>1 DEF Next, DecisionAudited, DecisionOnRecord
  <2>3. ASSUME NEW v \in Worker, job'[v] # NoSub
        PROVE  sub'[job'[v]].status # "pending"
    <3>1. job'[v] \in Submission
      BY <2>3, NextKeepsIInv DEF IInv, PipeInv, WorkerTypeOK
    <3>2. job'[v] = job[v] \/ sub[job'[v]].status = "approved"
      BY <1>5, <2>3, WorkerTouches
    <3>3. sub[job'[v]].status # "pending"
      BY <2>3, <3>2 DEF AuditInv
    <3> QED  BY <2>1, <3>1, <3>3
  <2> QED  BY <2>2, <2>3 DEF AuditInv
<1>6. ASSUME NEW r \in Reviewer, ReviewStep(r)
      PROVE  AuditInv'
  <2>1. Next /\ UNCHANGED job
    BY <1>6, ReviewTouches DEF Next
  <2>2. ASSUME NEW s \in Submission, sub'[s] # sub[s]
        PROVE  sub'[s].status # "pending" /\ DecisionOnRecord(s)'
    <3>1. /\ desk[r].op \in AllOps
          /\ desk'[r] = [step |-> "audit", op |-> desk[r].op, row |-> s]
          /\ sub'[s] = Decided(desk[r].op, sub[s])
      BY <1>6, <2>2, ReviewTouches
    <3>2. sub'[s].status # "pending"
      BY <1>1, <3>1, DecidedRow
    <3>3. DecisionOnRecord(s)'
      BY <3>1 DEF DecisionOnRecord
    <3> QED  BY <3>2, <3>3
  <2>3. \A s \in Submission : sub'[s].status # "pending" => DecisionOnRecord(s)'
    BY <1>4, <2>1, <2>2
  <2>4. DecisionAudited'
    BY <2>3 DEF DecisionAudited, DecisionOnRecord
  <2>5. ASSUME NEW v \in Worker, job[v] # NoSub
        PROVE  sub'[job[v]].status # "pending"
    BY <1>1, <2>2, <2>5 DEF AuditInv, WorkerTypeOK
  <2> QED  BY <2>1, <2>4, <2>5 DEF AuditInv
<1> QED  BY <1>2, <1>3, <1>5, <1>6 DEF Next

(* No row leaves "pending" without a decision in the audit trail, or one   *)
(* the handler that took it is about to insert there.                      *)
THEOREM DecisionsAreAudited ==
    ASSUME "request" \notin Faults
    PROVE  Spec => []DecisionAudited
<1>1. Init => AuditInv
  BY DEF Init, NewRow, WorkerInit, AuditInv, DecisionAudited, NoSub
<1>2. IInv /\ AuditInv /\ [Next]_vars => AuditInv'
  BY AuditStep
<1>3. AuditInv => DecisionAudited
  BY DEF AuditInv
<1> QED  BY <1>1, <1>2, <1>3, Invariance, PTL DEF Spec
=============================================================================
