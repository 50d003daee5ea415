------------------------------ MODULE ReviewDesk -----------------------------
(***************************************************************************)
(* The reviewers' decisions on a submission: approve, reject, request      *)
(* changes and retry.  Each handler reads the row, decides on what it      *)
(* read, updates the row by id alone, and then inserts a SubmissionAudit   *)
(* row: three database calls and no transaction around them.               *)
(*                                                                         *)
(* One element of Reviewer is one request in flight at a time, so two of   *)
(* them are two reviewers, two browser tabs or a double click.             *)
(***************************************************************************)
EXTENDS SubmissionTable

CONSTANTS Reviewer,   \* concurrent review requests
          Ops         \* the decisions reviewers take in this instance

AllOps == {"approve", "reject", "request_changes", "retry"}

ASSUME OpsAssumption == Ops \subseteq AllOps

VARIABLES desk,   \* desk[r]: the request of r, and how far it is
          audit   \* SubmissionAudit: the <<submission, decision>> pairs it holds

deskVars == <<desk, audit>>

AtRest == [step |-> "idle", op |-> "none", row |-> NoSub]

DeskState == [step : {"idle", "update", "audit"},
              op   : AllOps \cup {"none"},
              row  : Submission \cup {NoSub}]

DeskTypeOK ==
    /\ desk \in [Reviewer -> DeskState]
    /\ audit \subseteq Submission \X AllOps

DeskInit ==
    /\ desk = [r \in Reviewer |-> AtRest]
    /\ audit = {}

----------------------------------------------------------------------------
\* findUnique, and the early return unless the decision is open to this row.
Consider(r, op, s) ==
    /\ desk[r].step = "idle"
    /\ Decidable(op, sub[s])
    /\ desk' = [desk EXCEPT ![r] = [step |-> "update", op |-> op, row |-> s]]
    /\ UNCHANGED <<sub, audit>>

\* Mutant: the handler returns without writing the audit row.
DecideWithoutAudit(r) ==
    LET d == desk[r] IN
    /\ d.step = "update"
    /\ sub' = [sub EXCEPT ![d.row] = Decided(d.op, @)]
    /\ desk' = [desk EXCEPT ![r] = AtRest]
    /\ UNCHANGED audit

\* submission.update: by id, whatever the row's status is by now.
Decide(r) ==
    LET d == desk[r] IN
    /\ d.step = "update"
    /\ sub' = [sub EXCEPT ![d.row] = Decided(d.op, @)]
    /\ desk' = [desk EXCEPT ![r].step = "audit"]
    /\ UNCHANGED audit

\* auditTable().create, and the response.
Audit(r) ==
    LET d == desk[r] IN
    /\ d.step = "audit"
    /\ audit' = audit \cup {<<d.row, d.op>>}
    /\ desk' = [desk EXCEPT ![r] = AtRest]
    /\ UNCHANGED sub

\* The request dies between two database calls: the call throws, or the
\* serverless function running it is stopped.
RequestDies(r) ==
    /\ "request" \in Faults
    /\ desk[r].step # "idle"
    /\ desk' = [desk EXCEPT ![r] = AtRest]
    /\ UNCHANGED <<sub, audit>>

Review(r) ==
    \/ \E op \in Ops, s \in Submission : Consider(r, op, s)
    \/ Decide(r)
    \/ Audit(r)
    \/ RequestDies(r)

=============================================================================
