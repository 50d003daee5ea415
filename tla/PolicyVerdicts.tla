---------------------------- MODULE PolicyVerdicts ---------------------------
(***************************************************************************)
(* The admission policy: administrators save revisions, and evaluations    *)
(* store a module's verdict.  Modules share nothing but the policy, so one *)
(* is followed: an evaluation is the sweep's iteration for it, or the      *)
(* catalog's lazy one when it has no verdict.                              *)
(*                                                                         *)
(* What is evaluated is the module's signals after VEX (module VexDesk):   *)
(* an administrator's annotation takes them from one value to another.     *)
(* A rule compares a signal with a value; a presence rule is one that asks *)
(* for at least 1.                                                         *)
(***************************************************************************)
EXTENDS Integers, Sequences, FiniteSets

CONSTANTS Admin,          \* save requests
          Evaluation,     \* evaluations of the module
          DraftOf,        \* DraftOf[a]: the policy request a saves
          DefaultPolicy,
          Input,          \* the signals the module may have
          NoVerdict

VARIABLES revisions,  \* AdmissionPolicy, in the order of revision
          save,       \* save[a]: a save request
          signals,    \* Module.cves less the VEX statements, and the rest
          eval,       \* eval[e]: an evaluation
          verdict,    \* ModulePolicyVerdict of the module
          settled     \* history: nothing was saved, annotated or overlapped since
                      \* the evaluation that stored the verdict began

policyVars == <<revisions, save, signals, eval, verdict, settled>>

Verdict == {"pass", "warn", "fail"}
Document == {DraftOf[a] : a \in Admin}
Active == IF revisions = <<>> THEN DefaultPolicy ELSE revisions[Len(revisions)]

\* next: the revision that was read as free; began: how many there were.
NoSave == [step |-> "start", next |-> 0, tries |-> 0, began |-> 0]
NoEvaluation == [step |-> "idle"]

PolicyTypeOK ==
    /\ revisions \in Seq(Document)
    /\ save \in [Admin -> [step : {"start", "read", "saved", "raced"},
                           next : Nat, tries : 0..2, began : Nat]]
    /\ signals \in Input
    /\ eval \in [Evaluation -> {NoEvaluation}
          \cup [step : {"vex"}, revision : Nat, alone : BOOLEAN]
          \cup [step : {"write"}, revision : Nat, alone : BOOLEAN, input : Input]]
    /\ verdict \in [verdict : Verdict, revision : Nat] \cup {NoVerdict}
    /\ settled \in BOOLEAN

PolicyInit ==
    /\ revisions = <<>>
    /\ save = [a \in Admin |-> NoSave]
    /\ signals \in Input
    /\ eval = [e \in Evaluation |-> NoEvaluation]
    /\ verdict = NoVerdict
    /\ settled = FALSE

----------------------------------------------------------------------------
(* The evaluator (evaluate.ts).                                            *)

Compare(a, op, b) ==
    CASE op = "<=" -> a <= b
      [] op = "<"  -> a < b
      [] op = "==" -> a = b
      [] op = ">=" -> a >= b
      [] op = ">"  -> a > b

Broken(doc, input, severity) ==
    \E rule \in doc : /\ rule.severity = severity
                      /\ ~Compare(input[rule.signal], rule.op, rule.value)

\* Failed "info" rules do not count.
Evaluate(doc, input) ==
    IF Broken(doc, input, "fail") THEN "fail"
    ELSE IF Broken(doc, input, "warn") THEN "warn" ELSE "pass"

----------------------------------------------------------------------------
(* Administrators.                                                         *)

\* savePolicy, first half: the highest revision so far.
ReadLast(a) ==
    /\ save[a].step = "start"
    /\ save' = [save EXCEPT ![a] =
                   [step |-> "read", next |-> Len(revisions) + 1, tries |-> @.tries + 1,
                    began |-> IF @.tries = 0 THEN Len(revisions) ELSE @.began]]
    /\ UNCHANGED <<revisions, signals, eval, verdict, settled>>

\* Nothing that is being evaluated can be settled any more.
Disturb ==
    /\ settled' = FALSE
    /\ eval' = [e \in Evaluation |->
                  IF eval[e] = NoEvaluation THEN NoEvaluation
                  ELSE [eval[e] EXCEPT !.alone = FALSE]]

\* Mutant: no unique constraint, the later save replaces the earlier.
CreateOver(a) ==
    /\ save[a].step = "read"
    /\ revisions' = IF save[a].next > Len(revisions) THEN Append(revisions, DraftOf[a])
                    ELSE [revisions EXCEPT ![save[a].next] = DraftOf[a]]
    /\ save' = [save EXCEPT ![a].step = "saved"]
    /\ Disturb
    /\ UNCHANGED <<signals, verdict>>

\* Mutant: it reads once more however often it has lost.
CreateRetrying(a) ==
    /\ save[a].step = "read"
    /\ IF save[a].next > Len(revisions)
       THEN /\ revisions' = Append(revisions, DraftOf[a])
            /\ save' = [save EXCEPT ![a].step = "saved"]
            /\ Disturb
       ELSE /\ save' = [save EXCEPT ![a].step = "start"]
            /\ UNCHANGED <<revisions, settled, eval>>
    /\ UNCHANGED <<signals, verdict>>

\* savePolicy, second half: create; or read once more; or give up.
Create(a) ==
    /\ save[a].step = "read"
    /\ IF save[a].next > Len(revisions)
       THEN /\ revisions' = Append(revisions, DraftOf[a])
            /\ save' = [save EXCEPT ![a].step = "saved"]
            /\ Disturb
       ELSE /\ save' = [save EXCEPT ![a].step = IF save[a].tries < 2 THEN "start" ELSE "raced"]
            /\ UNCHANGED <<revisions, settled, eval>>
    /\ UNCHANGED <<signals, verdict>>

\* The VEX desk changes what is left of the scan.
Reannotate(i) ==
    /\ signals # i
    /\ signals' = i
    /\ Disturb
    /\ UNCHANGED <<revisions, save, verdict>>

----------------------------------------------------------------------------
(* Evaluations.                                                            *)

PolicyAt(n) == IF n = 0 THEN DefaultPolicy ELSE revisions[n]

\* evaluateAndPersist reads the active policy first.
ReadActive(e) ==
    /\ eval[e] = NoEvaluation
    /\ eval' = [f \in Evaluation |->
                   CASE f = e -> [step |-> "vex", revision |-> Len(revisions),
                                  alone |-> \A x \in Evaluation : eval[x] = NoEvaluation]
                     [] f # e /\ eval[f] = NoEvaluation -> NoEvaluation
                     [] OTHER -> [eval[f] EXCEPT !.alone = FALSE]]
    /\ UNCHANGED <<revisions, save, signals, verdict, settled>>

\* listVexForModule and the counts that are left.
ReadVex(e) ==
    /\ eval[e].step = "vex"
    /\ eval' = [eval EXCEPT ![e] = [step |-> "write", revision |-> @.revision,
                                    alone |-> @.alone, input |-> signals]]
    /\ UNCHANGED <<revisions, save, signals, verdict, settled>>

\* Mutant: a verdict that is there already is left as it is.
StoreOnce(e) ==
    /\ eval[e].step = "write"
    /\ verdict' = IF verdict # NoVerdict THEN verdict
                  ELSE [verdict  |-> Evaluate(PolicyAt(eval[e].revision), eval[e].input),
                        revision |-> eval[e].revision]
    /\ settled' = eval[e].alone
    /\ eval' = [eval EXCEPT ![e] = NoEvaluation]
    /\ UNCHANGED <<revisions, save, signals>>

\* modulePolicyVerdict.upsert, whatever revision the row holds.
Store(e) ==
    /\ eval[e].step = "write"
    /\ verdict' = [verdict  |-> Evaluate(PolicyAt(eval[e].revision), eval[e].input),
                   revision |-> eval[e].revision]
    /\ settled' = eval[e].alone
    /\ eval' = [eval EXCEPT ![e] = NoEvaluation]
    /\ UNCHANGED <<revisions, save, signals>>

PolicyNext ==
    \/ \E a \in Admin : ReadLast(a) \/ Create(a)
    \/ \E i \in Input : Reannotate(i)
    \/ \E e \in Evaluation : ReadActive(e) \/ ReadVex(e) \/ Store(e)

PolicySpec == PolicyInit /\ [][PolicyNext]_policyVars

----------------------------------------------------------------------------
(* savePolicy answers truly.  A save that was answered with a revision is  *)
(* that revision, for good; one that was told "raced twice" lost to at     *)
(* least two other saves that landed while it ran.                         *)
SavesAnswerTrue ==
    \A a \in Admin :
        /\ save[a].step = "saved" => /\ save[a].next <= Len(revisions)
                                     /\ revisions[save[a].next] = DraftOf[a]
        /\ save[a].step = "raced" => Len(revisions) >= save[a].began + 2

(* The stored verdict is the active policy's on the signals of now, unless *)
(* something was saved or annotated or another evaluation ran since the    *)
(* one that stored it began: only then may a verdict be out of date, or an *)
(* old revision's replace a newer one's.                                   *)
VerdictIsCurrent ==
    settled => verdict = [verdict |-> Evaluate(Active, signals), revision |-> Len(revisions)]

=============================================================================
