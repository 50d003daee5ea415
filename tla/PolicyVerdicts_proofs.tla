------------------------- MODULE PolicyVerdicts_proofs ------------------------
(***************************************************************************)
(* What holds of the admission policy and the stored verdict for any       *)
(* number of administrators and evaluations, and any policies.             *)
(***************************************************************************)
EXTENDS PolicyVerdicts, TLAPS

SaveState == [step : {"start", "read", "saved", "raced"}, next : Nat, tries : 0..2, began : Nat]

EvalState ==
    {NoEvaluation} \cup [step : {"vex"}, revision : Nat, alone : BOOLEAN]
    \cup [step : {"write"}, revision : Nat, alone : BOOLEAN, input : Input]

(* A save that has read once knows of one other save if it has to read     *)
(* again, and of two if it gives up; what it takes for the next revision   *)
(* is at most that.                                                        *)
SaveKnows(s) ==
    /\ s.step = "start" => s.tries \in {0, 1} /\ (s.tries = 1 => Len(revisions) >= s.began + 1)
    /\ s.step = "read" =>
          /\ s.tries \in {1, 2}
          /\ s.next \in 1..Len(revisions) + 1
          /\ s.next >= s.began + s.tries
    /\ s.step = "saved" => s.next \in 1..Len(revisions)

SaveInv ==
    /\ revisions \in Seq(Document)
    /\ save \in [Admin -> SaveState]
    /\ \A a \in Admin : SaveKnows(save[a])
    /\ SavesAnswerTrue

(* An evaluation that nothing has disturbed goes by the policy and the     *)
(* signals of now.                                                         *)
UndisturbedIsCurrent ==
    \A e \in Evaluation :
        eval[e] # NoEvaluation /\ eval[e].alone =>
            /\ eval[e].revision = Len(revisions)
            /\ eval[e].step = "write" => eval[e].input = signals

EvalInv ==
    /\ eval \in [Evaluation -> EvalState]
    /\ signals \in Input
    /\ settled \in BOOLEAN
    /\ UndisturbedIsCurrent
    /\ VerdictIsCurrent

----------------------------------------------------------------------------
(* Saves.                                                                  *)

LEMMA SaveStep == SaveInv /\ [PolicyNext]_policyVars => SaveInv'
<1> SUFFICES ASSUME SaveInv, [PolicyNext]_policyVars
             PROVE  SaveInv'
  OBVIOUS
<1>1. ASSUME NEW a \in Admin, ReadLast(a)
      PROVE  SaveInv'
  BY <1>1 DEF ReadLast, SaveInv, SaveState, SaveKnows, SavesAnswerTrue
<1>2. ASSUME NEW a \in Admin, Create(a)
      PROVE  SaveInv'
  <2>1. save[a].step = "read" /\ save[a] \in SaveState /\ SaveKnows(save[a])
    BY <1>2 DEF Create, SaveInv
  <2>2. CASE save[a].next > Len(revisions)
    <3>1. revisions' = Append(revisions, DraftOf[a]) /\ save' = [save EXCEPT ![a].step = "saved"]
      BY <1>2, <2>2 DEF Create
    <3>2. DraftOf[a] \in Document
      BY DEF Document
    <3>3. /\ revisions' \in Seq(Document) /\ Len(revisions') = Len(revisions) + 1
          /\ revisions'[Len(revisions) + 1] = DraftOf[a]
          /\ \A i \in 1..Len(revisions) : revisions'[i] = revisions[i]
      BY <3>1, <3>2 DEF SaveInv
    <3>4. save[a].next = Len(revisions) + 1
      BY <2>1, <2>2 DEF SaveKnows, SaveState, SaveInv
    <3>5. save' \in [Admin -> SaveState]
      BY <3>1 DEF SaveInv, SaveState
    <3>6. \A b \in Admin : b # a => save'[b] = save[b]
      BY <3>1 DEF SaveInv
    <3>7. save'[a].step = "saved" /\ save'[a].next = Len(revisions) + 1
      BY <3>1, <3>4 DEF SaveInv, SaveState
    <3>8. Len(revisions) \in Nat
      BY DEF SaveInv
    <3>9. ASSUME NEW b \in Admin
           PROVE  SaveKnows(save[b])'
      <4>1. CASE b = a
        BY <3>3, <3>7, <3>8, <4>1 DEF SaveKnows
      <4>2. CASE b # a
        <5>1. SaveKnows(save[b]) /\ save[b] \in SaveState /\ save'[b] = save[b]
          BY <3>6, <4>2 DEF SaveInv
        <5> QED  BY <3>3, <3>8, <5>1 DEF SaveKnows, SaveState
      <4> QED  BY <4>1, <4>2
    <3>10. ASSUME NEW b \in Admin, save'[b].step = "saved"
          PROVE  save'[b].next <= Len(revisions') /\ revisions'[save'[b].next] = DraftOf[b]
      <4>1. CASE b = a
        BY <3>3, <3>7, <4>1
      <4>2. CASE b # a
        BY <3>3, <3>6, <3>10, <4>2 DEF SaveInv, SavesAnswerTrue, SaveKnows
      <4> QED  BY <4>1, <4>2
    <3>11. ASSUME NEW b \in Admin, save'[b].step = "raced"
          PROVE  Len(revisions') >= save'[b].began + 2
      <4>1. b # a
        BY <3>7, <3>11
      <4>2. save'[b] = save[b] /\ save[b] \in SaveState
        BY <3>6, <4>1 DEF SaveInv
      <4>3. Len(revisions) >= save[b].began + 2
        BY <3>11, <4>2 DEF SaveInv, SavesAnswerTrue
      <4> QED  BY <3>3, <3>8, <4>2, <4>3 DEF SaveState
    <3> QED  BY <3>3, <3>5, <3>10, <3>11, <3>9 DEF SaveInv, SavesAnswerTrue
  <2>3. CASE ~(save[a].next > Len(revisions))
    <3>1. UNCHANGED revisions
          /\ save' = [save EXCEPT ![a].step = IF save[a].tries < 2 THEN "start" ELSE "raced"]
      BY <1>2, <2>3 DEF Create
    <3> QED  BY <2>1, <2>3, <3>1 DEF SaveInv, SaveState, SaveKnows, SavesAnswerTrue
  <2> QED  BY <2>2, <2>3
<1>3. CASE UNCHANGED <<revisions, save>>
  BY <1>3 DEF SaveInv, SaveKnows, SavesAnswerTrue
<1>4. ASSUME NEW i \in Input, Reannotate(i)
      PROVE  UNCHANGED <<revisions, save>>
  BY <1>4 DEF Reannotate
<1>5. ASSUME NEW e \in Evaluation, ReadActive(e) \/ ReadVex(e) \/ Store(e)
      PROVE  UNCHANGED <<revisions, save>>
  BY <1>5 DEF ReadActive, ReadVex, Store
<1>6. CASE UNCHANGED policyVars
  BY <1>3, <1>6 DEF policyVars
<1> QED  BY <1>1, <1>2, <1>3, <1>4, <1>5, <1>6 DEF PolicyNext

LEMMA SaveStart == PolicyInit => SaveInv
<1> SUFFICES ASSUME PolicyInit
             PROVE  SaveInv
  OBVIOUS
<1>1. revisions \in Seq(Document) /\ save \in [Admin -> SaveState]
  BY DEF PolicyInit, NoSave, SaveState
<1>2. \A a \in Admin : save[a].step = "start" /\ save[a].tries = 0
  BY DEF PolicyInit, NoSave
<1> QED  BY <1>1, <1>2 DEF SaveInv, SaveKnows, SavesAnswerTrue

(* savePolicy answers truly: a revision that was answered stays that       *)
(* policy, and only a save that lost to two others gives up (policy.ts).   *)
THEOREM SavedIsOnFile == PolicySpec => []SavesAnswerTrue
<1>1. SaveInv => SavesAnswerTrue
  BY DEF SaveInv
<1> QED  BY <1>1, SaveStart, SaveStep, PTL DEF PolicySpec

----------------------------------------------------------------------------
(* Evaluations.                                                            *)

(* What a save or an annotation does to the evaluations under way.         *)
LEMMA DisturbedNeverAlone ==
    ASSUME eval \in [Evaluation -> EvalState], Disturb
    PROVE  /\ eval' \in [Evaluation -> EvalState]
           /\ \A e \in Evaluation : eval'[e] # NoEvaluation => ~eval'[e].alone
           /\ settled' = FALSE
<1>1. ASSUME NEW e \in Evaluation, eval[e] # NoEvaluation
      PROVE  [eval[e] EXCEPT !.alone = FALSE] \in EvalState
  <2> DEFINE undo(x) == [x EXCEPT !.alone = FALSE]
  <2>1. \A x \in [step : {"vex"}, revision : Nat, alone : BOOLEAN] :
           undo(x) \in [step : {"vex"}, revision : Nat, alone : BOOLEAN]
    OBVIOUS
  <2>2. \A x \in [step : {"write"}, revision : Nat, alone : BOOLEAN, input : Input] :
           undo(x) \in [step : {"write"}, revision : Nat, alone : BOOLEAN, input : Input]
    OBVIOUS
  <2> HIDE DEF undo
  <2>3. undo(eval[e]) \in EvalState
    BY <1>1, <2>1, <2>2 DEF EvalState
  <2> QED  BY <2>3 DEF undo
<1>2. ASSUME NEW e \in Evaluation, eval'[e] # NoEvaluation
      PROVE  ~eval'[e].alone
    <2>1. eval[e] # NoEvaluation /\ eval'[e] = [eval[e] EXCEPT !.alone = FALSE]
      BY <1>2 DEF Disturb
    <2>2. eval[e] \in EvalState \ {NoEvaluation}
      BY <2>1
    <2> QED  BY <2>1, <2>2 DEF EvalState
<1>3. eval' \in [Evaluation -> EvalState]
    BY <1>1 DEF Disturb, EvalState
<1> QED  BY <1>2, <1>3 DEF Disturb

LEMMA EvalStep == SaveInv /\ EvalInv /\ [PolicyNext]_policyVars => EvalInv'
<1> SUFFICES ASSUME SaveInv, EvalInv, [PolicyNext]_policyVars
             PROVE  EvalInv'
  OBVIOUS
<1>0. Len(revisions) \in Nat
  BY DEF SaveInv
<1>1. ASSUME NEW a \in Admin, ReadLast(a)
      PROVE  EvalInv'
  BY <1>1 DEF ReadLast, EvalInv, UndisturbedIsCurrent, VerdictIsCurrent, Active
<1>2. ASSUME Disturb, signals' \in Input
      PROVE  EvalInv'
  BY <1>2, DisturbedNeverAlone DEF EvalInv, UndisturbedIsCurrent, VerdictIsCurrent
<1>3. ASSUME NEW a \in Admin, Create(a)
      PROVE  EvalInv'
  <2>1. CASE save[a].next > Len(revisions)
    BY <1>2, <1>3, <2>1 DEF Create, EvalInv
  <2>2. CASE ~(save[a].next > Len(revisions))
    BY <1>3, <2>2 DEF Create, EvalInv, UndisturbedIsCurrent, VerdictIsCurrent, Active
  <2> QED  BY <2>1, <2>2
<1>4. ASSUME NEW i \in Input, Reannotate(i)
      PROVE  EvalInv'
  BY <1>2, <1>4 DEF Reannotate
<1>5. ASSUME NEW e \in Evaluation, ReadActive(e)
      PROVE  EvalInv'
  <2>1. UNCHANGED <<revisions, signals, verdict, settled>>
    BY <1>5 DEF ReadActive
  <2>2. PICK b \in BOOLEAN : eval'[e] = [step |-> "vex", revision |-> Len(revisions), alone |-> b]
    BY <1>5 DEF ReadActive
  <2>3. ASSUME NEW f \in Evaluation, f # e
        PROVE  eval'[f] = IF eval[f] = NoEvaluation THEN NoEvaluation
                          ELSE [eval[f] EXCEPT !.alone = FALSE]
    BY <1>5, <2>3 DEF ReadActive
  <2>4. eval'[e] \in EvalState
    BY <1>0, <2>2 DEF EvalState
  <2>5. ASSUME NEW f \in Evaluation, f # e
        PROVE  /\ eval'[f] \in EvalState
               /\ eval'[f] # NoEvaluation => ~eval'[f].alone
    BY <2>3, <2>5 DEF EvalInv, EvalState
  <2>6. eval' \in [Evaluation -> EvalState]
    BY <1>5, <2>4, <2>5 DEF ReadActive
  <2>7. UndisturbedIsCurrent'
    BY <2>1, <2>2, <2>5 DEF UndisturbedIsCurrent
  <2> QED  BY <2>1, <2>6, <2>7 DEF EvalInv, VerdictIsCurrent, Active
<1>6. ASSUME NEW e \in Evaluation, ReadVex(e)
      PROVE  EvalInv'
  <2>1. eval[e].step = "vex" /\ eval[e] \in EvalState /\ signals \in Input
    BY <1>6 DEF ReadVex, EvalInv
  <2>2. eval[e] # NoEvaluation /\ eval[e].revision \in Nat /\ eval[e].alone \in BOOLEAN
    BY <2>1 DEF EvalState, NoEvaluation
  <2>3. /\ UNCHANGED <<revisions, signals, verdict, settled>>
        /\ eval' = [eval EXCEPT ![e] = [step |-> "write", revision |-> eval[e].revision,
                                        alone |-> eval[e].alone, input |-> signals]]
    BY <1>6 DEF ReadVex, EvalInv
  <2>4. eval' \in [Evaluation -> EvalState]
    BY <2>1, <2>2, <2>3 DEF EvalInv, EvalState
  <2>5. UndisturbedIsCurrent'
    BY <2>2, <2>3 DEF EvalInv, UndisturbedIsCurrent
  <2> QED  BY <2>3, <2>4, <2>5 DEF EvalInv, VerdictIsCurrent, Active
<1>7. ASSUME NEW e \in Evaluation, Store(e)
      PROVE  EvalInv'
  <2>1. eval[e].step = "write" /\ eval[e] \in EvalState
    BY <1>7 DEF Store, EvalInv
  <2>2. eval[e] # NoEvaluation /\ eval[e].alone \in BOOLEAN
    BY <2>1 DEF EvalState, NoEvaluation
  <2>3. /\ UNCHANGED <<revisions, signals>>
        /\ eval' = [eval EXCEPT ![e] = NoEvaluation]
        /\ settled' = eval[e].alone
        /\ verdict' = [verdict  |-> Evaluate(PolicyAt(eval[e].revision), eval[e].input),
                       revision |-> eval[e].revision]
    BY <1>7 DEF Store
  <2>4. eval' \in [Evaluation -> EvalState] /\ UndisturbedIsCurrent'
    BY <2>3 DEF EvalInv, EvalState, UndisturbedIsCurrent
  <2>5. PolicyAt(Len(revisions)) = Active
    BY DEF SaveInv, PolicyAt, Active
  <2>6. VerdictIsCurrent'
    BY <2>1, <2>2, <2>3, <2>5 DEF EvalInv, UndisturbedIsCurrent, VerdictIsCurrent, Active
  <2> QED  BY <2>2, <2>3, <2>4, <2>6 DEF EvalInv
<1>8. CASE UNCHANGED policyVars
  BY <1>8 DEF policyVars, EvalInv, UndisturbedIsCurrent, VerdictIsCurrent, Active
<1> QED  BY <1>1, <1>3, <1>4, <1>5, <1>6, <1>7, <1>8 DEF PolicyNext

LEMMA EvalStart == PolicyInit => SaveInv /\ EvalInv
<1> SUFFICES ASSUME PolicyInit
             PROVE  SaveInv /\ EvalInv
  OBVIOUS
<1>1. SaveInv
  BY SaveStart
<1>2. eval \in [Evaluation -> EvalState] /\ \A e \in Evaluation : eval[e] = NoEvaluation
  BY DEF PolicyInit, EvalState
<1>3. signals \in Input /\ settled = FALSE
  BY DEF PolicyInit
<1> QED  BY <1>1, <1>2, <1>3 DEF EvalInv, UndisturbedIsCurrent, VerdictIsCurrent

(* The stored verdict is the active policy's on the signals of now, unless *)
(* something was saved, annotated or overlapped since the evaluation that  *)
(* stored it began (evaluateAndPersist in policy.ts).                      *)
THEOREM VerdictsAreCurrent == PolicySpec => []VerdictIsCurrent
<1>1. EvalInv => VerdictIsCurrent
  BY DEF EvalInv
<1> QED  BY <1>1, EvalStart, SaveStep, EvalStep, PTL DEF PolicySpec

=============================================================================
