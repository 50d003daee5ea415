------------------------------ MODULE Site_proofs ------------------------------
(***************************************************************************)
(* The site implements each of its parts, so what is proved of a part      *)
(* alone holds of the site, and every state of the site is well typed.     *)
(***************************************************************************)
EXTENDS Site, SubmissionIntake_proofs, PolicyVerdicts_proofs, Services_proofs, Clients_proofs

----------------------------------------------------------------------------
(* A step of the site is a step of the part that is followed, and leaves   *)
(* every other part as it is.                                              *)
LEMMA PartsStep ==
    ASSUME [SiteNext]_siteVars
    PROVE  /\ [IntakeNext]_intakeVars /\ [VexNext]_vexVars /\ [PolicyNext]_policyVars
           /\ [ReviewNext]_reviewVars /\ [ReportNext]_reportVars /\ [LogNext]_logVars
           /\ [PreviewNext]_previewVars /\ [LimiterNext]_limiterVars /\ [CliNext]_cliVars
           /\ [WizardNext]_wizardVars /\ [VerifyNext]_verifyVars /\ [AccountNext]_accountVars
           /\ UNCHANGED focus
<1>1. CASE SiteNext
  BY <1>1 DEF SiteNext, Rest
<1>2. CASE UNCHANGED siteVars
  BY <1>2 DEF siteVars
<1> QED  BY <1>1, <1>2

LEMMA PartsStart ==
    SiteInit => /\ IntakeInit /\ VexInit /\ PolicyInit /\ ReviewInit /\ ReportInit /\ LogInit
                /\ PreviewInit /\ LimiterInit /\ CliInit /\ WizardInit /\ VerifyInit /\ AccountInit
                /\ focus \in Parts
BY DEF SiteInit

(* The site implements every part: each behaviour of the site, seen        *)
(* through the variables of one part, is a behaviour of that part.         *)
LEMMA SiteIsItsParts ==
    SiteSpec => /\ IntakeSpec /\ VexSpec /\ PolicySpec /\ ReviewSpec /\ ReportSpec /\ LogSpec
                /\ PreviewSpec /\ LimiterSpec /\ CliSpec /\ WizardSpec /\ VerifySpec /\ AccountSpec
BY PartsStart, PartsStep, PTL
   DEF SiteSpec, IntakeSpec, VexSpec, PolicySpec, ReviewSpec, ReportSpec, LogSpec, PreviewSpec,
       LimiterSpec, CliSpec, WizardSpec, VerifySpec, AccountSpec

----------------------------------------------------------------------------
(* Types: what the parts' invariants leave open.                           *)

LEMMA IntakeTypesHold == IntakeSpec => []IntakeTypeOK
<1>1. IntakeInit => wasPro \subseteq Publisher
  BY DEF IntakeInit
<1>2. wasPro \subseteq Publisher /\ [IntakeNext]_intakeVars => (wasPro \subseteq Publisher)'
  <2> SUFFICES ASSUME wasPro \subseteq Publisher, [IntakeNext]_intakeVars
               PROVE  wasPro' \subseteq Publisher
    OBVIOUS
  <2>1. ASSUME NEW r \in Post, Request(r)
        PROVE  wasPro' = wasPro
    BY <2>1 DEF Request, Arrive, CheckQueue, ReadPlan, ReadUsage, CheckUpload, Count, Insert,
                TransactionFails, Elsewhere
  <2> QED  BY <2>1 DEF IntakeNext, PutObject, RecordUpload, ChangePlan, Decide, PublishRow, intakeVars
<1>3. UploadInv /\ QuotaInv /\ wasPro \subseteq Publisher => IntakeTypeOK
  BY DEF UploadInv, QuotaInv, RowInv, RecordInv, IntakeTypeOK, RequestSteps
<1> QED
  BY <1>1, <1>2, <1>3, UploadStart, UploadStep, QuotaStart, QuotaStep, PTL DEF IntakeSpec

LEMMA PolicyTypesHold == PolicySpec => []PolicyTypeOK
<1> DEFINE Typed == verdict \in [verdict : Verdict, revision : Nat] \cup {NoVerdict}
<1>1. PolicyInit => Typed
  BY DEF PolicyInit
<1>2. EvalInv /\ Typed /\ [PolicyNext]_policyVars => Typed'
  <2> SUFFICES ASSUME EvalInv, Typed, [PolicyNext]_policyVars
               PROVE  Typed'
    OBVIOUS
  <2>1. ASSUME NEW e \in Evaluation, Store(e)
        PROVE  Typed'
    <3>1. eval[e].revision \in Nat
      BY <2>1 DEF Store, EvalInv, EvalState, NoEvaluation
    <3>2. Evaluate(PolicyAt(eval[e].revision), eval[e].input) \in Verdict
      BY DEF Evaluate, Verdict
    <3> QED  BY <2>1, <3>1, <3>2 DEF Store
  <2> QED  BY <2>1 DEF PolicyNext, ReadLast, Create, Reannotate, ReadActive, ReadVex, policyVars
<1>3. SaveInv /\ EvalInv /\ Typed => PolicyTypeOK
  BY DEF SaveInv, EvalInv, PolicyTypeOK, SaveState, EvalState
<1> QED  BY <1>1, <1>2, <1>3, EvalStart, SaveStep, EvalStep, PTL DEF PolicySpec

LEMMA LogTypesHold == LogSpec => []LogTypeOK
<1>1. LogInit => LogTypeOK
  <2> SUFFICES ASSUME LogInit
               PROVE  LogTypeOK
    OBVIOUS
  <2>1. \A r \in Reader : FirstAfter[r] \in Range(FirstAfter)
    BY BuildLogAssumption DEF Range
  <2>2. emitted \in 0..LastLine + 1
    BY BuildLogAssumption DEF LogInit
  <2>3. reader \in [Reader -> [step : {"ask", "rows", "stopped"}, after : Line \cup Range(FirstAfter),
                               over : BOOLEAN, full : BOOLEAN]]
    BY <2>1 DEF LogInit
  <2>4. <<>> \in Seq(Line)
    OBVIOUS
  <2> QED  BY <2>2, <2>3, <2>4 DEF LogInit, LogTypeOK
<1>2. LogInv /\ LogTypeOK /\ [LogNext]_logVars => LogTypeOK'
  <2> SUFFICES ASSUME LogInv, LogTypeOK, [LogNext]_logVars
               PROVE  LogTypeOK'
    OBVIOUS
  <2>1. LogInv'
    BY LogStep
  <2>2. emitted' \in 0..LastLine + 1
    <3>1. CASE EmitLine
      BY <3>1, BuildLogAssumption DEF EmitLine, LogTypeOK
    <3>2. CASE ~EmitLine
      BY <3>2 DEF LogTypeOK, LogNext, EndBuild, LineLands, ReadStatus, ReadRows, logVars
    <3> QED  BY <3>1, <3>2
  <2>3. \A r \in Reader : reader'[r].after \in Line \cup Range(FirstAfter)
    <3>1. ASSUME NEW q \in Reader, ReadRows(q), NEW r \in Reader
          PROVE  reader'[r].after \in Line \cup Range(FirstAfter)
      <4> DEFINE rows == Page(reader[q].after)
      <4>1. rows \in Seq({n \in logged : n > reader[q].after})
        BY PageIsPage DEF LogInv, ReaderStates
      <4>2. rows # <<>> => rows[Len(rows)] \in Line
        <5>1. rows \in Seq(Line)
          BY <4>1 DEF LogInv
        <5> HIDE DEF rows
        <5>2. rows # <<>> => Len(rows) \in 1..Len(rows)
          BY <5>1
        <5> QED  BY <5>1, <5>2, ElementOfSeq
      <4>3. reader' = [reader EXCEPT ![q].after = IF rows = <<>> THEN @ ELSE rows[Len(rows)],
                                     ![q].step = IF reader[q].over THEN "stopped" ELSE "ask",
                                     ![q].full = Len(rows) = PageLimit]
        BY <3>1 DEF ReadRows
      <4> HIDE DEF rows
      <4> QED  BY <4>2, <4>3 DEF LogTypeOK
    <3>2. ASSUME NEW q \in Reader, ReadStatus(q), NEW r \in Reader
          PROVE  reader'[r].after \in Line \cup Range(FirstAfter)
      BY <3>2 DEF ReadStatus, LogTypeOK
    <3>3. CASE UNCHANGED reader
      BY <3>3 DEF LogTypeOK
    <3>4. (\E q \in Reader : ReadRows(q)) \/ (\E q \in Reader : ReadStatus(q)) \/ UNCHANGED reader
      BY DEF LogNext, EmitLine, EndBuild, LineLands, logVars
    <3> QED  BY <3>1, <3>2, <3>3, <3>4
  <2>4. reader' \in [Reader -> [step : {"ask", "rows", "stopped"}, after : Line \cup Range(FirstAfter),
                                over : BOOLEAN, full : BOOLEAN]]
    <3>1. reader' \in [Reader -> ReaderStates]
      BY <2>1 DEF LogInv
    <3> QED  BY <2>3, <3>1 DEF ReaderStates
  <2> QED  BY <2>1, <2>2, <2>4 DEF LogInv, LogTypeOK
<1> QED  BY <1>1, <1>2, LogStart, LogStep, PTL DEF LogSpec

LEMMA CliTypesHold == CliSpec => []CliTypeOK
<1> DEFINE Typed == /\ listing \in [digest : Image, verified : BOOLEAN]
                    /\ vouched \subseteq Image
                    /\ container \in Image \cup {NoDigest}
                    /\ volume \in BOOLEAN /\ failed \in BOOLEAN
<1>1. CliInit => Typed
  BY DEF CliInit, Command, NoDigest
<1>2. CliInv /\ Typed /\ [CliNext]_cliVars => Typed'
  <2> SUFFICES ASSUME CliInv, Typed, [CliNext]_cliVars
               PROVE  Typed'
    OBVIOUS
  <2> USE DEF StepTo, Catalog, Machine
  <2>0. /\ cmd \in CommandType /\ listing.digest \in Image
        /\ cmd.step \in {"verify", "pull", "start"} => cmd.ref \in Image
    BY DEF CliInv
  <2>1. ASSUME NEW kind \in {"run", "pull", "update"}, NEW noVerify \in BOOLEAN,
               Begin(kind, noVerify)
        PROVE  Typed'
    BY <2>1 DEF Begin
  <2>2. CASE FetchModule
    BY <2>0, <2>2 DEF FetchModule, CommandType
  <2>3. CASE Verify
    BY <2>0, <2>3 DEF Verify, CommandType
  <2>4. CASE PullImage
    BY <2>0, <2>4 DEF PullImage, CommandType
  <2>5. CASE Start \/ KilledStarting
    BY <2>0, <2>5 DEF Start, KilledStarting, CommandType
  <2>6. CASE GivesUp \/ StopsHolding \/ Killed \/ ContainerExits
    BY <2>0, <2>6 DEF GivesUp, StopsHolding, Killed, ContainerExits, CommandType
  <2>7. CASE StartFails \/ UndoVolume \/ StopContainer \/ RemoveVolume
    BY <2>0, <2>7 DEF StartFails, UndoVolume, StopContainer, RemoveVolume, CommandType
  <2>8. CASE CatalogChanges
    BY <2>0, <2>8 DEF CatalogChanges
  <2>9. CASE UNCHANGED cliVars
    BY <2>9 DEF cliVars
  <2> QED  BY <2>1, <2>2, <2>3, <2>4, <2>5, <2>6, <2>7, <2>8, <2>9 DEF CliNext
<1>3. CliInv /\ Typed => CliTypeOK
  BY DEF CliInv, CommandType, CliTypeOK
<1> QED  BY <1>1, <1>2, <1>3, CliStart, CliStep, PTL DEF CliSpec

LEMMA WizardTypesHold == WizardSpec => []WizardTypeOK
<1>1. WizardInit => WizardTypeOK
  <2> SUFFICES ASSUME WizardInit
               PROVE  WizardTypeOK
    OBVIOUS
  <2>1. step \in 1..4 /\ buildType \in BuildTypes
    BY DEF WizardInit, BuildTypes
  <2>2. mounted \in File /\ attached \in File /\ choice \in File
    BY DEF WizardInit, File
  <2>3. publishing \in BOOLEAN /\ strayed \in BOOLEAN
    BY DEF WizardInit
  <2> QED  BY <2>1, <2>2, <2>3 DEF WizardInit, WizardTypeOK
<1>2. WizardInv /\ WizardTypeOK /\ [WizardNext]_wizardVars => WizardTypeOK'
  <2> SUFFICES ASSUME WizardInv, WizardTypeOK, [WizardNext]_wizardVars
               PROVE  WizardTypeOK'
    OBVIOUS
  <2> USE NoFileAssumption DEF WizardTypeOK, File, BuildTypes
  <2>1. WizardTypes'
    BY WizardStep DEF WizardInv
  <2>2. CASE Continue \/ Back \/ Skip
    BY <2>1, <2>2 DEF Continue, Back, Skip, GoTo, WizardTypes
  <2>3. CASE Publish
    BY <2>1, <2>3 DEF Publish, WizardTypes
  <2>7. CASE PublishFails
    BY <2>1, <2>7 DEF PublishFails, WizardTypes
  <2>8. CASE PublishAccepted
    <3>1. buildType' \in BuildTypes /\ attached' \in File /\ choice' \in File /\ publishing' \in BOOLEAN
      BY <2>8 DEF PublishAccepted
    <3>2. inFlight' = {} /\ UNCHANGED <<used, body>>
      BY <2>8 DEF PublishAccepted
    <3> QED  BY <2>1, <3>1, <3>2 DEF WizardTypes
  <2>4. ASSUME NEW t \in BuildTypes, ChooseBuildType(t)
        PROVE  WizardTypeOK'
    BY <2>1, <2>4 DEF ChooseBuildType, WizardTypes
  <2>5. ASSUME NEW u \in Attempt, StartUpload(u) \/ UploadDone(u) \/ UploadFailed(u)
        PROVE  WizardTypeOK'
    BY <2>1, <2>5 DEF StartUpload, UploadDone, UploadFailed, WizardTypes
  <2>6. CASE UNCHANGED wizardVars
    BY <2>6 DEF wizardVars
  <2> QED  BY <2>2, <2>3, <2>4, <2>5, <2>6, <2>7, <2>8 DEF WizardNext
<1> QED  BY <1>1, <1>2, WizardStart, WizardStep, PTL DEF WizardSpec

(* Every part of the site keeps the types of its state, for every value of *)
(* its constants.                                                          *)
THEOREM SiteTypeCorrect == SiteSpec => []SiteTypeOK
<1>1. SiteSpec => [](focus \in Parts)
  <2>1. focus \in Parts /\ [SiteNext]_siteVars => (focus \in Parts)'
    BY PartsStep
  <2> QED  BY <2>1, PartsStart, PTL DEF SiteSpec
<1>2. VexSpec => []VexTypeOK
  BY VexStart, VexStep, PTL DEF VexSpec
<1>3. ReviewSpec => []ReviewTypeOK
  <2>1. ReviewInv => ReviewTypeOK
    BY DEF ReviewInv
  <2> QED  BY <2>1, ReviewStart, ReviewStep, PTL DEF ReviewSpec
<1>4. ReportSpec => []ReportTypeOK
  <2>1. ReportInv => ReportTypeOK
    BY DEF ReportInv
  <2> QED  BY <2>1, ReportStart, ReportStep, PTL DEF ReportSpec
<1>5. PreviewSpec => []PreviewTypeOK
  <2>1. PreviewInv => PreviewTypeOK
    BY DEF PreviewInv
  <2> QED  BY <2>1, PreviewStart, PreviewStep, PTL DEF PreviewSpec
<1>6. LimiterSpec => []LimiterTypeOK
  <2>1. LimiterInv => LimiterTypeOK
    BY DEF LimiterInv
  <2> QED  BY <2>1, LimiterStart, LimiterStep, PTL DEF LimiterSpec
<1>7. VerifySpec => []VerifyTypeOK
  <2>1. VerifyInv => VerifyTypeOK
    BY DEF VerifyInv, VerifyTypeOK, QueryStates
  <2> QED  BY <2>1, VerifyStart, VerifyStep, PTL DEF VerifySpec
<1>8. AccountSpec => []AccountTypeOK
  <2>1. AccountInv => AccountTypeOK
    BY DEF AccountInv
  <2> QED  BY <2>1, AccountStart, AccountStep, PTL DEF AccountSpec
<1> QED
  BY <1>1, <1>2, <1>3, <1>4, <1>5, <1>6, <1>7, <1>8, SiteIsItsParts, IntakeTypesHold,
     PolicyTypesHold, LogTypesHold, CliTypesHold, WizardTypesHold, PTL DEF SiteTypeOK

----------------------------------------------------------------------------
(* What the parts promise, all at once: quotas and uploads, policies and   *)
(* verdicts, counts after VEX, reviews, reports, build logs, previews,     *)
(* limits, clients and accounts.                                           *)
SitePromises ==
    /\ QuotaHolds /\ FileIsSubmitters
    /\ CountsAgree /\ SavesAnswerTrue /\ VerdictIsCurrent
    /\ HideStands /\ OneUnsettled /\ TriageIsSigned
    /\ LogIsFollowed /\ HostsAreKnown /\ WindowHolds /\ RetryAfterSuffices
    /\ RunsWhatWasVerified /\ LeavesNothing /\ UpdateAnswersTrue
    /\ UnsignedIsUnsigned /\ ShowsItsTarget /\ DeletionIsWhole

(* What is proved of each part alone holds of the site, whichever part     *)
(* moves, and so does the promise about its steps.                         *)
THEOREM SiteKeepsItsPromises == SiteSpec => []SitePromises /\ PublishesTheChoice
BY SiteIsItsParts, QuotasHold, FilesAreSubmitters, BothCountsAgree, SavedIsOnFile, VerdictsAreCurrent,
   HidesStand, OneReportUnsettled, TriagesAreSigned, LogsAreFollowed, NoHostIsUnknown,
   NoWindowOverflows, WaitingIsEnough, VerifiedIsRun, TeardownIsClean, UpdatesAreTrue,
   UnsignedLookedEverywhere, PageShowsItsTarget, DeletionsAreWhole, PublishedAsChosen, PTL
   DEF SitePromises
===============================================================================
