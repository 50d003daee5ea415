---------------------------- MODULE Clients_proofs ----------------------------
(***************************************************************************)
(* What holds of the publish page for any number of uploads, of the        *)
(* command line for any images and any course of the catalog, and of the   *)
(* verification page for any number of requests and manifests.             *)
(***************************************************************************)
EXTENDS PublishWizard, FlareoCli, VerifyImage, TLAPS

----------------------------------------------------------------------------
(* The publish page.                                                       *)

(* Unless a busy step was left, an upload in flight is the one on screen   *)
(* and the user's latest word, and step 4 shows what was chosen on step 3. *)
UploadIsOnScreen ==
    ~strayed =>
        /\ inFlight \subseteq {mounted}
        /\ mounted # NoFile => choice = mounted /\ step = 3
        /\ step = 4 /\ buildType # "cnb" => attached = choice

WizardTypes ==
    /\ step \in 1..4 /\ strayed \in BOOLEAN
    /\ inFlight \subseteq Attempt
    /\ mounted \in File

WizardInv == WizardTypes /\ UploadIsOnScreen

LEMMA WizardStart == WizardInit => WizardInv
<1> SUFFICES ASSUME WizardInit
             PROVE  WizardInv
  OBVIOUS
<1>1. WizardTypes
  <2>1. step \in 1..4 /\ inFlight \subseteq Attempt /\ mounted \in File
    BY DEF WizardInit, File
  <2>2. strayed \in BOOLEAN
    BY DEF WizardInit
  <2> QED  BY <2>1, <2>2 DEF WizardTypes
<1>2. inFlight = {} /\ mounted = NoFile /\ step = 1
  BY DEF WizardInit
<1> QED  BY <1>1, <1>2 DEF WizardInv, UploadIsOnScreen

LEMMA WizardStep == WizardInv /\ [WizardNext]_wizardVars => WizardInv'
<1> SUFFICES ASSUME WizardInv, [WizardNext]_wizardVars
             PROVE  WizardInv'
  OBVIOUS
<1> USE NoFileAssumption DEF WizardInv, WizardTypes, UploadIsOnScreen, File
<1>1. CASE Continue
  BY <1>1 DEF Continue, GoTo
<1>2. CASE Back
  <2>1. step' \in 1..3
    BY <1>2 DEF Back, GoTo
  <2>2. mounted' = NoFile /\ (~strayed' => ~strayed /\ mounted = NoFile)
    BY <1>2 DEF Back, GoTo
  <2>3. WizardTypes'
    BY <1>2, <2>1, <2>2 DEF Back, GoTo
  <2>4. UploadIsOnScreen'
    BY <1>2, <2>1, <2>2 DEF Back
  <2> QED  BY <2>3, <2>4
<1>3. CASE Skip
  BY <1>3 DEF Skip, GoTo
<1>4. CASE Publish
  BY <1>4 DEF Publish
<1>5. CASE PublishFails
  BY <1>5 DEF PublishFails
<1>11. CASE PublishAccepted
  <2>1. step' = 1 /\ inFlight' = {} /\ mounted' = NoFile
    BY <1>11 DEF PublishAccepted
  <2>2. strayed' \in BOOLEAN
    BY <1>11 DEF PublishAccepted
  <2> QED  BY <2>1, <2>2
<1>6. ASSUME NEW t \in BuildTypes, ChooseBuildType(t)
      PROVE  WizardInv'
  BY <1>6 DEF ChooseBuildType
<1>7. ASSUME NEW u \in Attempt, StartUpload(u)
      PROVE  WizardInv'
  BY <1>7 DEF StartUpload
<1>8. ASSUME NEW u \in Attempt, UploadDone(u)
      PROVE  WizardInv'
  BY <1>8 DEF UploadDone
<1>9. ASSUME NEW u \in Attempt, UploadFailed(u)
      PROVE  WizardInv'
  BY <1>9 DEF UploadFailed
<1>10. CASE UNCHANGED wizardVars
  BY <1>10 DEF wizardVars
<1> QED
  BY <1>1, <1>2, <1>3, <1>4, <1>5, <1>6, <1>7, <1>8, <1>9, <1>10, <1>11 DEF WizardNext

(* What is published carries the user's latest choice of a file, unless    *)
(* step 3 was left while it uploaded (handlePublish and                    *)
(* handleDockerfileComplete in PublishWizard.tsx).                         *)
THEOREM PublishedAsChosen == WizardSpec => PublishesTheChoice
<1>1. WizardInv /\ [WizardNext]_wizardVars
      => [body' # body /\ ~strayed
          => body'.file = IF body'.buildType = "cnb" THEN NoFile ELSE choice]_wizardVars
  <2> SUFFICES ASSUME WizardInv, WizardNext, body' # body, ~strayed
               PROVE  body'.file = IF body'.buildType = "cnb" THEN NoFile ELSE choice
    OBVIOUS
  <2>1. Publish
    BY DEF WizardNext, Continue, Back, Skip, PublishFails, PublishAccepted, ChooseBuildType,
           StartUpload, UploadDone, UploadFailed
  <2> QED  BY <2>1 DEF Publish, WizardInv, UploadIsOnScreen
<1> QED  BY <1>1, WizardStart, WizardStep, PTL DEF WizardSpec, PublishesTheChoice

----------------------------------------------------------------------------
(* The command line.                                                       *)

(* A container is there only from its start on; an image that is pulled or *)
(* started has passed its verification.                                    *)
RunInv ==
    /\ cmd.step \in Steps
    /\ cmd.step \in {"fetch", "verify", "pull", "start", "undo"} => container = NoDigest
    /\ cmd.step \in {"fetch", "verify", "pull", "start"} => ~volume
    /\ cmd.step = "remove" /\ ~failed => container = NoDigest
    /\ cmd.step \in {"pull", "start"} => cmd.noVerify \/ cmd.passed

CommandType ==
    [kind : {"run", "pull", "update"}, noVerify : BOOLEAN, step : Steps,
     found : Image \cup {NoDigest}, ref : Image \cup {NoDigest}, passed : BOOLEAN, answer : {"none", "current", "newer"}]

CliInv ==
    /\ cmd \in CommandType
    /\ listing.digest \in Image /\ images \subseteq Image
    /\ cmd.step \in {"verify", "pull", "start"} => cmd.ref \in Image
    /\ RunInv /\ RunsWhatWasVerified /\ LeavesNothing

LEMMA CliStart == CliInit => CliInv
<1> SUFFICES ASSUME CliInit
             PROVE  CliInv
  OBVIOUS
<1>1. cmd \in CommandType /\ cmd.step = "ended" /\ listing.digest \in Image /\ images = {}
  BY DEF CliInit, Command, CommandType, Steps
<1>2. container = NoDigest /\ ~volume
  BY DEF CliInit
<1> QED  BY <1>1, <1>2 DEF CliInv, RunInv, RunsWhatWasVerified, LeavesNothing, Steps

LEMMA CliStep == CliInv /\ [CliNext]_cliVars => CliInv'
<1> SUFFICES ASSUME CliInv, [CliNext]_cliVars
             PROVE  CliInv'
  OBVIOUS
<1> USE DEF CliInv, RunInv, CommandType, RunsWhatWasVerified, LeavesNothing, StepTo, Steps,
            Machine, Catalog
<1>1. ASSUME NEW kind \in {"run", "pull", "update"}, NEW noVerify \in BOOLEAN,
             Begin(kind, noVerify)
      PROVE  CliInv'
  <2> DEFINE Typed(found, s) ==
               [kind |-> kind, noVerify |-> noVerify, step |-> s, found |-> found,
                ref |-> NoDigest, passed |-> FALSE, answer |-> "none"]
  <2>1. \/ cmd' = Typed(NoDigest, "fetch") \/ cmd' = Typed(NoDigest, "ended")
        \/ \E d \in images : cmd' = Typed(d, "fetch")
    BY <1>1 DEF Begin, Command, FoundLocal
  <2>2. \A d \in Image \cup {NoDigest}, s \in {"fetch", "ended"} :
           Typed(d, s) \in CommandType /\ Typed(d, s).step = s
    OBVIOUS
  <2>3. images \subseteq Image
    OBVIOUS
  <2>4. PICK d \in Image \cup {NoDigest}, s \in {"fetch", "ended"} : cmd' = Typed(d, s)
    BY <2>1, <2>3
  <2>5. cmd' \in CommandType /\ cmd'.step \in {"fetch", "ended"}
    BY <2>2, <2>4
  <2>6. UNCHANGED <<listing, images>> /\ container' = NoDigest /\ volume' = FALSE
    BY <1>1 DEF Begin
  <2> HIDE DEF Typed
  <2> QED  BY <2>5, <2>6
<1>2. CASE FetchModule
  BY <1>2 DEF FetchModule
<1>3. CASE Verify
  BY <1>3 DEF Verify
<1>4. CASE GivesUp
  BY <1>4 DEF GivesUp
<1>5. CASE PullImage
  BY <1>5 DEF PullImage
<1>6. CASE Start
  BY <1>6 DEF Start
<1>7. CASE StartFails
  BY <1>7 DEF StartFails
<1>8. CASE UndoVolume
  BY <1>8 DEF UndoVolume
<1>9. CASE ContainerExits
  BY <1>9 DEF ContainerExits
<1>10. CASE StopsHolding
  BY <1>10 DEF StopsHolding
<1>11. CASE StopContainer
  BY <1>11 DEF StopContainer
<1>12. CASE RemoveVolume
  BY <1>12 DEF RemoveVolume
<1>13. CASE Killed
  BY <1>13 DEF Killed
<1>14. CASE KilledStarting
  BY <1>14 DEF KilledStarting
<1>15. CASE CatalogChanges
  BY <1>15 DEF CatalogChanges
<1>16. CASE UNCHANGED cliVars
  BY <1>16 DEF cliVars
<1> QED
  BY <1>1, <1>2, <1>3, <1>4, <1>5, <1>6, <1>7, <1>8, <1>9, <1>10, <1>11, <1>12, <1>13, <1>14,
     <1>15, <1>16 DEF CliNext

(* Without --no-verify a container runs the very digest that the API       *)
(* vouched for, however the catalog changes (run.rs).                      *)
THEOREM VerifiedIsRun == CliSpec => []RunsWhatWasVerified
<1>1. CliInv => RunsWhatWasVerified
  BY DEF CliInv
<1> QED  BY <1>1, CliStart, CliStep, PTL DEF CliSpec

(* A command that comes to its end leaves neither a container nor a volume *)
(* unless a call of the runtime failed (run.rs).                           *)
THEOREM TeardownIsClean == CliSpec => []LeavesNothing
<1>1. CliInv => LeavesNothing
  BY DEF CliInv
<1> QED  BY <1>1, CliStart, CliStep, PTL DEF CliSpec

(* While update works it has found an image that is here, and its answer   *)
(* stands until the next command.                                          *)
AnswerInv ==
    /\ cmd.kind = "update" => cmd.step \in {"fetch", "ended", "killed"}
    /\ cmd.kind = "update" /\ cmd.step = "fetch" => cmd.found \in images
    /\ cmd.answer # "none" => cmd.step \in {"ended", "killed"}
    /\ UpdateAnswersTrue

LEMMA AnswerStep ==
    ASSUME CliInv, AnswerInv, [CliNext]_cliVars
    PROVE  AnswerInv'
<1>1. cmd \in CommandType
  BY DEF CliInv
<1>2. ASSUME UNCHANGED images, cmd' = cmd \/ cmd'.answer = "none",
             cmd' # cmd /\ cmd'.kind = "update" =>
                 \/ cmd'.step \in {"ended", "killed"}
                 \/ cmd'.step = "fetch" /\ cmd'.found \in images
      PROVE  AnswerInv'
  BY <1>2 DEF AnswerInv, UpdateAnswersTrue
<1>3. CASE UNCHANGED cliVars \/ ContainerExits \/ CatalogChanges
  BY <1>2, <1>3 DEF cliVars, ContainerExits, CatalogChanges, Machine
<1>4. ASSUME NEW kind \in {"run", "pull", "update"}, NEW noVerify \in BOOLEAN,
             Begin(kind, noVerify)
      PROVE  AnswerInv'
  BY <1>2, <1>4 DEF Begin, Command, FoundLocal
<1>5. CASE FetchModule
  <2>1. cmd.step = "fetch" /\ cmd.answer = "none" /\ UNCHANGED images
    BY <1>1, <1>5 DEF FetchModule, Machine, AnswerInv, CommandType
  <2>2. CASE cmd.kind # "update"
    <3>1. cmd'.kind # "update" /\ cmd'.answer = "none"
      BY <1>1, <1>5, <2>1, <2>2 DEF FetchModule, CommandType
    <3> QED  BY <1>2, <2>1, <3>1
  <2>3. CASE cmd.kind = "update"
    <3>1. /\ cmd'.kind = "update" /\ cmd'.step = "ended" /\ cmd'.ref = listing.digest
          /\ cmd'.answer = IF listing.digest = cmd.found THEN "current" ELSE "newer"
      BY <1>1, <1>5, <2>3 DEF FetchModule, CommandType
    <3>2. cmd.found \in images'
      BY <2>1, <2>3 DEF AnswerInv
    <3>3. UpdateAnswersTrue'
      BY <3>1, <3>2 DEF UpdateAnswersTrue
    <3> QED  BY <3>1, <3>3 DEF AnswerInv
  <2> QED  BY <2>2, <2>3
<1>6. CASE PullImage
  <2>1. cmd.step = "pull" /\ cmd.kind # "update" /\ cmd.answer = "none"
    BY <1>1, <1>6 DEF PullImage, AnswerInv, CommandType
  <2>2. cmd'.kind # "update" /\ cmd'.answer = "none"
    BY <1>1, <1>6, <2>1 DEF PullImage, StepTo, CommandType
  <2> QED  BY <2>2 DEF AnswerInv, UpdateAnswersTrue
<1>7. CASE Verify \/ GivesUp \/ Killed \/ Start \/ StartFails \/ UndoVolume
           \/ StopsHolding \/ StopContainer \/ RemoveVolume \/ KilledStarting
  <2>1. /\ UNCHANGED images /\ cmd.step \notin {"ended", "killed"} /\ cmd.answer = "none"
        /\ \/ cmd'.step \in {"ended", "killed"}
           \/ cmd.step # "fetch"
        /\ cmd'.kind = cmd.kind /\ cmd'.answer = cmd.answer
    BY <1>1, <1>7
       DEF Verify, GivesUp, Killed, Over, Start, StartFails, UndoVolume, StopsHolding,
           StopContainer, RemoveVolume, KilledStarting, StepTo, Machine, Catalog, AnswerInv,
           CommandType
  <2>2. cmd.step # "fetch" => cmd.kind # "update"
    BY <2>1 DEF AnswerInv
  <2> QED  BY <1>2, <2>1, <2>2
<1> QED  BY <1>3, <1>4, <1>5, <1>6, <1>7 DEF CliNext

(* What `flareo update` answers is so, whichever local image it finds:     *)
(* what it calls current is here, and updates are for another image that   *)
(* is (update.rs:101-127, 218-263).                                        *)
THEOREM UpdatesAreTrue == CliSpec => []UpdateAnswersTrue
<1>1. CliInit => AnswerInv
  BY DEF CliInit, Command, AnswerInv, UpdateAnswersTrue
<1>2. CliInv /\ AnswerInv /\ [CliNext]_cliVars => AnswerInv'
  BY AnswerStep
<1>3. AnswerInv => UpdateAnswersTrue
  BY DEF AnswerInv
<1> QED  BY <1>1, <1>2, <1>3, CliStart, CliStep, PTL DEF CliSpec

----------------------------------------------------------------------------
(* The verification page.                                                  *)

QueryStates ==
    [step : {"unused", "resolve", "signature", "index", "platform", "catalog", "answered"},
     ref : Reference, digest : Manifest \cup {NoManifest},
     outcome : {"none", "good", "bad"} \cup Status, blind : BOOLEAN, absent : SUBSET Manifest]

(* What a request knows at each of its steps.                              *)
Knows(r) ==
    /\ r.step \in {"resolve", "signature"} => r.absent = {}
    /\ r.step \in {"signature", "index", "platform", "catalog"} => r.digest \in Manifest
    /\ r.step = "index" => r.outcome = "unsigned" /\ r.digest \in r.absent
                           /\ \A d \in r.absent : d = r.digest
    /\ r.step = "platform" => /\ PlatformOf[r.digest] = NoManifest
                              /\ r.digest \notin r.absent
    /\ r.step = "catalog" =>
          /\ r.outcome \in {"unsigned", "bad", "good"}
          /\ r.outcome = "unsigned" => /\ r.digest \in r.absent
                                       /\ PlatformOf[r.digest] # NoManifest => r.blind
          /\ r.outcome = "good" => r.digest \notin r.absent
    /\ r.step = "answered" =>
          /\ r.outcome = "unsigned" => /\ r.digest \in r.absent
                                       /\ PlatformOf[r.digest] # NoManifest => r.blind
          /\ r.outcome \in {"signed", "verified"} => r.digest \notin r.absent

(* Whatever is shown, or will be, is about what is typed, but for the two  *)
(* reasons the page gives.                                                 *)
AsksItsTarget ==
    edited \/ overlapped \/
        /\ display # NoQuery => ask[display].ref = input
        /\ \A q \in Pending : ask[q].ref = input

VerifyInv ==
    /\ ask \in [Query -> QueryStates]
    /\ sig \in [Manifest -> {"none", "good", "bad"}]
    /\ input \in Reference
    /\ edited \in BOOLEAN /\ overlapped \in BOOLEAN
    /\ display \in Query \cup {NoQuery}
    /\ display # NoQuery => ask[display].step = "answered"
    /\ \A q \in Query : Knows(ask[q])
    /\ AsksItsTarget

(* A step of a request that is under way and does not answer it.           *)
LEMMA ProceedKeepsInv ==
    ASSUME VerifyInv, NEW q \in Pending, NEW r \in QueryStates, Proceed(q, r),
           r.step \notin {"unused", "answered"}, r.ref = ask[q].ref, Knows(r)
    PROVE  VerifyInv'
<1>1. q \in Query /\ display # q
  BY VerifyAssumption DEF Pending, VerifyInv
<1>2. ask' \in [Query -> QueryStates] /\ \A p \in Query : ask'[p] = IF p = q THEN r ELSE ask[p]
  BY <1>1 DEF Proceed, VerifyInv
<1>3. UNCHANGED <<sig, input, display, edited, overlapped>>
  BY DEF Proceed, PageState
<1>4. AsksItsTarget'
  BY <1>1, <1>2, <1>3 DEF VerifyInv, AsksItsTarget, Pending
<1>5. \A p \in Query : Knows(ask'[p])
  BY <1>2 DEF VerifyInv
<1> QED  BY <1>1, <1>2, <1>3, <1>4, <1>5 DEF VerifyInv, Knows

(* The answer of a request.                                                *)
LEMMA AnswerKeepsInv ==
    ASSUME VerifyInv, NEW q \in Pending, NEW r \in QueryStates, Answer(q, r),
           r.ref = ask[q].ref, Knows([r EXCEPT !.step = "answered"])
    PROVE  VerifyInv'
<1> DEFINE a == [r EXCEPT !.step = "answered"]
<1>1. q \in Query /\ q # NoQuery
  BY VerifyAssumption DEF Pending
<1>2. a \in QueryStates /\ a.ref = ask[q].ref /\ a.step = "answered"
  BY DEF QueryStates
<1>3. ask' \in [Query -> QueryStates] /\ \A p \in Query : ask'[p] = IF p = q THEN a ELSE ask[p]
  BY <1>1, <1>2 DEF Answer, VerifyInv
<1>4. display' = q /\ UNCHANGED <<sig, input, edited, overlapped>>
  BY DEF Answer
<1> HIDE DEF a
<1>5. AsksItsTarget'
  BY <1>1, <1>2, <1>3, <1>4 DEF VerifyInv, AsksItsTarget, Pending
<1>6. \A p \in Query : Knows(ask'[p])
  BY <1>3 DEF VerifyInv, a
<1> QED  BY <1>1, <1>2, <1>3, <1>4, <1>5, <1>6 DEF VerifyInv, Knows

LEMMA QueryStep ==
    ASSUME VerifyInv, NEW q \in Query,
           ResolveRef(q) \/ RequestFails(q) \/ VerifyDigest(q) \/ TrustRootFails(q)
             \/ DescendIndex(q) \/ IndexFails(q) \/ MapOutcome(q)
    PROVE  VerifyInv'
<1> DEFINE s == ask[q]
<1>1. s \in QueryStates /\ Knows(s)
  BY DEF VerifyInv
<1>2. CASE ResolveRef(q)
  <2>1. PICK d \in IF s.ref = Tag THEN Manifest ELSE {s.ref} :
            Proceed(q, [s EXCEPT !.digest = d, !.step = "signature"])
    BY <1>2 DEF ResolveRef
  <2>2. s.step = "resolve" /\ d \in Manifest
    BY <1>1, <1>2, <2>1 DEF ResolveRef, QueryStates, Reference
  <2> DEFINE r == [s EXCEPT !.digest = d, !.step = "signature"]
  <2>3. r \in QueryStates /\ r.ref = s.ref /\ r.step = "signature" /\ Knows(r)
    BY <1>1, <2>2 DEF QueryStates, Knows
  <2>4. q \in Pending
    BY <2>2 DEF Pending
  <2> QED  BY <2>1, <2>3, <2>4, ProceedKeepsInv
<1>3. CASE RequestFails(q)
  <2> DEFINE r == [s EXCEPT !.outcome = "error"]
  <2>1. r \in QueryStates /\ r.ref = s.ref /\ Knows([r EXCEPT !.step = "answered"])
    BY <1>1 DEF QueryStates, Knows, Status
  <2>2. q \in Pending /\ Answer(q, r)
    BY <1>3 DEF RequestFails, Pending
  <2> QED  BY <2>1, <2>2, AnswerKeepsInv
<1>4. CASE VerifyDigest(q)
  <2>1. q \in Pending /\ s.step \in {"signature", "platform"} /\ s.digest \in Manifest
    BY <1>1, <1>4 DEF VerifyDigest, Pending, Knows
  <2> DEFINE missing == sig[s.digest] = "none"
             r == [s EXCEPT !.outcome = IF missing THEN "unsigned" ELSE sig[s.digest],
                            !.absent = IF missing THEN @ \cup {s.digest} ELSE @,
                            !.step = IF missing /\ s.step = "signature" THEN "index" ELSE "catalog"]
  <2>2. Proceed(q, r)
    BY <1>4 DEF VerifyDigest
  <2>3. sig[s.digest] \in {"none", "good", "bad"}
    BY <2>1 DEF VerifyInv
  <2>4. r \in QueryStates /\ r.ref = s.ref /\ r.step \in {"index", "catalog"}
    BY <1>1, <2>1, <2>3 DEF QueryStates, Status
  <2>5. Knows(r)
    BY <1>1, <2>1, <2>3 DEF QueryStates, Knows
  <2> QED  BY <2>1, <2>2, <2>4, <2>5, ProceedKeepsInv
<1>5. CASE DescendIndex(q)
  <2> DEFINE child == PlatformOf[s.digest]
  <2>1. q \in Pending /\ s.step = "index" /\ s.digest \in Manifest
    BY <1>1, <1>5 DEF DescendIndex, Pending, Knows
  <2>2. CASE child = NoManifest
    <3> DEFINE r == [s EXCEPT !.step = "catalog"]
    <3>1. r \in QueryStates /\ r.ref = s.ref /\ r.step = "catalog" /\ Knows(r)
      BY <1>1, <2>1, <2>2 DEF QueryStates, Knows
    <3> QED  BY <1>5, <2>1, <2>2, <3>1, ProceedKeepsInv DEF DescendIndex
  <2>3. CASE child # NoManifest
    <3> DEFINE r == [s EXCEPT !.step = "platform", !.digest = child]
    <3>1. child \in Manifest /\ PlatformOf[child] = NoManifest /\ child # s.digest
      BY <2>1, <2>3, VerifyAssumption
    <3>2. r \in QueryStates /\ r.ref = s.ref /\ r.step = "platform" /\ Knows(r)
      BY <1>1, <2>1, <3>1 DEF QueryStates, Knows
    <3> QED  BY <1>5, <2>1, <2>3, <3>2, ProceedKeepsInv DEF DescendIndex
  <2> QED  BY <2>2, <2>3
<1>6. CASE IndexFails(q)
  <2> DEFINE r == [s EXCEPT !.step = "catalog", !.blind = TRUE]
  <2>1. q \in Pending /\ s.step = "index" /\ Proceed(q, r)
    BY <1>6 DEF IndexFails, Pending
  <2>2. r \in QueryStates /\ r.ref = s.ref /\ r.step = "catalog" /\ Knows(r)
    BY <1>1, <2>1 DEF QueryStates, Knows
  <2> QED  BY <2>1, <2>2, ProceedKeepsInv
<1>7. CASE MapOutcome(q)
  <2>1. q \in Pending /\ s.step = "catalog"
    BY <1>7 DEF MapOutcome, Pending
  <2>2. s.outcome \in {"unsigned", "bad", "good"}
    BY <1>1, <2>1 DEF Knows
  <2>3. PICK status : /\ Answer(q, [s EXCEPT !.outcome = status])
                      /\ status \in {"unsigned", "invalid", "signed", "verified"}
                      /\ status = "unsigned" => s.outcome = "unsigned"
                      /\ status \in {"signed", "verified"} => s.outcome = "good"
    BY <1>7, <2>2 DEF MapOutcome
  <2> DEFINE r == [s EXCEPT !.outcome = status]
  <2>4. r \in QueryStates /\ r.ref = s.ref /\ Knows([r EXCEPT !.step = "answered"])
    BY <1>1, <2>1, <2>3 DEF QueryStates, Knows, Status
  <2> QED  BY <2>1, <2>3, <2>4, AnswerKeepsInv
<1>8. CASE TrustRootFails(q)
  <2> DEFINE r == [s EXCEPT !.outcome = "bad", !.step = "catalog"]
  <2>1. q \in Pending /\ s.step \in {"signature", "platform"} /\ Proceed(q, r)
    BY <1>8 DEF TrustRootFails, Pending
  <2>2. r \in QueryStates /\ r.ref = s.ref /\ r.step = "catalog" /\ Knows(r)
    BY <1>1, <2>1 DEF QueryStates, Knows
  <2> QED  BY <2>1, <2>2, ProceedKeepsInv
<1> QED  BY <1>2, <1>3, <1>4, <1>5, <1>6, <1>7, <1>8

LEMMA VerifyStart == VerifyInit => VerifyInv
<1> SUFFICES ASSUME VerifyInit
             PROVE  VerifyInv
  OBVIOUS
<1>1. Unused \in QueryStates /\ Knows(Unused) /\ Unused.step = "unused"
  BY DEF Unused, QueryStates, Knows, Reference
<1>2. ask \in [Query -> QueryStates] /\ \A q \in Query : ask[q] = Unused
  BY <1>1 DEF VerifyInit
<1>3. display = NoQuery /\ Pending = {}
  BY <1>1, <1>2 DEF VerifyInit, Pending
<1>4. edited \in BOOLEAN /\ overlapped \in BOOLEAN
  BY DEF VerifyInit
<1> QED  BY <1>1, <1>2, <1>3, <1>4 DEF VerifyInit, VerifyInv, AsksItsTarget

LEMMA VerifyStep == VerifyInv /\ [VerifyNext]_verifyVars => VerifyInv'
<1> SUFFICES ASSUME VerifyInv, [VerifyNext]_verifyVars
             PROVE  VerifyInv'
  OBVIOUS
<1>1. ASSUME NEW q \in Query, Press(q)
      PROVE  VerifyInv'
  <2> DEFINE r == [Unused EXCEPT !.step = "resolve", !.ref = input]
  <2>1. r \in QueryStates /\ r.step = "resolve" /\ r.ref = input /\ Knows(r)
    BY DEF Unused, QueryStates, Knows, VerifyInv
  <2>2. ask' \in [Query -> QueryStates] /\ \A p \in Query : ask'[p] = IF p = q THEN r ELSE ask[p]
    BY <1>1, <2>1 DEF Press, VerifyInv
  <2> HIDE DEF r
  <2>3. display' = NoQuery /\ UNCHANGED <<sig, input>>
    BY <1>1 DEF Press
  <2>4. edited' \in BOOLEAN /\ overlapped' \in BOOLEAN /\ (~overlapped' => Pending = {})
    BY <1>1 DEF Press
  <2>5. Pending' \subseteq Pending \cup {q}
    BY <2>2 DEF Pending
  <2>6. AsksItsTarget'
    BY <2>1, <2>2, <2>3, <2>4, <2>5 DEF AsksItsTarget
  <2>7. \A p \in Query : Knows(ask'[p])
    BY <2>1, <2>2 DEF VerifyInv
  <2> QED  BY <2>2, <2>3, <2>4, <2>6, <2>7 DEF VerifyInv, Knows
<1>2. ASSUME NEW q \in Query,
             ResolveRef(q) \/ RequestFails(q) \/ VerifyDigest(q) \/ TrustRootFails(q)
               \/ DescendIndex(q) \/ IndexFails(q) \/ MapOutcome(q)
      PROVE  VerifyInv'
  BY <1>2, QueryStep
<1>3. ASSUME NEW ref \in Reference, Type(ref)
      PROVE  VerifyInv'
  <2>1. input' \in Reference /\ edited' /\ UNCHANGED <<sig, ask, display, overlapped>>
    BY <1>3 DEF Type
  <2>2. edited' \in BOOLEAN
    BY <1>3 DEF Type
  <2> QED  BY <2>1, <2>2 DEF VerifyInv, AsksItsTarget, Knows
<1>4. ASSUME NEW d \in Manifest, Sign(d)
      PROVE  VerifyInv'
  BY <1>4 DEF Sign, PageState, VerifyInv, AsksItsTarget, Knows, Pending
<1>5. CASE UNCHANGED verifyVars
  BY <1>5 DEF verifyVars, VerifyInv, AsksItsTarget, Knows, Pending
<1> QED  BY <1>1, <1>2, <1>3, <1>4, <1>5 DEF VerifyNext

(* An answer "unsigned" has looked at the digest and, for an index, at its *)
(* platform; "signed" and "verified" are never said of a digest whose      *)
(* signature was missing (verifyImage in verify.ts).                       *)
THEOREM UnsignedLookedEverywhere == VerifySpec => []UnsignedIsUnsigned
<1>1. VerifyInv => UnsignedIsUnsigned
  BY DEF VerifyInv, Knows, UnsignedIsUnsigned
<1> QED  BY <1>1, VerifyStart, VerifyStep, PTL DEF VerifySpec

(* The page shows the answer for what is typed, unless it was typed in     *)
(* since or two requests ran at once (run in VerifyTool.tsx).              *)
THEOREM PageShowsItsTarget == VerifySpec => []ShowsItsTarget
<1>1. VerifyInv => ShowsItsTarget
  BY DEF VerifyInv, AsksItsTarget, ShowsItsTarget
<1> QED  BY <1>1, VerifyStart, VerifyStep, PTL DEF VerifySpec

=============================================================================
