----------------------------- MODULE PublishWizard ----------------------------
(***************************************************************************)
(* The publish page: a wizard of four steps, of which the third attaches a *)
(* Dockerfile by an upload of its own.  Leaving that step does not cancel  *)
(* the upload, whose completion still moves the wizard to step four.       *)
(*                                                                         *)
(* Texts typed into the form are left out, but for whether a step has what *)
(* it asks for: its button is pressed or not.                              *)
(***************************************************************************)
EXTENDS Naturals

CONSTANTS Attempt,    \* uploads
          NoFile

ASSUME NoFileAssumption == NoFile \notin Attempt

VARIABLES step,       \* 1 source, 2 manifest, 3 Dockerfile, 4 review
          buildType,
          inFlight,   \* uploads that have not been answered
          used,       \* uploads made so far
          mounted,    \* the upload that makes the step on screen busy
          attached,   \* dockerfileUrl and dockerfileSha256, which are set together
          publishing,
          body,       \* what the latest POST /submissions said
          choice,     \* history: the user's latest word on step 3
          strayed     \* history: step 3 was left while it uploaded

wizardVars == <<step, buildType, inFlight, used, mounted, attached, publishing, body, choice, strayed>>

File == Attempt \cup {NoFile}
BuildTypes == {"dockerfile", "cnb"}

WizardTypeOK ==
    /\ step \in 1..4
    /\ buildType \in BuildTypes
    /\ inFlight \subseteq used /\ used \subseteq Attempt
    /\ mounted \in File /\ attached \in File /\ choice \in File
    /\ publishing \in BOOLEAN /\ strayed \in BOOLEAN
    /\ body \in [buildType : BuildTypes, file : File] \cup {[buildType |-> "none", file |-> NoFile]}

WizardInit ==
    /\ step = 1
    /\ buildType = "dockerfile"
    /\ inFlight = {} /\ used = {}
    /\ mounted = NoFile /\ attached = NoFile
    /\ publishing = FALSE
    /\ body = [buildType |-> "none", file |-> NoFile]
    /\ choice = NoFile /\ strayed = FALSE

----------------------------------------------------------------------------
GoTo(to) ==
    /\ step' = to
    /\ mounted' = NoFile
    /\ strayed' = (strayed \/ mounted # NoFile)

\* Continue and Back; step 3 is for Dockerfiles only.
Continue ==
    /\ step \in {1, 2}
    /\ GoTo(IF step = 1 THEN 2 ELSE IF buildType = "cnb" THEN 4 ELSE 3)
    /\ UNCHANGED <<buildType, inFlight, used, attached, publishing, body, choice>>

Back ==
    /\ step \in {2, 3, 4}
    /\ GoTo(IF step = 4 /\ buildType = "cnb" THEN 2 ELSE step - 1)
    /\ UNCHANGED <<buildType, inFlight, used, attached, publishing, body, choice>>

ChooseBuildType(t) ==
    /\ step = 2
    /\ buildType' = t
    /\ UNCHANGED <<step, inFlight, used, mounted, attached, publishing, body, choice, strayed>>

\* "Upload & continue".
StartUpload(u) ==
    /\ step = 3 /\ mounted = NoFile
    /\ u \notin used
    /\ used' = used \cup {u}
    /\ inFlight' = inFlight \cup {u}
    /\ mounted' = u
    /\ choice' = u
    /\ UNCHANGED <<step, buildType, attached, publishing, body, strayed>>

\* onComplete, whatever step is on screen by now.
UploadDone(u) ==
    /\ u \in inFlight
    /\ inFlight' = inFlight \ {u}
    /\ attached' = u
    /\ step' = 4
    /\ mounted' = NoFile
    /\ strayed' = (strayed \/ mounted \notin {u, NoFile})
    /\ UNCHANGED <<buildType, used, publishing, body, choice>>

UploadFailed(u) ==
    /\ u \in inFlight
    /\ inFlight' = inFlight \ {u}
    /\ mounted' = IF mounted = u THEN NoFile ELSE mounted
    /\ UNCHANGED <<step, buildType, used, attached, publishing, body, choice, strayed>>

\* Mutant: skipping leaves an earlier upload attached.
SkipKeeping ==
    /\ step = 3 /\ mounted = NoFile
    /\ choice' = NoFile
    /\ GoTo(4)
    /\ UNCHANGED <<buildType, inFlight, used, attached, publishing, body>>

\* "Skip for now", disabled while the step is busy.
Skip ==
    /\ step = 3 /\ mounted = NoFile
    /\ attached' = NoFile
    /\ choice' = NoFile
    /\ GoTo(4)
    /\ UNCHANGED <<buildType, inFlight, used, publishing, body>>

\* handlePublish; Back is not disabled while it waits.
Publish ==
    /\ step = 4 /\ ~publishing
    /\ publishing' = TRUE
    /\ body' = [buildType |-> buildType,
                file |-> IF buildType = "cnb" THEN NoFile ELSE attached]
    /\ UNCHANGED <<step, buildType, inFlight, used, mounted, attached, choice, strayed>>

\* An error answer or none at all; an accepted one leaves the page.
PublishFails ==
    /\ publishing
    /\ publishing' = FALSE
    /\ UNCHANGED <<step, buildType, inFlight, used, mounted, attached, body, choice, strayed>>

PublishAccepted ==
    /\ publishing
    /\ step' = 1 /\ buildType' = "dockerfile" /\ inFlight' = {} /\ mounted' = NoFile
    /\ attached' = NoFile /\ publishing' = FALSE /\ choice' = NoFile /\ strayed' = FALSE
    /\ UNCHANGED <<used, body>>

WizardNext ==
    \/ Continue \/ Back \/ Skip \/ Publish \/ PublishFails \/ PublishAccepted
    \/ \E t \in BuildTypes : ChooseBuildType(t)
    \/ \E u \in Attempt : StartUpload(u) \/ UploadDone(u) \/ UploadFailed(u)

WizardSpec == WizardInit /\ [][WizardNext]_wizardVars

----------------------------------------------------------------------------
(* What is published is what the user chose last: a Dockerfile build       *)
(* carries the upload of the user's latest word on step 3, or no file when *)
(* that was to skip, and a buildpack build carries none.  Only an upload   *)
(* that step 3 was left behind with can take the place of a later choice.  *)
PublishesTheChoice ==
    [][body' # body /\ ~strayed
       => body'.file = IF body'.buildType = "cnb" THEN NoFile ELSE choice]_wizardVars

=============================================================================
