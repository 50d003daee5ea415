---------------------------------- MODULE Site --------------------------------
(***************************************************************************)
(* The parts of the platform beside the submission pipeline and billing,   *)
(* side by side.  None writes a row, a file or a page of another: what one *)
(* takes from another (the signals that are left after VEX, the plan of a  *)
(* user, the answer of /verify) its module lets change at any time.  So    *)
(* the states of a part do not depend on when the others move, and one is  *)
(* followed at a time: "focus" names it, the others stay as they began.    *)
(***************************************************************************)
EXTENDS SubmissionIntake, VexDesk, PolicyVerdicts, Reviews, Reports, BuildLog, Previews,
        RateLimiter, FlareoCli, PublishWizard, VerifyImage, AccountKeys

VARIABLE focus

Parts == {"intake", "vex", "policy", "review", "report", "log", "preview", "limiter",
          "cli", "wizard", "verify", "account"}

siteVars == <<focus, intakeVars, vexVars, policyVars, reviewVars, reportVars, logVars,
              previewVars, limiterVars, cliVars, wizardVars, verifyVars, accountVars>>

\* A part that is not followed begins in one of its initial states.
SiteInit ==
    /\ focus \in Parts
    /\ IntakeInit  /\ (focus = "intake" \/ planOf = [u \in Publisher |-> "free"])
    /\ VexInit     /\ (focus = "vex" \/ \A s \in DOMAIN cves : cves[s] = 0)
    /\ PolicyInit  /\ (focus = "policy" \/ signals = CHOOSE i \in Input : TRUE)
    /\ CliInit     /\ (focus = "cli" \/ (listing.verified /\ listing.digest = Max(Image)
                                         /\ vouched = Image))
    /\ VerifyInit  /\ (focus = "verify" \/ (input = Tag /\ \A d \in Manifest : sig[d] = "none"))
    /\ ReviewInit /\ ReportInit /\ LogInit /\ PreviewInit /\ LimiterInit
    /\ WizardInit /\ AccountInit

\* Everything but the part that is followed.
Rest(part) ==
    /\ focus = part
    /\ UNCHANGED focus
    /\ part # "intake"  => UNCHANGED intakeVars
    /\ part # "vex"     => UNCHANGED vexVars
    /\ part # "policy"  => UNCHANGED policyVars
    /\ part # "review"  => UNCHANGED reviewVars
    /\ part # "report"  => UNCHANGED reportVars
    /\ part # "log"     => UNCHANGED logVars
    /\ part # "preview" => UNCHANGED previewVars
    /\ part # "limiter" => UNCHANGED limiterVars
    /\ part # "cli"     => UNCHANGED cliVars
    /\ part # "wizard"  => UNCHANGED wizardVars
    /\ part # "verify"  => UNCHANGED verifyVars
    /\ part # "account" => UNCHANGED accountVars

SiteNext ==
    \/ Rest("intake")  /\ IntakeNext
    \/ Rest("vex")     /\ VexNext
    \/ Rest("policy")  /\ PolicyNext
    \/ Rest("review")  /\ ReviewNext
    \/ Rest("report")  /\ ReportNext
    \/ Rest("log")     /\ LogNext
    \/ Rest("preview") /\ PreviewNext
    \/ Rest("limiter") /\ LimiterNext
    \/ Rest("cli")     /\ CliNext
    \/ Rest("wizard")  /\ WizardNext
    \/ Rest("verify")  /\ VerifyNext
    \/ Rest("account") /\ AccountNext

SiteSpec == SiteInit /\ [][SiteNext]_siteVars

(* The types of all parts.                                                 *)
SiteTypeOK ==
    /\ focus \in Parts
    /\ IntakeTypeOK /\ VexTypeOK /\ PolicyTypeOK /\ ReviewTypeOK /\ ReportTypeOK /\ LogTypeOK
    /\ PreviewTypeOK /\ LimiterTypeOK /\ CliTypeOK /\ WizardTypeOK /\ VerifyTypeOK /\ AccountTypeOK

=============================================================================
