------------------------------- MODULE FlareoCli ------------------------------
(***************************************************************************)
(* The commands `flareo run`, `flareo pull` and `flareo update` for one    *)
(* module on one machine, one command after the other, against a catalog   *)
(* that changes meanwhile and a container runtime whose calls may fail.    *)
(*                                                                         *)
(* Digests are numbers from 1 on.  The container and the volume of a run   *)
(* carry names of their own, so a new command starts from none, whatever   *)
(* an earlier one left.                                                    *)
(***************************************************************************)
EXTENDS Naturals

CONSTANTS Image       \* digests

ASSUME ImageAssumption == Image \subseteq Nat \ {0} /\ Image # {}

VARIABLES listing,    \* the catalog: the module's digest and whether it is "verified"
          vouched,    \* digests that /verify answers "verified" or "signed" for
          images,     \* local images of the module, docker's and podman's
          cmd,        \* the command: its kind, flags, step, found and pinned digest, answer
          container,  \* the digest that the run's container runs; 0: no container
          volume,     \* the run's volume is there
          failed      \* history: a call of the runtime failed in this command

cliVars == <<listing, vouched, images, cmd, container, volume, failed>>

NoDigest == 0
Steps == {"fetch", "verify", "pull", "start", "undo", "hold", "stop", "remove", "ended", "killed"}

CliTypeOK ==
    /\ listing \in [digest : Image, verified : BOOLEAN]
    /\ vouched \subseteq Image /\ images \subseteq Image
    /\ cmd \in [kind : {"run", "pull", "update"}, noVerify : BOOLEAN, step : Steps,
                found : Image \cup {NoDigest}, ref : Image \cup {NoDigest},
                passed : BOOLEAN, answer : {"none", "current", "newer"}]
    /\ container \in Image \cup {NoDigest}
    /\ volume \in BOOLEAN /\ failed \in BOOLEAN

Command(kind, noVerify) ==
    [kind |-> kind, noVerify |-> noVerify, step |-> "fetch", found |-> NoDigest,
     ref |-> NoDigest, passed |-> FALSE, answer |-> "none"]

CliInit ==
    /\ listing \in [digest : Image, verified : BOOLEAN]
    /\ vouched \in SUBSET Image
    /\ images = {}
    /\ cmd = [Command("pull", FALSE) EXCEPT !.step = "ended"]
    /\ container = NoDigest /\ volume = FALSE /\ failed = FALSE

----------------------------------------------------------------------------
(* What all three do.                                                      *)

\* Mutant: an image is found whatever its repository.
AnyLocal == Image

\* The local images that update may compare with: the first one of the module
\* in docker's list, or in podman's where docker fails or lists none; which
\* comes first is up to the runtime.
FoundLocal == images

Over == cmd.step \in {"ended", "killed"}
Catalog == <<listing, vouched>>
Machine == <<images, container, volume>>

StepTo(step) == cmd' = [cmd EXCEPT !.step = step]

\* A command is typed.  update, without --current, looks for a local image
\* first, and ends when it finds none.
Begin(kind, noVerify) ==
    /\ Over
    /\ \/ cmd' = Command(kind, noVerify) /\ kind # "update"
       \/ /\ kind = "update"
          /\ \E d \in FoundLocal : cmd' = [Command(kind, noVerify) EXCEPT !.found = d]
       \/ /\ kind = "update"
          /\ cmd' = [Command(kind, noVerify) EXCEPT !.step = "ended"]
    /\ container' = NoDigest /\ volume' = FALSE /\ failed' = FALSE
    /\ UNCHANGED <<Catalog, images>>

\* GET /modules/:slug pins the digest; a module that is not "verified" is
\* refused; update compares and answers.
FetchModule ==
    /\ cmd.step = "fetch"
    /\ cmd' = IF cmd.kind = "update"
              THEN [cmd EXCEPT !.ref = listing.digest, !.step = "ended",
                               !.answer = IF listing.digest = cmd.found THEN "current" ELSE "newer"]
              ELSE [cmd EXCEPT !.ref = listing.digest,
                               !.step = IF cmd.noVerify THEN "pull"
                                        ELSE IF listing.verified THEN "verify" ELSE "ended"]
    /\ UNCHANGED <<Catalog, Machine, failed>>

\* POST /verify with the pinned reference.
Verify ==
    /\ cmd.step = "verify"
    /\ cmd' = IF cmd.ref \in vouched THEN [cmd EXCEPT !.step = "pull", !.passed = TRUE]
                                     ELSE [cmd EXCEPT !.step = "ended"]
    /\ UNCHANGED <<Catalog, Machine, failed>>

\* No runtime, a failed request, or a runtime that cannot be invoked.
GivesUp ==
    /\ cmd.step \in {"fetch", "verify", "pull", "start"}
    /\ StepTo("ended")
    /\ UNCHANGED <<Catalog, Machine, failed>>

\* docker pull <ref>.
PullImage ==
    /\ cmd.step = "pull"
    /\ images' = images \cup {cmd.ref}
    /\ StepTo(IF cmd.kind = "run" THEN "start" ELSE "ended")
    /\ UNCHANGED <<Catalog, container, volume, failed>>

----------------------------------------------------------------------------
(* The rest of run.                                                        *)

\* Mutant: the container runs what the catalog lists by now.
StartListed ==
    /\ cmd.step = "start"
    /\ container' = listing.digest /\ volume' = TRUE
    /\ StepTo("hold")
    /\ UNCHANGED <<Catalog, images, failed>>

\* docker run -d --rm ... <ref>.
Start ==
    /\ cmd.step = "start"
    /\ container' = cmd.ref /\ volume' = TRUE
    /\ StepTo("hold")
    /\ UNCHANGED <<Catalog, images, failed>>

\* It exits with an error: no container, but the volume may be there.
StartFails ==
    /\ cmd.step = "start"
    /\ volume' \in BOOLEAN
    /\ StepTo("undo")
    /\ UNCHANGED <<Catalog, images, container, failed>>

\* The volume of a failed start, if any, is removed; the outcome is dropped.
UndoVolume ==
    /\ cmd.step = "undo"
    /\ StepTo("ended")
    /\ \/ volume' = FALSE /\ UNCHANGED failed
       \/ failed' = TRUE /\ UNCHANGED volume
    /\ UNCHANGED <<Catalog, images, container>>

\* The process in the container ends by itself, and --rm removes the container.
ContainerExits ==
    /\ container # NoDigest
    /\ container' = NoDigest
    /\ UNCHANGED <<Catalog, images, cmd, volume, failed>>

\* The first of Ctrl-C, the TTL (none if it is 0) and an inspect that no
\* longer finds the container, or fails: the select cannot tell these apart.
StopsHolding ==
    /\ cmd.step = "hold"
    /\ StepTo("stop")
    /\ UNCHANGED <<Catalog, Machine, failed>>

\* Mutant: a container that could not be stopped ends the command.
StopOrEnd ==
    /\ cmd.step = "stop"
    /\ container' = NoDigest
    /\ StepTo(IF container = NoDigest THEN "ended" ELSE "remove")
    /\ UNCHANGED <<Catalog, images, volume, failed>>

\* docker stop: an error is a warning, and is one when the container is gone.
StopContainer ==
    /\ cmd.step = "stop"
    /\ StepTo("remove")
    /\ \/ container' = NoDigest /\ UNCHANGED failed
       \/ failed' = TRUE /\ UNCHANGED container
    /\ UNCHANGED <<Catalog, images, volume>>

\* docker volume rm -f, which a container that still runs prevents.
RemoveVolume ==
    /\ cmd.step = "remove"
    /\ StepTo("ended")
    /\ \/ container = NoDigest /\ volume' = FALSE /\ UNCHANGED failed
       \/ failed' = TRUE /\ UNCHANGED volume
    /\ UNCHANGED <<Catalog, images, container>>

\* The process is killed; by Ctrl-C only before the hold, where it listens.
Killed ==
    /\ ~Over
    /\ StepTo("killed")
    /\ UNCHANGED <<Catalog, Machine, failed>>

\* Killed while docker run works: that may finish all the same.
KilledStarting ==
    /\ cmd.step = "start"
    /\ container' = cmd.ref /\ volume' = TRUE
    /\ StepTo("killed")
    /\ UNCHANGED <<Catalog, images, failed>>

\* Rebuilds, reviews and new signatures, at any time.
CatalogChanges ==
    /\ listing' \in [digest : Image, verified : BOOLEAN]
    /\ vouched' \in {vouched} \cup {vouched \cup {d} : d \in Image} \cup {vouched \ {d} : d \in Image}
    /\ UNCHANGED <<Machine, cmd, failed>>

CliNext ==
    \/ \E kind \in {"run", "pull", "update"}, noVerify \in BOOLEAN : Begin(kind, noVerify)
    \/ FetchModule \/ Verify \/ GivesUp \/ PullImage
    \/ Start \/ StartFails \/ UndoVolume \/ ContainerExits
    \/ StopsHolding \/ StopContainer \/ RemoveVolume \/ Killed \/ KilledStarting
    \/ CatalogChanges

CliSpec == CliInit /\ [][CliNext]_cliVars

----------------------------------------------------------------------------
(* What runs is what was verified: without --no-verify a container runs    *)
(* the very digest the API vouched for, however the catalog has changed    *)
(* between the fetch, the verification and the start.                      *)
RunsWhatWasVerified ==
    container # NoDigest => container = cmd.ref /\ (cmd.noVerify \/ cmd.passed)

(* "clean teardown": a command that comes to its end, also one that failed *)
(* on its way, leaves neither a container nor a volume behind, unless a    *)
(* call of the runtime failed.                                             *)
LeavesNothing == cmd.step = "ended" /\ ~failed => container = NoDigest /\ ~volume

(* `flareo update`, whatever order a runtime lists its images in, and      *)
(* whichever of the two answers: only an image that is here is reported as *)
(* current, and updates are reported only where another image than the     *)
(* listed one is here.                                                     *)
UpdateAnswersTrue ==
    /\ cmd.answer = "current" => cmd.ref \in images
    /\ cmd.answer = "newer" => \E d \in images : d # cmd.ref

=============================================================================
