------------------------------ MODULE VerifyImage -----------------------------
(***************************************************************************)
(* verifyImage and the page that calls it.  A request resolves the tag,    *)
(* looks for the signature of the digest, for an unsigned index for that   *)
(* of a platform's manifest, and then for the catalog's module.  The page  *)
(* sends a request for what is typed, also while another one runs, and     *)
(* shows whichever answer came last beside what is typed by now.           *)
(*                                                                         *)
(* Signature formats and certificate chains are behind "good" and "bad";   *)
(* whether a reference parses is not told apart, any request may fail.     *)
(***************************************************************************)
EXTENDS Naturals

CONSTANTS Query,
          Manifest,       \* digests
          Tag,            \* the reference that is a tag and not a digest
          PlatformOf,     \* PlatformOf[d]: an index's linux manifest, or NoManifest
          NoManifest, NoQuery

\* An index lists manifests of images, not of further indexes: the code looks
\* one level down, and takes what is there for an image.
ASSUME VerifyAssumption ==
    /\ PlatformOf \in [Manifest -> Manifest \cup {NoManifest}]
    /\ \A d \in Manifest : PlatformOf[d] # NoManifest => PlatformOf[PlatformOf[d]] = NoManifest
    /\ Tag \notin Manifest /\ NoManifest \notin Manifest /\ NoQuery \notin Query

VARIABLES sig,         \* sig[d]: the signature manifest beside d
          ask,         \* ask[q]: a request and its answer
          input,       \* what is typed on the page
          display,     \* the request whose answer is shown
          edited,      \* history: typed in since the latest request
          overlapped   \* history: a request was sent while another one ran

verifyVars == <<sig, ask, input, display, edited, overlapped>>

Reference == Manifest \cup {Tag}
Status == {"verified", "signed", "unsigned", "invalid", "error"}

\* blind: an unsigned digest could not be looked at for platforms;
\* absent: the digests whose signature was found missing.
Unused == [step |-> "unused", ref |-> Tag, digest |-> NoManifest, outcome |-> "none",
           blind |-> FALSE, absent |-> {}]

PageState == <<input, display, edited, overlapped>>

VerifyTypeOK ==
    /\ sig \in [Manifest -> {"none", "good", "bad"}]
    /\ ask \in [Query -> [step : {"unused", "resolve", "signature", "index", "platform",
                                    "catalog", "answered"},
                            ref : Reference, digest : Manifest \cup {NoManifest},
                            outcome : {"none", "good", "bad"} \cup Status,
                            blind : BOOLEAN, absent : SUBSET Manifest]]
    /\ input \in Reference
    /\ display \in Query \cup {NoQuery}
    /\ edited \in BOOLEAN /\ overlapped \in BOOLEAN

VerifyInit ==
    /\ sig \in [Manifest -> {"none", "good", "bad"}]
    /\ ask = [q \in Query |-> Unused]
    /\ input \in Reference
    /\ display = NoQuery
    /\ edited = FALSE /\ overlapped = FALSE

----------------------------------------------------------------------------
(* The request on the server.                                              *)

\* The answer of q is shown as it arrives.
Answer(q, r) ==
    /\ ask' = [ask EXCEPT ![q] = [r EXCEPT !.step = "answered"]]
    /\ display' = q
    /\ UNCHANGED <<sig, input, edited, overlapped>>

Proceed(q, r) ==
    /\ ask' = [ask EXCEPT ![q] = r]
    /\ UNCHANGED <<sig, PageState>>

\* A tag names one digest today and another tomorrow.
ResolveRef(q) ==
    /\ ask[q].step = "resolve"
    /\ \E d \in IF ask[q].ref = Tag THEN Manifest ELSE {ask[q].ref} :
          Proceed(q, [ask[q] EXCEPT !.digest = d, !.step = "signature"])

\* A reference that does not parse, a tag that cannot be resolved, a signature
\* manifest that cannot be had; or nothing the page could read: 429, 400, a
\* call that throws, a connection that breaks.
RequestFails(q) ==
    /\ ask[q].step \notin {"unused", "answered"}
    /\ Answer(q, [ask[q] EXCEPT !.outcome = "error"])

\* Mutant: the signature that is not found settles it, index or not.
VerifyDigestAtOnce(q) ==
    LET r == ask[q] IN
    /\ r.step \in {"signature", "platform"}
    /\ Proceed(q, [r EXCEPT !.outcome = IF sig[r.digest] = "none" THEN "unsigned" ELSE sig[r.digest],
                            !.absent = IF sig[r.digest] = "none" THEN @ \cup {r.digest} ELSE @,
                            !.step = "catalog"])

\* verifyDigestSignature: 404 is unsigned; a second look only for an index.
VerifyDigest(q) ==
    LET r == ask[q] IN
    /\ r.step \in {"signature", "platform"}
    /\ Proceed(q, [r EXCEPT !.outcome = IF sig[r.digest] = "none" THEN "unsigned" ELSE sig[r.digest],
                            !.absent = IF sig[r.digest] = "none" THEN @ \cup {r.digest} ELSE @,
                            !.step = IF sig[r.digest] = "none" /\ r.step = "signature"
                                     THEN "index" ELSE "catalog"])

\* Its catch takes a trust root that cannot be had for a bad signature.
TrustRootFails(q) ==
    /\ ask[q].step \in {"signature", "platform"}
    /\ sig[ask[q].digest] = "good"
    /\ Proceed(q, [ask[q] EXCEPT !.outcome = "bad", !.step = "catalog"])

\* resolvePlatformDigestIfIndex.
DescendIndex(q) ==
    LET child == PlatformOf[ask[q].digest] IN
    /\ ask[q].step = "index"
    /\ Proceed(q, IF child = NoManifest
                  THEN [ask[q] EXCEPT !.step = "catalog"]
                  ELSE [ask[q] EXCEPT !.step = "platform", !.digest = child])

\* The manifest cannot be fetched: taken for no index.
IndexFails(q) ==
    /\ ask[q].step = "index"
    /\ Proceed(q, [ask[q] EXCEPT !.step = "catalog", !.blind = TRUE])

\* mapVerifyOutcome.  A signed digest is "signed" without a module in the
\* catalog (findModuleByDigest), and with one "verified" or "invalid" by the
\* module's CVE counts of that moment.
MapOutcome(q) ==
    LET r == ask[q] IN
    /\ r.step = "catalog"
    /\ \E status \in CASE r.outcome = "unsigned" -> {"unsigned"}
                       [] r.outcome = "bad"      -> {"invalid"}
                       [] r.outcome = "good"     -> {"signed", "verified", "invalid"} :
          Answer(q, [r EXCEPT !.outcome = status])

----------------------------------------------------------------------------
(* The page, and the registry.                                             *)

Pending == {q \in Query : ask[q].step \notin {"unused", "answered"}}

\* Mutant: the old result stays until the new one is there.
PressKeeping(q) ==
    /\ ask[q].step = "unused"
    /\ ask' = [ask EXCEPT ![q] = [Unused EXCEPT !.step = "resolve", !.ref = input]]
    /\ edited' = FALSE
    /\ overlapped' = (Pending # {})
    /\ UNCHANGED <<sig, input, display>>

\* run(): the Enter key does not ask whether one is running.
Press(q) ==
    /\ ask[q].step = "unused"
    /\ ask' = [ask EXCEPT ![q] = [Unused EXCEPT !.step = "resolve", !.ref = input]]
    /\ display' = NoQuery
    /\ edited' = FALSE
    /\ overlapped' = (Pending # {})
    /\ UNCHANGED <<sig, input>>

Type(ref) ==
    /\ ref # input
    /\ input' = ref
    /\ edited' = TRUE
    /\ UNCHANGED <<sig, ask, display, overlapped>>

Sign(d) ==
    /\ sig[d] # "good"
    /\ sig' = [sig EXCEPT ![d] = "good"]
    /\ UNCHANGED <<ask, PageState>>

VerifyNext ==
    \/ \E q \in Query :
          \/ Press(q) \/ ResolveRef(q) \/ RequestFails(q) \/ VerifyDigest(q)
          \/ TrustRootFails(q) \/ DescendIndex(q) \/ IndexFails(q) \/ MapOutcome(q)
    \/ \E ref \in Reference : Type(ref)
    \/ \E d \in Manifest : Sign(d)

VerifySpec == VerifyInit /\ [][VerifyNext]_verifyVars

----------------------------------------------------------------------------

(* An answer "unsigned" has looked everywhere: at the digest it was asked  *)
(* about, and, when that is an index, at its platform, unless the index    *)
(* could not be fetched.  And a digest is never answered "signed" or       *)
(* "verified" when its signature was missing.                              *)
UnsignedIsUnsigned ==
    \A q \in Query :
        LET r == ask[q] IN
        r.step = "answered" =>
            /\ r.outcome = "unsigned" => /\ r.digest \in r.absent
                                         /\ PlatformOf[r.digest] # NoManifest => r.blind
            /\ r.outcome \in {"signed", "verified"} => r.digest \notin r.absent

(* The page shows the answer for what is typed, unless it was typed in     *)
(* since the latest request, or two requests ran at once.                  *)
ShowsItsTarget ==
    display # NoQuery => ask[display].ref = input \/ edited \/ overlapped

=============================================================================
