-------------------------------- MODULE VexDesk -------------------------------
(***************************************************************************)
(* The VEX statements of one module and the CVE counts that are left after *)
(* them, which the code works out twice: evaluateAndPersist for the stored *)
(* verdict, worker/policy-evaluate for the gate's answer.                  *)
(***************************************************************************)
EXTENDS Integers, FiniteSetsExt

CONSTANTS Cve,            \* CVEs that may be annotated
          MostCounted     \* the highest count of a severity in a scan

ASSUME VexCountsAssumption == MostCounted \in Nat /\ IsFiniteSet(Cve)

VARIABLES cves,       \* Module.cves
          vex         \* vex[c]: the statement on c

vexVars == <<cves, vex>>

Severity == {"critical", "high", "medium", "low", "unknown", "unstated"}
Statement == [status : {"not_affected", "fixed", "affected", "under_investigation"},
              severity : Severity]
NoStatement == [status |-> "none", severity |-> "unstated"]
Scan == [{"critical", "high", "medium", "low"} -> 0..MostCounted]

VexTypeOK == cves \in Scan /\ vex \in [Cve -> Statement \cup {NoStatement}]

VexInit == cves \in Scan /\ vex = [c \in Cve |-> NoStatement]

\* upsert: the row as a whole, a severity that is not given becoming NULL.
Annotate(c, s) ==
    /\ vex' = [vex EXCEPT ![c] = s]
    /\ UNCHANGED cves

\* deleteByModuleCve: idempotent.
Withdraw(c) ==
    /\ vex' = [vex EXCEPT ![c] = NoStatement]
    /\ UNCHANGED cves

VexNext == \E c \in Cve : Withdraw(c) \/ \E s \in Statement : Annotate(c, s)

VexSpec == VexInit /\ [][VexNext]_vexVars

----------------------------------------------------------------------------
Suppressed(c, severities) ==
    vex[c].status \in {"not_affected", "fixed"} /\ vex[c].severity \in severities

Bucket(severity) == IF severity = "unknown" THEN "low" ELSE severity

\* Statements, of those found, that state no severity: criticals first, then highs.
TakeUnstated(counts, found) ==
    LET n == Cardinality({c \in found : Suppressed(c, {"unstated"})})
        fromCritical == Min({counts.critical, n})
        fromHigh == Min({counts.high, n - fromCritical})
    IN  [counts EXCEPT !.critical = @ - fromCritical, !.high = @ - fromHigh]

\* evaluateAndPersist walks the statements and takes one at a time.
TakeStated(counts) ==
    FoldSet(LAMBDA c, left :
                LET b == Bucket(vex[c].severity) IN
                IF left[b] > 0 THEN [left EXCEPT ![b] = @ - 1] ELSE left,
            counts, {c \in Cve : Suppressed(c, Severity \ {"unstated"})})

\* Mutant: the statements without a severity are taken first.
StoredCountsReversed == TakeStated(TakeUnstated(cves, Cve))

StoredCounts == TakeUnstated(TakeStated(cves), Cve)

\* worker/policy-evaluate adds the statements it found up and subtracts the
\* totals: all of them, or none when the lookup fails, which ends in raw counts.
GateCounts(found) ==
    LET total(b) == Cardinality({c \in found : /\ Suppressed(c, Severity \ {"unstated"})
                                               /\ Bucket(vex[c].severity) = b})
    IN  TakeUnstated([cves EXCEPT !.critical = Max({0, @ - total("critical")}),
                                  !.high = Max({0, @ - total("high")})], found)

----------------------------------------------------------------------------
(* Of one scan, the gate and the stored verdict go by the same counts when *)
(* the gate's lookup of the statements succeeds: every statement on file   *)
(* takes as much off in one computation as in the other, in whichever      *)
(* order they come, and no more than there is.  When the lookup fails the  *)
(* gate goes by the scan's own counts, so it is never the laxer of the two.*)
CountsAgree ==
    \A b \in {"critical", "high"} :
        /\ StoredCounts[b] \in 0..cves[b]
        /\ GateCounts(Cve)[b] = StoredCounts[b]
        /\ GateCounts({})[b] = cves[b]

=============================================================================
