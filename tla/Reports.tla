-------------------------------- MODULE Reports -------------------------------
(***************************************************************************)
(* The reports of one user about one module: each call of createReport     *)
(* reads for an open report, reads for a recent one and creates; each call *)
(* of triageReport reads the state and updates by id.  Reports are named   *)
(* by the calls that create them.                                          *)
(***************************************************************************)
EXTENDS Integers, FiniteSets

CONSTANTS Report,    \* createReport calls, and the rows they make
          Triage     \* triageReport calls in flight

VARIABLES state,     \* ModuleReport.state, or "none"
          recent,    \* reports created within the last seven days
          signed,    \* ModuleReport.triagedById is set
          filing,    \* where each createReport call is
          triage,    \* triage[t]: the report in hand and the state it read
          raced      \* history: a creation overlapped another, or a triage wrote
                     \* over a closed report

reportVars == <<state, recent, signed, filing, triage, raced>>

Closed == {"resolved", "dismissed"}
ReportState == {"open", "investigating"} \cup Closed
Idle == [step |-> "idle"]

ReportTypeOK ==
    /\ state \in [Report -> ReportState \cup {"none"}]
    /\ recent \subseteq Report
    /\ signed \subseteq Report
    /\ filing \in [Report -> {"start", "recent", "create", "over"}]
    /\ triage \in [Triage -> [step : {"write"}, on : Report, read : ReportState] \cup {Idle}]
    /\ raced \in BOOLEAN

ReportInit ==
    /\ state = [p \in Report |-> "none"]
    /\ recent = {}
    /\ signed = {}
    /\ filing = [p \in Report |-> "start"]
    /\ triage = [t \in Triage |-> Idle]
    /\ raced = FALSE

Unsettled == {p \in Report : state[p] \in {"open", "investigating"}}

----------------------------------------------------------------------------
Files(p, step) == filing' = [filing EXCEPT ![p] = step]

\* Mutant: a report under investigation does not count as open.
CheckOpenOnly(p) ==
    /\ filing[p] = "start"
    /\ Files(p, IF \E q \in Report : state[q] = "open" THEN "over" ELSE "recent")
    /\ UNCHANGED <<state, recent, signed, triage, raced>>

CheckOpen(p) ==
    /\ filing[p] = "start"
    /\ Files(p, IF Unsettled # {} THEN "over" ELSE "recent")
    /\ UNCHANGED <<state, recent, signed, triage, raced>>

\* The cooldown goes by the latest report, so by any recent one.
CheckRecent(p) ==
    /\ filing[p] = "recent"
    /\ Files(p, IF recent # {} THEN "over" ELSE "create")
    /\ UNCHANGED <<state, recent, signed, triage, raced>>

CreateReport(p) ==
    /\ filing[p] = "create"
    /\ Files(p, "over")
    /\ state' = [state EXCEPT ![p] = "open"]
    /\ recent' = recent \cup {p}
    /\ raced' = (raced \/ \E q \in Report \ {p} : filing[q] \in {"recent", "create"})
    /\ UNCHANGED <<signed, triage>>

\* Seven days pass.
WeekPasses ==
    /\ recent # {}
    /\ recent' = {}
    /\ UNCHANGED <<state, signed, filing, triage, raced>>

\* triageReport: findUnique, and "terminal" for a closed report.
ReadReport(t, p) ==
    /\ triage[t] = Idle
    /\ state[p] \in {"open", "investigating"}
    /\ triage' = [triage EXCEPT ![t] = [step |-> "write", on |-> p, read |-> state[p]]]
    /\ UNCHANGED <<state, recent, signed, filing, raced>>

\* Mutant: only a report that is closed at once is signed.
UpdateReportUnsigned(t, to) ==
    LET p == triage[t].on IN
    /\ triage[t] # Idle
    /\ state' = [state EXCEPT ![p] = to]
    /\ signed' = IF triage[t].read = "open" /\ to \in Closed THEN signed \cup {p} ELSE signed
    /\ raced' = (raced \/ state[p] \in Closed)
    /\ triage' = [triage EXCEPT ![t] = Idle]
    /\ UNCHANGED <<recent, filing>>

\* moduleReport.update by id; signed on leaving the "open" that was read.
UpdateReport(t, to) ==
    LET p == triage[t].on IN
    /\ triage[t] # Idle
    /\ state' = [state EXCEPT ![p] = to]
    /\ signed' = IF triage[t].read = "open" /\ to # "open" THEN signed \cup {p} ELSE signed
    /\ raced' = (raced \/ state[p] \in Closed)
    /\ triage' = [triage EXCEPT ![t] = Idle]
    /\ UNCHANGED <<recent, filing>>

ReportNext ==
    \/ \E p \in Report : CheckOpen(p) \/ CheckRecent(p) \/ CreateReport(p)
    \/ WeekPasses
    \/ \E t \in Triage :
          \/ \E p \in Report : ReadReport(t, p)
          \/ \E to \in ReportState : UpdateReport(t, to)

ReportSpec == ReportInit /\ [][ReportNext]_reportVars

----------------------------------------------------------------------------
(* A user has one unsettled report about a module at a time, however often *)
(* reports are closed and filed again.  Two things break it, and nothing   *)
(* else does: two reports filed at once, which both pass the check, and a  *)
(* triage that had read a report open and writes after it was closed.      *)
OneUnsettled == raced \/ Cardinality(Unsettled) <= 1

(* A report that has left "open" names who triaged it, also when two       *)
(* administrators triage it at once or put it back.                        *)
TriageIsSigned == \A p \in Report : state[p] \in ReportState \ {"open"} => p \in signed

=============================================================================
