-------------------------------- MODULE BuildLog ------------------------------
(***************************************************************************)
(* The build log of one submission: the worker writes numbered lines       *)
(* without awaiting the writes, and readers page through them with a       *)
(* cursor until the API says the build is complete.                        *)
(*                                                                         *)
(* A request goes through when its cursor is at least 0.  The query schema *)
(* refuses -1, its own default and what LiveBuildLog.tsx starts with, so a *)
(* reader that starts at -1 is answered 400 and asks again, for ever.      *)
(***************************************************************************)
EXTENDS Integers, SequencesExt

CONSTANTS Reader,
          FirstAfter,   \* FirstAfter[r]: the cursor r starts with
          LastLine,     \* the highest line number of a build
          PageLimit     \* lines per answer

ASSUME BuildLogAssumption ==
    LastLine \in Nat /\ PageLimit \in Nat \ {0} /\ FirstAfter \in [Reader -> Int]

VARIABLES emitted,    \* the worker's counter
          flying,     \* lines that are being written
          logged,     \* BuildLogLine rows
          buildOver,  \* Submission.status is terminal
          reader,     \* reader[r]: where r is, its cursor, what it was told
          shown,      \* shown[r]: the lines r shows
          passed      \* history: lines that landed behind r's cursor, or after it stopped

logVars == <<emitted, flying, logged, buildOver, reader, shown, passed>>

Line == 0..LastLine

LogTypeOK ==
    /\ emitted \in 0..LastLine + 1
    /\ flying \subseteq Line /\ logged \subseteq Line
    /\ buildOver \in BOOLEAN
    /\ reader \in [Reader -> [step : {"ask", "rows", "stopped"}, after : Line \cup Range(FirstAfter),
                              over : BOOLEAN, full : BOOLEAN]]
    /\ shown \in [Reader -> Seq(Line)]
    /\ passed \in [Reader -> SUBSET Line]

LogInit ==
    /\ emitted = 0
    /\ flying = {} /\ logged = {}
    /\ buildOver = FALSE
    /\ reader = [r \in Reader |-> [step |-> "ask", after |-> FirstAfter[r],
                                   over |-> FALSE, full |-> FALSE]]
    /\ shown = [r \in Reader |-> <<>>]
    /\ passed = [r \in Reader |-> {}]

----------------------------------------------------------------------------
\* The stream handler takes the next number and does not wait for the write.
EmitLine ==
    /\ ~buildOver /\ emitted <= LastLine
    /\ emitted' = emitted + 1
    /\ flying' = flying \cup {emitted}
    /\ UNCHANGED <<logged, buildOver, reader, shown, passed>>

\* INSERT ... ON CONFLICT DO NOTHING, in any order.
LineLands(n) ==
    /\ n \in flying
    /\ flying' = flying \ {n}
    /\ logged' = logged \cup {n}
    /\ passed' = [r \in Reader |->
                     IF n <= reader[r].after \/ reader[r].step = "stopped"
                     THEN passed[r] \cup {n} ELSE passed[r]]
    /\ UNCHANGED <<emitted, buildOver, reader, shown>>

\* The submission becomes built, failed, ...; lines may be on their way still.
EndBuild ==
    /\ ~buildOver
    /\ buildOver' = TRUE
    /\ UNCHANGED <<emitted, flying, logged, reader, shown, passed>>

\* submission.findUnique, after the query was accepted.
ReadStatus(r) ==
    /\ reader[r].step = "ask" /\ reader[r].after >= 0
    /\ reader' = [reader EXCEPT ![r].step = "rows", ![r].over = buildOver]
    /\ UNCHANGED <<emitted, flying, logged, buildOver, shown, passed>>

\* orderBy seq asc, take: the lowest of the later rows, as many as a page holds.
IsPage(rows, later) ==
    /\ \A i, j \in DOMAIN rows : i < j => rows[i] < rows[j]
    /\ \A i \in DOMAIN rows, n \in later \ Range(rows) : rows[i] < n
    /\ Len(rows) < PageLimit => later \subseteq Range(rows)

Page(after) ==
    LET later == {n \in logged : n > after}
    IN  CHOOSE rows \in UNION {[1..k -> later] : k \in 0..PageLimit} : IsPage(rows, later)

\* Mutant: the cursor moves on by the size of a page.
ReadRowsByCount(r) ==
    LET rows == Page(reader[r].after) IN
    /\ reader[r].step = "rows"
    /\ shown' = [shown EXCEPT ![r] = @ \o rows]
    /\ reader' = [reader EXCEPT ![r].after = Min({LastLine, @ + PageLimit}),
                                ![r].step = IF reader[r].over THEN "stopped" ELSE "ask",
                                ![r].full = Len(rows) = PageLimit]
    /\ UNCHANGED <<emitted, flying, logged, buildOver, passed>>

\* buildLogLine.findMany; the reader appends and follows lastSeq.  "complete"
\* is the status read before, and stops the reader even after a full page.
ReadRows(r) ==
    LET rows == Page(reader[r].after) IN
    /\ reader[r].step = "rows"
    /\ shown' = [shown EXCEPT ![r] = @ \o rows]
    /\ reader' = [reader EXCEPT ![r].after = IF rows = <<>> THEN @ ELSE rows[Len(rows)],
                                ![r].step = IF reader[r].over THEN "stopped" ELSE "ask",
                                ![r].full = Len(rows) = PageLimit]
    /\ UNCHANGED <<emitted, flying, logged, buildOver, passed>>

LogNext ==
    \/ EmitLine \/ EndBuild
    \/ \E n \in Line : LineLands(n)
    \/ \E r \in Reader : ReadStatus(r) \/ ReadRows(r)

LogSpec == LogInit /\ [][LogNext]_logVars

----------------------------------------------------------------------------
(* A reader shows the log in order, without repeats, and the only lines it *)
(* leaves out are those it did not ask for, those that landed behind its   *)
(* cursor or after it stopped, and, for a reader that was told "complete"  *)
(* with a full page, those after that page.                                *)
LogIsFollowed ==
    \A r \in Reader :
        /\ \A i, j \in DOMAIN shown[r] : i < j => shown[r][i] < shown[r][j]
        /\ \A n \in logged \ (passed[r] \cup Range(shown[r])) :
              \/ n <= FirstAfter[r]
              \/ n > reader[r].after /\ (reader[r].step = "stopped" => reader[r].full)

=============================================================================
