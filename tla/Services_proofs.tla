---------------------------- MODULE Services_proofs ----------------------------
(***************************************************************************)
(* What holds of the services that keep something for a user: a review for *)
(* any number of overlapping edits, the reports of one user about one      *)
(* module for any number of reports and of administrators who triage them  *)
(* at once, previews for any number of requests that create, answer and    *)
(* delete them, an account's keys however many there are and whenever they *)
(* are minted or revoked, the rate limiter for any plans, limits and       *)
(* window, a build log for any length of page, and the counts that are     *)
(* left after any number of VEX statements.                                *)
(***************************************************************************)
EXTENDS Reviews, Reports, Previews, AccountKeys, RateLimiter, BuildLog, VexDesk,
        FiniteSetTheorems, SequenceTheorems, WellFoundedInduction, TLAPS

----------------------------------------------------------------------------
(* Reviews.                                                                *)

(* An edit that is about to reset a flag has either read it after the hide *)
(* was undone, or is the one the hide slipped in between.                  *)
ResetsAreSlipped == hideStands /\ (\E e \in Edit : edit[e].step = "reset") => slipped

ReviewInv == ReviewTypeOK /\ HideStands /\ ResetsAreSlipped

LEMMA ReviewStep == ReviewInv /\ [ReviewNext]_reviewVars => ReviewInv'
<1> SUFFICES ASSUME ReviewInv, [ReviewNext]_reviewVars
             PROVE  ReviewInv'
  OBVIOUS
<1> USE DEF ReviewInv, ReviewTypeOK, HideStands, ResetsAreSlipped, NotEditing
<1>1. ASSUME NEW e \in Edit, LookUpReview(e)
      PROVE  ReviewInv'
  BY <1>1 DEF LookUpReview
<1>2. ASSUME NEW e \in Edit, WriteReview(e)
      PROVE  ReviewInv'
  <2>1. ReviewTypeOK'
    BY <1>2 DEF WriteReview
  <2>2. HideStands'
    BY <1>2 DEF WriteReview
  <2>3. ResetsAreSlipped'
    BY <1>2 DEF WriteReview
  <2> QED  BY <2>1, <2>2, <2>3
<1>3. ASSUME NEW e \in Edit, ResetFlag(e)
      PROVE  ReviewInv'
  BY <1>3 DEF ResetFlag
<1>4. CASE Flag
  BY <1>4 DEF Flag
<1>5. CASE Hide
  BY <1>5 DEF Hide
<1>6. CASE Show
  BY <1>6 DEF Show
<1>7. CASE UNCHANGED reviewVars
  BY <1>7 DEF reviewVars
<1> QED  BY <1>1, <1>2, <1>3, <1>4, <1>5, <1>6, <1>7 DEF ReviewNext

LEMMA ReviewStart == ReviewInit => ReviewInv
<1> SUFFICES ASSUME ReviewInit
             PROVE  ReviewInv
  OBVIOUS
<1>1. ReviewTypeOK
  BY DEF ReviewInit, ReviewTypeOK, NotEditing
<1>2. ~hideStands
  BY DEF ReviewInit
<1> QED  BY <1>1, <1>2 DEF ReviewInv, HideStands, ResetsAreSlipped

(* What an administrator hid stays hidden through every edit and flag, but *)
(* for a hide that landed between the two writes of one edit               *)
(* (upsertReview, flagReview and setModeration in reviews.ts).             *)
THEOREM HidesStand == ReviewSpec => []HideStands
<1>1. ReviewInv => HideStands
  BY DEF ReviewInv
<1> QED  BY <1>1, ReviewStart, ReviewStep, PTL DEF ReviewSpec

----------------------------------------------------------------------------
(* Reports.                                                                *)

(* A triage in hand is of a report that is there, and which has been       *)
(* signed if it had left "open" when it was read.                          *)
TriageIsOfReport ==
    \A t \in Triage : triage[t] # Idle =>
        /\ state[triage[t].on] # "none"
        /\ triage[t].read # "open" => triage[t].on \in signed

(* Without a race: a report that has passed the check is alone, and no two *)
(* are unsettled.                                                          *)
CheckStillHolds ==
    raced \/ /\ \A p \in Report : filing[p] \in {"recent", "create"} => Unsettled = {}
             /\ \A p, q \in Unsettled : p = q

ReportInv == ReportTypeOK /\ TriageIsSigned /\ TriageIsOfReport /\ CheckStillHolds

LEMMA ReportStep == ReportInv /\ [ReportNext]_reportVars => ReportInv'
<1> SUFFICES ASSUME ReportInv, [ReportNext]_reportVars
             PROVE  ReportInv'
  OBVIOUS
<1> USE DEF ReportInv, ReportTypeOK, TriageIsSigned, TriageIsOfReport, CheckStillHolds,
            Unsettled, Idle, Closed, ReportState, Files
<1>1. ASSUME NEW p \in Report, CheckOpen(p)
      PROVE  ReportInv'
  BY <1>1 DEF CheckOpen
<1>2. ASSUME NEW p \in Report, CheckRecent(p)
      PROVE  ReportInv'
  BY <1>2 DEF CheckRecent
<1>3. ASSUME NEW p \in Report, CreateReport(p)
      PROVE  ReportInv'
  <2>1. ReportTypeOK' /\ TriageIsSigned' /\ TriageIsOfReport'
    BY <1>3 DEF CreateReport
  <2>2. CheckStillHolds'
    BY <1>3 DEF CreateReport
  <2> QED  BY <2>1, <2>2
<1>4. CASE WeekPasses
  BY <1>4 DEF WeekPasses
<1>5. ASSUME NEW t \in Triage, NEW p \in Report, ReadReport(t, p)
      PROVE  ReportInv'
  BY <1>5 DEF ReadReport
<1>6. ASSUME NEW t \in Triage, NEW to \in ReportState, UpdateReport(t, to)
      PROVE  ReportInv'
  <2>1. triage[t].on \in Report /\ triage[t].read \in ReportState
    BY <1>6 DEF UpdateReport
  <2>2. ReportTypeOK'
    BY <1>6, <2>1 DEF UpdateReport
  <2>3. TriageIsSigned' /\ TriageIsOfReport'
    BY <1>6, <2>1 DEF UpdateReport
  <2>4. CheckStillHolds'
    <3> SUFFICES ASSUME ~raced'
                 PROVE  CheckStillHolds'
      OBVIOUS
    <3>1. ~raced /\ triage[t].on \in Unsettled
      BY <1>6, <2>1 DEF UpdateReport
    <3>2. Unsettled' \subseteq Unsettled
      BY <1>6, <2>1, <3>1 DEF UpdateReport
    <3>3. \A p \in Report : filing[p] \notin {"recent", "create"}
      BY <3>1
    <3> QED  BY <1>6, <3>1, <3>2, <3>3 DEF UpdateReport
  <2> QED  BY <2>2, <2>3, <2>4
<1>7. CASE UNCHANGED reportVars
  BY <1>7 DEF reportVars
<1> QED  BY <1>1, <1>2, <1>3, <1>4, <1>5, <1>6, <1>7 DEF ReportNext

LEMMA ReportStart == ReportInit => ReportInv
<1> SUFFICES ASSUME ReportInit
             PROVE  ReportInv
  OBVIOUS
<1>1. ReportTypeOK
  BY DEF ReportInit, ReportTypeOK, Idle
<1>2. TriageIsSigned
  BY DEF ReportInit, TriageIsSigned, ReportState, Closed
<1>3. TriageIsOfReport
  BY DEF ReportInit, TriageIsOfReport
<1>4. CheckStillHolds
  BY DEF ReportInit, CheckStillHolds, Unsettled
<1> QED  BY <1>1, <1>2, <1>3, <1>4 DEF ReportInv

(* A user has one unsettled report about a module at a time, unless two    *)
(* were filed at once or a triage wrote over a closed one (createReport    *)
(* and triageReport in reports.ts).                                        *)
THEOREM OneReportUnsettled == ReportSpec => []OneUnsettled
<1>1. ReportInv => OneUnsettled
  <2> SUFFICES ASSUME ReportInv, ~raced
               PROVE  Cardinality(Unsettled) <= 1
    BY DEF OneUnsettled
  <2>1. \A p, q \in Unsettled : p = q
    BY DEF ReportInv, CheckStillHolds
  <2>2. CASE Unsettled = {}
    BY <2>2, FS_EmptySet
  <2>3. CASE Unsettled # {}
    <3>1. PICK p : Unsettled = {p}
      BY <2>1, <2>3
    <3>2. Cardinality({p}) = 1
      BY FS_Singleton
    <3> QED  BY <3>1, <3>2
  <2> QED  BY <2>2, <2>3
<1> QED  BY <1>1, ReportStart, ReportStep, PTL DEF ReportSpec

(* A report that has left "open" names who triaged it, however many        *)
(* administrators triage it at once (triageReport in reports.ts).          *)
THEOREM TriagesAreSigned == ReportSpec => []TriageIsSigned
<1>1. ReportInv => TriageIsSigned
  BY DEF ReportInv
<1> QED  BY <1>1, ReportStart, ReportStep, PTL DEF ReportSpec

----------------------------------------------------------------------------
(* Previews.                                                               *)

(* How far a request is tells what its row and host can be.                *)
RequestTells ==
    \A l \in Launch :
        /\ launch[l] \in {"start", "create"} => row[l] = "none" /\ teardown[l] = "idle"
        /\ launch[l] \in {"allocate", "ready", "failed"} =>
              /\ row[l] \in {"allocating", "expired"}
              /\ row[l] = "expired" => l \in early
              /\ teardown[l] # "destroy"
              /\ teardown[l] = "mark" => l \in early
        /\ launch[l] \in {"start", "create", "allocate", "failed"} => l \notin hosts
        /\ launch[l] = "ready" => l \in hosts \cup ended

(* A deletion that is about to mark the row has dealt with the host.       *)
MarksTheGone == \A l \in Launch : teardown[l] = "mark" /\ l \in hosts => l \in orphaned \cup early

PreviewInv == PreviewTypeOK /\ HostsAreKnown /\ RequestTells /\ MarksTheGone

LEMMA PreviewStart == PreviewInit => PreviewInv
BY DEF PreviewInit, PreviewInv, PreviewTypeOK, HostsAreKnown, RequestTells, MarksTheGone, RowStatus

LEMMA PreviewStep == PreviewInv /\ [PreviewNext]_previewVars => PreviewInv'
<1> SUFFICES ASSUME PreviewInv, [PreviewNext]_previewVars
             PROVE  PreviewInv'
  OBVIOUS
<1> USE DEF PreviewInv, PreviewTypeOK, HostsAreKnown, RequestTells, MarksTheGone, RowStatus, Launches
<1>1. ASSUME NEW l \in Launch, FindReady(l)
      PROVE  PreviewInv'
  BY <1>1 DEF FindReady
<1>2. ASSUME NEW l \in Launch, CreateRow(l)
      PROVE  PreviewInv'
  BY <1>2 DEF CreateRow
<1>3. ASSUME NEW l \in Launch, Allocate(l)
      PROVE  PreviewInv'
  BY <1>3 DEF Allocate
<1>4. ASSUME NEW l \in Launch, StoreAnswer(l)
      PROVE  PreviewInv'
  BY <1>4 DEF StoreAnswer
<1>5. ASSUME NEW l \in Launch, LaunchDies(l)
      PROVE  PreviewInv'
  BY <1>5 DEF LaunchDies
<1>6. ASSUME NEW l \in Launch, LoadOwned(l)
      PROVE  PreviewInv'
  BY <1>6 DEF LoadOwned
<1>7. ASSUME NEW l \in Launch, Destroy(l)
      PROVE  PreviewInv'
  BY <1>7 DEF Destroy
<1>8. ASSUME NEW l \in Launch, MarkExpired(l)
      PROVE  PreviewInv'
  BY <1>8 DEF MarkExpired
<1>9. ASSUME NEW l \in Launch, HostEnds(l)
      PROVE  PreviewInv'
  BY <1>9 DEF HostEnds
<1>10. ASSUME NEW l \in Launch, RowLapses(l)
       PROVE  PreviewInv'
  BY <1>10 DEF RowLapses
<1>11. CASE UNCHANGED previewVars
  BY <1>11 DEF previewVars
<1> QED
  BY <1>1, <1>2, <1>3, <1>4, <1>5, <1>6, <1>7, <1>8, <1>9, <1>10, <1>11 DEF PreviewNext

(* A host that runs has a row that says so, and a ready row that has not   *)
(* run out has a host, but for deletions that failed or came too early and *)
(* hosts the provider stopped, whenever a host's time and its row's run    *)
(* out (the preview routes and the allocator).                             *)
THEOREM NoHostIsUnknown == PreviewSpec => []HostsAreKnown
<1>1. PreviewInv => HostsAreKnown
  BY DEF PreviewInv
<1> QED  BY <1>1, PreviewStart, PreviewStep, PTL DEF PreviewSpec

----------------------------------------------------------------------------
(* Accounts and keys.                                                      *)

(* Once the deletion has looked for keys, a live key is one it found or    *)
(* one that was minted since.                                              *)
SweepSawAll == deletion = "revoked" => Live \subseteq swept \cup after

AccountInv == AccountTypeOK /\ DeletionIsWhole /\ SweepSawAll

LEMMA AccountStep == AccountInv /\ [AccountNext]_accountVars => AccountInv'
<1> SUFFICES ASSUME AccountInv, [AccountNext]_accountVars
             PROVE  AccountInv'
  OBVIOUS
<1> USE DEF AccountInv, AccountTypeOK, DeletionIsWhole, SweepSawAll, Live
<1>1. CASE SignIn \/ SignOut \/ MonthGoesBy
  BY <1>1 DEF SignIn, SignOut, MonthGoesBy
<1>2. ASSUME NEW k \in Key, Mint(k)
      PROVE  AccountInv'
  BY <1>2 DEF Mint
<1>3. ASSUME NEW k \in Key, RevokeApiKey(k)
      PROVE  AccountInv'
  BY <1>3 DEF RevokeApiKey
<1>4. CASE MarkDeleted \/ RevokeAll
  BY <1>4 DEF MarkDeleted, RevokeAll
<1>5. CASE CommitDeletion
  BY <1>5 DEF CommitDeletion
<1>6. CASE RollBack
  BY <1>6 DEF RollBack
<1>7. CASE UNCHANGED accountVars
  BY <1>7 DEF accountVars
<1> QED
  BY <1>1, <1>2, <1>3, <1>4, <1>5, <1>6, <1>7 DEF AccountNext, CreateApiKey, CliExchange

LEMMA AccountStart == AccountInit => AccountInv
BY DEF AccountInit, AccountInv, AccountTypeOK, DeletionIsWhole, SweepSawAll, Live

(* The deletion of an account is whole or not at all: it leaves no live    *)
(* key but those minted since it looked for them, and one that is rolled   *)
(* back revokes none (softDeleteAccount in account.ts).                    *)
THEOREM DeletionsAreWhole == AccountSpec => []DeletionIsWhole
<1>1. AccountInv => DeletionIsWhole
  BY DEF AccountInv
<1> QED  BY <1>1, AccountStart, AccountStep, PTL DEF AccountSpec

----------------------------------------------------------------------------
(* The rate limiter.                                                       *)

LEMMA LeastNatural ==
    ASSUME NEW T \in SUBSET Nat, T # {}
    PROVE  \E n \in T : \A m \in T : n <= m
<1>1. PICK n \in T : \A m \in T : ~(<<m, n>> \in OpToRel(<, Nat))
  BY WFMin, NatLessThanWellFounded, Zenon
<1>2. \A m \in T : ~(m < n)
  BY <1>1, Zenon DEF OpToRel
<1> QED  BY <1>2

InOrder(times) == \A i, j \in 1..Len(times) : i <= j => times[i] <= times[j]

(* In a list that is in order, those at or below a bound are the first.    *)
LEMMA ThoseBelowAreFirst ==
    ASSUME NEW times \in Seq(Int), InOrder(times), NEW bound \in Int
    PROVE  \E n \in 0..Len(times) : /\ {i \in 1..Len(times) : times[i] <= bound} = 1..n
                                    /\ Cardinality({i \in 1..Len(times) : times[i] <= bound}) = n
<1> DEFINE T == {m \in Nat : \A i \in 1..Len(times) : i > m => times[i] > bound}
           Below == {i \in 1..Len(times) : times[i] <= bound}
<1>1. Len(times) \in T
  OBVIOUS
<1>2. PICK n \in T : \A m \in T : n <= m
  BY <1>1, LeastNatural
<1>3. n \in 0..Len(times)
  BY <1>1, <1>2
<1>4. n > 0 => times[n] <= bound
  <2> SUFFICES ASSUME n > 0, times[n] > bound
               PROVE  FALSE
    BY <1>3
  <2>1. n - 1 \in T
    BY <1>2
  <2> QED  BY <1>2, <2>1
<1>5. Below = 1..n
  BY <1>2, <1>3, <1>4 DEF InOrder
<1> HIDE DEF T
<1>6. Cardinality(1..n) = n
  BY <1>3, FS_Interval
<1> QED  BY <1>3, <1>5, <1>6

LEMMA MaxOfTwo ==
    ASSUME NEW a \in Int, NEW b \in Int
    PROVE  Max({a, b}) = IF a >= b THEN a ELSE b
<1>1. \E x \in {a, b} : \A y \in {a, b} : x >= y
  OBVIOUS
<1> DEFINE m == Max({a, b})
<1>2. m \in {a, b} /\ \A y \in {a, b} : m >= y
  BY <1>1 DEF Max
<1> QED  BY <1>2

LEMMA Quotient ==
    ASSUME NEW a \in Int, NEW n \in Nat \ {0}
    PROVE  /\ a \div n \in Int
           /\ n * (a \div n) <= a /\ a < n * (a \div n) + n
OBVIOUS

LEMMA ProductsGrow ==
    ASSUME NEW n \in Nat \ {0}, NEW a \in Int, NEW b \in Int, n * a < n * b
    PROVE  a < b
OBVIOUS

LEMMA EndOfSequence ==
    ASSUME NEW S, NEW times \in Seq(S), NEW d \in 0..Len(times)
    PROVE  /\ SubSeq(times, d + 1, Len(times)) \in Seq(S)
           /\ Len(SubSeq(times, d + 1, Len(times))) = Len(times) - d
           /\ \A i \in 1..Len(times) - d : SubSeq(times, d + 1, Len(times))[i] = times[d + i]
<1> DEFINE n == Len(times)
           e == SubSeq(times, d + 1, n)
<1>1. n \in Nat /\ d \in Nat /\ d <= n
  OBVIOUS
<1>2. \A i \in d + 1..n : times[i] \in S
  BY <1>1, ElementOfSeq
<1> HIDE DEF n
<1>3. /\ e \in Seq(S) /\ Len(e) = IF d + 1 <= n THEN n - (d + 1) + 1 ELSE 0
      /\ \A i \in 1..n - (d + 1) + 1 : e[i] = times[d + 1 + i - 1]
  BY <1>1, <1>2, SubSeqProperties
<1> HIDE DEF e
<1>4. Len(e) = n - d
  BY <1>1, <1>3
<1>5. \A i \in 1..n - d : e[i] = times[d + i]
  <2> SUFFICES ASSUME NEW i \in 1..n - d
               PROVE  e[i] = times[d + i]
    OBVIOUS
  <2>1. i \in 1..n - (d + 1) + 1 /\ d + 1 + i - 1 = d + i
    BY <1>1
  <2> QED  BY <1>3, <2>1
<1> QED  BY <1>3, <1>4, <1>5 DEF e, n

(* How many of them go when the latest n of a number are kept.             *)
Surplus(number, n) == IF number > n THEN number - n ELSE 0

IsEndOf(end, times, d) ==
    /\ Len(end) = Len(times) - d
    /\ \A i \in 1..Len(times) - d : end[i] = times[d + i]

LEMMA LatestAreLast ==
    ASSUME NEW S, NEW times \in Seq(S), NEW n \in Nat \ {0}
    PROVE  /\ Latest(times, n) \in Seq(S)
           /\ IsEndOf(Latest(times, n), times, Surplus(Len(times), n))
<1> DEFINE d == Surplus(Len(times), n)
<1>1. Len(times) \in Nat /\ d \in 0..Len(times)
  BY DEF Surplus
<1>2. Max({1, Len(times) - n + 1}) = d + 1
  BY <1>1, MaxOfTwo DEF Surplus
<1> HIDE DEF d
<1>3. Latest(times, n) = SubSeq(times, d + 1, Len(times))
  BY <1>2 DEF Latest
<1>4. /\ Latest(times, n) \in Seq(S) /\ Len(Latest(times, n)) = Len(times) - d
      /\ \A i \in 1..Len(times) - d : Latest(times, n)[i] = times[d + i]
  BY <1>1, <1>3, EndOfSequence
<1> QED  BY <1>4 DEF d, IsEndOf

(* A plan's list is in order and never longer than the limit; it is the    *)
(* end of its successes, of which the earlier ones are out of the window;  *)
(* and the wait a refused caller was told lasts until the oldest is, too.  *)
HitsInOrder(p) ==
    /\ InOrder(hits[p]) /\ \A i \in 1..Len(hits[p]) : hits[p][i] <= now
    /\ Len(hits[p]) <= LimitOf[p]

HitsAreLatest(p) ==
    LET older == Len(granted[p]) - Len(hits[p]) IN
    /\ InOrder(granted[p]) /\ \A i \in 1..Len(granted[p]) : granted[p][i] <= now
    /\ older >= 0 /\ Len(granted[p]) <= LimitOf[p] + 1
    /\ \A i \in 1..Len(hits[p]) : hits[p][i] = granted[p][older + i]
    /\ \A i \in 1..older : granted[p][i] <= now - Window

WaitIsLongEnough(p) ==
    toldWait[p] # NoRefusal =>
        /\ toldWait[p].retryAfter \in 1..WindowSeconds
        /\ Len(hits[p]) = LimitOf[p]
        /\ hits[p][1] + Window <= toldWait[p].at + toldWait[p].retryAfter * PerSecond

TierInv(p) ==
    /\ HitsInOrder(p) /\ HitsAreLatest(p) /\ WaitIsLongEnough(p)
    /\ Len(granted[p]) > LimitOf[p] => granted[p][LimitOf[p] + 1] >= granted[p][1] + Window

LimiterInv == LimiterTypeOK /\ \A p \in Tier : TierInv(p)

LEMMA WindowIsPositive ==
    /\ Window \in Nat \ {0} /\ WindowSeconds \in Nat \ {0} /\ PerSecond \in Nat \ {0}
    /\ LastTick \in Nat /\ \A p \in Tier : LimitOf[p] \in Nat \ {0}
<1>1. WindowSeconds * PerSecond \in Nat \ {0}
  BY LimiterAssumption
<1> QED  BY <1>1, LimiterAssumption DEF Window

(* What the filter leaves of a list is its end.                            *)
LEMMA FreshIsTheEnd ==
    ASSUME LimiterInv, NEW p \in Tier
    PROVE  \E k \in 0..Len(hits[p]) :
               /\ Fresh(p) \in Seq(0..LastTick) /\ Len(Fresh(p)) = Len(hits[p]) - k
               /\ \A i \in 1..Len(hits[p]) - k :
                      Fresh(p)[i] = hits[p][k + i] /\ hits[p][k + i] > now - Window
               /\ \A i \in 1..k : hits[p][i] <= now - Window
<1> DEFINE h == hits[p]
           c == now - Window
<1>1. h \in Seq(0..LastTick) /\ InOrder(h) /\ now \in 0..LastTick /\ c \in Int
  BY WindowIsPositive DEF LimiterInv, LimiterTypeOK, TierInv, HitsInOrder
<1>2. h \in Seq(Int) /\ Len(h) \in Nat /\ DOMAIN h = 1..Len(h)
  BY <1>1, WindowIsPositive
<1> HIDE DEF h, c
<1>3. PICK k \in 0..Len(h) : /\ {i \in 1..Len(h) : h[i] <= c} = 1..k
                             /\ Cardinality({i \in 1..Len(h) : h[i] <= c}) = k
  BY <1>1, <1>2, ThoseBelowAreFirst
<1>4. Fresh(p) = SubSeq(h, k + 1, Len(h))
  BY <1>2, <1>3 DEF Fresh, h, c
<1>5. \A i \in 1..Len(h) : h[i] \in 0..LastTick
  BY <1>1, ElementOfSeq
<1>6. /\ Fresh(p) \in Seq(0..LastTick) /\ Len(Fresh(p)) = Len(h) - k
      /\ \A i \in 1..Len(h) - k : Fresh(p)[i] = h[k + i]
  <2> DEFINE end == SubSeq(h, k + 1, Len(h))
             times == 0..LastTick
  <2>1. h \in Seq(times) /\ k \in 0..Len(h)
    BY <1>1, <1>3
  <2> HIDE DEF times
  <2>2. /\ end \in Seq(times) /\ Len(end) = Len(h) - k
        /\ \A i \in 1..Len(h) - k : end[i] = h[k + i]
    BY <2>1, EndOfSequence, Zenon
  <2>3. Fresh(p) = end
    BY <1>4
  <2> HIDE DEF end
  <2> QED  BY <2>2, <2>3 DEF times
<1>7. \A i \in 1..Len(h) : h[i] <= c <=> i <= k
  BY <1>2, <1>3
<1>8. \A i \in 1..Len(h) - k : h[k + i] > c
  BY <1>1, <1>2, <1>3, <1>5, <1>7
<1> QED  BY <1>3, <1>6, <1>7, <1>8 DEF h, c

(* A request that is let through adds the present to both lists.           *)
LEMMA GrantStep ==
    ASSUME LimiterInv, NEW p \in Tier, CheckLimit(p), ~Refuse(p)
    PROVE  /\ hits'[p] \in Seq(0..LastTick) /\ granted'[p] \in Seq(0..LastTick)
           /\ TierInv(p)'
<1> DEFINE h == hits[p]
           g == granted[p]
           L == LimitOf[p]
           h1 == hits'[p]
           g1 == Append(g, now)
           g2 == granted'[p]
           W == Window
<1>1. /\ L \in Nat \ {0} /\ W \in Nat \ {0} /\ LastTick \in Nat /\ now \in 0..LastTick
      /\ h \in Seq(0..LastTick) /\ g \in Seq(0..LastTick)
      /\ hits \in [Tier -> Seq(0..LastTick)] /\ granted \in [Tier -> Seq(0..LastTick)]
      /\ toldWait \in [Tier -> [at : 0..LastTick, retryAfter : Nat]]
  BY WindowIsPositive DEF LimiterInv, LimiterTypeOK
<1>2. /\ now' = now /\ toldWait'[p] = NoRefusal
      /\ h1 = Append(Fresh(p), now) /\ g2 = Latest(g1, L + 1)
  BY <1>1 DEF CheckLimit
<1>3. PICK k \in 0..Len(h) :
          /\ Fresh(p) \in Seq(0..LastTick) /\ Len(Fresh(p)) = Len(h) - k
          /\ \A i \in 1..Len(h) - k : Fresh(p)[i] = h[k + i] /\ h[k + i] > now - W
          /\ \A i \in 1..k : h[i] <= now - W
  BY FreshIsTheEnd
<1>4. Len(h) - k < L
  BY <1>1, <1>3 DEF Refuse
<1>5. /\ h1 \in Seq(0..LastTick) /\ Len(h1) = Len(h) - k + 1 /\ h1[Len(h) - k + 1] = now
      /\ \A i \in 1..Len(h) - k : h1[i] = h[k + i]
  <2> DEFINE f == Fresh(p)
  <2>1. f \in Seq(0..LastTick) /\ Len(f) = Len(h) - k /\ h1 = Append(f, now)
        /\ \A i \in 1..Len(h) - k : f[i] = h[k + i]
    BY <1>2, <1>3
  <2> HIDE DEF f, h1, h
  <2>2. /\ h1 \in Seq(0..LastTick) /\ Len(h1) = Len(f) + 1 /\ h1[Len(f) + 1] = now
        /\ \A i \in 1..Len(f) : h1[i] = f[i]
    BY <1>1, <2>1, AppendProperties
  <2> QED  BY <2>1, <2>2
<1>6. /\ g1 \in Seq(0..LastTick) /\ Len(g1) = Len(g) + 1 /\ g1[Len(g) + 1] = now
      /\ \A i \in 1..Len(g) : g1[i] = g[i]
  BY <1>1, AppendProperties
<1> HIDE DEF g1
<1> HIDE DEF h, g, L, h1, g2, W
<1> DEFINE nh == Len(h)
           ng == Len(g)
           d == Surplus(ng + 1, L + 1)
<1>7. /\ g2 \in Seq(0..LastTick) /\ Len(g2) = ng + 1 - d
      /\ \A i \in 1..ng + 1 - d : g2[i] = g1[d + i]
  <2> DEFINE m == L + 1
  <2>1. m \in Nat \ {0} /\ g2 = Latest(g1, m)
    BY <1>1, <1>2
  <2> HIDE DEF m
  <2>2. Latest(g1, m) \in Seq(0..LastTick) /\ IsEndOf(Latest(g1, m), g1, Surplus(Len(g1), m))
    BY <1>6, <2>1, LatestAreLast, Zenon
  <2>3. Len(g1) = ng + 1 /\ ng \in Nat
    BY <1>1, <1>6
  <2>4. Surplus(Len(g1), m) = d /\ d \in Nat
    BY <1>1, <2>3 DEF m, Surplus
  <2>5. g2 \in Seq(0..LastTick) /\ IsEndOf(g2, g1, d)
    BY <2>1, <2>2, <2>4
  <2> HIDE DEF d, ng
  <2> QED  BY <2>3, <2>4, <2>5 DEF IsEndOf
<1>8. TierInv(p) /\ nh \in Nat /\ ng \in Nat
  BY <1>1 DEF LimiterInv
<1>9. /\ \A i \in 1..nh : h[i] <= now
      /\ \A i, j \in 1..nh : i <= j => h[i] <= h[j]
      /\ \A i \in 1..ng : g[i] <= now
      /\ \A i, j \in 1..ng : i <= j => g[i] <= g[j]
      /\ ng - nh >= 0 /\ ng <= L + 1 /\ nh <= L
      /\ \A i \in 1..nh : h[i] = g[ng - nh + i]
      /\ \A i \in 1..ng - nh : g[i] <= now - W
  BY <1>8 DEF TierInv, HitsInOrder, HitsAreLatest, InOrder, h, g, L, W
<1>10. /\ \A i \in 1..nh : h[i] \in Int
       /\ \A i \in 1..ng : g[i] \in Int
  <2>1. /\ \A i \in 1..nh : h[i] \in 0..LastTick
        /\ \A i \in 1..ng : g[i] \in 0..LastTick
    BY <1>1, ElementOfSeq
  <2>2. \A t \in 0..LastTick : t \in Int
    BY <1>1
  <2> QED  BY <2>1, <2>2
<1>11. now \in Int /\ W \in Nat \ {0} /\ L \in Nat \ {0}
  BY <1>1
<1>12. /\ k \in 0..nh /\ nh - k < L /\ Len(h1) = nh - k + 1 /\ h1[nh - k + 1] = now
       /\ \A i \in 1..nh - k : h1[i] = h[k + i]
       /\ \A i \in 1..k : h[i] <= now - W
  BY <1>3, <1>4, <1>5
<1>13. g1[ng + 1] = now /\ \A i \in 1..ng : g1[i] = g[i]
  BY <1>6
<1> HIDE DEF nh, ng
<1>14. d \in 0..1 /\ (d = 1 => ng = L + 1) /\ (d = 0 => ng <= L)
  BY <1>8, <1>9, <1>11 DEF Surplus
<1> HIDE DEF d
<1> DEFINE older == ng - nh
           n1 == nh - k + 1
           n2 == ng + 1 - d
           older2 == n2 - n1
<1>15. /\ k \in Nat /\ k <= nh /\ older \in Nat /\ older2 = older + k - d /\ older2 \in Nat
       /\ n1 \in Nat /\ n2 \in Nat /\ n1 <= L /\ n2 <= L + 1
  BY <1>8, <1>9, <1>11, <1>12, <1>14
<1>16. /\ \A i \in 1..n1 : h1[i] \in Int /\ h1[i] <= now
       /\ \A i, j \in 1..n1 : i <= j => h1[i] <= h1[j]
  <2>1. \A i \in 1..nh - k : h1[i] = h[k + i] /\ k + i \in 1..nh
    BY <1>8, <1>12
  <2>2. \A i \in 1..n1 : h1[i] \in Int /\ h1[i] <= now
    <3>1. ASSUME NEW i \in 1..n1
          PROVE  h1[i] \in Int /\ h1[i] <= now
      <4>1. CASE i = n1
        BY <1>11, <1>12, <4>1
      <4>2. CASE i # n1
        <5>1. i \in 1..nh - k
          BY <1>8, <1>15, <4>2
        <5> QED  BY <1>9, <1>10, <2>1, <5>1
      <4> QED  BY <4>1, <4>2
    <3> QED  BY <3>1
  <2>3. ASSUME NEW i \in 1..n1, NEW j \in 1..n1, i <= j
        PROVE  h1[i] <= h1[j]
    <3>1. CASE j = n1
      BY <1>12, <2>2, <3>1
    <3>2. CASE j # n1
      <4>1. i \in 1..nh - k /\ j \in 1..nh - k /\ k + i <= k + j
        BY <1>8, <1>15, <2>3, <3>2
      <4> QED  BY <1>9, <2>1, <4>1
    <3> QED  BY <3>1, <3>2
  <2> QED  BY <2>2, <2>3
<1>17. /\ \A i \in 1..ng + 1 : g1[i] \in Int /\ g1[i] <= now
       /\ \A i, j \in 1..ng + 1 : i <= j => g1[i] <= g1[j]
  BY <1>8, <1>9, <1>10, <1>11, <1>13
<1>18. /\ \A i \in 1..n2 : g2[i] \in Int /\ g2[i] <= now
       /\ \A i, j \in 1..n2 : i <= j => g2[i] <= g2[j]
  <2>1. \A i \in 1..n2 : g2[i] = g1[d + i] /\ d + i \in 1..ng + 1
    BY <1>7, <1>8, <1>14
  <2>2. ASSUME NEW i \in 1..n2, NEW j \in 1..n2, i <= j
        PROVE  g2[i] <= g2[j]
    <3>1. d + i \in 1..ng + 1 /\ d + j \in 1..ng + 1 /\ d + i <= d + j
      BY <1>14, <1>15, <2>1, <2>2
    <3>2. g1[d + i] <= g1[d + j]
      BY <1>17, <3>1
    <3> QED  BY <2>1, <3>2
  <2>3. \A i \in 1..n2 : g2[i] \in Int /\ g2[i] <= now
    BY <1>17, <2>1
  <2> QED  BY <2>2, <2>3
<1>19. \A i \in 1..n1 : h1[i] = g2[older2 + i]
  <2> SUFFICES ASSUME NEW i \in 1..n1
               PROVE  h1[i] = g2[older2 + i]
    OBVIOUS
  <2>1. g2[older2 + i] = g1[older + k + i]
    <3>1. older2 + i \in 1..n2 /\ d + (older2 + i) = older + k + i
      BY <1>8, <1>14, <1>15
    <3> QED  BY <1>7, <3>1
  <2>2. CASE i = n1
    BY <1>8, <1>12, <1>13, <1>15, <2>1, <2>2
  <2>3. CASE i \in 1..nh - k
    <3>1. h1[i] = h[k + i] /\ k + i \in 1..nh
      BY <1>8, <1>12, <2>3
    <3>2. /\ h[k + i] = g[older + (k + i)] /\ older + (k + i) \in 1..ng
          /\ older + (k + i) = older + k + i
      BY <1>8, <1>9, <1>15, <3>1
    <3> QED  BY <1>13, <2>1, <3>1, <3>2
  <2> QED  BY <1>8, <1>15, <2>2, <2>3
<1>20. \A i \in 1..older2 : g2[i] <= now - W
  <2> SUFFICES ASSUME NEW i \in 1..older2
               PROVE  g2[i] <= now - W
    OBVIOUS
  <2>1. i \in 1..n2 /\ d + i \in 1..older + k /\ d + i \in 1..ng
    BY <1>8, <1>14, <1>15
  <2>2. g2[i] = g[d + i]
    BY <1>7, <1>13, <2>1
  <2>3. CASE d + i <= older
    BY <1>9, <2>1, <2>2, <2>3
  <2>4. CASE d + i > older
    <3>1. d + i - older \in 1..k /\ older + (d + i - older) = d + i /\ d + i - older \in 1..nh
      BY <1>8, <1>14, <1>15, <2>1, <2>4
    <3>2. h[d + i - older] = g[d + i]
      BY <1>9, <3>1
    <3> QED  BY <1>12, <2>2, <3>1, <3>2
  <2> QED  BY <1>14, <1>15, <2>3, <2>4
<1>21. ASSUME n2 > L
       PROVE  g2[L + 1] >= g2[1] + W
  <2>1. n2 = L + 1 /\ older2 >= 1 /\ older2 + n1 = L + 1 /\ n1 >= 1
    <3>1. n2 = L + 1 /\ n1 \in 1..L
      BY <1>8, <1>11, <1>12, <1>15, <1>21
    <3>2. older2 + n1 = n2
      BY <1>15
    <3> QED  BY <1>11, <1>15, <3>1, <3>2
  <2>2. g2[1] <= now - W /\ g2[1] \in Int
    BY <1>15, <1>18, <1>20, <2>1
  <2>3. g2[L + 1] = h1[n1]
    BY <1>15, <1>19, <2>1
  <2> QED  BY <1>11, <1>12, <2>2, <2>3
<1>22. n1 = Len(h1) /\ n2 = Len(g2)
  BY <1>7, <1>12
<1> HIDE DEF n1, n2
<1>23. HitsInOrder(p)'
  BY <1>2, <1>15, <1>16, <1>22 DEF HitsInOrder, InOrder, h1, L
<1>24. HitsAreLatest(p)'
  <2> DEFINE o == Len(g2) - Len(h1)
  <2>1. /\ InOrder(g2) /\ \A i \in 1..Len(g2) : g2[i] <= now
        /\ o >= 0 /\ Len(g2) <= L + 1
        /\ \A i \in 1..Len(h1) : h1[i] = g2[o + i]
        /\ \A i \in 1..o : g2[i] <= now - W
    BY <1>15, <1>18, <1>19, <1>20, <1>22 DEF InOrder
  <2> HIDE DEF o
  <2>2. HitsAreLatest(p)' <=>
            LET older3 == Len(g2) - Len(h1) IN
            /\ InOrder(g2) /\ \A i \in 1..Len(g2) : g2[i] <= now'
            /\ older3 >= 0 /\ Len(g2) <= L + 1
            /\ \A i \in 1..Len(h1) : h1[i] = g2[older3 + i]
            /\ \A i \in 1..older3 : g2[i] <= now' - W
    BY DEF HitsAreLatest, InOrder, h1, g2, L, W
  <2> QED  BY <1>2, <2>1, <2>2 DEF o
<1>25. WaitIsLongEnough(p)'
  BY <1>2 DEF WaitIsLongEnough
<1> QED  BY <1>5, <1>7, <1>21, <1>22, <1>23, <1>24, <1>25 DEF TierInv, h1, g2, L, W


(* The wait is rounded up to whole seconds, so it lasts until the oldest   *)
(* time is out of the window, and is no longer than the window.            *)
LEMMA WaitCoversOldest ==
    ASSUME NEW present \in Int, NEW oldest \in Int, oldest <= present, oldest > present - Window,
           now = present
    PROVE  /\ SecondsUntil(oldest) \in 1..WindowSeconds
           /\ oldest + Window <= present + SecondsUntil(oldest) * PerSecond
<1> DEFINE n == PerSecond
           a == oldest + Window - present + n - 1
           q == a \div n
<1>1. n \in Nat \ {0} /\ Window \in Nat \ {0} /\ Window = n * WindowSeconds
      /\ WindowSeconds \in Nat \ {0}
  BY WindowIsPositive DEF Window
<1> HIDE DEF n
<1>2. a \in Int /\ a >= n /\ a < n * WindowSeconds + n
  BY <1>1
<1>3. q \in Int /\ n * q <= a /\ a < n * q + n
  BY <1>1, <1>2, Quotient
<1> HIDE DEF q
<1>4. q > 0
  <2>1. n * 0 = 0 /\ n * q \in Int
    BY <1>1, <1>3
  <2>2. n * 0 < n * q
    BY <1>1, <1>2, <1>3, <2>1
  <2> QED  BY <1>1, <1>3, <2>2, ProductsGrow
<1>5. q < WindowSeconds + 1
  <2>1. n * (WindowSeconds + 1) = n * WindowSeconds + n
    BY <1>1
  <2>2. n * q < n * (WindowSeconds + 1)
    BY <1>1, <1>2, <1>3, <2>1
  <2> QED  BY <1>1, <1>3, <2>2, ProductsGrow
<1>6. SecondsUntil(oldest) = q
  <2>1. SecondsUntil(oldest) = Max({1, q})
    BY DEF SecondsUntil, q, n
  <2> QED  BY <1>3, <1>4, <2>1, MaxOfTwo
<1>7. oldest + Window <= present + q * n
  <2>1. q * n = n * q /\ n * q \in Int
    BY <1>1, <1>3
  <2> QED  BY <1>1, <1>3, <2>1
<1> QED  BY <1>1, <1>3, <1>4, <1>5, <1>6, <1>7 DEF n

(* A request that is refused leaves what is still in the window.           *)
LEMMA RefusalStep ==
    ASSUME LimiterInv, NEW p \in Tier, CheckLimit(p), Refuse(p)
    PROVE  /\ hits'[p] \in Seq(0..LastTick) /\ granted'[p] \in Seq(0..LastTick)
           /\ toldWait'[p] \in [at : 0..LastTick, retryAfter : Nat]
           /\ TierInv(p)'
<1> DEFINE h == hits[p]
           g == granted[p]
           L == LimitOf[p]
           f == Fresh(p)
           W == Window
<1>1. /\ L \in Nat \ {0} /\ W \in Nat \ {0} /\ LastTick \in Nat /\ now \in 0..LastTick
      /\ h \in Seq(0..LastTick) /\ g \in Seq(0..LastTick)
      /\ hits \in [Tier -> Seq(0..LastTick)] /\ granted \in [Tier -> Seq(0..LastTick)]
      /\ toldWait \in [Tier -> [at : 0..LastTick, retryAfter : Nat]]
  BY WindowIsPositive DEF LimiterInv, LimiterTypeOK
<1>2. /\ now' = now /\ hits'[p] = f /\ granted'[p] = g
      /\ toldWait'[p] = [at |-> now, retryAfter |-> SecondsUntil(f[1])]
  BY <1>1 DEF CheckLimit
<1>3. PICK k \in 0..Len(h) :
          /\ f \in Seq(0..LastTick) /\ Len(f) = Len(h) - k
          /\ \A i \in 1..Len(h) - k : f[i] = h[k + i] /\ h[k + i] > now - W
          /\ \A i \in 1..k : h[i] <= now - W
  BY FreshIsTheEnd
<1>4. Len(f) >= L
  BY <1>1, <1>3 DEF Refuse
<1>5. TierInv(p) /\ Len(h) \in Nat /\ Len(g) \in Nat
  BY <1>1 DEF LimiterInv
<1> HIDE DEF h, g, L, f, W
<1>6. /\ \A i \in 1..Len(h) : h[i] <= now
      /\ \A i, j \in 1..Len(h) : i <= j => h[i] <= h[j]
      /\ Len(h) <= L
  BY <1>5 DEF TierInv, HitsInOrder, InOrder, h, L
<1>7. k = 0 /\ Len(f) = Len(h) /\ Len(f) = L
  BY <1>1, <1>3, <1>4, <1>5, <1>6
<1>8. \A i \in 1..Len(f) : f[i] = h[i] /\ f[i] > now - W
  BY <1>3, <1>5, <1>7
<1>9. HitsInOrder(p)'
  BY <1>2, <1>6, <1>7, <1>8 DEF HitsInOrder, InOrder, L
<1>10. HitsAreLatest(p)'
  <2>1. HitsAreLatest(p)
    BY <1>5 DEF TierInv
  <2>2. /\ InOrder(g) /\ \A i \in 1..Len(g) : g[i] <= now
        /\ Len(g) - Len(f) >= 0 /\ Len(g) <= L + 1
        /\ \A i \in 1..Len(f) : f[i] = g[Len(g) - Len(f) + i]
        /\ \A i \in 1..Len(g) - Len(f) : g[i] <= now - W
    BY <1>7, <1>8, <2>1 DEF HitsAreLatest, h, g, L, W
  <2>3. HitsAreLatest(p)' <=>
            /\ InOrder(g) /\ \A i \in 1..Len(g) : g[i] <= now'
            /\ Len(g) - Len(f) >= 0 /\ Len(g) <= L + 1
            /\ \A i \in 1..Len(f) : f[i] = g[Len(g) - Len(f) + i]
            /\ \A i \in 1..Len(g) - Len(f) : g[i] <= now' - W
    BY <1>2 DEF HitsAreLatest, InOrder, L, W
  <2> QED  BY <1>2, <2>2, <2>3
<1>11. f[1] \in Int /\ f[1] <= now /\ f[1] > now - W /\ now \in Int
  <2>1. 1 \in 1..Len(f)
    BY <1>1, <1>7
  <2>2. f[1] \in 0..LastTick
    BY <1>3, <2>1, ElementOfSeq
  <2>3. f[1] <= now /\ f[1] > now - W
    BY <1>6, <1>7, <1>8, <2>1
  <2> QED  BY <1>1, <2>2, <2>3
<1>12. /\ SecondsUntil(f[1]) \in 1..WindowSeconds
       /\ f[1] + Window <= now + SecondsUntil(f[1]) * PerSecond
  BY <1>11, WaitCoversOldest DEF W
<1>13. WaitIsLongEnough(p)'
  BY <1>2, <1>7, <1>12 DEF WaitIsLongEnough, L
<1>14. toldWait'[p] \in [at : 0..LastTick, retryAfter : Nat]
  BY <1>1, <1>2, <1>12, WindowIsPositive
<1>15. Len(g) > L => g[L + 1] >= g[1] + W
  BY <1>5 DEF TierInv, g, L, W
<1> QED  BY <1>1, <1>2, <1>3, <1>9, <1>10, <1>13, <1>14, <1>15 DEF TierInv, g, L, W

LEMMA LimiterStep == LimiterInv /\ [LimiterNext]_limiterVars => LimiterInv'
<1> SUFFICES ASSUME LimiterInv, [LimiterNext]_limiterVars
             PROVE  LimiterInv'
  OBVIOUS
<1>1. ASSUME NEW p \in Tier, CheckLimit(p)
      PROVE  LimiterInv'
  <2>1. /\ now' = now
        /\ \E s : hits' = [hits EXCEPT ![p] = s]
        /\ \E s : granted' = [granted EXCEPT ![p] = s]
        /\ \E s : toldWait' = [toldWait EXCEPT ![p] = s]
    <3>1. granted' = granted => granted' = [granted EXCEPT ![p] = granted[p]]
      BY DEF LimiterInv, LimiterTypeOK
    <3> QED  BY <1>1, <3>1 DEF CheckLimit
  <2>2. /\ hits'[p] \in Seq(0..LastTick) /\ granted'[p] \in Seq(0..LastTick)
        /\ toldWait'[p] \in [at : 0..LastTick, retryAfter : Nat]
        /\ TierInv(p)'
    <3>1. CASE Refuse(p)
      BY <1>1, <3>1, RefusalStep
    <3>2. CASE ~Refuse(p)
      <4>1. toldWait'[p] = NoRefusal
        BY <1>1, <3>2 DEF CheckLimit, LimiterInv, LimiterTypeOK
      <4>2. NoRefusal \in [at : 0..LastTick, retryAfter : Nat]
        BY WindowIsPositive DEF NoRefusal
      <4> QED  BY <1>1, <3>2, <4>1, <4>2, GrantStep
    <3> QED  BY <3>1, <3>2
  <2>3. ASSUME NEW q \in Tier, q # p
        PROVE  TierInv(q)'
    <3>1. hits'[q] = hits[q] /\ granted'[q] = granted[q] /\ toldWait'[q] = toldWait[q]
      BY <2>1, <2>3 DEF LimiterInv, LimiterTypeOK
    <3>2. TierInv(q)
      BY DEF LimiterInv
    <3> QED  BY <2>1, <3>1, <3>2 DEF TierInv, HitsInOrder, HitsAreLatest, WaitIsLongEnough, InOrder
  <2>4. LimiterTypeOK'
    BY <2>1, <2>2 DEF LimiterInv, LimiterTypeOK
  <2> QED  BY <2>2, <2>3, <2>4 DEF LimiterInv
<1>2. CASE Tick
  <2>1. now' = now + 1 /\ now \in 0..LastTick /\ now' \in 0..LastTick
        /\ UNCHANGED <<hits, granted, toldWait>>
    BY <1>2, WindowIsPositive DEF Tick, LimiterInv, LimiterTypeOK
  <2>2. ASSUME NEW p \in Tier
        PROVE  TierInv(p)'
    <3>1. TierInv(p) /\ hits[p] \in Seq(0..LastTick) /\ granted[p] \in Seq(0..LastTick)
      BY DEF LimiterInv, LimiterTypeOK
    <3>2. /\ \A i \in 1..Len(hits[p]) : hits[p][i] \in 0..LastTick
          /\ \A i \in 1..Len(granted[p]) : granted[p][i] \in 0..LastTick
      BY <3>1, ElementOfSeq
    <3>3. HitsInOrder(p)'
      BY <2>1, <3>1, <3>2, WindowIsPositive DEF TierInv, HitsInOrder, InOrder
    <3>4. HitsAreLatest(p)'
      <4> DEFINE g == granted[p]
                 older == Len(g) - Len(hits[p])
      <4>1. /\ InOrder(g) /\ \A i \in 1..Len(g) : g[i] <= now
            /\ older >= 0 /\ Len(g) <= LimitOf[p] + 1
            /\ \A i \in 1..Len(hits[p]) : hits[p][i] = g[older + i]
            /\ \A i \in 1..older : g[i] <= now - Window
        BY <3>1 DEF TierInv, HitsAreLatest
      <4>2. Len(g) \in Nat /\ Len(hits[p]) \in Nat
        BY <3>1
      <4>3. older \in Nat /\ older <= Len(g)
        <5> HIDE DEF g
        <5>1. older >= 0
          BY <4>1
        <5> QED  BY <4>2, <5>1
      <4>4. \A t \in 0..LastTick : t \in Int
        BY WindowIsPositive
      <4>5. \A i \in 1..Len(g) : g[i] \in Int
        BY <3>2, <4>4
      <4> DEFINE n == Len(g)
      <4> HIDE DEF older, g
      <4>6. now \in Int /\ Window \in Int
        BY <2>1, <4>4, WindowIsPositive
      <4>7. \A i \in 1..n : g[i] <= now'
        <5>1. \A i \in 1..n : g[i] <= now + 1
          BY <4>1, <4>2, <4>5, <4>6
        <5> QED  BY <2>1, <5>1
      <4>8. \A i \in 1..older : g[i] <= now' - Window
        <5>1. \A i \in 1..older : i \in 1..n
          BY <4>2, <4>3
        <5>2. \A i \in 1..older : g[i] <= now + 1 - Window
          BY <4>1, <4>5, <4>6, <5>1
        <5>3. now' - Window = now + 1 - Window
          BY <2>1, <4>6
        <5> QED  BY <5>2, <5>3
      <4>9. HitsAreLatest(p)' <=>
                /\ InOrder(g) /\ \A i \in 1..n : g[i] <= now'
                /\ older >= 0 /\ n <= LimitOf[p] + 1
                /\ \A i \in 1..Len(hits[p]) : hits[p][i] = g[older + i]
                /\ \A i \in 1..older : g[i] <= now' - Window
        BY <2>1 DEF HitsAreLatest, InOrder, g, older
      <4>10. older >= 0 /\ n <= LimitOf[p] + 1
        BY <4>1
      <4> QED  BY <4>1, <4>7, <4>8, <4>9, <4>10
    <3>5. WaitIsLongEnough(p)'
      BY <2>1, <3>1 DEF TierInv, WaitIsLongEnough
    <3> QED  BY <2>1, <3>1, <3>3, <3>4, <3>5 DEF TierInv
  <2> QED  BY <2>1, <2>2 DEF LimiterInv, LimiterTypeOK
<1>3. CASE UNCHANGED limiterVars
  BY <1>3 DEF limiterVars, LimiterInv, LimiterTypeOK, TierInv, HitsInOrder, HitsAreLatest,
              WaitIsLongEnough, InOrder
<1> QED  BY <1>1, <1>2, <1>3 DEF LimiterNext

LEMMA LimiterStart == LimiterInit => LimiterInv
<1> SUFFICES ASSUME LimiterInit
             PROVE  LimiterInv
  OBVIOUS
<1>1. LimiterTypeOK
  BY WindowIsPositive DEF LimiterInit, LimiterTypeOK, NoRefusal
<1>2. ASSUME NEW p \in Tier
      PROVE  TierInv(p)
  <2>1. hits[p] = <<>> /\ granted[p] = <<>> /\ toldWait[p] = NoRefusal /\ LimitOf[p] \in Nat
    BY WindowIsPositive DEF LimiterInit
  <2> QED  BY <2>1 DEF TierInv, HitsInOrder, HitsAreLatest, WaitIsLongEnough, InOrder
<1> QED  BY <1>1, <1>2 DEF LimiterInv

(* No window of the bucket's length, wherever it begins, holds more        *)
(* successes of a plan than its limit (checkMem in ratelimit/index.ts).    *)
THEOREM NoWindowOverflows == LimiterSpec => []WindowHolds
<1>1. LimiterInv => WindowHolds
  BY DEF LimiterInv, TierInv, WindowHolds
<1> QED  BY <1>1, LimiterStart, LimiterStep, PTL DEF LimiterSpec

(* A caller that was refused and waits as long as it was told is let       *)
(* through, and is never told to wait longer than the window.              *)
THEOREM WaitingIsEnough == LimiterSpec => []RetryAfterSuffices
<1>1. LimiterInv => RetryAfterSuffices
  <2> SUFFICES ASSUME LimiterInv, NEW p \in Tier, toldWait[p] # NoRefusal
               PROVE  /\ toldWait[p].retryAfter \in 1..WindowSeconds
                      /\ now >= toldWait[p].at + toldWait[p].retryAfter * PerSecond => ~Refuse(p)
    BY DEF RetryAfterSuffices
  <2>1. /\ toldWait[p].retryAfter \in 1..WindowSeconds
        /\ Len(hits[p]) = LimitOf[p]
        /\ hits[p][1] + Window <= toldWait[p].at + toldWait[p].retryAfter * PerSecond
    BY DEF LimiterInv, TierInv, WaitIsLongEnough
  <2>2. ASSUME now >= toldWait[p].at + toldWait[p].retryAfter * PerSecond
        PROVE  ~Refuse(p)
    <3> DEFINE told == toldWait[p].at + toldWait[p].retryAfter * PerSecond
    <3>1. PICK k \in 0..Len(hits[p]) :
               /\ Fresh(p) \in Seq(0..LastTick) /\ Len(Fresh(p)) = Len(hits[p]) - k
               /\ \A i \in 1..Len(hits[p]) - k :
                      Fresh(p)[i] = hits[p][k + i] /\ hits[p][k + i] > now - Window
      BY FreshIsTheEnd
    <3>2. LimitOf[p] \in Nat \ {0} /\ now \in Int /\ Window \in Int /\ hits[p][1] \in Int /\ told \in Int
      <4>1. hits[p] \in Seq(0..LastTick) /\ now \in 0..LastTick
            /\ toldWait[p] \in [at : 0..LastTick, retryAfter : Nat]
        BY DEF LimiterInv, LimiterTypeOK
      <4>2. 1 \in 1..Len(hits[p])
        BY <2>1, WindowIsPositive
      <4>3. hits[p][1] \in 0..LastTick
        BY <4>1, <4>2, ElementOfSeq
      <4>4. toldWait[p].retryAfter * PerSecond \in Int
        BY <4>1, WindowIsPositive
      <4> QED  BY <4>1, <4>3, <4>4, WindowIsPositive
    <3> HIDE DEF told
    <3>3. hits[p][1] <= now - Window
      BY <2>1, <2>2, <3>2 DEF told
    <3>4. k # 0
      <4>1. k = 0 => hits[p][1] > now - Window
        BY <2>1, <3>1, <3>2
      <4> QED  BY <3>2, <3>3, <4>1
    <3> QED  BY <2>1, <3>1, <3>2, <3>4 DEF Refuse
  <2> QED  BY <2>1, <2>2
<1> QED  BY <1>1, LimiterStart, LimiterStep, PTL DEF LimiterSpec
----------------------------------------------------------------------------
(* Build logs.                                                             *)

Lowest(rows, later) ==
    /\ \A i, j \in DOMAIN rows : i < j => rows[i] < rows[j]
    /\ \A i \in DOMAIN rows, n \in later \ Range(rows) : rows[i] < n

Pages(later) == UNION {[1..k -> later] : k \in 0..PageLimit}

(* Whatever rows there are, they have a first page: one that is no page    *)
(* yet is extended by the least row that it leaves out.                    *)
LEMMA PageExists ==
    ASSUME NEW later \in SUBSET Nat
    PROVE  \E rows \in Pages(later) : IsPage(rows, later)
<1> SUFFICES ASSUME \A rows \in Pages(later) : ~IsPage(rows, later)
             PROVE  FALSE
  OBVIOUS
<1> DEFINE Reached(k) == \E rows \in [1..k -> later] : Lowest(rows, later)
           Bad == {k \in 0..PageLimit : ~Reached(k)}
<1>1. PageLimit \in Nat /\ Bad \subseteq Nat
  BY BuildLogAssumption
<1>2. Reached(0)
  <2> DEFINE none == [i \in 1..0 |-> 0]
  <2>1. none \in [1..0 -> later] /\ DOMAIN none = {}
    OBVIOUS
  <2> QED  BY <2>1 DEF Lowest
<1>3. ASSUME NEW k \in 0..PageLimit, k # PageLimit, NEW rows \in [1..k -> later],
             Lowest(rows, later)
      PROVE  Reached(k + 1)
  <2>1. k \in Nat /\ k < PageLimit /\ DOMAIN rows = 1..k
    BY <1>1, <1>3
  <2>2. rows \in Seq(later) /\ Len(rows) = k
    BY <2>1, SeqDef
  <2>3. rows \in Pages(later)
    BY DEF Pages
  <2>4. later \ Range(rows) # {}
    BY <1>3, <2>1, <2>2, <2>3 DEF IsPage, Lowest
  <2>5. PICK m \in later \ Range(rows) : \A n \in later \ Range(rows) : m <= n
    BY <2>4, LeastNatural
  <2> DEFINE more == [i \in 1..k + 1 |-> IF i = k + 1 THEN m ELSE rows[i]]
  <2>6. more \in [1..k + 1 -> later] /\ DOMAIN more = 1..k + 1
        /\ more[k + 1] = m /\ \A i \in 1..k : more[i] = rows[i]
    BY <2>1
  <2> HIDE DEF more
  <2>7. \A i \in 1..k : rows[i] \in Nat /\ rows[i] < m
    BY <1>3, <2>1, <2>5 DEF Lowest
  <2>8. ASSUME NEW i \in 1..k + 1, NEW j \in 1..k + 1, i < j
        PROVE  more[i] < more[j]
    <3>1. i \in 1..k
      BY <2>1, <2>8
    <3>2. CASE j = k + 1
      BY <2>6, <2>7, <3>1, <3>2
    <3>3. CASE j # k + 1
      <4>1. j \in 1..k
        BY <2>1, <3>3
      <4>2. rows[i] < rows[j]
        BY <1>3, <2>8, <3>1, <4>1 DEF Lowest
      <4> QED  BY <2>6, <3>1, <4>1, <4>2
    <3> QED  BY <3>2, <3>3
  <2>9. ASSUME NEW i \in 1..k + 1, NEW n \in later \ Range(more)
        PROVE  more[i] < n
    <3>1. n # m /\ n \notin Range(rows)
      BY <2>1, <2>6, <2>9 DEF Range
    <3>2. m < n
      BY <2>5, <3>1
    <3> QED  BY <2>1, <2>6, <2>7, <3>2
  <2> QED  BY <2>6, <2>8, <2>9 DEF Lowest
<1>4. Bad = {}
  <2> SUFFICES ASSUME Bad # {}
               PROVE  FALSE
    OBVIOUS
  <2>1. PICK b \in Bad : \A c \in Bad : b <= c
    BY <1>1, LeastNatural
  <2> HIDE DEF Reached
  <2>2. b \in Nat /\ b # 0 /\ b <= PageLimit /\ ~Reached(b)
    BY <1>1, <1>2, <2>1
  <2>3. Reached(b - 1)
    BY <1>1, <2>1, <2>2
  <2>4. b - 1 \in 0..PageLimit /\ b - 1 # PageLimit /\ (b - 1) + 1 = b
    BY <1>1, <2>2
  <2>5. PICK rows \in [1..b - 1 -> later] : Lowest(rows, later)
    BY <2>3 DEF Reached
  <2>6. Reached((b - 1) + 1)
    BY <1>3, <2>4, <2>5
  <2> QED  BY <2>2, <2>4, <2>6
<1>5. PICK rows \in [1..PageLimit -> later] : Lowest(rows, later)
  BY <1>1, <1>4
<1>6. rows \in Pages(later) /\ Len(rows) = PageLimit
  <2>1. rows \in Seq(later)
    BY <1>1, SeqDef
  <2> QED  BY <1>1, <2>1 DEF Pages
<1> QED  BY <1>1, <1>5, <1>6 DEF IsPage, Lowest

(* What a reader shows is in order and no further than its cursor, and     *)
(* what it does not show of the log is accounted for.                      *)
Unshown(r) == logged \ (passed[r] \cup Range(shown[r]))

FollowsLog(r) ==
    /\ \A i \in 1..Len(shown[r]) : shown[r][i] <= reader[r].after
    /\ \A i, j \in 1..Len(shown[r]) : i < j => shown[r][i] < shown[r][j]
    /\ \A n \in Unshown(r) : \/ n <= FirstAfter[r]
                             \/ n > reader[r].after /\ (reader[r].step = "stopped" => reader[r].full)

ReaderStates == [step : {"ask", "rows", "stopped"}, after : Int, over : BOOLEAN, full : BOOLEAN]

LogInv ==
    /\ buildOver \in BOOLEAN
    /\ emitted \in Nat /\ flying \subseteq Line /\ logged \subseteq Line
    /\ reader \in [Reader -> ReaderStates]
    /\ shown \in [Reader -> Seq(Line)]
    /\ passed \in [Reader -> SUBSET Line]
    /\ \A r \in Reader : FollowsLog(r)

LEMMA PageIsPage ==
    ASSUME LogInv, NEW start \in Int
    PROVE  /\ Page(start) \in Seq({n \in logged : n > start})
           /\ Len(Page(start)) <= PageLimit
           /\ IsPage(Page(start), {n \in logged : n > start})
<1> DEFINE later == {n \in logged : n > start}
<1>1. later \in SUBSET Nat
  <2>1. logged \subseteq Line /\ Line \subseteq Nat
    BY BuildLogAssumption DEF LogInv, Line
  <2> QED  BY <2>1
<1> HIDE DEF later
<1>2. Page(start) \in Pages(later) /\ IsPage(Page(start), later)
  <2>1. \E rows \in Pages(later) : IsPage(rows, later)
    BY <1>1, PageExists
  <2> QED  BY <2>1 DEF Page, Pages, later
<1>3. Page(start) \in Seq(later) /\ Len(Page(start)) <= PageLimit
  <2>1. PICK k \in 0..PageLimit : Page(start) \in [1..k -> later]
    BY <1>2 DEF Pages
  <2>2. k \in Nat /\ k <= PageLimit
    BY BuildLogAssumption
  <2>3. Page(start) \in Seq(later)
    BY <2>1, <2>2, SeqDef
  <2>4. Len(Page(start)) = k
    BY <2>1, <2>2, <2>3
  <2> QED  BY <2>2, <2>3, <2>4
<1> QED  BY <1>2, <1>3 DEF later

(* A reader that is shown the next page.                                   *)
LEMMA ReadRowsStep ==
    ASSUME LogInv, NEW r \in Reader, ReadRows(r)
    PROVE  LogInv'
<1> DEFINE rows == Page(reader[r].after)
           cursor == reader[r].after
           later == {n \in logged : n > cursor}
           old == shown[r]
           new == shown'[r]
           cursor2 == reader'[r].after
<1>1. /\ cursor \in Int /\ old \in Seq(Line) /\ logged \subseteq Line
      /\ reader[r].step = "rows" /\ FollowsLog(r)
  BY DEF LogInv, ReadRows, ReaderStates
<1>2. rows \in Seq(later) /\ Len(rows) <= PageLimit /\ IsPage(rows, later)
  BY <1>1, PageIsPage
<1>3. /\ UNCHANGED <<emitted, flying, logged, buildOver, passed>>
      /\ shown' = [shown EXCEPT ![r] = old \o rows]
      /\ reader' = [reader EXCEPT ![r].after = IF rows = <<>> THEN cursor ELSE rows[Len(rows)],
                                  ![r].step = IF reader[r].over THEN "stopped" ELSE "ask",
                                  ![r].full = Len(rows) = PageLimit]
  BY DEF ReadRows
<1>4. new = old \o rows /\ rows \in Seq(Line) /\ later \subseteq Line
  BY <1>1, <1>2, <1>3 DEF LogInv
<1>5. /\ cursor2 = IF rows = <<>> THEN cursor ELSE rows[Len(rows)]
      /\ reader'[r].full = (Len(rows) = PageLimit)
      /\ reader'[r].step \in {"ask", "stopped"}
  BY <1>3 DEF LogInv, ReaderStates
<1> HIDE DEF rows, new, cursor2
<1>6. \A n \in Line : n \in Int
  BY BuildLogAssumption DEF Line
<1>7. /\ \A i \in 1..Len(rows) : rows[i] \in later /\ rows[i] \in Int
      /\ \A i, j \in 1..Len(rows) : i < j => rows[i] < rows[j]
      /\ \A i \in 1..Len(rows), n \in later \ Range(rows) : rows[i] < n
      /\ Len(rows) < PageLimit => later \subseteq Range(rows)
      /\ Len(rows) \in Nat /\ DOMAIN rows = 1..Len(rows)
  BY <1>2, <1>4, <1>6, ElementOfSeq DEF IsPage
<1>8. /\ \A i \in 1..Len(old) : old[i] \in Int /\ old[i] <= cursor
      /\ \A i, j \in 1..Len(old) : i < j => old[i] < old[j]
      /\ Len(old) \in Nat /\ DOMAIN old = 1..Len(old)
  BY <1>1, <1>6, ElementOfSeq DEF FollowsLog
<1>9. /\ new \in Seq(Line) /\ Len(new) = Len(old) + Len(rows) /\ DOMAIN new = 1..Len(new)
      /\ \A i \in 1..Len(old) : new[i] = old[i]
      /\ \A i \in 1..Len(rows) : new[Len(old) + i] = rows[i]
  BY <1>1, <1>4
<1>10. cursor2 \in Int /\ cursor <= cursor2 /\ \A i \in 1..Len(rows) : rows[i] <= cursor2
  <2>1. CASE rows = <<>>
    BY <1>1, <1>5, <1>7, <2>1
  <2>2. CASE rows # <<>>
    <3>1. Len(rows) \in 1..Len(rows)
      BY <1>2, <1>7, <2>2
    <3>2. cursor2 = rows[Len(rows)] /\ cursor2 \in later /\ cursor2 \in Int
      BY <1>5, <1>7, <2>2, <3>1
    <3>3. ASSUME NEW i \in 1..Len(rows)
          PROVE  rows[i] <= cursor2
      <4>1. i = Len(rows) => rows[i] <= cursor2
        BY <3>2
      <4>2. i < Len(rows) => rows[i] < rows[Len(rows)]
        BY <1>7, <3>1
      <4>3. i < Len(rows) \/ i = Len(rows)
        <5>1. Len(rows) \in Nat
          BY <1>7
        <5> QED  BY <5>1
      <4>4. rows[i] \in Int
        BY <1>7
      <4> QED  BY <3>2, <4>1, <4>2, <4>3, <4>4
    <3>4. cursor < cursor2
      BY <3>2 DEF later
    <3> QED  BY <1>1, <3>2, <3>3, <3>4
  <2> QED  BY <2>1, <2>2
<1>11. \A i \in 1..Len(new) : \/ i \in 1..Len(old) /\ new[i] = old[i]
                              \/ i - Len(old) \in 1..Len(rows) /\ new[i] = rows[i - Len(old)]
  <2> SUFFICES ASSUME NEW i \in 1..Len(new), i \notin 1..Len(old)
               PROVE  i - Len(old) \in 1..Len(rows) /\ new[i] = rows[i - Len(old)]
    BY <1>9
  <2>1. i - Len(old) \in 1..Len(rows) /\ Len(old) + (i - Len(old)) = i
    BY <1>7, <1>8, <1>9
  <2> QED  BY <1>9, <2>1
<1> HIDE DEF old, cursor, later
<1>12. \A i \in 1..Len(new) : new[i] <= cursor2
  BY <1>1, <1>7, <1>8, <1>10, <1>11
<1>13. \A i, j \in 1..Len(new) : i < j => new[i] < new[j]
  <2> SUFFICES ASSUME NEW i \in 1..Len(new), NEW j \in 1..Len(new), i < j
               PROVE  new[i] < new[j]
    OBVIOUS
  <2>1. CASE j \in 1..Len(old)
    <3>1. i \in 1..Len(old)
      BY <1>8, <2>1
    <3> QED  BY <1>8, <1>9, <2>1, <3>1
  <2>2. CASE j \notin 1..Len(old)
    <3>1. j - Len(old) \in 1..Len(rows) /\ new[j] = rows[j - Len(old)]
      BY <1>11, <2>2
    <3>2. new[j] \in Int /\ new[j] > cursor
      BY <1>7, <3>1 DEF later
    <3>3. CASE i \in 1..Len(old)
      BY <1>1, <1>8, <1>9, <3>2, <3>3
    <3>4. CASE i \notin 1..Len(old)
      <4>1. i - Len(old) \in 1..Len(rows) /\ new[i] = rows[i - Len(old)]
        BY <1>11, <3>4
      <4>2. i - Len(old) < j - Len(old)
        BY <1>8, <1>9
      <4> QED  BY <1>7, <3>1, <4>1, <4>2
    <3> QED  BY <3>3, <3>4
  <2> QED  BY <2>1, <2>2
<1>14. Range(old) \subseteq Range(new) /\ Range(rows) \subseteq Range(new)
  <2>1. \A i \in 1..Len(old) : i \in 1..Len(new)
    BY <1>7, <1>8, <1>9
  <2>2. \A i \in 1..Len(rows) : Len(old) + i \in 1..Len(new)
    BY <1>7, <1>8, <1>9
  <2> QED  BY <1>7, <1>8, <1>9, <2>1, <2>2 DEF Range
<1>15. ASSUME NEW n \in logged, n \notin passed[r], n \notin Range(new)
       PROVE  \/ n <= FirstAfter[r]
              \/ n > cursor2 /\ Len(rows) = PageLimit
  <2>1. n \in Unshown(r) /\ n \notin Range(rows)
    BY <1>14, <1>15 DEF Unshown, old
  <2>2. n <= FirstAfter[r] \/ n > cursor
    BY <1>1, <2>1 DEF FollowsLog, cursor
  <2>3. CASE n > cursor
    <3>1. n \in later \ Range(rows) /\ n \in Int
      BY <1>1, <1>6, <2>1, <2>3 DEF later
    <3>2. Len(rows) = PageLimit
      <4>1. ~(Len(rows) < PageLimit)
        BY <1>7, <3>1
      <4>2. Len(rows) \in Nat /\ PageLimit \in Nat /\ Len(rows) <= PageLimit
        BY <1>2, <1>7, BuildLogAssumption
      <4> QED  BY <4>1, <4>2
    <3>3. rows # <<>> /\ Len(rows) \in 1..Len(rows)
      BY <1>2, <1>7, <3>2, BuildLogAssumption
    <3>4. cursor2 = rows[Len(rows)]
      BY <1>5, <3>3
    <3>5. n > cursor2
      BY <1>7, <3>1, <3>3, <3>4
    <3> QED  BY <3>2, <3>5
  <2> QED  BY <2>2, <2>3
<1>16. reader' \in [Reader -> ReaderStates]
  <2> DEFINE step2 == IF reader[r].over THEN "stopped" ELSE "ask"
             full2 == Len(rows) = PageLimit
  <2>1. step2 \in {"ask", "rows", "stopped"} /\ full2 \in BOOLEAN
    OBVIOUS
  <2>2. cursor2 \in Int /\ reader \in [Reader -> ReaderStates]
    BY <1>10 DEF LogInv
  <2>3. reader' = [reader EXCEPT ![r].after = cursor2, ![r].step = step2, ![r].full = full2]
    BY <1>3, <1>5
  <2> HIDE DEF step2, full2
  <2> DEFINE here == [reader[r] EXCEPT !.after = cursor2, !.step = step2, !.full = full2]
  <2>4. here \in ReaderStates
    BY <2>1, <2>2 DEF ReaderStates
  <2>5. reader' = [reader EXCEPT ![r] = here]
    BY <2>3
  <2> HIDE DEF here
  <2> QED  BY <2>2, <2>4, <2>5
<1>17. FollowsLog(r)'
  <2>1. \A n \in Unshown(r)' : \/ n <= FirstAfter[r]
                               \/ n > cursor2 /\ Len(rows) = PageLimit
    BY <1>3, <1>15 DEF Unshown, new
  <2> QED  BY <1>5, <1>12, <1>13, <2>1 DEF FollowsLog, new, cursor2
<1>18. ASSUME NEW q \in Reader, q # r
       PROVE  FollowsLog(q)'
  <2>1. /\ shown'[q] = shown[q] /\ reader'[q] = reader[q] /\ passed' = passed /\ logged' = logged
        /\ FollowsLog(q)
    BY <1>3, <1>18 DEF LogInv
  <2> QED  BY <2>1 DEF FollowsLog, Unshown
<1>19. shown' \in [Reader -> Seq(Line)]
  BY <1>3, <1>9 DEF LogInv, new
<1> QED  BY <1>3, <1>16, <1>17, <1>18, <1>19 DEF LogInv

(* A line that lands behind a cursor, or after the reader stopped, is      *)
(* counted as passed; any other is still ahead of the reader.              *)
LEMMA LineLandsStep ==
    ASSUME LogInv, NEW n \in Line, LineLands(n)
    PROVE  LogInv'
<1>1. /\ logged' = logged \cup {n}
      /\ passed' = [r \in Reader |-> IF n <= reader[r].after \/ reader[r].step = "stopped"
                                    THEN passed[r] \cup {n} ELSE passed[r]]
      /\ flying' = flying \ {n}
      /\ UNCHANGED <<emitted, buildOver, reader, shown>>
  BY DEF LineLands
<1>2. ASSUME NEW r \in Reader
      PROVE  FollowsLog(r)'
  <2>1. reader[r].after \in Int /\ n \in Int /\ FollowsLog(r)
    BY BuildLogAssumption DEF LogInv, Line, ReaderStates
  <2>2. ASSUME NEW m \in Unshown(r)'
        PROVE  \/ m \in Unshown(r)
               \/ m = n /\ n > reader[r].after /\ reader[r].step # "stopped"
    <3>1. /\ m \in logged \cup {n} /\ m \notin passed'[r] /\ m \notin Range(shown[r])
          /\ passed'[r] = IF n <= reader[r].after \/ reader[r].step = "stopped"
                          THEN passed[r] \cup {n} ELSE passed[r]
      BY <1>1, <2>2 DEF Unshown
    <3>2. CASE n <= reader[r].after \/ reader[r].step = "stopped"
      BY <3>1, <3>2 DEF Unshown
    <3>3. CASE ~(n <= reader[r].after \/ reader[r].step = "stopped")
      BY <2>1, <3>1, <3>3 DEF Unshown
    <3> QED  BY <3>2, <3>3
  <2> QED  BY <1>1, <2>1, <2>2 DEF FollowsLog
<1>3. passed' \in [Reader -> SUBSET Line]
  BY <1>1 DEF LogInv
<1> QED  BY <1>1, <1>2, <1>3 DEF LogInv

LEMMA LogStep == LogInv /\ [LogNext]_logVars => LogInv'
<1> SUFFICES ASSUME LogInv, [LogNext]_logVars
             PROVE  LogInv'
  OBVIOUS
<1>1. ASSUME EmitLine
      PROVE  LogInv'
  <2>1. emitted \in Line /\ emitted + 1 \in Nat
    BY <1>1, BuildLogAssumption DEF EmitLine, LogInv, Line
  <2> QED  BY <1>1, <2>1 DEF EmitLine, LogInv, FollowsLog, Unshown
<1>2. ASSUME EndBuild
      PROVE  LogInv'
  BY <1>2 DEF EndBuild, LogInv, FollowsLog, Unshown
<1>3. ASSUME NEW n \in Line, LineLands(n)
      PROVE  LogInv'
  BY <1>3, LineLandsStep
<1>4. ASSUME NEW r \in Reader, ReadStatus(r)
      PROVE  LogInv'
  <2>1. /\ UNCHANGED <<emitted, flying, logged, buildOver, shown, passed>>
        /\ \A q \in Reader : /\ reader'[q].after = reader[q].after
                             /\ reader'[q].full = reader[q].full
                             /\ reader'[q].step = "stopped" => reader[q].step = "stopped"
        /\ reader' \in [Reader -> ReaderStates]
    BY <1>4 DEF ReadStatus, LogInv, ReaderStates
  <2>2. \A q \in Reader : FollowsLog(q)'
    BY <2>1 DEF LogInv, FollowsLog, Unshown
  <2> QED  BY <2>1, <2>2 DEF LogInv
<1>5. ASSUME NEW r \in Reader, ReadRows(r)
      PROVE  LogInv'
  BY <1>5, ReadRowsStep
<1>6. CASE UNCHANGED logVars
  BY <1>6 DEF logVars, LogInv, FollowsLog, Unshown
<1> QED  BY <1>1, <1>2, <1>3, <1>4, <1>5, <1>6 DEF LogNext

LEMMA LogStart == LogInit => LogInv
<1> SUFFICES ASSUME LogInit
             PROVE  LogInv
  OBVIOUS
<1>1. ASSUME NEW r \in Reader
      PROVE  FollowsLog(r)
  BY DEF LogInit, FollowsLog, Unshown
<1>2. /\ emitted \in Nat /\ buildOver \in BOOLEAN
      /\ shown \in [Reader -> Seq(Line)] /\ passed \in [Reader -> SUBSET Line]
  <2>1. <<>> \in Seq(Line) /\ {} \in SUBSET Line /\ 0 \in Nat
    OBVIOUS
  <2> QED  BY <2>1 DEF LogInit
<1>3. reader \in [Reader -> ReaderStates]
  BY BuildLogAssumption DEF LogInit, ReaderStates
<1> QED  BY <1>1, <1>2, <1>3 DEF LogInit, LogInv

(* A reader shows the log in order and without repeats, and every line it  *)
(* leaves out is one it did not ask for, one that landed behind its cursor *)
(* or after it stopped, or one after a full page that was called complete  *)
(* (GET build-log and LiveBuildLog.tsx).                                   *)
THEOREM LogsAreFollowed == LogSpec => []LogIsFollowed
<1>1. LogInv => LogIsFollowed
  <2>1. LogInv => \A r \in Reader : DOMAIN shown[r] = 1..Len(shown[r])
    BY DEF LogInv
  <2> QED  BY <2>1 DEF LogInv, FollowsLog, Unshown, LogIsFollowed
<1> QED  BY <1>1, LogStart, LogStep, PTL DEF LogSpec
----------------------------------------------------------------------------
(* VEX statements.                                                         *)

LEMMA MinOfTwo ==
    ASSUME NEW a \in Int, NEW b \in Int
    PROVE  Min({a, b}) = IF a <= b THEN a ELSE b
<1>1. \E x \in {a, b} : \A y \in {a, b} : x <= y
  OBVIOUS
<1> DEFINE m == Min({a, b})
<1>2. m \in {a, b} /\ \A y \in {a, b} : m <= y
  BY <1>1 DEF Min
<1> QED  BY <1>2

Stated == {c \in Cve : Suppressed(c, Severity \ {"unstated"})}

\* One turn of the loop of evaluateAndPersist, and the loop.
TakeOne(c, left) ==
    LET b == Bucket(vex[c].severity) IN
    IF left[b] > 0 THEN [left EXCEPT ![b] = @ - 1] ELSE left

ChosenOf(s) == CHOOSE x \in s : TRUE

Walk(counts) ==
    CHOOSE walk : walk = [s \in SUBSET Stated |-> IF s = {} THEN counts
                                                  ELSE TakeOne(ChosenOf(s), walk[s \ {ChosenOf(s)}])]

LEMMA StatedAreWalked ==
    ASSUME NEW counts
    PROVE  TakeStated(counts) = Walk(counts)[Stated]
BY DEF TakeStated, FoldSet, MapThenFoldSet, Walk, ChosenOf, TakeOne, Stated

Severities == {"critical", "high", "medium", "low"}
InBucket(s, b) == {c \in s : Bucket(vex[c].severity) = b}
Less(most, n) == IF most > n THEN most - n ELSE 0

\* What is left when the statements of s have been taken, in any order.
LeftBy(s) == [b \in Severities |-> Less(cves[b], Cardinality(InBucket(s, b)))]

LEMMA StatedAreFinite ==
    ASSUME VexTypeOK
    PROVE  /\ \A s \in SUBSET Stated : IsFiniteSet(s) /\ Cardinality(s) \in Nat
           /\ \A s \in SUBSET Stated, b \in Severities :
                 IsFiniteSet(InBucket(s, b)) /\ Cardinality(InBucket(s, b)) \in Nat
           /\ \A c \in Stated : Bucket(vex[c].severity) \in Severities
           /\ \A b \in Severities : cves[b] \in Nat
           /\ DOMAIN cves = Severities
<1>1. \A s \in SUBSET Stated : IsFiniteSet(s) /\ Cardinality(s) \in Nat
  <2>1. IsFiniteSet(Stated)
    BY VexCountsAssumption, FS_Subset DEF Stated
  <2> QED  BY <2>1, FS_Subset, FS_CardinalityType
<1>2. \A s \in SUBSET Stated, b \in Severities :
         IsFiniteSet(InBucket(s, b)) /\ Cardinality(InBucket(s, b)) \in Nat
  BY <1>1, FS_Subset, FS_CardinalityType DEF InBucket
<1>3. \A c \in Stated : Bucket(vex[c].severity) \in Severities
  BY DEF Stated, Suppressed, Bucket, Severities, Severity
<1>4. (\A b \in Severities : cves[b] \in Nat) /\ DOMAIN cves = Severities
  BY VexCountsAssumption DEF VexTypeOK, Scan, Severities
<1> QED  BY <1>1, <1>2, <1>3, <1>4

LEMMA OneTurn ==
    ASSUME VexTypeOK, NEW s \in SUBSET Stated, NEW c \in s
    PROVE  TakeOne(c, LeftBy(s \ {c})) = LeftBy(s)
<1> DEFINE rest == s \ {c}
           d == Bucket(vex[c].severity)
<1>1. rest \in SUBSET Stated /\ c \in Stated /\ d \in Severities
  BY StatedAreFinite
<1>2. ASSUME NEW b \in Severities
      PROVE  Cardinality(InBucket(s, b)) = Cardinality(InBucket(rest, b)) + (IF b = d THEN 1 ELSE 0)
  <2>1. IsFiniteSet(InBucket(rest, b)) /\ Cardinality(InBucket(rest, b)) \in Nat
    BY <1>1, StatedAreFinite
  <2>2. CASE b = d
    <3>1. InBucket(s, b) = InBucket(rest, b) \cup {c} /\ c \notin InBucket(rest, b)
      BY <2>2 DEF InBucket
    <3> QED  BY <2>1, <2>2, <3>1, FS_AddElement
  <2>3. CASE b # d
    <3>1. InBucket(s, b) = InBucket(rest, b)
      BY <2>3 DEF InBucket
    <3> QED  BY <2>1, <2>3, <3>1
  <2> QED  BY <2>2, <2>3
<1> DEFINE n(b) == Cardinality(InBucket(rest, b))
<1>3. \A b \in Severities : n(b) \in Nat /\ cves[b] \in Nat
  BY <1>1, StatedAreFinite
<1> HIDE DEF n, d
<1>4. LeftBy(rest) = [b \in Severities |-> Less(cves[b], n(b))]
  BY DEF LeftBy, n
<1>5. LeftBy(s) = [b \in Severities |-> Less(cves[b], n(b) + (IF b = d THEN 1 ELSE 0))]
  BY <1>2 DEF LeftBy, n
<1>6. TakeOne(c, LeftBy(rest)) = IF LeftBy(rest)[d] > 0
                                 THEN [LeftBy(rest) EXCEPT ![d] = @ - 1] ELSE LeftBy(rest)
  BY DEF TakeOne, d
<1>7. ASSUME NEW b \in Severities
      PROVE  TakeOne(c, LeftBy(rest))[b] = Less(cves[b], n(b) + (IF b = d THEN 1 ELSE 0))
  <2>1. /\ LeftBy(rest)[d] = Less(cves[d], n(d)) /\ LeftBy(rest)[b] = Less(cves[b], n(b))
        /\ n(b) \in Nat /\ n(d) \in Nat /\ cves[b] \in Nat /\ cves[d] \in Nat
        /\ DOMAIN LeftBy(rest) = Severities
    BY <1>1, <1>3, <1>4
  <2>2. TakeOne(c, LeftBy(rest))[b] = IF b = d /\ LeftBy(rest)[d] > 0
                                      THEN LeftBy(rest)[b] - 1 ELSE LeftBy(rest)[b]
    BY <1>1, <1>6, <2>1
  <2>3. CASE b = d
    BY <2>1, <2>2, <2>3 DEF Less
  <2>4. CASE b # d
    BY <2>1, <2>2, <2>4 DEF Less
  <2> QED  BY <2>3, <2>4
<1>8. TakeOne(c, LeftBy(rest)) = [b \in Severities |-> TakeOne(c, LeftBy(rest))[b]]
  BY <1>4, <1>6
<1> QED  BY <1>5, <1>7, <1>8

LEMMA WalkEndsInLeft ==
    ASSUME VexTypeOK
    PROVE  Walk(cves)[Stated] = LeftBy(Stated)
<1> DEFINE walk == Walk(cves)
           Turn(f) == [s \in SUBSET Stated |-> IF s = {} THEN cves
                                               ELSE TakeOne(ChosenOf(s), f[s \ {ChosenOf(s)}])]
<1>1. LeftBy({}) = cves
  <2>1. \A b \in Severities : InBucket({}, b) = {}
    BY DEF InBucket
  <2>2. \A b \in Severities : Less(cves[b], Cardinality(InBucket({}, b))) = cves[b]
    BY <2>1, StatedAreFinite, FS_EmptySet DEF Less
  <2>3. cves = [b \in Severities |-> cves[b]]
    BY DEF VexTypeOK, Scan, Severities
  <2> QED  BY <2>2, <2>3 DEF LeftBy
<1>2. \A s \in SUBSET Stated : s # {} => TakeOne(ChosenOf(s), LeftBy(s \ {ChosenOf(s)})) = LeftBy(s)
  BY OneTurn DEF ChosenOf
<1>3. walk = Turn(walk)
  <2> DEFINE closed == [s \in SUBSET Stated |-> LeftBy(s)]
  <2>1. closed = Turn(closed)
    BY <1>1, <1>2
  <2> QED  BY <2>1 DEF Walk
<1> DEFINE Wrong == {n \in Nat : \E s \in SUBSET Stated : Cardinality(s) = n /\ walk[s] # LeftBy(s)}
<1>4. Wrong = {}
  <2> SUFFICES ASSUME Wrong # {}
               PROVE  FALSE
    OBVIOUS
  <2>1. PICK n \in Wrong : \A m \in Wrong : n <= m
    BY LeastNatural
  <2>2. PICK s \in SUBSET Stated : Cardinality(s) = n /\ walk[s] # LeftBy(s)
    BY <2>1
  <2> HIDE DEF walk
  <2>3. s # {}
    BY <1>1, <1>3, <2>2
  <2> DEFINE c == ChosenOf(s)
  <2>4. c \in s
    BY <2>3 DEF ChosenOf
  <2>5. walk[s] = TakeOne(c, walk[s \ {c}])
    BY <1>3, <2>3
  <2> HIDE DEF c
  <2>6. s \ {c} \in SUBSET Stated /\ Cardinality(s \ {c}) = n - 1 /\ n - 1 \in Nat
    <3>1. IsFiniteSet(s)
      BY StatedAreFinite
    <3>2. Cardinality(s \ {c}) = n - 1 /\ Cardinality(s \ {c}) \in Nat
      BY <2>2, <2>4, <3>1, FS_RemoveElement, StatedAreFinite
    <3> QED  BY <3>2
  <2>7. walk[s \ {c}] = LeftBy(s \ {c})
    BY <2>1, <2>6
  <2> QED  BY <2>2, <2>4, <2>5, <2>7, OneTurn
<1>5. Cardinality(Stated) \in Nat
  BY StatedAreFinite
<1> HIDE DEF walk
<1>6. walk[Stated] = LeftBy(Stated)
  BY <1>4, <1>5
<1> QED  BY <1>6 DEF walk

(* What the statements without a severity take off two counts.             *)
LEMMA UnstatedTaken ==
    ASSUME NEW counts, DOMAIN counts = Severities,
           counts["critical"] \in Nat, counts["high"] \in Nat, NEW found \in SUBSET Cve
    PROVE  LET n == Cardinality({c \in found : Suppressed(c, {"unstated"})})
               m == Less(n, counts["critical"])
           IN  /\ TakeUnstated(counts, found)["critical"] = Less(counts["critical"], n)
               /\ TakeUnstated(counts, found)["high"] = Less(counts["high"], m)
               /\ n \in Nat /\ m \in Nat
<1> DEFINE n == Cardinality({c \in found : Suppressed(c, {"unstated"})})
           fromCritical == Min({counts.critical, n})
           fromHigh == Min({counts.high, n - fromCritical})
<1>1. n \in Nat
  <2>1. IsFiniteSet({c \in found : Suppressed(c, {"unstated"})})
    BY VexCountsAssumption, FS_Subset
  <2> QED  BY <2>1, FS_CardinalityType
<1>2. TakeUnstated(counts, found) = [counts EXCEPT !.critical = @ - fromCritical, !.high = @ - fromHigh]
  BY DEF TakeUnstated
<1> HIDE DEF n
<1>3. fromCritical = IF counts["critical"] <= n THEN counts["critical"] ELSE n
  BY <1>1, MinOfTwo
<1>4. n - fromCritical \in Int
  BY <1>1, <1>3
<1>5. fromHigh = IF counts["high"] <= n - fromCritical THEN counts["high"] ELSE n - fromCritical
  BY <1>4, MinOfTwo
<1> HIDE DEF fromCritical, fromHigh
<1>6. /\ TakeUnstated(counts, found)["critical"] = counts["critical"] - fromCritical
      /\ TakeUnstated(counts, found)["high"] = counts["high"] - fromHigh
  BY <1>2 DEF Severities
<1>7. /\ TakeUnstated(counts, found)["critical"] = Less(counts["critical"], n)
      /\ TakeUnstated(counts, found)["high"] = Less(counts["high"], Less(n, counts["critical"]))
      /\ Less(n, counts["critical"]) \in Nat
  BY <1>1, <1>3, <1>4, <1>5, <1>6 DEF Less
<1> QED  BY <1>1, <1>7 DEF n

(* With no statement found, nothing is taken off.                          *)
LEMMA RawCounts ==
    ASSUME VexTypeOK
    PROVE  GateCounts({})["critical"] = cves["critical"] /\ GateCounts({})["high"] = cves["high"]
<1> DEFINE none(b) == {c \in {} : /\ Suppressed(c, Severity \ {"unstated"})
                                  /\ Bucket(vex[c].severity) = b}
           raw == [cves EXCEPT !.critical = Max({0, @ - Cardinality(none("critical"))}),
                               !.high = Max({0, @ - Cardinality(none("high"))})]
<1>1. /\ cves["critical"] \in Nat /\ cves["high"] \in Nat
      /\ DOMAIN cves = Severities /\ {"critical", "high"} \subseteq Severities
  BY StatedAreFinite DEF Severities
<1>2. Cardinality(none("critical")) = 0 /\ Cardinality(none("high")) = 0
  <2>1. none("critical") = {} /\ none("high") = {}
    OBVIOUS
  <2> QED  BY <2>1, FS_EmptySet
<1> HIDE DEF none
<1>3. /\ Max({0, cves["critical"] - Cardinality(none("critical"))}) = cves["critical"]
      /\ Max({0, cves["high"] - Cardinality(none("high"))}) = cves["high"]
  BY <1>1, <1>2, MaxOfTwo
<1>4. DOMAIN raw = Severities /\ raw["critical"] = cves["critical"] /\ raw["high"] = cves["high"]
  BY <1>1, <1>3
<1>5. GateCounts({}) = TakeUnstated(raw, {})
  BY DEF GateCounts, none
<1> DEFINE n == Cardinality({c \in {} : Suppressed(c, {"unstated"})})
<1>6. n = 0
  <2>1. {c \in {} : Suppressed(c, {"unstated"})} = {}
    OBVIOUS
  <2> QED  BY <2>1, FS_EmptySet
<1> HIDE DEF raw
<1>7. /\ TakeUnstated(raw, {})["critical"] = Less(raw["critical"], n)
      /\ TakeUnstated(raw, {})["high"] = Less(raw["high"], Less(n, raw["critical"]))
  BY <1>1, <1>4, UnstatedTaken
<1> QED  BY <1>1, <1>4, <1>5, <1>6, <1>7 DEF Less

LEMMA CountsFollow == VexTypeOK => CountsAgree
<1> SUFFICES ASSUME VexTypeOK
             PROVE  CountsAgree
  OBVIOUS
<1> DEFINE total(b) == Cardinality({c \in Cve : /\ Suppressed(c, Severity \ {"unstated"})
                                                /\ Bucket(vex[c].severity) = b})
           summed == [cves EXCEPT !.critical = Max({0, @ - total("critical")}),
                                  !.high = Max({0, @ - total("high")})]
<1>1. \A b \in Severities : /\ total(b) = Cardinality(InBucket(Stated, b))
                          /\ total(b) \in Nat /\ cves[b] \in Nat
  <2>1. \A b \in Severities : {c \in Cve : /\ Suppressed(c, Severity \ {"unstated"})
                                         /\ Bucket(vex[c].severity) = b} = InBucket(Stated, b)
    BY DEF InBucket, Stated
  <2> QED  BY <2>1, StatedAreFinite
<1>2. GateCounts(Cve) = TakeUnstated(summed, Cve)
  BY DEF GateCounts
<1>3. StoredCounts = TakeUnstated(LeftBy(Stated), Cve)
  BY StatedAreWalked, WalkEndsInLeft DEF StoredCounts
<1> HIDE DEF total
<1>4. \A b \in Severities : Max({0, cves[b] - total(b)}) = Less(cves[b], total(b))
  <2> SUFFICES ASSUME NEW b \in Severities
               PROVE  Max({0, cves[b] - total(b)}) = Less(cves[b], total(b))
    OBVIOUS
  <2>1. cves[b] - total(b) \in Int
    BY <1>1
  <2> QED  BY <1>1, <2>1, MaxOfTwo DEF Less
<1>5. DOMAIN summed = Severities /\ DOMAIN LeftBy(Stated) = Severities
  BY StatedAreFinite DEF LeftBy
<1>6. \A b \in {"critical", "high"} : /\ summed[b] = Less(cves[b], total(b))
                                      /\ LeftBy(Stated)[b] = Less(cves[b], total(b))
                                      /\ b \in Severities
  BY <1>1, <1>4, StatedAreFinite DEF LeftBy, Severities
<1>7. \A b \in {"critical", "high"} : Less(cves[b], total(b)) \in 0..cves[b]
  BY <1>1, <1>6 DEF Less
<1> HIDE DEF summed
<1>8. /\ StoredCounts["critical"] = GateCounts(Cve)["critical"]
      /\ StoredCounts["critical"] \in 0..cves["critical"]
      /\ StoredCounts["high"] = GateCounts(Cve)["high"]
      /\ StoredCounts["high"] \in 0..cves["high"]
  <2> DEFINE n == Cardinality({c \in Cve : Suppressed(c, {"unstated"})})
             Rest(x, k) == Less(Less(cves[x], total(x)), k)
             m == Less(n, Less(cves["critical"], total("critical")))
  <2>1. \A b \in {"critical", "high"} : summed[b] \in Nat /\ LeftBy(Stated)[b] \in Nat /\ cves[b] \in Nat
    BY <1>1, <1>6, <1>7
  <2>2. /\ StoredCounts["critical"] = Rest("critical", n) /\ StoredCounts["high"] = Rest("high", m)
        /\ n \in Nat /\ m \in Nat
    BY <1>3, <1>5, <1>6, <2>1, UnstatedTaken
  <2>3. GateCounts(Cve)["critical"] = Rest("critical", n)
        /\ GateCounts(Cve)["high"] = Rest("high", m)
    BY <1>2, <1>5, <1>6, <2>1, UnstatedTaken
  <2> HIDE DEF n, m
  <2>4. Rest("critical", n) \in 0..cves["critical"] /\ Rest("high", m) \in 0..cves["high"]
    BY <1>7, <2>1, <2>2 DEF Less
  <2> QED  BY <2>2, <2>3, <2>4
<1> QED  BY <1>8, RawCounts DEF CountsAgree

LEMMA VexStart == VexInit => VexTypeOK
BY DEF VexInit, VexTypeOK

LEMMA VexStep == VexTypeOK /\ [VexNext]_vexVars => VexTypeOK'
BY DEF VexTypeOK, VexNext, Annotate, Withdraw, vexVars

(* The counts that evaluateAndPersist stores a verdict by, taking one      *)
(* statement after the other in any order, are those the gate works out in *)
(* one sum when it finds the statements, and never more than the gate's    *)
(* when it does not, for any number of statements and any counts.          *)
THEOREM BothCountsAgree == VexSpec => []CountsAgree
BY VexStart, VexStep, CountsFollow, PTL DEF VexSpec

===============================================================================
