\* One part at a time, each on a small instance.
CONSTANTS
    s1 = s1  s2 = s2  s3 = s3  panel = panel  tail = tail  free = free  pro = pro
    index = index  amd64 = amd64  none = none
    \* intake
    Member = {u1}
    Publisher = {u1}
    Post = {r1, r2}
    Name = {n1, n2}
    Upload = {}
    Digest = {d1}
    Nothing = none
    FreePublicLimit = 1
    ProPrivateLimit = 1
    DockerfileSubmissions = TRUE
    \* policy and VEX
    Cve = {c1, c2}
    MostCounted = 1
    Admin = {s1, s2, s3}
    Evaluation = {e1, e2}
    DraftOf <- Drafts
    DefaultPolicy <- Base
    Input <- Inputs
    NoVerdict = none
    \* reviews and reports
    Edit = {e1, e2}
    Report = {p1, p2, p3}
    Triage = {t1, t2}
    \* build log
    Reader = {panel, tail}
    FirstAfter <- Starts
    LastLine = 4
    PageLimit = 2
    \* previews
    Launch = {l1, l2}
    \* rate limits
    Tier = {free, pro}
    LimitOf <- Limits
    WindowSeconds = 2
    PerSecond = 2
    LastTick = 9
    \* command line
    Image = {1, 2}
    \* publish page
    Attempt = {a1, a2, a3}
    NoFile = none
    \* verification
    Query = {q1, q2}
    Manifest = {index, amd64}
    Tag = latest
    PlatformOf <- Platform
    NoManifest = none
    NoQuery = none
    \* accounts
    Key = {k1, k2, k3}
SPECIFICATION SiteSpec
INVARIANTS
    SiteTypeOK QuotaHolds CountsAgree SavesAnswerTrue VerdictIsCurrent
    HideStands OneUnsettled TriageIsSigned LogIsFollowed HostsAreKnown
    WindowHolds RetryAfterSuffices RunsWhatWasVerified LeavesNothing UpdateAnswersTrue
    UnsignedIsUnsigned ShowsItsTarget DeletionIsWhole
PROPERTY PublishesTheChoice
\* Requests, uploads and ticks run out, and a part may come to rest.
CHECK_DEADLOCK FALSE
