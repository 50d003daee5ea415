--------------------------- MODULE SubmissionIntake --------------------------
(***************************************************************************)
(* POST /api/v1/submissions and the plan's quota.  A request checks the    *)
(* slug, the queue and the quota, one read after the other, then counts    *)
(* and inserts in a Serializable transaction.  Meanwhile reviewers and     *)
(* workers move rows in and out of what the quota counts, by id and after  *)
(* a read that may be old, and the billing webhook changes plans.  An      *)
(* upload writes its object first and its row in the database second.      *)
(*                                                                         *)
(* A request makes at most one row, so rows are named by their requests,   *)
(* and "approved" stands for building too.  Authentication, rate limit and *)
(* schema validation precede all of this and keep nothing.                 *)
(***************************************************************************)
EXTENDS Integers, FiniteSets

CONSTANTS Member,               \* users, who may stage uploads
          Publisher,            \* the members who post
          Post,                 \* requests, and the rows they make
          Name,                 \* slugs
          Upload,               \* submission ids minted by an upload
          Digest,
          Nothing,              \* no upload, no publisher, no post
          FreePublicLimit, ProPrivateLimit,
          DockerfileSubmissions \* the feature flag

ASSUME IntakeLimitsAssumption == FreePublicLimit \in Nat /\ ProPrivateLimit \in Nat
ASSUME IntakeMembersAssumption == Publisher \subseteq Member /\ Nothing \notin Member \cup Post \cup Upload \cup Digest

VARIABLES planOf,     \* User.plan
          wasPro,     \* history: users that have been on pro
          object,     \* the digest of the object at submissions/i/Dockerfile
          stored,     \* history: the uploads whose object was written under i
          staged,     \* DockerfileUpload: staged[i] = [by, sha]
          form,       \* form[r]: what r submits, and the columns of its row
          at,         \* at[r]: where r is
          local,      \* local[r]: plan read, snapshot beaten, upload row seen
          posted,     \* posted[r]: Submission.status of r's row
          seen,       \* history: the statuses r's row has had, which a desk or a
                      \* worker may have read and may act on still
          shelf,      \* shelf[n]: the row published as Module n
          returned    \* history: rows that left the count and came back

deskVars   == <<posted, seen, shelf, returned>>
uploadVars == <<object, stored, staged>>
intakeVars == <<planOf, wasPro, uploadVars, form, at, local, deskVars>>

Plan == {"free", "pro"}
Visibility == {"public", "private"}
SubmissionStatus == {"pending", "approved", "parked", "closed", "built"}
NoUpload == [by |-> Nothing, sha |-> Nothing]
NoForm == [user |-> Nothing, name |-> Nothing, vis |-> "public", ref |-> Nothing, sha |-> Nothing]
NoLocal == [plan |-> "free", beaten |-> FALSE, vouched |-> FALSE]

Form == [user : Publisher, name : Name, vis : Visibility,
         ref : Upload \cup {Nothing}, sha : Digest \cup {Nothing}] \cup {NoForm}

IntakeTypeOK ==
    /\ planOf \in [Publisher -> Plan]
    /\ wasPro \subseteq Publisher
    /\ object \in [Upload -> Digest \cup {Nothing}]
    /\ stored \in [Upload -> SUBSET [by : Member, sha : Digest]]
    /\ staged \in [Upload -> [by : Member, sha : Digest] \cup {NoUpload}]
    /\ form \in [Post -> Form]
    /\ at \in [Post -> {"start", "queue", "plan", "usage", "upload", "count", "insert",
                        "over", "received"}]
    /\ local \in [Post -> [plan : Plan, beaten : BOOLEAN, vouched : BOOLEAN]]
    /\ posted \in [Post -> {"none"} \cup SubmissionStatus]
    /\ seen \in [Post -> SUBSET SubmissionStatus]
    /\ shelf \in [Name -> Post \cup {Nothing}]
    /\ returned \subseteq Post

IntakeInit ==
    /\ planOf \in [Publisher -> Plan]
    /\ wasPro = {u \in Publisher : planOf[u] = "pro"}
    /\ object = [i \in Upload |-> Nothing]
    /\ stored = [i \in Upload |-> {}]
    /\ staged = [i \in Upload |-> NoUpload]
    /\ form = [r \in Post |-> NoForm]
    /\ at = [r \in Post |-> "start"]
    /\ local = [r \in Post |-> NoLocal]
    /\ posted = [r \in Post |-> "none"]
    /\ seen = [r \in Post |-> {}]
    /\ shelf = [n \in Name |-> Nothing]
    /\ returned = {}

----------------------------------------------------------------------------
(* The quota (quota.ts, plans.ts).                                         *)

Unlimited(plan, v) == plan = "pro" /\ v = "public"

PlanLimit(plan, v) ==
    IF v = "public" THEN FreePublicLimit ELSE IF plan = "pro" THEN ProPrivateLimit ELSE 0

InFlight(r) == posted[r] \in {"pending", "approved"}
OnShelf(r)  == \E n \in Name : shelf[n] = r

RowsOf(u, v)    == {r \in Post : form[r].user = u /\ form[r].vis = v}
Waiting(u, v)   == {r \in RowsOf(u, v) : InFlight(r)}
Published(u, v) == {r \in RowsOf(u, v) : OnShelf(r)}
Counted(u, v)   == Waiting(u, v) \cup Published(u, v)

\* Two counts are added: a module whose row is back in flight counts twice.
Full(plan, u, v) ==
    /\ ~Unlimited(plan, v)
    /\ Cardinality(Published(u, v)) + Cardinality(Waiting(u, v)) >= PlanLimit(plan, v)

----------------------------------------------------------------------------
(* The request.                                                            *)

Goes(r, step) ==
    /\ at' = [at EXCEPT ![r] = step]
    /\ UNCHANGED <<form, local>>

\* 200, 402, 403, 409 or 500 without a row: nothing of the request remains.
Ends(r) ==
    /\ at' = [at EXCEPT ![r] = "over"]
    /\ form' = [form EXCEPT ![r] = NoForm]
    /\ local' = [local EXCEPT ![r] = NoLocal]

Elsewhere == UNCHANGED <<planOf, wasPro, uploadVars, shelf, returned>>
NoRow     == UNCHANGED <<posted, seen>>

\* The form arrives; module.findUnique: 409 when the slug is taken.
Arrive(r, f) ==
    /\ DockerfileSubmissions
    /\ at[r] = "start"
    /\ (f.ref = Nothing) <=> (f.sha = Nothing)
    /\ IF shelf[f.name] # Nothing
       THEN Ends(r)
       ELSE /\ at' = [at EXCEPT ![r] = "queue"]
            /\ form' = [form EXCEPT ![r] = f]
            /\ UNCHANGED local
    /\ Elsewhere /\ NoRow

\* submission.findFirst: anyone's pending row for the slug ends the request.
CheckQueue(r) ==
    /\ at[r] = "queue"
    /\ IF \E s \in Post : posted[s] = "pending" /\ form[s].name = form[r].name
       THEN Ends(r)
       ELSE Goes(r, "plan")
    /\ Elsewhere /\ NoRow

\* canSubmit reads the plan it returns, and then once more for the usage.
ReadPlan(r) ==
    /\ at[r] = "plan"
    /\ at' = [at EXCEPT ![r] = "usage"]
    /\ local' = [local EXCEPT ![r].plan = planOf[form[r].user]]
    /\ Elsewhere /\ NoRow /\ UNCHANGED form

ReadUsage(r) ==
    LET u == form[r].user IN
    /\ at[r] = "usage"
    /\ IF Full(planOf[u], u, form[r].vis)
       THEN Ends(r)
       ELSE Goes(r, IF form[r].ref = Nothing THEN "count" ELSE "upload")
    /\ Elsewhere /\ NoRow

\* Mutant: the digest of the upload is not compared.
CheckUploader(r) ==
    LET up == staged[form[r].ref] IN
    /\ at[r] = "upload"
    /\ IF up # NoUpload /\ up.by # form[r].user
       THEN Ends(r)
       ELSE /\ at' = [at EXCEPT ![r] = "count"]
            /\ local' = [local EXCEPT ![r].vouched = up # NoUpload]
            /\ UNCHANGED form
    /\ Elsewhere /\ NoRow

\* dockerfileUpload.findUnique.  No row is taken for an old upload and let pass.
CheckUpload(r) ==
    LET up == staged[form[r].ref] IN
    /\ at[r] = "upload"
    /\ IF up # NoUpload /\ (up.by # form[r].user \/ up.sha # form[r].sha)
       THEN Ends(r)
       ELSE /\ at' = [at EXCEPT ![r] = "count"]
            /\ local' = [local EXCEPT ![r].vouched = up # NoUpload]
            /\ UNCHANGED form
    /\ Elsewhere /\ NoRow

\* The transaction's snapshot: the count, against the plan read before it.
Count(r) ==
    /\ at[r] = "count"
    /\ IF Full(local[r].plan, form[r].user, form[r].vis)
       THEN Ends(r)
       ELSE Goes(r, "insert")
    /\ Elsewhere /\ NoRow

\* Two transactions that counted the rows the other one adds to.
Conflict(q, r) ==
    /\ q # r
    /\ form[q].user = form[r].user /\ form[q].vis = form[r].vis
    /\ \A x \in {q, r} : ~Unlimited(local[x].plan, form[x].vis)

IdTaken(r) ==
    form[r].ref # Nothing /\ \E s \in Post : posted[s] # "none" /\ form[s].ref = form[r].ref

\* submission.create.
Posts(r) ==
    /\ posted' = [posted EXCEPT ![r] = "pending"]
    /\ seen' = [seen EXCEPT ![r] = @ \cup {"pending"}]

\* Mutant: the transaction runs at Read Committed.
InsertUnserialized(r) ==
    /\ at[r] = "insert"
    /\ ~IdTaken(r)
    /\ Posts(r)
    /\ Goes(r, "received")
    /\ Elsewhere

\* submission.create and the commit: the first of two that conflict wins.
Insert(r) ==
    /\ at[r] = "insert"
    /\ ~local[r].beaten
    /\ ~IdTaken(r)
    /\ Posts(r)
    /\ at' = [at EXCEPT ![r] = "received"]
    /\ local' = [q \in Post |->
                    IF at[q] = "insert" /\ Conflict(q, r)
                    THEN [local[q] EXCEPT !.beaten = TRUE] ELSE local[q]]
    /\ Elsewhere /\ UNCHANGED form

\* A serialization failure, a duplicate id or any other error: 500, no retry.
TransactionFails(r) ==
    /\ at[r] = "insert"
    /\ Ends(r)
    /\ Elsewhere /\ NoRow

Request(r) ==
    \/ \E f \in Form \ {NoForm} : Arrive(r, f)
    \/ CheckQueue(r) \/ ReadPlan(r) \/ ReadUsage(r) \/ CheckUpload(r)
    \/ Count(r) \/ Insert(r) \/ TransactionFails(r)

----------------------------------------------------------------------------
(* What goes on meanwhile.                                                 *)

NoRequest == UNCHANGED <<form, at, local>>

\* dockerfile-upload: the object is written, whoever else used the id before.
PutObject(u, i, d) ==
    /\ DockerfileSubmissions
    /\ object' = [object EXCEPT ![i] = d]
    /\ stored' = [stored EXCEPT ![i] = @ \cup {[by |-> u, sha |-> d]}]
    /\ NoRequest /\ UNCHANGED <<planOf, wasPro, staged, deskVars>>

\* Its upsert, any time later or never: an id keeps its first user and takes
\* the digest of each upload that is recorded under it.
RecordUpload(i, up) ==
    /\ up \in stored[i]
    /\ staged' = [staged EXCEPT ![i] =
                     [by |-> IF staged[i] = NoUpload THEN up.by ELSE staged[i].by, sha |-> up.sha]]
    /\ NoRequest /\ UNCHANGED <<planOf, wasPro, object, stored, deskVars>>

\* upgradeUserPlan and downgradeUserPlan.
ChangePlan(u, p) ==
    /\ planOf[u] # p
    /\ planOf' = [planOf EXCEPT ![u] = p]
    /\ wasPro' = IF p = "pro" THEN wasPro \cup {u} ELSE wasPro
    /\ NoRequest /\ UNCHANGED <<uploadVars, deskVars>>

\* A desk's four decisions, by the status it read, and the writes of a worker,
\* by the row it claimed.  "parked" rows (changes requested, failed on the
\* system's account) may be approved or retried, with no look at the quota.
Moves ==
    {<<"pending", "approved">>, <<"parked", "approved">>,     \* approve, retryBuild
     <<"pending", "parked">>,                                 \* requestChanges
     <<"pending", "closed">>, <<"approved", "closed">>,       \* reject, or a build
     <<"parked", "closed">>,  <<"closed", "closed">>,         \* that failed
     <<"approved", "approved">>, <<"approved", "parked">>,    \* requeue, dead letter
     <<"approved", "built">>}                                 \* markBuilt

\* The update goes by id alone: what was read or claimed need not hold still.
Decide(r, from, to) ==
    /\ from \in seen[r] /\ <<from, to>> \in Moves
    /\ posted' = [posted EXCEPT ![r] = to]
    /\ seen' = [seen EXCEPT ![r] = @ \cup {to}]
    /\ returned' = IF to = "approved" /\ ~InFlight(r) /\ ~OnShelf(r)
                   THEN returned \cup {r} ELSE returned
    /\ NoRequest /\ UNCHANGED <<planOf, wasPro, uploadVars, shelf>>

\* publishModuleFromSubmission, by a worker that has passed markBuilt: until
\* then its row was neither in flight nor a module.
PublishRow(r) ==
    /\ "built" \in seen[r] /\ shelf[form[r].name] = Nothing
    /\ shelf' = [shelf EXCEPT ![form[r].name] = r]
    /\ returned' = returned \cup {r}
    /\ NoRequest /\ NoRow /\ UNCHANGED <<planOf, wasPro, uploadVars>>

IntakeNext ==
    \/ \E r \in Post : Request(r)
    \/ \E u \in Member, i \in Upload, d \in Digest : PutObject(u, i, d)
    \/ \E i \in Upload : \E up \in stored[i] : RecordUpload(i, up)
    \/ \E u \in Publisher, p \in Plan : ChangePlan(u, p)
    \/ \E r \in Post, from, to \in SubmissionStatus : Decide(r, from, to)
    \/ \E r \in Post : PublishRow(r)

IntakeSpec == IntakeInit /\ [][IntakeNext]_intakeVars

----------------------------------------------------------------------------
(* The plan's limit holds for every user and visibility, counting the rows *)
(* that have been counted ever since they were admitted: whatever requests *)
(* overlap, only rows that came back (a late or stale approval, a retry, a *)
(* requeue of a rejected row, a publication that follows markBuilt) can be *)
(* in excess.  The limit is that of the best plan the user has had, for a  *)
(* request goes by the plan it read before its transaction.                *)
QuotaHolds ==
    \A u \in Publisher, v \in Visibility :
        LET best == IF u \in wasPro THEN "pro" ELSE "free" IN
        Unlimited(best, v) \/ Cardinality(Counted(u, v) \ returned) <= PlanLimit(best, v)

(* A row that intake vouched for is its submitter's: its user did upload   *)
(* under its id, its digest is that of a file that was uploaded there, and *)
(* the object is that file unless two different files were uploaded under  *)
(* the id, in whatever order objects and upload rows were written.         *)
FileIsSubmitters ==
    \A r \in Post : posted[r] # "none" /\ local[r].vouched =>
        LET files == {up.sha : up \in stored[form[r].ref]} IN
        /\ \E up \in stored[form[r].ref] : up.by = form[r].user
        /\ form[r].sha \in files
        /\ object[form[r].ref] = form[r].sha \/ \E d \in files : d # form[r].sha

=============================================================================
