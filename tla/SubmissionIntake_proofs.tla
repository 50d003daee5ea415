------------------------ MODULE SubmissionIntake_proofs -----------------------
(***************************************************************************)
(* What holds of submission intake for any number of requests, users and   *)
(* uploads, and any limits.                                                *)
(***************************************************************************)
EXTENDS SubmissionIntake, FiniteSetTheorems, TLAPS

RequestSteps ==
    {"start", "queue", "plan", "usage", "upload", "count", "insert", "over", "received"}

(* What is on record of an upload was uploaded, by whom it says and with   *)
(* the digest it says, though not always by one and the same upload; and   *)
(* the object is a file that was uploaded.                                 *)
UploadedBy(i, u) == \E up \in stored[i] : up.by = u
UploadedAs(i, d) == \E up \in stored[i] : up.sha = d

RecordInv ==
    /\ object \in [Upload -> Digest \cup {Nothing}]
    /\ stored \in [Upload -> SUBSET [by : Member, sha : Digest]]
    /\ staged \in [Upload -> [by : Member, sha : Digest] \cup {NoUpload}]
    /\ \A i \in Upload : staged[i] # NoUpload
                         => UploadedBy(i, staged[i].by) /\ UploadedAs(i, staged[i].sha)
    /\ \A i \in Upload : stored[i] # {} => UploadedAs(i, object[i])

(* A request that was vouched for rests on uploads, which nothing undoes.  *)
VouchedUpload(r) ==
    /\ form[r].ref \in Upload
    /\ UploadedBy(form[r].ref, form[r].user)
    /\ UploadedAs(form[r].ref, form[r].sha)

UploadInv ==
    /\ form \in [Post -> Form]
    /\ local \in [Post -> [plan : Plan, beaten : BOOLEAN, vouched : BOOLEAN]]
    /\ planOf \in [Publisher -> Plan]
    /\ RecordInv
    /\ at \in [Post -> RequestSteps]
    /\ \A r \in Post : at[r] \in {"queue", "plan", "usage", "upload", "count", "insert"}
                       => form[r] # NoForm
    /\ \A r \in Post : at[r] = "upload" => form[r].ref \in Upload
    /\ \A r \in Post : local[r].vouched => VouchedUpload(r) /\ at[r] # "start"

USE IntakeMembersAssumption

LEMMA RealUpload ==
    \A i \in Upload : RecordInv /\ staged[i] # NoUpload
                      => staged[i] \in [by : Member, sha : Digest]
BY DEF NoUpload, RecordInv

(* Uploads only add to what was uploaded.                                  *)
LEMMA RecordsStand ==
    ASSUME RecordInv, UNCHANGED uploadVars
    PROVE  RecordInv' /\ \A r \in Post : form'[r] = form[r] /\ VouchedUpload(r) => VouchedUpload(r)'
BY DEF RecordInv, uploadVars, VouchedUpload, UploadedBy, UploadedAs

(* A request that ends keeps nothing.                                      *)
LEMMA EndsKeepsInv ==
    ASSUME UploadInv, NEW r \in Post, Ends(r), UNCHANGED <<planOf, uploadVars>>
    PROVE  UploadInv'
<1>1. NoForm \in Form /\ NoLocal \in [plan : Plan, beaten : BOOLEAN, vouched : BOOLEAN]
  BY DEF Form, NoLocal, Plan
<1>2. ~NoLocal.vouched
  BY DEF NoLocal
<1> QED  BY <1>1, <1>2, RecordsStand DEF UploadInv, Ends, RequestSteps

(* One that goes on keeps its form.                                        *)
LEMMA GoesKeepsInv ==
    ASSUME UploadInv, NEW r \in Post, NEW step \in RequestSteps, Goes(r, step),
           step # "start", form[r] # NoForm, step = "upload" => form[r].ref \in Upload,
           UNCHANGED <<planOf, uploadVars>>
    PROVE  UploadInv'
BY RecordsStand DEF UploadInv, Goes, RequestSteps

LEMMA RequestStep ==
    ASSUME UploadInv, NEW r \in Post, Request(r)
    PROVE  UploadInv'
<1>1. UNCHANGED <<planOf, uploadVars>>
  BY DEF Request, Arrive, CheckQueue, ReadPlan, ReadUsage, CheckUpload, Count, Insert,
         TransactionFails, Elsewhere
<1>2. ASSUME NEW f \in Form \ {NoForm}, Arrive(r, f)
      PROVE  UploadInv'
  <2>1. CASE Ends(r)
    BY <1>1, <2>1, EndsKeepsInv
  <2>2. CASE ~Ends(r)
    <3>1. /\ at[r] = "start"
          /\ at' = [at EXCEPT ![r] = "queue"]
          /\ form' = [form EXCEPT ![r] = f]
          /\ UNCHANGED local
      BY <1>2, <2>2 DEF Arrive
    <3>2. ~local[r].vouched
      BY <3>1 DEF UploadInv
    <3> QED  BY <1>1, <3>1, <3>2, RecordsStand DEF UploadInv, RequestSteps
  <2> QED  BY <2>1, <2>2
<1>3. CASE CheckQueue(r)
  <2>1. form[r] # NoForm /\ (Ends(r) \/ Goes(r, "plan"))
    BY <1>3 DEF CheckQueue, UploadInv
  <2> QED  BY <1>1, <2>1, EndsKeepsInv, GoesKeepsInv DEF RequestSteps
<1>4. CASE ReadPlan(r)
  <2>1. form[r] # NoForm /\ form[r].user \in Publisher
    BY <1>4 DEF ReadPlan, UploadInv, Form
  <2>2. planOf[form[r].user] \in Plan
    BY <2>1 DEF UploadInv
  <2> QED  BY <1>1, <1>4, <2>1, <2>2, RecordsStand DEF ReadPlan, UploadInv, RequestSteps
<1>5. CASE ReadUsage(r)
  <2>1. form[r] # NoForm /\ form[r].ref \in Upload \cup {Nothing}
    BY <1>5 DEF ReadUsage, UploadInv, Form
  <2>2. Ends(r) \/ Goes(r, "count") \/ (Goes(r, "upload") /\ form[r].ref \in Upload)
    BY <1>5, <2>1 DEF ReadUsage
  <2> QED  BY <1>1, <2>1, <2>2, EndsKeepsInv, GoesKeepsInv DEF RequestSteps
<1>6. CASE CheckUpload(r)
  <2> DEFINE up == staged[form[r].ref]
  <2>1. CASE Ends(r)
    BY <1>1, <2>1, EndsKeepsInv
  <2>2. CASE ~Ends(r)
    <3>1. /\ at' = [at EXCEPT ![r] = "count"]
          /\ local' = [local EXCEPT ![r].vouched = up # NoUpload]
          /\ UNCHANGED form
          /\ up # NoUpload => up.by = form[r].user /\ up.sha = form[r].sha
      BY <1>6, <2>2 DEF CheckUpload
    <3>2. form[r].ref \in Upload
      BY <1>6 DEF CheckUpload, UploadInv
    <3>3. local' \in [Post -> [plan : Plan, beaten : BOOLEAN, vouched : BOOLEAN]]
      <4> DEFINE found == up # NoUpload
      <4>1. found \in BOOLEAN /\ local' = [local EXCEPT ![r].vouched = found]
        BY <3>1
      <4> HIDE DEF found
      <4> QED  BY <4>1 DEF UploadInv
    <3>4. ASSUME NEW q \in Post, local'[q].vouched
          PROVE  VouchedUpload(q)' /\ at'[q] # "start"
      <4>1. CASE q = r
        <5>1. local'[r].vouched = (up # NoUpload)
          BY <3>1 DEF UploadInv
        <5>2. VouchedUpload(r)
          BY <3>1, <3>2, <3>4, <4>1, <5>1 DEF UploadInv, RecordInv, VouchedUpload
        <5> QED  BY <1>1, <3>1, <4>1, <5>2, RecordsStand DEF UploadInv
      <4>2. CASE q # r
        <5>1. local'[q] = local[q] /\ at'[q] = at[q]
          BY <3>1, <4>2 DEF UploadInv
        <5> QED  BY <1>1, <3>1, <3>4, <5>1, RecordsStand DEF UploadInv
      <4> QED  BY <4>1, <4>2
    <3>5. /\ \A q \in Post : at'[q] \in {"queue", "plan", "usage", "upload", "count", "insert"}
                            => form[q] # NoForm
          /\ \A q \in Post : at'[q] = "upload" => form[q].ref \in Upload
          /\ at' \in [Post -> RequestSteps]
      BY <1>6, <3>1 DEF CheckUpload, UploadInv, RequestSteps
    <3> QED  BY <1>1, <3>1, <3>3, <3>4, <3>5, RecordsStand DEF UploadInv
  <2> QED  BY <2>1, <2>2
<1>7. CASE Count(r)
  <2>1. form[r] # NoForm /\ (Ends(r) \/ Goes(r, "insert"))
    BY <1>7 DEF Count, UploadInv
  <2> QED  BY <1>1, <2>1, EndsKeepsInv, GoesKeepsInv DEF RequestSteps
<1>8. CASE Insert(r)
  <2>1. /\ at' = [at EXCEPT ![r] = "received"]
        /\ local' = [q \in Post |-> IF at[q] = "insert" /\ Conflict(q, r)
                                    THEN [local[q] EXCEPT !.beaten = TRUE] ELSE local[q]]
        /\ UNCHANGED form
    BY <1>8 DEF Insert
  <2>2. \A q \in Post : local'[q].vouched = local[q].vouched
    BY <2>1 DEF UploadInv
  <2>3. local' \in [Post -> [plan : Plan, beaten : BOOLEAN, vouched : BOOLEAN]]
    BY <2>1 DEF UploadInv
  <2> QED  BY <1>1, <2>1, <2>2, <2>3, RecordsStand DEF UploadInv, RequestSteps
<1>9. CASE TransactionFails(r)
  BY <1>1, <1>9, EndsKeepsInv DEF TransactionFails
<1> QED  BY <1>2, <1>3, <1>4, <1>5, <1>6, <1>7, <1>8, <1>9 DEF Request

LEMMA UploadStep == UploadInv /\ [IntakeNext]_intakeVars => UploadInv'
<1> SUFFICES ASSUME UploadInv, [IntakeNext]_intakeVars
             PROVE  UploadInv'
  OBVIOUS
<1>1. ASSUME NEW r \in Post, Request(r)
      PROVE  UploadInv'
  BY <1>1, RequestStep
<1>2. ASSUME NEW u \in Member, NEW i \in Upload, NEW d \in Digest, PutObject(u, i, d)
      PROVE  UploadInv'
  <2> DEFINE up == [by |-> u, sha |-> d]
  <2>1. /\ object' = [object EXCEPT ![i] = d]
        /\ stored' = [stored EXCEPT ![i] = stored[i] \cup {up}]
        /\ UNCHANGED <<planOf, form, at, local, staged>>
    BY <1>2 DEF PutObject, NoRequest
  <2>2. up \in [by : Member, sha : Digest] /\ up.sha = d
    OBVIOUS
  <2> HIDE DEF up
  <2>3. stored' \in [Upload -> SUBSET [by : Member, sha : Digest]]
        /\ object' \in [Upload -> Digest \cup {Nothing}]
    BY <2>1, <2>2 DEF UploadInv, RecordInv
  <2>4. \A j \in Upload : stored[j] \subseteq stored'[j]
    BY <2>1 DEF UploadInv, RecordInv
  <2>5. \A j \in Upload : stored'[j] # {} => UploadedAs(j, object[j])'
    BY <2>1, <2>2 DEF UploadInv, RecordInv, UploadedAs
  <2>6. \A j \in Upload : staged'[j] # NoUpload
                        => (UploadedBy(j, staged[j].by) /\ UploadedAs(j, staged[j].sha))'
    BY <2>1, <2>4 DEF UploadInv, RecordInv, UploadedBy, UploadedAs
  <2>8. RecordInv'
    BY <2>1, <2>3, <2>5, <2>6 DEF UploadInv, RecordInv
  <2>7. \A r \in Post : VouchedUpload(r) => VouchedUpload(r)'
    BY <2>1, <2>4 DEF VouchedUpload, UploadedBy, UploadedAs
  <2> QED  BY <2>1, <2>7, <2>8 DEF UploadInv
<1>3. ASSUME NEW i \in Upload, NEW up \in stored[i], RecordUpload(i, up)
      PROVE  UploadInv'
  <2> DEFINE by == IF staged[i] = NoUpload THEN up.by ELSE staged[i].by
  <2>1. /\ staged' = [staged EXCEPT ![i] = [by |-> by, sha |-> up.sha]]
        /\ UNCHANGED <<planOf, form, at, local, object, stored>>
    BY <1>3 DEF RecordUpload, NoRequest
  <2>2. by \in Member /\ up.sha \in Digest
    BY RealUpload DEF UploadInv, RecordInv
  <2>3. UploadedBy(i, by) /\ UploadedAs(i, up.sha)
    BY DEF UploadInv, RecordInv, UploadedBy, UploadedAs
  <2> HIDE DEF by
  <2>4. staged' \in [Upload -> [by : Member, sha : Digest] \cup {NoUpload}]
    BY <2>1, <2>2 DEF UploadInv, RecordInv
  <2>5. \A j \in Upload : staged'[j] # NoUpload
                        => UploadedBy(j, staged'[j].by) /\ UploadedAs(j, staged'[j].sha)
    BY <2>1, <2>3 DEF UploadInv, RecordInv, UploadedBy, UploadedAs
  <2>6. RecordInv'
    BY <2>1, <2>4, <2>5 DEF UploadInv, RecordInv, UploadedBy, UploadedAs
  <2> QED  BY <2>1, <2>6 DEF UploadInv, VouchedUpload, UploadedBy, UploadedAs
<1>4. ASSUME UNCHANGED <<uploadVars, form, at, local>>, planOf' \in [Publisher -> Plan]
      PROVE  UploadInv'
  BY <1>4, RecordsStand DEF UploadInv
<1>5. ASSUME NEW u \in Publisher, NEW p \in Plan, ChangePlan(u, p)
      PROVE  UploadInv'
  BY <1>4, <1>5 DEF ChangePlan, NoRequest, UploadInv
<1>6. ASSUME NEW r \in Post, NEW from \in SubmissionStatus, NEW to \in SubmissionStatus, Decide(r, from, to)
      PROVE  UploadInv'
  BY <1>4, <1>6 DEF Decide, NoRequest, UploadInv
<1>7. ASSUME NEW r \in Post, PublishRow(r)
      PROVE  UploadInv'
  BY <1>4, <1>7 DEF PublishRow, NoRequest, UploadInv
<1>8. CASE UNCHANGED intakeVars
  BY <1>4, <1>8 DEF intakeVars, UploadInv
<1> QED  BY <1>1, <1>2, <1>3, <1>5, <1>6, <1>7, <1>8 DEF IntakeNext

LEMMA UploadStart == IntakeInit => UploadInv
<1> SUFFICES ASSUME IntakeInit
             PROVE  UploadInv
  OBVIOUS
<1>1. form \in [Post -> Form] /\ RecordInv
  BY DEF IntakeInit, Form, RecordInv
<1>2. local \in [Post -> [plan : Plan, beaten : BOOLEAN, vouched : BOOLEAN]]
      /\ \A r \in Post : ~local[r].vouched
  BY DEF IntakeInit, NoLocal, Plan
<1>3. at \in [Post -> RequestSteps] /\ \A r \in Post : at[r] = "start"
  BY DEF IntakeInit, RequestSteps
<1>4. planOf \in [Publisher -> Plan]
  BY DEF IntakeInit
<1> QED  BY <1>1, <1>2, <1>3, <1>4 DEF UploadInv

(* A row that intake vouched for is of a user who uploaded under its id,   *)
(* carries the digest of a file that was uploaded there, and has that file *)
(* for its object unless another was uploaded too (the checks of POST      *)
(* /submissions, against the object and the upsert that POST               *)
(* /submissions/dockerfile-upload writes one after the other).             *)
THEOREM FilesAreSubmitters == IntakeSpec => []FileIsSubmitters
<1>1. UploadInv => FileIsSubmitters
  <2> SUFFICES ASSUME UploadInv, NEW r \in Post, local[r].vouched
               PROVE  LET files == {up.sha : up \in stored[form[r].ref]} IN
                      /\ \E up \in stored[form[r].ref] : up.by = form[r].user
                      /\ form[r].sha \in files
                      /\ object[form[r].ref] = form[r].sha \/ \E d \in files : d # form[r].sha
    BY DEF FileIsSubmitters
  <2>1. VouchedUpload(r)
    BY DEF UploadInv
  <2>2. UploadedAs(form[r].ref, object[form[r].ref])
    BY <2>1 DEF UploadInv, RecordInv, VouchedUpload, UploadedBy
  <2> QED  BY <2>1, <2>2 DEF VouchedUpload, UploadedBy, UploadedAs
<1> QED  BY <1>1, UploadStart, UploadStep, PTL DEF IntakeSpec


----------------------------------------------------------------------------
(* The quota.  Steady are the rows that have been counted ever since they  *)
(* were admitted; Best is the best plan the user has had.                  *)

Best(u)     == IF u \in wasPro THEN "pro" ELSE "free"
Steady(u, v) == Counted(u, v) \ returned

Within(u, v) ==
    Unlimited(Best(u), v) \/ Cardinality(Steady(u, v)) <= PlanLimit(Best(u), v)
HasRoom(u, v) ==
    Unlimited(Best(u), v) \/ Cardinality(Steady(u, v)) < PlanLimit(Best(u), v)

(* Finitely many requests have arrived, only those that were received have *)
(* rows, and only what has a row has had statuses or is a module.          *)
RowInv ==
    /\ IsFiniteSet({r \in Post : at[r] # "start"})
    /\ posted \in [Post -> {"none"} \cup SubmissionStatus]
    /\ shelf \in [Name -> Post \cup {Nothing}]
    /\ returned \subseteq Post
    /\ \A r \in Post : posted[r] # "none" <=> at[r] = "received"
    /\ seen \in [Post -> SUBSET SubmissionStatus]
    /\ \A r \in Post : seen[r] # {} => posted[r] # "none"
    /\ \A n \in Name : shelf[n] # Nothing => posted[shelf[n]] # "none"

PlanInv ==
    /\ \A u \in Publisher : planOf[u] = "pro" => u \in wasPro
    /\ \A r \in Post : local[r].plan = "pro" => form[r].user \in wasPro /\ at[r] # "start"

(* A request that may still insert its row finds room for it: the first of *)
(* two that counted the same rows beats the other.                         *)
AdmittedHaveRoom ==
    \A u \in Publisher, v \in Visibility, r \in Post :
        at[r] = "insert" /\ ~local[r].beaten /\ form[r].user = u /\ form[r].vis = v
        => HasRoom(u, v)

QuotaInv ==
    /\ RowInv /\ PlanInv
    /\ AdmittedHaveRoom
    /\ \A u \in Publisher, v \in Visibility : Within(u, v)

LEMMA SteadyIsFinite ==
    ASSUME RowInv, NEW u, NEW v
    PROVE  /\ IsFiniteSet(Counted(u, v)) /\ IsFiniteSet(Steady(u, v))
           /\ IsFiniteSet(Waiting(u, v)) /\ IsFiniteSet(Published(u, v))
           /\ Cardinality(Steady(u, v)) \in Nat
<1>1. Counted(u, v) \subseteq {r \in Post : at[r] # "start"}
  <2> SUFFICES ASSUME NEW r \in Post, InFlight(r) \/ OnShelf(r)
               PROVE  at[r] # "start"
    BY DEF Counted, Waiting, Published, RowsOf
  <2>1. posted[r] # "none"
    BY DEF InFlight, OnShelf, RowInv
  <2> QED  BY <2>1 DEF RowInv
<1>2. IsFiniteSet(Counted(u, v))
  BY <1>1, FS_Subset DEF RowInv
<1>3. /\ Steady(u, v) \subseteq Counted(u, v)
      /\ Waiting(u, v) \subseteq Counted(u, v) /\ Published(u, v) \subseteq Counted(u, v)
  BY DEF Steady, Counted
<1>4. IsFiniteSet(Steady(u, v)) /\ IsFiniteSet(Waiting(u, v)) /\ IsFiniteSet(Published(u, v))
  BY <1>2, <1>3, FS_Subset
<1> QED  BY <1>2, <1>4, FS_CardinalityType

(* What quota.ts adds up is never less than the rows that count.           *)
LEMMA UsageCoversSteady ==
    ASSUME RowInv, NEW u, NEW v
    PROVE  /\ Cardinality(Published(u, v)) + Cardinality(Waiting(u, v)) \in Nat
           /\ Cardinality(Steady(u, v)) <= Cardinality(Published(u, v)) + Cardinality(Waiting(u, v))
<1> DEFINE P == Published(u, v)   W == Waiting(u, v)   S == Steady(u, v)
<1>1. IsFiniteSet(P) /\ IsFiniteSet(W)
  BY SteadyIsFinite
<1>2. S \subseteq P \cup W
  BY DEF Steady, Counted
<1> HIDE DEF P, W, S
<1>3. IsFiniteSet(P \cup W)
  BY <1>1, FS_Union
<1>4. /\ Cardinality(P \cup W) = Cardinality(P) + Cardinality(W) - Cardinality(P \cap W)
      /\ IsFiniteSet(P \cap W)
  BY <1>1, FS_Union, FS_Intersection
<1>5. Cardinality(S) <= Cardinality(P \cup W) /\ IsFiniteSet(S)
  BY <1>2, <1>3, FS_Subset
<1>6. /\ Cardinality(P) \in Nat /\ Cardinality(W) \in Nat
      /\ Cardinality(P \cap W) \in Nat /\ Cardinality(S) \in Nat
  BY <1>1, <1>4, <1>5, FS_CardinalityType
<1>7. Cardinality(P) + Cardinality(W) \in Nat /\ Cardinality(S) <= Cardinality(P) + Cardinality(W)
  BY <1>4, <1>5, <1>6
<1> QED  BY <1>7 DEF P, W, S

LEMMA LimitsGrow ==
    ASSUME NEW v \in Visibility
    PROVE  /\ PlanLimit("free", v) \in Nat /\ PlanLimit("pro", v) \in Nat
           /\ PlanLimit("free", v) <= PlanLimit("pro", v)
           /\ ~Unlimited("free", v)
BY IntakeLimitsAssumption DEF PlanLimit, Visibility, Unlimited

(* Where rows only leave or come back, and plans only get better, there is *)
(* as much room as before.                                                 *)
LEMMA RoomStays ==
    ASSUME RowInv, NEW u \in Publisher, NEW v \in Visibility,
           Steady(u, v)' \subseteq Steady(u, v), wasPro \subseteq wasPro'
    PROVE  /\ HasRoom(u, v) => HasRoom(u, v)'
           /\ Within(u, v) => Within(u, v)'
<1> DEFINE n == Cardinality(Steady(u, v))   m == Cardinality(Steady(u, v)')
<1>1. IsFiniteSet(Steady(u, v)) /\ n \in Nat
  BY SteadyIsFinite
<1>2. IsFiniteSet(Steady(u, v)') /\ m <= n
  BY <1>1, FS_Subset
<1>3. m \in Nat
  BY <1>2, FS_CardinalityType
<1>4. Cardinality(Steady(u, v))' = m
  OBVIOUS
<1> HIDE DEF n, m
<1>5. \/ Best(u) = "free" /\ Best(u)' = "free"
      \/ Best(u) = "free" /\ Best(u)' = "pro"
      \/ Best(u) = "pro" /\ Best(u)' = "pro"
  BY DEF Best
<1>6. \A p \in {"free", "pro"} : PlanLimit(p, v) \in Nat
  BY LimitsGrow
<1>7. /\ HasRoom(u, v) <=> Unlimited(Best(u), v) \/ n < PlanLimit(Best(u), v)
      /\ Within(u, v) <=> Unlimited(Best(u), v) \/ n <= PlanLimit(Best(u), v)
      /\ HasRoom(u, v)' <=> Unlimited(Best(u)', v) \/ m < PlanLimit(Best(u)', v)
      /\ Within(u, v)' <=> Unlimited(Best(u)', v) \/ m <= PlanLimit(Best(u)', v)
  BY <1>4 DEF HasRoom, Within, n, m, Unlimited, PlanLimit
<1> QED  BY <1>1, <1>2, <1>3, <1>5, <1>6, <1>7, LimitsGrow

(* What a request does short of inserting its row: it touches nothing but  *)
(* itself, and gets to the insert only by a count that left room.          *)
LEMMA RequestQuiet ==
    ASSUME UploadInv, PlanInv, NEW r \in Post, Request(r), ~Insert(r)
    PROVE  /\ UNCHANGED <<planOf, wasPro, deskVars>>
           /\ \A q \in Post \ {r} : form'[q] = form[q] /\ at'[q] = at[q] /\ local'[q] = local[q]
           /\ at[r] # "received" /\ at'[r] \notin {"start", "received"}
           /\ at'[r] = "insert" => /\ form'[r] = form[r] /\ local'[r] = local[r]
                                   /\ ~Full(local[r].plan, form[r].user, form[r].vis)
           /\ local'[r].plan = "pro" => form'[r].user \in wasPro
<1> DEFINE Quiet(step) ==
        /\ UNCHANGED <<planOf, wasPro, deskVars>>
        /\ \A q \in Post \ {r} : form'[q] = form[q] /\ at'[q] = at[q] /\ local'[q] = local[q]
        /\ at[r] # "received" /\ at'[r] = step
        /\ local'[r].plan = "pro" => form'[r].user \in wasPro
<1>1. at \in [Post -> RequestSteps] /\ form \in [Post -> Form]
      /\ local \in [Post -> [plan : Plan, beaten : BOOLEAN, vouched : BOOLEAN]]
  BY DEF UploadInv
<1>2. ASSUME Ends(r), at[r] # "received", Elsewhere, NoRow
      PROVE  Quiet("over")
  <2>1. NoLocal.plan = "free"
    BY DEF NoLocal
  <2> QED  BY <1>1, <1>2, <2>1 DEF Ends, Elsewhere, NoRow, deskVars
<1>3. ASSUME NEW step, Goes(r, step), at[r] # "received", Elsewhere, NoRow
      PROVE  Quiet(step) /\ form'[r] = form[r] /\ local'[r] = local[r]
  BY <1>1, <1>3 DEF Goes, Elsewhere, NoRow, deskVars, PlanInv
<1>4. ASSUME NEW f \in Form \ {NoForm}, Arrive(r, f)
      PROVE  Quiet("over") \/ Quiet("queue")
  <2>1. at[r] = "start" /\ Elsewhere /\ NoRow
    BY <1>4 DEF Arrive
  <2>2. CASE Ends(r)
    BY <1>2, <2>1, <2>2
  <2>3. CASE ~Ends(r)
    <3>1. at' = [at EXCEPT ![r] = "queue"] /\ form' = [form EXCEPT ![r] = f] /\ UNCHANGED local
      BY <1>4, <2>3 DEF Arrive
    <3>2. local[r].plan # "pro"
      BY <2>1 DEF PlanInv
    <3> QED  BY <1>1, <2>1, <3>1, <3>2 DEF Elsewhere, NoRow, deskVars
  <2> QED  BY <2>2, <2>3
<1>5. CASE CheckQueue(r)
  <2>1. at[r] # "received" /\ Elsewhere /\ NoRow /\ (Ends(r) \/ Goes(r, "plan"))
    BY <1>5 DEF CheckQueue
  <2>2. Quiet("over") \/ Quiet("plan")
    BY <1>2, <1>3, <2>1
  <2> QED  BY <2>2
<1>6. CASE ReadPlan(r)
  <2>1. /\ at[r] = "plan" /\ at' = [at EXCEPT ![r] = "usage"] /\ UNCHANGED form /\ NoRow
        /\ local' = [local EXCEPT ![r].plan = planOf[form[r].user]] /\ Elsewhere
    BY <1>6 DEF ReadPlan
  <2>2. form[r].user \in Publisher
    BY <1>1, <2>1 DEF UploadInv, Form
  <2>3. local'[r].plan = planOf[form[r].user]
    BY <1>1, <2>1
  <2>4. local'[r].plan = "pro" => form'[r].user \in wasPro
    BY <2>1, <2>2, <2>3 DEF PlanInv
  <2>5. Quiet("usage")
    BY <1>1, <2>1, <2>4 DEF Elsewhere, NoRow, deskVars
  <2> QED  BY <2>5
<1>7. CASE ReadUsage(r)
  <2>1. /\ at[r] # "received" /\ Elsewhere /\ NoRow
        /\ (Ends(r) \/ Goes(r, "count") \/ Goes(r, "upload"))
    BY <1>7 DEF ReadUsage
  <2>2. Quiet("over") \/ Quiet("count") \/ Quiet("upload")
    BY <1>2, <1>3, <2>1
  <2> QED  BY <2>2
<1>8. CASE CheckUpload(r)
  <2>1. at[r] = "upload" /\ Elsewhere /\ NoRow
    BY <1>8 DEF CheckUpload
  <2>2. CASE Ends(r)
    <3>1. Quiet("over")
      BY <1>2, <2>1, <2>2
    <3> QED  BY <3>1
  <2>3. CASE ~Ends(r)
    <3>1. /\ at' = [at EXCEPT ![r] = "count"] /\ UNCHANGED form
          /\ local' = [local EXCEPT ![r].vouched = staged[form[r].ref] # NoUpload]
      BY <1>8, <2>3 DEF CheckUpload
    <3>2. local'[r].plan = local[r].plan
      BY <1>1, <3>1
    <3>3. Quiet("count")
      BY <1>1, <2>1, <3>1, <3>2 DEF Elsewhere, NoRow, deskVars, PlanInv
    <3> QED  BY <3>3
  <2> QED  BY <2>2, <2>3
<1>9. CASE Count(r)
  <2>1. /\ at[r] # "received" /\ Elsewhere /\ NoRow
        /\ \/ Ends(r)
           \/ Goes(r, "insert") /\ ~Full(local[r].plan, form[r].user, form[r].vis)
    BY <1>9 DEF Count
  <2>2. \/ Quiet("over")
        \/ /\ Quiet("insert") /\ form'[r] = form[r] /\ local'[r] = local[r]
           /\ ~Full(local[r].plan, form[r].user, form[r].vis)
    BY <1>2, <1>3, <2>1
  <2> QED  BY <2>2
<1>10. CASE TransactionFails(r)
  <2>1. at[r] # "received" /\ Elsewhere /\ NoRow /\ Ends(r)
    BY <1>10 DEF TransactionFails
  <2>2. Quiet("over")
    BY <1>2, <2>1
  <2> QED  BY <2>2
<1>11. CASE \E f \in Form \ {NoForm} : Arrive(r, f)
  <2>1. Quiet("over") \/ Quiet("queue")
    BY <1>4, <1>11
  <2> QED  BY <2>1
<1> QED  BY <1>5, <1>6, <1>7, <1>8, <1>9, <1>10, <1>11 DEF Request

LEMMA QuietStep ==
    ASSUME UploadInv, QuotaInv, NEW r \in Post, Request(r), ~Insert(r)
    PROVE  QuotaInv'
<1>1. /\ UNCHANGED <<planOf, wasPro, deskVars>>
      /\ \A q \in Post \ {r} : form'[q] = form[q] /\ at'[q] = at[q] /\ local'[q] = local[q]
      /\ at[r] # "received" /\ at'[r] \notin {"start", "received"}
      /\ at'[r] = "insert" => /\ form'[r] = form[r] /\ local'[r] = local[r]
                              /\ ~Full(local[r].plan, form[r].user, form[r].vis)
      /\ local'[r].plan = "pro" => form'[r].user \in wasPro
  BY RequestQuiet DEF QuotaInv
<1>2. posted[r] = "none" /\ ~InFlight(r) /\ ~OnShelf(r)
  BY <1>1 DEF QuotaInv, RowInv, InFlight, OnShelf
<1>3. ASSUME NEW u, NEW v
      PROVE  Steady(u, v)' = Steady(u, v)
  <2>1. \A q \in Post : InFlight(q)' = InFlight(q) /\ OnShelf(q)' = OnShelf(q)
    BY <1>1 DEF InFlight, OnShelf, deskVars
  <2>2. Counted(u, v)' = Counted(u, v)
    BY <1>1, <1>2, <2>1 DEF Counted, Waiting, Published, RowsOf
  <2> QED  BY <1>1, <2>2 DEF Steady, deskVars
<1>4. RowInv'
  <2> DEFINE S == {q \in Post : at[q] # "start"}
  <2>1. {q \in Post : at'[q] # "start"} = S \cup {r}
    BY <1>1
  <2>2. IsFiniteSet(S \cup {r})
    BY FS_AddElement DEF QuotaInv, RowInv
  <2> QED  BY <1>1, <1>2, <2>1, <2>2 DEF QuotaInv, RowInv, deskVars
<1>5. PlanInv'
  BY <1>1 DEF QuotaInv, PlanInv
<1>6. ASSUME NEW u \in Publisher, NEW v \in Visibility
      PROVE  (HasRoom(u, v) => HasRoom(u, v)') /\ Within(u, v)'
  BY <1>1, <1>3, RoomStays DEF QuotaInv
<1>7. ASSUME NEW u \in Publisher, NEW v \in Visibility, NEW q \in Post,
             at'[q] = "insert", ~local'[q].beaten, form'[q].user = u, form'[q].vis = v
      PROVE  HasRoom(u, v)'
  <2>1. CASE q # r
    BY <1>1, <1>6, <1>7, <2>1 DEF QuotaInv, AdmittedHaveRoom
  <2>2. CASE q = r
    <3>1. /\ ~Full(local[r].plan, u, v) /\ local[r].plan \in Plan
          /\ local[r].plan = "pro" => u \in wasPro
      BY <1>1, <1>7, <2>2 DEF UploadInv, QuotaInv, PlanInv
    <3>2. local[r].plan = Best(u) \/ (local[r].plan = "free" /\ Best(u) = "pro")
      BY <3>1 DEF Best, Plan
    <3>3. Unlimited(local[r].plan, v) => Unlimited(Best(u), v)
      BY <3>2 DEF Unlimited
    <3>4. Cardinality(Published(u, v)) + Cardinality(Waiting(u, v)) < PlanLimit(local[r].plan, v)
          => HasRoom(u, v)
      BY <3>1, <3>2, SteadyIsFinite, UsageCoversSteady, LimitsGrow DEF QuotaInv, HasRoom, Plan
    <3>5. HasRoom(u, v)
      BY <3>1, <3>3, <3>4, UsageCoversSteady, LimitsGrow DEF Full, Plan, QuotaInv, HasRoom
    <3> QED  BY <1>6, <3>5
  <2> QED  BY <2>1, <2>2
<1>8. AdmittedHaveRoom'
  BY <1>7 DEF AdmittedHaveRoom
<1> QED  BY <1>4, <1>5, <1>6, <1>8 DEF QuotaInv

(* The row that is inserted takes room that was left for it, and beats the *)
(* requests that counted on the same room.                                 *)
LEMMA InsertStep ==
    ASSUME UploadInv, QuotaInv, NEW r \in Post, Insert(r)
    PROVE  QuotaInv'
<1>1. /\ at[r] = "insert" /\ ~local[r].beaten
      /\ posted' = [posted EXCEPT ![r] = "pending"]
      /\ seen' = [seen EXCEPT ![r] = seen[r] \cup {"pending"}]
      /\ at' = [at EXCEPT ![r] = "received"]
      /\ local' = [q \in Post |-> IF at[q] = "insert" /\ Conflict(q, r)
                                  THEN [local[q] EXCEPT !.beaten = TRUE] ELSE local[q]]
      /\ UNCHANGED <<planOf, wasPro, shelf, returned, form>>
  BY DEF Insert, Posts, Elsewhere
<1>2. at \in [Post -> RequestSteps] /\ posted \in [Post -> {"none"} \cup SubmissionStatus]
      /\ local \in [Post -> [plan : Plan, beaten : BOOLEAN, vouched : BOOLEAN]]
  BY DEF UploadInv, QuotaInv, RowInv
<1>3. posted[r] = "none"
  BY <1>1 DEF QuotaInv, RowInv
<1>4. \A q \in Post : /\ local'[q].plan = local[q].plan
                      /\ local'[q].beaten <=> local[q].beaten \/ (at[q] = "insert" /\ Conflict(q, r))
  BY <1>1, <1>2
<1>5. RowInv'
  <2>1. {q \in Post : at'[q] # "start"} = {q \in Post : at[q] # "start"}
    BY <1>1, <1>2
  <2>2. /\ posted' \in [Post -> {"none"} \cup SubmissionStatus]
        /\ seen' \in [Post -> SUBSET SubmissionStatus]
        /\ \A q \in Post : seen'[q] # {} => posted'[q] # "none"
        /\ \A q \in Post : posted'[q] # "none" <=> at'[q] = "received"
    BY <1>1, <1>2, <1>3 DEF QuotaInv, RowInv, SubmissionStatus
  <2>3. \A n \in Name : shelf[n] # Nothing => posted'[shelf[n]] # "none"
    BY <1>1, <1>2, <1>3 DEF QuotaInv, RowInv
  <2> QED  BY <1>1, <2>1, <2>2, <2>3 DEF QuotaInv, RowInv
<1>6. PlanInv'
  BY <1>1, <1>2, <1>4 DEF QuotaInv, PlanInv
<1>7. form[r].user \in Publisher /\ form[r].vis \in Visibility
  BY <1>1 DEF UploadInv, Form
<1>8. HasRoom(form[r].user, form[r].vis)
  BY <1>1, <1>7 DEF QuotaInv, AdmittedHaveRoom
<1>9. ASSUME NEW u \in Publisher, NEW v \in Visibility
      PROVE  Steady(u, v)' \subseteq Steady(u, v) \cup {q \in {r} : form[r].user = u /\ form[r].vis = v}
  <2>1. \A q \in Post \ {r} : InFlight(q)' => InFlight(q)
    BY <1>1, <1>2 DEF InFlight
  <2>2. \A q \in Post : OnShelf(q)' => OnShelf(q)
    BY <1>1 DEF OnShelf
  <2> QED  BY <1>1, <2>1, <2>2 DEF Steady, Counted, Waiting, Published, RowsOf
<1>10. ASSUME NEW u \in Publisher, NEW v \in Visibility, ~(form[r].user = u /\ form[r].vis = v)
       PROVE  (HasRoom(u, v) => HasRoom(u, v)') /\ Within(u, v)'
  <2>1. Steady(u, v)' \subseteq Steady(u, v) /\ wasPro \subseteq wasPro'
    BY <1>1, <1>9, <1>10
  <2> QED  BY <2>1, RoomStays DEF QuotaInv
<1>11. ASSUME NEW u \in Publisher, NEW v \in Visibility, form[r].user = u, form[r].vis = v
       PROVE  Within(u, v)'
  <2> DEFINE S == Steady(u, v)
             T == Steady(u, v)'
  <2>1. IsFiniteSet(S) /\ Cardinality(S) \in Nat
    BY SteadyIsFinite DEF QuotaInv
  <2>2. IsFiniteSet(S \cup {r}) /\ Cardinality(S \cup {r}) <= Cardinality(S) + 1
    <3> HIDE DEF S
    <3>1. Cardinality(S \cup {r}) = Cardinality(S) \/ Cardinality(S \cup {r}) = Cardinality(S) + 1
      BY <2>1, FS_AddElement, Zenon
    <3> QED  BY <2>1, <3>1, FS_AddElement
  <2>3. T \subseteq S \cup {r}
    BY <1>9
  <2>4. IsFiniteSet(T) /\ Cardinality(T) <= Cardinality(S \cup {r})
    BY <2>2, <2>3, FS_Subset
  <2>5. Cardinality(T) \in Nat /\ Cardinality(S \cup {r}) \in Nat
    BY <2>2, <2>4, FS_CardinalityType
  <2>6. Cardinality(Steady(u, v))' = Cardinality(T)
    OBVIOUS
  <2>7. Within(u, v)' <=> Unlimited(Best(u), v) \/ Cardinality(T) <= PlanLimit(Best(u), v)
    BY <1>1, <2>6 DEF Within, Best, Unlimited, PlanLimit
  <2>8. PlanLimit(Best(u), v) \in Nat
    BY LimitsGrow DEF Best
  <2>9. Unlimited(Best(u), v) \/ Cardinality(S) < PlanLimit(Best(u), v)
    BY <1>8, <1>11 DEF HasRoom
  <2> HIDE DEF S, T
  <2> QED  BY <2>1, <2>2, <2>4, <2>5, <2>7, <2>8, <2>9
<1>12. ASSUME NEW u \in Publisher, NEW v \in Visibility, NEW q \in Post,
              at'[q] = "insert", ~local'[q].beaten, form'[q].user = u, form'[q].vis = v
       PROVE  HasRoom(u, v)'
  <2>1. q # r /\ at[q] = "insert" /\ ~local[q].beaten /\ ~Conflict(q, r)
        /\ form[q].user = u /\ form[q].vis = v
    BY <1>1, <1>2, <1>4, <1>12
  <2>2. HasRoom(u, v)
    BY <2>1 DEF QuotaInv, AdmittedHaveRoom
  <2>3. CASE ~(form[r].user = u /\ form[r].vis = v)
    BY <1>10, <2>2, <2>3
  <2>4. CASE form[r].user = u /\ form[r].vis = v
    <3>1. Unlimited(local[q].plan, v) \/ Unlimited(local[r].plan, v)
      BY <2>1, <2>4 DEF Conflict
    <3>2. u \in wasPro /\ v = "public"
      BY <2>1, <2>4, <3>1 DEF Unlimited, QuotaInv, PlanInv
    <3> QED  BY <1>1, <3>2 DEF HasRoom, Unlimited, Best
  <2> QED  BY <2>3, <2>4
<1>13. AdmittedHaveRoom'
  BY <1>12 DEF AdmittedHaveRoom
<1> QED  BY <1>5, <1>6, <1>10, <1>11, <1>13 DEF QuotaInv

(* Everything else that happens makes no row count that was not counting,  *)
(* but one that comes back, and takes no better plan from a user's past.   *)
LEMMA MeanwhileStep ==
    ASSUME QuotaInv, UNCHANGED <<form, at, local>>, RowInv', PlanInv', wasPro \subseteq wasPro',
           \A u \in Publisher, v \in Visibility : Steady(u, v)' \subseteq Steady(u, v)
    PROVE  QuotaInv'
<1>1. \A u \in Publisher, v \in Visibility : (HasRoom(u, v) => HasRoom(u, v)') /\ Within(u, v)'
  BY RoomStays DEF QuotaInv
<1>2. AdmittedHaveRoom'
  BY <1>1 DEF QuotaInv, AdmittedHaveRoom
<1> QED  BY <1>1, <1>2 DEF QuotaInv

LEMMA DecideStep ==
    ASSUME UploadInv, QuotaInv, NEW r \in Post, NEW from \in SubmissionStatus, NEW to \in SubmissionStatus,
           Decide(r, from, to)
    PROVE  QuotaInv'
<1>1. /\ from \in seen[r] /\ posted' = [posted EXCEPT ![r] = to]
      /\ seen' = [seen EXCEPT ![r] = seen[r] \cup {to}]
      /\ returned' = IF to = "approved" /\ ~InFlight(r) /\ ~OnShelf(r)
                     THEN returned \cup {r} ELSE returned
      /\ UNCHANGED <<planOf, wasPro, form, at, local, shelf>>
  BY DEF Decide, NoRequest
<1>2. posted[r] # "none" /\ to # "none" /\ to # "pending"
  BY <1>1 DEF QuotaInv, RowInv, SubmissionStatus, Decide, Moves
<1>3. posted' \in [Post -> {"none"} \cup SubmissionStatus] /\ seen' \in [Post -> SUBSET SubmissionStatus]
      /\ returned' \subseteq Post
  BY <1>1 DEF QuotaInv, RowInv
<1>4. RowInv'
  BY <1>1, <1>2, <1>3 DEF QuotaInv, RowInv
<1>5. PlanInv'
  BY <1>1 DEF QuotaInv, PlanInv
<1>6. ASSUME NEW u \in Publisher, NEW v \in Visibility
      PROVE  Steady(u, v)' \subseteq Steady(u, v)
  <2>1. \A q \in Post : InFlight(q)' => InFlight(q) \/ OnShelf(q) \/ q \in returned'
    BY <1>1, <1>2 DEF InFlight, QuotaInv, RowInv
  <2>2. \A q \in Post : OnShelf(q)' => OnShelf(q)
    BY <1>1 DEF OnShelf
  <2>3. returned \subseteq returned'
    BY <1>1
  <2> QED  BY <1>1, <2>1, <2>2, <2>3 DEF Steady, Counted, Waiting, Published, RowsOf
<1> QED  BY <1>1, <1>4, <1>5, <1>6, MeanwhileStep

LEMMA PublishRowStep ==
    ASSUME UploadInv, QuotaInv, NEW r \in Post, PublishRow(r)
    PROVE  QuotaInv'
<1>1. /\ "built" \in seen[r] /\ shelf' = [shelf EXCEPT ![form[r].name] = r]
      /\ returned' = returned \cup {r}
      /\ UNCHANGED <<planOf, wasPro, form, at, local, posted, seen>>
  BY DEF PublishRow, NoRequest, NoRow
<1>2. RowInv'
  BY <1>1 DEF QuotaInv, RowInv
<1>3. PlanInv'
  BY <1>1 DEF QuotaInv, PlanInv
<1>4. ASSUME NEW u \in Publisher, NEW v \in Visibility
      PROVE  Steady(u, v)' \subseteq Steady(u, v)
  <2>1. \A q \in Post : /\ InFlight(q)' => InFlight(q)
                        /\ OnShelf(q)' => OnShelf(q) \/ q = r
    BY <1>1 DEF InFlight, OnShelf, QuotaInv, RowInv
  <2> QED  BY <1>1, <2>1 DEF Steady, Counted, Waiting, Published, RowsOf
<1> QED  BY <1>1, <1>2, <1>3, <1>4, MeanwhileStep

LEMMA QuotaStep == UploadInv /\ QuotaInv /\ [IntakeNext]_intakeVars => QuotaInv'
<1> SUFFICES ASSUME UploadInv, QuotaInv, [IntakeNext]_intakeVars
             PROVE  QuotaInv'
  OBVIOUS
<1>1. ASSUME NEW r \in Post, Request(r)
      PROVE  QuotaInv'
  BY <1>1, QuietStep, InsertStep
<1>2. ASSUME UNCHANGED <<form, at, local, deskVars>>,
             PlanInv', wasPro \subseteq wasPro'
      PROVE  QuotaInv'
  <2>1. RowInv'
    BY <1>2 DEF QuotaInv, RowInv, deskVars
  <2>2. \A u \in Publisher, v \in Visibility : Steady(u, v)' \subseteq Steady(u, v)
    BY <1>2 DEF Steady, Counted, Waiting, Published, RowsOf, InFlight, OnShelf, deskVars
  <2> QED  BY <1>2, <2>1, <2>2, MeanwhileStep
<1>3. ASSUME UNCHANGED <<planOf, wasPro, form, at, local, deskVars>>
      PROVE  QuotaInv'
  BY <1>2, <1>3 DEF QuotaInv, PlanInv
<1>4. ASSUME NEW u \in Publisher, NEW p \in Plan, ChangePlan(u, p)
      PROVE  QuotaInv'
  <2>1. PlanInv'
    BY <1>4 DEF ChangePlan, NoRequest, QuotaInv, PlanInv, UploadInv
  <2> QED  BY <1>2, <1>4, <2>1 DEF ChangePlan, NoRequest
<1>5. ASSUME NEW r \in Post, NEW from \in SubmissionStatus, NEW to \in SubmissionStatus, Decide(r, from, to)
      PROVE  QuotaInv'
  BY <1>5, DecideStep
<1>6. ASSUME NEW r \in Post, PublishRow(r)
      PROVE  QuotaInv'
  BY <1>6, PublishRowStep
<1>7. ASSUME NEW u \in Member, NEW i \in Upload, NEW d \in Digest, PutObject(u, i, d)
      PROVE  QuotaInv'
  BY <1>3, <1>7 DEF PutObject, NoRequest
<1>8. ASSUME NEW i \in Upload, NEW up \in stored[i], RecordUpload(i, up)
      PROVE  QuotaInv'
  BY <1>3, <1>8 DEF RecordUpload, NoRequest
<1>9. CASE UNCHANGED intakeVars
  BY <1>3, <1>9 DEF intakeVars
<1> QED  BY <1>1, <1>4, <1>5, <1>6, <1>7, <1>8, <1>9 DEF IntakeNext

LEMMA QuotaStart == IntakeInit => QuotaInv
<1> SUFFICES ASSUME IntakeInit
             PROVE  QuotaInv
  OBVIOUS
<1>1. {r \in Post : at[r] # "start"} = {}
  BY DEF IntakeInit
<1>2. RowInv
  BY <1>1, FS_EmptySet DEF IntakeInit, RowInv
<1>3. PlanInv
  BY DEF IntakeInit, PlanInv, NoLocal
<1>4. ASSUME NEW u \in Publisher, NEW v \in Visibility
      PROVE  Within(u, v)
  <2>1. Steady(u, v) = {}
    <3>1. \A r \in Post : ~InFlight(r) /\ ~OnShelf(r)
      BY DEF IntakeInit, InFlight, OnShelf
    <3> QED  BY <3>1 DEF Steady, Counted, Waiting, Published, RowsOf
  <2>2. Cardinality(Steady(u, v)) = 0
    BY <2>1, FS_EmptySet
  <2> QED  BY <2>2, LimitsGrow DEF Within, Best
<1>5. AdmittedHaveRoom
  BY DEF IntakeInit, AdmittedHaveRoom
<1> QED  BY <1>2, <1>3, <1>4, <1>5 DEF QuotaInv

(* The plan's limit holds of every user and visibility, whatever requests  *)
(* overlap and however plans change meanwhile: only rows that came back    *)
(* can be in excess (canSubmit in quota.ts and the Serializable            *)
(* transaction of POST /submissions).                                      *)
THEOREM QuotasHold == IntakeSpec => []QuotaHolds
<1>1. QuotaInv => QuotaHolds
  BY DEF QuotaInv, Within, Best, Steady, QuotaHolds
<1> QED  BY <1>1, UploadStart, UploadStep, QuotaStart, QuotaStep, PTL DEF IntakeSpec
=============================================================================
