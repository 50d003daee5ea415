---------------------------- MODULE Billing_proofs ----------------------------
(***************************************************************************)
(* What holds of a user's plan and subscriptions, for any number of        *)
(* subscriptions: the types however many deliveries are served at once,    *)
(* and with one delivery at a time that Stripe's records and the user row  *)
(* agree.                                                                  *)
(***************************************************************************)
EXTENDS Billing, TLAPS

USE NoSubscriptionAssumption

\* One delivery is served at a time.
OneDelivery == \A g, h \in Handler : g = h

\* Nothing goes wrong, but for handlers that throw before they write.
OnlyThrows == Faults \subseteq {"throw"}

----------------------------------------------------------------------------
(* A delivery that goes on to cancel knows a subscription to cancel.       *)
StaleIsKnown ==
    \A h \in Handler :
        /\ work[h].step = "write" /\ ~work[h].fresh => work[h].stale \in Subscription
        /\ work[h].step = "cancel" => work[h].stale \in Subscription

TypeInv == TypeOK /\ StaleIsKnown

(* An event that says a subscription ended is believed only of one that    *)
(* did.                                                                    *)
EndsAreTrue ==
    \A s \in Subscription : Deleted(s) \in events \cup handled => stripe[s] = "cancelled"

(* What a delivery read is still so when it writes.                        *)
ReadsAreCurrent ==
    \A h \in Handler :
        /\ work[h].step = "write" => work[h].event # Completed(work[h].stale)
        /\ work[h].step = "cancel" => /\ work[h].event = Completed(onFile)
                                      /\ work[h].stale # onFile
        /\ work[h].step = "downgrade" => /\ work[h].event = Deleted(onFile)
                                         /\ stripe[onFile] = "cancelled"

DeliveryInv == TypeInv /\ EndsAreTrue /\ ReadsAreCurrent

(* A subscription that is billed and whose payment was handled is on file, *)
(* or is about to be cancelled by the delivery that replaced it.           *)
BilledIsKept ==
    \A s \in Subscription :
        stripe[s] = "active" /\ Completed(s) \notin events =>
            /\ plan = "pro"
            /\ \/ onFile = s
               \/ \E h \in Handler : work[h].step = "cancel" /\ work[h].stale = s

(* The subscription that pays for the plan is billed, or its end is still  *)
(* to be delivered; and so is one whose payment is to be delivered.        *)
PlanIsPaid ==
    /\ plan = "pro" =>
          onFile \in Subscription /\ (stripe[onFile] = "active" \/ Deleted(onFile) \in events)
    /\ \A s \in Subscription :
          Completed(s) \in events => stripe[s] = "active" \/ Deleted(s) \in events

(* A delivery serves an event that is not answered yet, an end only after  *)
(* its payment, and what it read of the row is what the row holds.         *)
ServesInOrder ==
    \A h \in Handler :
        /\ work[h].step # "idle" => work[h].event \in events
        /\ work[h].step = "write" =>
              /\ work[h].fresh = (plan # "pro" \/ onFile = NoSubscription)
              /\ plan = "pro" => work[h].stale = onFile
        /\ work[h].step = "cancel" => plan = "pro"
        /\ work[h].step = "downgrade" => Completed(onFile) \notin events

BillingInv == DeliveryInv /\ BilledIsKept /\ PlanIsPaid /\ ServesInOrder

----------------------------------------------------------------------------
LEMMA EventsDiffer ==
    /\ \A s \in Subscription : Completed(s) \in Event /\ Deleted(s) \in Event
    /\ \A s, t : Completed(s) # Deleted(t)
    /\ \A s, t : Completed(s) = Completed(t) => s = t
    /\ \A s, t : Deleted(s) = Deleted(t) => s = t
BY DEF Completed, Deleted, Event

(* What a step of a delivery leaves it doing.                              *)
LEMMA Serving ==
    ASSUME TypeOK, NEW h \in Handler, NEW w, Serve(h, w)
    PROVE  /\ work'[h] = w
           /\ \A g \in Handler \ {h} : work'[g] = work[g]
           /\ w \in WorkState => work' \in [Handler -> WorkState]
BY DEF TypeOK, Serve

LEMMA AtRestRests == AtRest \in WorkState /\ AtRest.step = "idle"
BY DEF AtRest, WorkState

(* What the types say of a delivery at its three steps.                    *)
LEMMA WorkAt ==
    ASSUME TypeOK, NEW h \in Handler, work[h].step # "idle"
    PROVE  /\ work[h].event \in Event
           /\ work[h].fresh \in BOOLEAN
           /\ work[h].stale \in Subscription \cup {NoSubscription}
           /\ work[h].step \in {"write", "cancel", "downgrade"}
           /\ work[h] \in [step  : {"write", "cancel", "downgrade"},
                           event : Event,
                           fresh : BOOLEAN,
                           stale : Subscription \cup {NoSubscription}]
BY AtRestRests DEF TypeOK, WorkState

LEMMA TypeStep == TypeInv /\ [Next]_vars => TypeInv'
<1> SUFFICES ASSUME TypeInv, [Next]_vars
             PROVE  TypeInv'
  OBVIOUS
<1>1. TypeOK /\ StaleIsKnown
  BY DEF TypeInv
<1>2. ASSUME NEW h \in Handler, NEW w \in WorkState, Serve(h, w),
             w.step = "write" /\ ~w.fresh => w.stale \in Subscription,
             w.step = "cancel" => w.stale \in Subscription
      PROVE  work' \in [Handler -> WorkState] /\ StaleIsKnown'
  BY <1>1, <1>2, Serving DEF StaleIsKnown
<1>3. ASSUME NEW h \in Handler, NEW e \in Event, Answer(h, e)
      PROVE  /\ work' \in [Handler -> WorkState] /\ StaleIsKnown'
             /\ events' \subseteq Event /\ handled' \subseteq Event
  BY <1>1, <1>2, <1>3, AtRestRests DEF Answer, TypeOK
<1>4. CASE UNCHANGED vars
  BY <1>1, <1>4 DEF vars, TypeInv, TypeOK, StaleIsKnown
<1>5. ASSUME NEW s \in Subscription, StartCheckout(s) \/ Pay(s) \/ End(s)
      PROVE  TypeInv'
  BY <1>1, <1>5, EventsDiffer DEF StartCheckout, Pay, End, TypeInv, TypeOK, StaleIsKnown
<1>6. ASSUME NEW e \in Event, Redeliver(e)
      PROVE  TypeInv'
  BY <1>1, <1>6 DEF Redeliver, TypeInv, TypeOK, StaleIsKnown
<1>7. ASSUME NEW h \in Handler, NEW s \in Subscription, ReadForUpgrade(h, s)
      PROVE  TypeInv'
  <2>1. CASE Answer(h, Completed(s))
    BY <1>1, <1>3, <1>7, <2>1, EventsDiffer DEF ReadForUpgrade, TypeInv, TypeOK
  <2>2. CASE /\ Serve(h, [step |-> "write", event |-> Completed(s),
                          fresh |-> plan # "pro" \/ onFile = NoSubscription,
                          stale |-> IF plan = "pro" THEN onFile ELSE NoSubscription])
             /\ UNCHANGED <<events, handled>>
    <3> DEFINE w == [step |-> "write", event |-> Completed(s),
                     fresh |-> plan # "pro" \/ onFile = NoSubscription,
                     stale |-> IF plan = "pro" THEN onFile ELSE NoSubscription]
    <3>1. w \in WorkState
      BY <1>1, EventsDiffer DEF WorkState, TypeOK
    <3>2. ~w.fresh => w.stale \in Subscription
      BY <1>1 DEF TypeOK
    <3>3. w.step = "write"
      OBVIOUS
    <3> HIDE DEF w
    <3>4. Serve(h, w)
      BY <2>2 DEF w
    <3> QED  BY <1>1, <1>2, <1>7, <2>2, <3>1, <3>2, <3>3, <3>4
             DEF ReadForUpgrade, TypeInv, TypeOK
  <2> QED  BY <1>7, <2>1, <2>2 DEF ReadForUpgrade
<1>8. ASSUME NEW h \in Handler, NEW s \in Subscription, Upgrade(h, s)
      PROVE  TypeInv'
  <2>1. CASE Answer(h, Completed(s))
    BY <1>1, <1>3, <1>8, <2>1, EventsDiffer DEF Upgrade, TypeInv, TypeOK
  <2>2. CASE ~work[h].fresh /\ Serve(h, [work[h] EXCEPT !.step = "cancel"])
             /\ UNCHANGED <<events, handled>>
    <3> DEFINE w == [work[h] EXCEPT !.step = "cancel"]
    <3>1. w \in WorkState /\ w.step = "cancel" /\ w.stale = work[h].stale
      BY <1>1, <1>8, WorkAt DEF WorkState, Upgrade
    <3>2. w.stale \in Subscription
      BY <1>1, <1>8, <2>2, <3>1 DEF StaleIsKnown, Upgrade
    <3> HIDE DEF w
    <3>3. Serve(h, w)
      BY <2>2 DEF w
    <3> QED  BY <1>1, <1>2, <1>8, <2>2, <3>1, <3>2, <3>3 DEF Upgrade, TypeInv, TypeOK
  <2> QED  BY <1>8, <2>1, <2>2 DEF Upgrade
<1>9. ASSUME NEW h \in Handler, NEW s \in Subscription, CancelStale(h, s)
      PROVE  TypeInv'
  <2>1. work[h].stale \in Subscription
    BY <1>1, <1>9 DEF StaleIsKnown, CancelStale
  <2>2. work' \in [Handler -> WorkState] /\ StaleIsKnown'
    BY <1>2, <1>9, AtRestRests DEF CancelStale
  <2> QED  BY <1>1, <1>9, <2>1, <2>2, EventsDiffer DEF CancelStale, TypeInv, TypeOK
<1>10. ASSUME NEW h \in Handler, NEW s \in Subscription, ReadForDowngrade(h, s)
       PROVE  TypeInv'
  <2>1. CASE Answer(h, Deleted(s))
    BY <1>1, <1>3, <1>10, <2>1, EventsDiffer DEF ReadForDowngrade, TypeInv, TypeOK
  <2>2. CASE /\ Serve(h, [step |-> "downgrade", event |-> Deleted(s),
                          fresh |-> FALSE, stale |-> NoSubscription])
             /\ UNCHANGED <<events, handled>>
    <3>1. [step |-> "downgrade", event |-> Deleted(s),
           fresh |-> FALSE, stale |-> NoSubscription] \in WorkState
      BY EventsDiffer DEF WorkState
    <3> QED  BY <1>1, <1>2, <1>10, <2>2, <3>1 DEF ReadForDowngrade, TypeInv, TypeOK
  <2> QED  BY <1>10, <2>1, <2>2 DEF ReadForDowngrade
<1>11. ASSUME NEW h \in Handler, NEW s \in Subscription, Downgrade(h, s)
       PROVE  TypeInv'
  BY <1>1, <1>3, <1>11, EventsDiffer DEF Downgrade, TypeInv, TypeOK
<1>12. ASSUME NEW h \in Handler, Throws(h)
       PROVE  TypeInv'
  BY <1>1, <1>2, <1>12, AtRestRests DEF Throws, TypeInv, TypeOK
<1> QED
  BY <1>4, <1>5, <1>6, <1>7, <1>8, <1>9, <1>10, <1>11, <1>12
     DEF Next, HandleCompleted, HandleDeleted

(* The user row, Stripe's records and the deliveries have their types,     *)
(* however many deliveries are served at once and whatever goes wrong.     *)
THEOREM BillingTypeCorrect == Spec => []TypeOK
<1>1. Init => TypeInv
  BY AtRestRests DEF Init, TypeInv, TypeOK, StaleIsKnown
<1>2. TypeInv => TypeOK
  BY DEF TypeInv
<1> QED  BY <1>1, <1>2, TypeStep, PTL DEF Spec

----------------------------------------------------------------------------
(* One delivery at a time, under every fault.                              *)

LEMMA DeliveryStep == OneDelivery /\ DeliveryInv /\ [Next]_vars => DeliveryInv'
<1> SUFFICES ASSUME OneDelivery, DeliveryInv, [Next]_vars
             PROVE  EndsAreTrue' /\ ReadsAreCurrent'
  BY TypeStep DEF DeliveryInv
<1>1. TypeOK /\ StaleIsKnown /\ EndsAreTrue /\ ReadsAreCurrent
  BY DEF DeliveryInv, TypeInv
<1>2. ASSUME NEW h \in Handler, NEW w, Serve(h, w),
             w.step = "write" => w.event # Completed(w.stale),
             w.step = "cancel" => w.event = Completed(onFile') /\ w.stale # onFile',
             w.step = "downgrade" => /\ w.event = Deleted(onFile')
                                     /\ stripe'[onFile'] = "cancelled"
      PROVE  ReadsAreCurrent'
  <2>1. \A g \in Handler : work'[g] = w
    BY <1>1, <1>2, Serving DEF OneDelivery
  <2> QED  BY <1>2, <2>1 DEF ReadsAreCurrent
<1>3. ASSUME NEW h \in Handler, Serve(h, AtRest)
      PROVE  ReadsAreCurrent'
  BY <1>2, <1>3, AtRestRests
<1>4. CASE UNCHANGED vars
  BY <1>1, <1>4 DEF vars, EndsAreTrue, ReadsAreCurrent
<1>5. ASSUME NEW s \in Subscription, StartCheckout(s) \/ Pay(s) \/ End(s)
      PROVE  EndsAreTrue' /\ ReadsAreCurrent'
  <2>1. /\ \A t \in Subscription : stripe[t] = "cancelled" => stripe'[t] = "cancelled"
        /\ \A t \in Subscription :
              Deleted(t) \in events' => Deleted(t) \in events \/ stripe'[t] = "cancelled"
        /\ UNCHANGED <<plan, onFile, handled, work>>
    BY <1>1, <1>5, EventsDiffer DEF StartCheckout, Pay, End, TypeOK
  <2>2. EndsAreTrue'
    BY <1>1, <2>1 DEF EndsAreTrue
  <2>3. ASSUME NEW h \in Handler, work[h].step = "downgrade"
        PROVE  stripe'[onFile] = "cancelled"
    <3>1. onFile \in Subscription
      BY <1>1, <2>3, WorkAt, EventsDiffer DEF ReadsAreCurrent, TypeOK, Deleted, Event
    <3> QED  BY <1>1, <2>1, <2>3, <3>1 DEF ReadsAreCurrent
  <2> QED  BY <1>1, <2>1, <2>2, <2>3 DEF ReadsAreCurrent
<1>6. ASSUME NEW e \in Event, Redeliver(e)
      PROVE  EndsAreTrue' /\ ReadsAreCurrent'
  BY <1>1, <1>6 DEF Redeliver, EndsAreTrue, ReadsAreCurrent
<1>7. ASSUME NEW h \in Handler, NEW e \in events, Answer(h, e), UNCHANGED stripe
      PROVE  EndsAreTrue' /\ ReadsAreCurrent'
  BY <1>1, <1>3, <1>7 DEF Answer, EndsAreTrue
<1>8. ASSUME UNCHANGED <<stripe, events, handled>>
      PROVE  EndsAreTrue'
  BY <1>1, <1>8 DEF EndsAreTrue
<1>9. ASSUME NEW h \in Handler, NEW s \in Subscription, ReadForUpgrade(h, s)
      PROVE  EndsAreTrue' /\ ReadsAreCurrent'
  <2>1. CASE plan = "pro" /\ onFile = s
    BY <1>7, <1>9, <2>1 DEF ReadForUpgrade, Deliverable
  <2>2. CASE ~(plan = "pro" /\ onFile = s)
    <3> DEFINE w == [step |-> "write", event |-> Completed(s),
                     fresh |-> plan # "pro" \/ onFile = NoSubscription,
                     stale |-> IF plan = "pro" THEN onFile ELSE NoSubscription]
    <3>1. w.step = "write" /\ w.event = Completed(s) /\ w.stale # s
      BY <2>2
    <3> HIDE DEF w
    <3>2. Serve(h, w) /\ UNCHANGED <<stripe, events, handled>>
      BY <1>9, <2>2 DEF w, ReadForUpgrade
    <3> QED  BY <1>2, <1>8, <3>1, <3>2, EventsDiffer
  <2> QED  BY <2>1, <2>2
<1>10. ASSUME NEW h \in Handler, NEW s \in Subscription, Upgrade(h, s)
       PROVE  EndsAreTrue' /\ ReadsAreCurrent'
  <2>1. CASE Answer(h, Completed(s))
    <3>1. EndsAreTrue'
      BY <1>1, <1>10, <2>1, EventsDiffer DEF Upgrade, Answer, EndsAreTrue
    <3> QED  BY <1>3, <2>1, <3>1 DEF Answer
  <2>2. CASE Serve(h, [work[h] EXCEPT !.step = "cancel"]) /\ UNCHANGED <<events, handled>>
    <3> DEFINE w == [work[h] EXCEPT !.step = "cancel"]
    <3>1. w.step = "cancel" /\ w.event = Completed(s) /\ w.stale = work[h].stale
      BY <1>1, <1>10, WorkAt DEF Upgrade
    <3>2. work[h].stale # s
      BY <1>1, <1>10 DEF Upgrade, ReadsAreCurrent
    <3> HIDE DEF w
    <3>3. Serve(h, w) /\ onFile' = s
      BY <1>10, <2>2 DEF w, Upgrade
    <3> QED  BY <1>2, <1>8, <1>10, <2>2, <3>1, <3>2, <3>3 DEF Upgrade
  <2> QED  BY <1>10, <2>1, <2>2 DEF Upgrade
<1>11. ASSUME NEW h \in Handler, NEW s \in Subscription, CancelStale(h, s)
       PROVE  EndsAreTrue' /\ ReadsAreCurrent'
  <2>1. work[h].stale \in Subscription
    BY <1>1, <1>11 DEF StaleIsKnown, CancelStale
  <2>2. ReadsAreCurrent'
    BY <1>3, <1>11 DEF CancelStale
  <2>3. EndsAreTrue'
    BY <1>1, <1>11, <2>1, EventsDiffer DEF CancelStale, EndsAreTrue, TypeOK
  <2> QED  BY <2>2, <2>3
<1>12. ASSUME NEW h \in Handler, NEW s \in Subscription, ReadForDowngrade(h, s)
       PROVE  EndsAreTrue' /\ ReadsAreCurrent'
  <2>1. CASE onFile = s
    <3> DEFINE w == [step |-> "downgrade", event |-> Deleted(s),
                     fresh |-> FALSE, stale |-> NoSubscription]
    <3>1. w.step = "downgrade" /\ w.event = Deleted(s)
      OBVIOUS
    <3>2. stripe[s] = "cancelled"
      BY <1>1, <1>12 DEF ReadForDowngrade, Deliverable, EndsAreTrue
    <3> HIDE DEF w
    <3>3. Serve(h, w) /\ UNCHANGED <<onFile, stripe, events, handled>>
      BY <1>12, <2>1 DEF w, ReadForDowngrade
    <3> QED  BY <1>2, <1>8, <2>1, <3>1, <3>2, <3>3
  <2>2. CASE onFile # s
    BY <1>7, <1>12, <2>2 DEF ReadForDowngrade, Deliverable
  <2> QED  BY <2>1, <2>2
<1>13. ASSUME NEW h \in Handler, NEW s \in Subscription, Downgrade(h, s)
       PROVE  EndsAreTrue' /\ ReadsAreCurrent'
  <2>1. onFile = s /\ stripe[s] = "cancelled"
    BY <1>1, <1>13, EventsDiffer DEF Downgrade, ReadsAreCurrent
  <2>2. EndsAreTrue'
    BY <1>1, <1>13, <2>1, EventsDiffer DEF Downgrade, Answer, EndsAreTrue
  <2> QED  BY <1>3, <1>13, <2>2 DEF Downgrade, Answer
<1>14. ASSUME NEW h \in Handler, Throws(h)
       PROVE  EndsAreTrue' /\ ReadsAreCurrent'
  BY <1>3, <1>8, <1>14 DEF Throws
<1> QED
  BY <1>4, <1>5, <1>6, <1>9, <1>10, <1>11, <1>12, <1>13, <1>14
     DEF Next, HandleCompleted, HandleDeleted

LEMMA DeliveryInvariance ==
    ASSUME OneDelivery
    PROVE  Spec => []DeliveryInv
<1>1. Init => DeliveryInv
  BY AtRestRests DEF Init, DeliveryInv, TypeInv, TypeOK, StaleIsKnown, EndsAreTrue, ReadsAreCurrent
<1>2. DeliveryInv /\ [Next]_vars => DeliveryInv'
  BY DeliveryStep
<1> QED  BY <1>1, <1>2, PTL DEF Spec

(* The user leaves pro only by the end of the subscription on file: every  *)
(* other write sets pro, and an end is delivered only of what has ended    *)
(* (handleSubscriptionDeleted in webhook/route.ts).                        *)
THEOREM DowngradesAreDue ==
    ASSUME OneDelivery
    PROVE  Spec => DowngradedOnlyWhenEnded
<1>1. DeliveryInv /\ [Next]_vars =>
         [plan = "pro" /\ plan' # "pro" => stripe[onFile] = "cancelled"]_vars
  <2> SUFFICES ASSUME DeliveryInv, Next, plan = "pro", plan' # "pro"
               PROVE  stripe[onFile] = "cancelled"
    BY DEF vars
  <2>1. PICK h \in Handler, s \in Subscription : Downgrade(h, s)
    BY DEF Next, HandleCompleted, HandleDeleted, StartCheckout, Pay, End, Redeliver,
           ReadForUpgrade, Upgrade, CancelStale, ReadForDowngrade, Throws
  <2> QED  BY <2>1 DEF DeliveryInv, ReadsAreCurrent, Downgrade
<1> QED  BY <1>1, DeliveryInvariance, PTL DEF Spec, DowngradedOnlyWhenEnded

(* The cancel never hits the subscription on file, which the same delivery *)
(* has just written (cancelSubscription in webhook/route.ts).              *)
THEOREM CancelsSpareOnFile ==
    ASSUME OneDelivery
    PROVE  Spec => CancelSparesOnFile
<1>1. DeliveryInv /\ [Next]_vars =>
         [\A h \in Handler :
             work[h].step = "cancel" /\ stripe' # stripe /\ work'[h] # work[h]
             => stripe'[onFile] = stripe[onFile]]_vars
  <2> SUFFICES ASSUME DeliveryInv, Next, NEW h \in Handler,
                      work[h].step = "cancel", stripe' # stripe, work'[h] # work[h]
               PROVE  stripe'[onFile] = stripe[onFile]
    BY DEF vars
  <2>1. PICK g \in Handler, s \in Subscription : CancelStale(g, s)
    BY DEF Next, HandleCompleted, HandleDeleted, StartCheckout, Pay, End, Redeliver,
           ReadForUpgrade, Upgrade, ReadForDowngrade, Downgrade, Throws
  <2>2. work[g].stale # onFile
    BY <2>1 DEF DeliveryInv, ReadsAreCurrent, CancelStale
  <2>3. stripe' = [stripe EXCEPT ![work[g].stale] = "cancelled"]
    BY <2>1 DEF CancelStale
  <2>4. onFile \in Subscription
    BY <2>1, EventsDiffer DEF DeliveryInv, ReadsAreCurrent, CancelStale
  <2> QED  BY <2>2, <2>3, <2>4 DEF DeliveryInv, TypeInv, TypeOK
<1> QED  BY <1>1, DeliveryInvariance, PTL DEF Spec, CancelSparesOnFile

----------------------------------------------------------------------------
(* One delivery at a time, events in order, and every failure retried.     *)

LEMMA BillingStep ==
    ASSUME OneDelivery, OnlyThrows, BillingInv, [Next]_vars
    PROVE  BillingInv'
<1> SUFFICES BilledIsKept' /\ PlanIsPaid' /\ ServesInOrder'
  BY DeliveryStep DEF BillingInv
<1>1. /\ TypeOK /\ StaleIsKnown /\ EndsAreTrue /\ ReadsAreCurrent
      /\ BilledIsKept /\ PlanIsPaid /\ ServesInOrder
  BY DEF BillingInv, DeliveryInv, TypeInv
<1>2. ASSUME NEW h \in Handler, NEW w, Serve(h, w)
      PROVE  /\ \A g \in Handler : work'[g] = w
             /\ \A g \in Handler : work[g] = work[h]
  BY <1>1, <1>2, Serving DEF OneDelivery
<1>3. CASE UNCHANGED vars
  BY <1>1, <1>3 DEF vars, BilledIsKept, PlanIsPaid, ServesInOrder
<1>4. ASSUME NEW s \in Subscription, StartCheckout(s) \/ Pay(s) \/ End(s)
      PROVE  BilledIsKept' /\ PlanIsPaid' /\ ServesInOrder'
  <2>1. /\ UNCHANGED <<plan, onFile, work>> /\ events \subseteq events'
        /\ \A t \in Subscription \ {s} : stripe'[t] = stripe[t]
        /\ \/ stripe[s] \notin {"active", "cancelled"} /\ stripe'[s] # "active" /\ events' = events
           \/ /\ stripe[s] = "open" /\ stripe'[s] = "active"
              /\ events' = events \cup {Completed(s)}
           \/ /\ stripe[s] = "active" /\ stripe'[s] = "cancelled"
              /\ events' = events \cup {Deleted(s)}
    BY <1>1, <1>4 DEF StartCheckout, Pay, End, TypeOK
  <2>2. BilledIsKept'
    BY <1>1, <2>1 DEF BilledIsKept
  <2>3. PlanIsPaid'
    BY <1>1, <2>1, EventsDiffer DEF PlanIsPaid
  <2>4. ASSUME NEW h \in Handler, work[h].step = "downgrade"
        PROVE  Completed(onFile) \notin events'
    BY <1>1, <2>1, <2>4, EventsDiffer DEF ReadsAreCurrent, ServesInOrder
  <2>5. ServesInOrder'
    BY <1>1, <2>1, <2>4 DEF ServesInOrder
  <2> QED  BY <2>2, <2>3, <2>5
<1>5. \A e \in Event : ~Redeliver(e)
  BY DEF Redeliver, OnlyThrows
<1>6. ASSUME NEW s \in Subscription, Deliverable(Deleted(s))
      PROVE  Completed(s) \notin events
  BY <1>6 DEF Deliverable, OnlyThrows
<1>7. ASSUME NEW h \in Handler, NEW s \in Subscription, ReadForUpgrade(h, s)
      PROVE  BilledIsKept' /\ PlanIsPaid' /\ ServesInOrder'
  <2>1. work[h].step = "idle" /\ Completed(s) \in events /\ UNCHANGED <<plan, onFile, stripe>>
    BY <1>7 DEF ReadForUpgrade, Deliverable
  <2>2. CASE plan = "pro" /\ onFile = s
    <3>1. events' = events \ {Completed(s)} /\ Serve(h, AtRest)
      BY <1>7, <2>2 DEF ReadForUpgrade, Answer
    <3>2. \A g \in Handler : work[g].step = "idle" /\ work'[g].step = "idle"
      BY <1>2, <2>1, <3>1, AtRestRests
    <3>3. BilledIsKept'
      BY <1>1, <2>1, <2>2, <3>1, <3>2, EventsDiffer DEF BilledIsKept
    <3>4. PlanIsPaid'
      BY <1>1, <2>1, <3>1, EventsDiffer DEF PlanIsPaid
    <3>5. ServesInOrder'
      BY <3>2 DEF ServesInOrder
    <3> QED  BY <3>3, <3>4, <3>5
  <2>3. CASE ~(plan = "pro" /\ onFile = s)
    <3> DEFINE w == [step |-> "write", event |-> Completed(s),
                     fresh |-> plan # "pro" \/ onFile = NoSubscription,
                     stale |-> IF plan = "pro" THEN onFile ELSE NoSubscription]
    <3>1. /\ w.step = "write" /\ w.event = Completed(s)
          /\ w.fresh = (plan # "pro" \/ onFile = NoSubscription)
          /\ plan = "pro" => w.stale = onFile
      OBVIOUS
    <3> HIDE DEF w
    <3>2. UNCHANGED events /\ Serve(h, w)
      BY <1>7, <2>3 DEF w, ReadForUpgrade
    <3>3. \A g \in Handler : work[g].step = "idle" /\ work'[g] = w
      BY <1>2, <2>1, <3>2
    <3>4. BilledIsKept' /\ PlanIsPaid'
      BY <1>1, <2>1, <3>2, <3>3 DEF BilledIsKept, PlanIsPaid
    <3>5. ServesInOrder'
      BY <2>1, <3>1, <3>2, <3>3 DEF ServesInOrder
    <3> QED  BY <3>4, <3>5
  <2> QED  BY <2>2, <2>3
<1>8. ASSUME NEW h \in Handler, NEW s \in Subscription, Upgrade(h, s)
      PROVE  BilledIsKept' /\ PlanIsPaid' /\ ServesInOrder'
  <2>1. /\ work[h].step = "write" /\ work[h].event = Completed(s)
        /\ plan' = "pro" /\ onFile' = s /\ UNCHANGED stripe
    BY <1>8 DEF Upgrade
  <2>2. /\ Completed(s) \in events
        /\ work[h].fresh = (plan # "pro" \/ onFile = NoSubscription)
        /\ plan = "pro" => work[h].stale = onFile
    BY <1>1, <2>1 DEF ServesInOrder
  <2>3. stripe[s] = "active" \/ Deleted(s) \in events
    BY <1>1, <2>2 DEF PlanIsPaid
  <2>4. CASE Answer(h, Completed(s)) /\ work[h].fresh
    <3>1. events' = events \ {Completed(s)} /\ Serve(h, AtRest)
      BY <2>4 DEF Answer
    <3>2. \A g \in Handler : work[g].step = "write" /\ work'[g].step = "idle"
      BY <1>2, <2>1, <3>1, AtRestRests
    <3>3. ~(plan = "pro" /\ onFile # NoSubscription)
      BY <2>2, <2>4
    <3>4. BilledIsKept'
      BY <1>1, <2>1, <3>1, <3>2, <3>3, EventsDiffer DEF BilledIsKept
    <3>5. PlanIsPaid'
      BY <1>1, <2>1, <2>3, <3>1, EventsDiffer DEF PlanIsPaid
    <3>6. ServesInOrder'
      BY <3>2 DEF ServesInOrder
    <3> QED  BY <3>4, <3>5, <3>6
  <2>5. CASE /\ Serve(h, [work[h] EXCEPT !.step = "cancel"]) /\ UNCHANGED events
             /\ ~work[h].fresh
    <3> DEFINE w == [work[h] EXCEPT !.step = "cancel"]
    <3>1. w.step = "cancel" /\ w.event = Completed(s) /\ w.stale = work[h].stale
      BY <1>1, <2>1, WorkAt
    <3> HIDE DEF w
    <3>2. \A g \in Handler : work[g].step = "write" /\ work'[g] = w
      BY <1>2, <2>1, <2>5 DEF w
    <3>3. plan = "pro" /\ w.stale = onFile
      BY <1>1, <2>1, <2>2, <2>5, <3>1, WorkAt
    <3>4. BilledIsKept'
      BY <1>1, <2>1, <2>5, <3>1, <3>2, <3>3 DEF BilledIsKept
    <3>5. PlanIsPaid'
      BY <1>1, <2>1, <2>3, <2>5 DEF PlanIsPaid
    <3>6. ServesInOrder'
      BY <2>1, <2>2, <2>5, <3>1, <3>2 DEF ServesInOrder
    <3> QED  BY <3>4, <3>5, <3>6
  <2> QED  BY <1>8, <2>4, <2>5 DEF Upgrade
<1>9. ASSUME NEW h \in Handler, NEW s \in Subscription, CancelStale(h, s)
      PROVE  BilledIsKept' /\ PlanIsPaid' /\ ServesInOrder'
  <2> DEFINE t == work[h].stale
  <2>1. /\ work[h].step = "cancel" /\ work[h].event = Completed(s)
        /\ Serve(h, AtRest) /\ UNCHANGED <<plan, onFile>>
    BY <1>9 DEF CancelStale
  <2>2. t \in Subscription /\ onFile = s /\ t # s /\ plan = "pro"
    BY <1>1, <2>1, EventsDiffer DEF StaleIsKnown, ReadsAreCurrent, ServesInOrder
  <2>3. /\ stripe'[t] = "cancelled" /\ \A u \in Subscription \ {t} : stripe'[u] = stripe[u]
        /\ \A u \in Subscription \ {s} : Completed(u) \in events' <=> Completed(u) \in events
        /\ Completed(s) \notin events'
        /\ \A u \in Subscription : Deleted(u) \in events => Deleted(u) \in events'
        /\ stripe[t] = "active" => Deleted(t) \in events'
    BY <1>1, <1>9, <2>2, EventsDiffer DEF CancelStale, TypeOK, OnlyThrows
  <2>4. \A g \in Handler : work[g] = work[h] /\ work'[g].step = "idle"
    BY <1>2, <2>1, AtRestRests
  <2> HIDE DEF t
  <2>5. BilledIsKept'
    BY <1>1, <2>1, <2>2, <2>3, <2>4 DEF t, BilledIsKept
  <2>6. PlanIsPaid'
    BY <1>1, <2>1, <2>2, <2>3 DEF PlanIsPaid
  <2>7. ServesInOrder'
    BY <2>4 DEF ServesInOrder
  <2> QED  BY <2>5, <2>6, <2>7
<1>10. ASSUME NEW h \in Handler, NEW s \in Subscription, ReadForDowngrade(h, s)
       PROVE  BilledIsKept' /\ PlanIsPaid' /\ ServesInOrder'
  <2>1. /\ work[h].step = "idle" /\ Deleted(s) \in events /\ Completed(s) \notin events
        /\ UNCHANGED <<plan, onFile, stripe>>
    BY <1>6, <1>10 DEF ReadForDowngrade, Deliverable
  <2>2. CASE onFile = s
    <3> DEFINE w == [step |-> "downgrade", event |-> Deleted(s),
                     fresh |-> FALSE, stale |-> NoSubscription]
    <3>1. w.step = "downgrade" /\ w.event = Deleted(s)
      OBVIOUS
    <3> HIDE DEF w
    <3>2. UNCHANGED events /\ Serve(h, w)
      BY <1>10, <2>2 DEF w, ReadForDowngrade
    <3>3. \A g \in Handler : work[g].step = "idle" /\ work'[g] = w
      BY <1>2, <2>1, <3>2
    <3>4. BilledIsKept' /\ PlanIsPaid'
      BY <1>1, <2>1, <3>2, <3>3 DEF BilledIsKept, PlanIsPaid
    <3>5. ServesInOrder'
      BY <2>1, <2>2, <3>1, <3>2, <3>3 DEF ServesInOrder
    <3> QED  BY <3>4, <3>5
  <2>3. CASE onFile # s
    <3>1. events' = events \ {Deleted(s)} /\ Serve(h, AtRest)
      BY <1>10, <2>3 DEF ReadForDowngrade, Answer
    <3>2. \A g \in Handler : work[g].step = "idle" /\ work'[g].step = "idle"
      BY <1>2, <2>1, <3>1, AtRestRests
    <3>3. BilledIsKept'
      BY <1>1, <2>1, <3>1, <3>2, EventsDiffer DEF BilledIsKept
    <3>4. PlanIsPaid'
      BY <1>1, <2>1, <2>3, <3>1, EventsDiffer DEF PlanIsPaid
    <3>5. ServesInOrder'
      BY <3>2 DEF ServesInOrder
    <3> QED  BY <3>3, <3>4, <3>5
  <2> QED  BY <2>2, <2>3
<1>11. ASSUME NEW h \in Handler, NEW s \in Subscription, Downgrade(h, s)
       PROVE  BilledIsKept' /\ PlanIsPaid' /\ ServesInOrder'
  <2>1. /\ work[h].step = "downgrade" /\ Serve(h, AtRest)
        /\ events' = events \ {Deleted(s)} /\ plan' = "free" /\ UNCHANGED <<onFile, stripe>>
    BY <1>11 DEF Downgrade, Answer
  <2>2. onFile = s /\ stripe[s] = "cancelled" /\ Completed(s) \notin events
    BY <1>1, <1>11, <2>1, EventsDiffer DEF Downgrade, ReadsAreCurrent, ServesInOrder
  <2>3. \A g \in Handler : work[g] = work[h] /\ work'[g].step = "idle"
    BY <1>2, <2>1, AtRestRests
  <2>4. BilledIsKept'
    BY <1>1, <2>1, <2>2, <2>3, EventsDiffer DEF BilledIsKept
  <2>5. PlanIsPaid'
    BY <1>1, <2>1, <2>2, EventsDiffer DEF PlanIsPaid
  <2>6. ServesInOrder'
    BY <2>3 DEF ServesInOrder
  <2> QED  BY <2>4, <2>5, <2>6
<1>12. ASSUME NEW h \in Handler, Throws(h)
       PROVE  BilledIsKept' /\ PlanIsPaid' /\ ServesInOrder'
  <2>1. /\ work[h].step \in {"write", "downgrade"} /\ Serve(h, AtRest)
        /\ UNCHANGED <<plan, onFile, stripe, events>>
    BY <1>12 DEF Throws, OnlyThrows
  <2>2. \A g \in Handler : work[g] = work[h] /\ work'[g].step = "idle"
    BY <1>2, <2>1, AtRestRests
  <2>3. BilledIsKept' /\ PlanIsPaid'
    BY <1>1, <2>1, <2>2 DEF BilledIsKept, PlanIsPaid
  <2>4. ServesInOrder'
    BY <2>2 DEF ServesInOrder
  <2> QED  BY <2>3, <2>4
<1> QED
  BY <1>3, <1>4, <1>5, <1>7, <1>8, <1>9, <1>10, <1>11, <1>12
     DEF Next, HandleCompleted, HandleDeleted

(* Once every event is answered the user is on pro exactly when Stripe     *)
(* bills a subscription, the one on file: with one delivery at a time, in  *)
(* order, a replaced subscription is always cancelled and a handler that   *)
(* throws is retried (webhook/route.ts, quota.ts).                         *)
THEOREM BillingAgrees ==
    ASSUME OneDelivery, OnlyThrows
    PROVE  Spec => []BilledIsOnFile
<1>1. Init => BillingInv
  BY AtRestRests
     DEF Init, BillingInv, DeliveryInv, TypeInv, TypeOK, StaleIsKnown, EndsAreTrue,
         ReadsAreCurrent, BilledIsKept, PlanIsPaid, ServesInOrder
<1>2. BillingInv /\ [Next]_vars => BillingInv'
  BY BillingStep
<1>3. BillingInv => BilledIsOnFile
  BY AtRestRests DEF BillingInv, BilledIsKept, PlanIsPaid, BilledIsOnFile, Quiet
<1> QED  BY <1>1, <1>2, <1>3, PTL DEF Spec
===============================================================================
