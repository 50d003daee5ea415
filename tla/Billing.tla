-------------------------------- MODULE Billing ------------------------------
(***************************************************************************)
(* The paid plan of one user: checkout sessions, the subscriptions Stripe  *)
(* keeps, and the webhook that copies what Stripe says into the User row.  *)
(* Users do not interact: a session carries its user's id, and             *)
(* stripeSubscriptionId is unique.                                         *)
(*                                                                         *)
(* Stripe delivers an event at least once.  Its own part (it sends one     *)
(* event when a subscription is paid and one when it ends) is external.    *)
(* The webhook's reads and writes are separate steps: upgradeUserPlan runs *)
(* in a transaction at the default Read Committed, which takes no lock on  *)
(* what findUnique reads.  A subscription has one customer, so the handler *)
(* compares subscriptions where the code compares both ids.                *)
(***************************************************************************)
EXTENDS FiniteSets

CONSTANTS Subscription,   \* the checkout sessions the user may start
          NoSubscription,
          Handler,        \* webhook requests in flight at a time
          Faults          \* what may go wrong in this instance

AllFaults ==
    {"throw",       \* a handler throws before its write: 500, retried later
     "stop",        \* a handler stops between its write and the cancel
     "refuse",      \* Stripe's API does not take the cancel
     "duplicate",   \* an event that was answered with 200 is delivered again
     "reorder"}     \* "deleted" is delivered before "completed"

ASSUME NoSubscriptionAssumption == NoSubscription \notin Subscription
ASSUME BillingFaultsAssumption  == Faults \subseteq AllFaults

VARIABLES plan,      \* User.plan
          onFile,    \* User.stripeSubscriptionId
          stripe,    \* stripe[s]: what Stripe knows of s
          events,    \* events Stripe has still to see answered with 200
          handled,   \* history: events answered with 200
          work       \* work[h]: the delivery h is serving

vars == <<plan, onFile, stripe, events, handled, work>>

Event == {"completed", "deleted"} \X Subscription

Completed(s) == <<"completed", s>>
Deleted(s)   == <<"deleted", s>>

\* fresh: the row had no plan to replace when it was read; stale: what to cancel.
AtRest == [step |-> "idle", event |-> <<>>, fresh |-> FALSE, stale |-> NoSubscription]

WorkState == [step  : {"write", "cancel", "downgrade"},
              event : Event,
              fresh : BOOLEAN,
              stale : Subscription \cup {NoSubscription}] \cup {AtRest}

(* The type of the user row, of Stripe's records and of the deliveries.    *)
TypeOK ==
    /\ plan \in {"free", "pro"}
    /\ onFile \in Subscription \cup {NoSubscription}
    /\ stripe \in [Subscription -> {"none", "open", "active", "cancelled"}]
    /\ events \subseteq Event
    /\ handled \subseteq Event
    /\ work \in [Handler -> WorkState]

Init ==
    /\ plan = "free"
    /\ onFile = NoSubscription
    /\ stripe = [s \in Subscription |-> "none"]
    /\ events = {}
    /\ handled = {}
    /\ work = [h \in Handler |-> AtRest]

----------------------------------------------------------------------------
(* The user and Stripe.                                                    *)

\* POST create-checkout-session: refused to a user who is already on pro.
StartCheckout(s) ==
    /\ plan # "pro"
    /\ stripe[s] = "none"
    /\ stripe' = [stripe EXCEPT ![s] = "open"]
    /\ UNCHANGED <<plan, onFile, events, handled, work>>

\* The user pays in the hosted checkout.
Pay(s) ==
    /\ stripe[s] = "open"
    /\ stripe' = [stripe EXCEPT ![s] = "active"]
    /\ events' = events \cup {Completed(s)}
    /\ UNCHANGED <<plan, onFile, handled, work>>

\* The user ends a subscription in the portal, or dunning is exhausted.
End(s) ==
    /\ stripe[s] = "active"
    /\ stripe' = [stripe EXCEPT ![s] = "cancelled"]
    /\ events' = events \cup {Deleted(s)}
    /\ UNCHANGED <<plan, onFile, handled, work>>

Redeliver(e) ==
    /\ "duplicate" \in Faults
    /\ e \in handled \ events
    /\ events' = events \cup {e}
    /\ UNCHANGED <<plan, onFile, stripe, handled, work>>

\* Which event may be delivered now.
Deliverable(e) ==
    /\ e \in events
    /\ "duplicate" \in Faults \/ \A h \in Handler : work[h].event # e
    /\ \/ "reorder" \in Faults
       \/ \A s \in Subscription : e = Deleted(s) => Completed(s) \notin events

----------------------------------------------------------------------------
(* The webhook.                                                            *)

Serve(h, w) == work' = [work EXCEPT ![h] = w]

\* 200: Stripe is done with the event.
Answer(h, e) ==
    /\ Serve(h, AtRest)
    /\ events' = events \ {e}
    /\ handled' = handled \cup {e}

\* Mutant: an upgrade that is already in place is taken for a replacement.
ReadWithoutAlreadyCurrent(h, s) ==
    /\ work[h].step = "idle"
    /\ Deliverable(Completed(s))
    /\ Serve(h, [step |-> "write", event |-> Completed(s),
                 fresh |-> plan # "pro" \/ onFile = NoSubscription,
                 stale |-> IF plan = "pro" THEN onFile ELSE NoSubscription])
    /\ UNCHANGED <<plan, onFile, stripe, events, handled>>

\* upgradeUserPlan's findUnique: no-op, fresh upgrade, or replacement.
ReadForUpgrade(h, s) ==
    /\ work[h].step = "idle"
    /\ Deliverable(Completed(s))
    /\ IF plan = "pro" /\ onFile = s
       THEN Answer(h, Completed(s))
       ELSE /\ Serve(h, [step |-> "write", event |-> Completed(s),
                         fresh |-> plan # "pro" \/ onFile = NoSubscription,
                         stale |-> IF plan = "pro" THEN onFile ELSE NoSubscription])
            /\ UNCHANGED <<events, handled>>
    /\ UNCHANGED <<plan, onFile, stripe>>

\* Mutant: a replaced subscription is not cancelled.
UpgradeOnly(h, s) ==
    /\ work[h].step = "write"
    /\ work[h].event = Completed(s)
    /\ plan' = "pro"
    /\ onFile' = s
    /\ Answer(h, Completed(s))
    /\ UNCHANGED stripe

\* user.update, whatever the row holds by now, and the commit.
Upgrade(h, s) ==
    /\ work[h].step = "write"
    /\ work[h].event = Completed(s)
    /\ plan' = "pro"
    /\ onFile' = s
    /\ IF work[h].fresh
       THEN Answer(h, Completed(s))
       ELSE Serve(h, [work[h] EXCEPT !.step = "cancel"]) /\ UNCHANGED <<events, handled>>
    /\ UNCHANGED stripe

\* cancelSubscription(stale).  A failure is logged, and the answer is 200.
CancelStale(h, s) ==
    LET stale == work[h].stale IN
    /\ work[h].step = "cancel"
    /\ work[h].event = Completed(s)
    /\ Serve(h, AtRest)
    /\ handled' = handled \cup {Completed(s)}
    /\ \/ /\ stripe[stale] = "active"
          /\ stripe' = [stripe EXCEPT ![stale] = "cancelled"]
          /\ events' = (events \ {Completed(s)}) \cup {Deleted(stale)}
       \/ /\ "refuse" \in Faults \/ stripe[stale] = "cancelled"
          /\ events' = events \ {Completed(s)}
          /\ UNCHANGED stripe
    /\ UNCHANGED <<plan, onFile>>

\* Mutant: any subscription's end is taken for the end of the user's plan.
ReadAnyEnd(h, s) ==
    /\ work[h].step = "idle"
    /\ Deliverable(Deleted(s))
    /\ Serve(h, [step |-> "downgrade", event |-> Deleted(s),
                 fresh |-> FALSE, stale |-> NoSubscription])
    /\ UNCHANGED <<plan, onFile, stripe, events, handled>>

\* handleSubscriptionDeleted finds the user by subscription, if at all.
ReadForDowngrade(h, s) ==
    /\ work[h].step = "idle"
    /\ Deliverable(Deleted(s))
    /\ IF onFile = s
       THEN /\ Serve(h, [step |-> "downgrade", event |-> Deleted(s),
                         fresh |-> FALSE, stale |-> NoSubscription])
            /\ UNCHANGED <<events, handled>>
       ELSE Answer(h, Deleted(s))
    /\ UNCHANGED <<plan, onFile, stripe>>

\* Mutant: the subscription's status is written into the plan column.
DowngradeToStatus(h, s) ==
    /\ work[h].step = "downgrade"
    /\ work[h].event = Deleted(s)
    /\ plan' = "cancelled"
    /\ Answer(h, Deleted(s))
    /\ UNCHANGED <<onFile, stripe>>

\* downgradeUserPlan, by user id; the Stripe ids stay on the row.
Downgrade(h, s) ==
    /\ work[h].step = "downgrade"
    /\ work[h].event = Deleted(s)
    /\ plan' = "free"
    /\ Answer(h, Deleted(s))
    /\ UNCHANGED <<onFile, stripe>>

\* Mutant: a handler that failed answers 200.
ThrowsQuietly(h) ==
    /\ "throw" \in Faults
    /\ work[h].step \in {"write", "downgrade"}
    /\ Answer(h, work[h].event)
    /\ UNCHANGED <<plan, onFile, stripe>>

\* The handler throws and answers 500; or the function is stopped after its
\* write, before the cancel.  Stripe will deliver the event again.
Throws(h) ==
    /\ \/ "throw" \in Faults /\ work[h].step \in {"write", "downgrade"}
       \/ "stop" \in Faults /\ work[h].step = "cancel"
    /\ Serve(h, AtRest)
    /\ UNCHANGED <<plan, onFile, stripe, events, handled>>

----------------------------------------------------------------------------
HandleCompleted(h, s) == ReadForUpgrade(h, s) \/ Upgrade(h, s) \/ CancelStale(h, s)
HandleDeleted(h, s)   == ReadForDowngrade(h, s) \/ Downgrade(h, s)

Next ==
    \/ \E s \in Subscription : StartCheckout(s) \/ Pay(s) \/ End(s)
    \/ \E e \in Event : Redeliver(e)
    \/ \E h \in Handler, s \in Subscription : HandleCompleted(h, s) \/ HandleDeleted(h, s)
    \/ \E h \in Handler : Throws(h)

Spec == Init /\ [][Next]_vars

(* Stripe keeps delivering what was not answered with 200, and a handler   *)
(* that fails does not fail every time: for each subscription, strong      *)
(* fairness of taking up its events and of the write and the cancel that   *)
(* follow.  The user owes the system nothing.                              *)
FairSpec ==
    /\ Spec
    /\ \A h \in Handler, s \in Subscription :
          /\ SF_vars(ReadForUpgrade(h, s) \/ ReadForDowngrade(h, s))
          /\ SF_vars(Upgrade(h, s) \/ CancelStale(h, s) \/ Downgrade(h, s))

----------------------------------------------------------------------------
Quiet == events = {} /\ \A h \in Handler : work[h] = AtRest

(* Once every event is answered, the user is on pro exactly when Stripe    *)
(* bills a subscription, and that one only: the one on file.  A second     *)
(* subscription that is still billed is, in the code's words, "a           *)
(* real-money bug" (webhook/route.ts:186-187).                             *)
BilledIsOnFile ==
    Quiet => \A s \in Subscription :
                stripe[s] = "active" <=> plan = "pro" /\ onFile = s

(* A user is taken off pro only when the subscription on file has ended.   *)
DowngradedOnlyWhenEnded ==
    [][plan = "pro" /\ plan' # "pro" => stripe[onFile] = "cancelled"]_vars

(* The webhook never cancels the subscription the user is on, although it  *)
(* reads which one to cancel before it writes which one to keep: not even  *)
(* when the event that installed it is served twice or out of order.       *)
CancelSparesOnFile ==
    [][\A h \in Handler :
          work[h].step = "cancel" /\ stripe' # stripe /\ work'[h] # work[h]
          => stripe'[onFile] = stripe[onFile]]_vars

(* A subscription that is paid gets the user onto pro, unless it ends or   *)
(* is cancelled as one of two.                                             *)
PaidIsHonoured ==
    \A s \in Subscription :
        stripe[s] = "active" ~> stripe[s] # "active" \/ (plan = "pro" /\ onFile = s)

(* "So duplicate deliveries are benign" (webhook/route.ts:43-49): serving  *)
(* an event again changes nothing.                                         *)
DuplicatesAreBenign ==
    [][\A h \in Handler :
          work[h].event \in handled /\ work'[h] # work[h]
          => UNCHANGED <<plan, onFile, stripe>>]_vars

(* "two concurrent webhook deliveries can't both read 'no existing sub'    *)
(* and both think they're the fresh upgrade" (quota.ts:284-286).           *)
FreshUpgradeIsAlone ==
    \A g, h \in Handler :
        /\ g # h
        /\ work[g].step = "write" /\ work[g].fresh
        /\ work[h].step = "write" /\ work[h].fresh
        => work[g].event = work[h].event

=============================================================================
