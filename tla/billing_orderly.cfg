\* One delivery at a time, in order per subscription; failed deliveries are retried.
CONSTANTS
    a = a  b = b  c = c  h1 = h1  h2 = h2
    Subscription = {a, b, c}
    NoSubscription = NoSubscription
    Handler = {h1}
    Faults = {"throw"}
SPECIFICATION FairSpec
INVARIANTS BilledIsOnFile
PROPERTIES PaidIsHonoured
\* The user may have ended every subscription, with nothing left to deliver.
CHECK_DEADLOCK FALSE
