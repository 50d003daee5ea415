\* One delivery at a time under every fault: duplicates, reordering, lost cancels.
CONSTANTS
    a = a  b = b  c = c  h1 = h1  h2 = h2
    Subscription = {a, b, c}
    NoSubscription = NoSubscription
    Handler = {h1}
    Faults = {"throw", "stop", "refuse", "duplicate", "reorder"}
SPECIFICATION Spec
INVARIANTS TypeOK
PROPERTIES DowngradedOnlyWhenEnded CancelSparesOnFile
\* The user may have ended every subscription, with nothing left to deliver.
CHECK_DEADLOCK FALSE
