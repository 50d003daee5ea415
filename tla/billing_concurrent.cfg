\* Expected violation: two deliveries at a time.
CONSTANTS
    a = a  b = b  c = c  h1 = h1  h2 = h2
    Subscription = {a, b}
    NoSubscription = NoSubscription
    Handler = {h1, h2}
    Faults = {}
SPECIFICATION Spec
INVARIANTS FreshUpgradeIsAlone
