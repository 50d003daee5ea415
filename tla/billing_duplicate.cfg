\* Expected violation: an event is delivered again after the subscription it paid was replaced.
CONSTANTS
    a = a  b = b  c = c  h1 = h1  h2 = h2
    Subscription = {a, b}
    NoSubscription = NoSubscription
    Handler = {h1}
    Faults = {"duplicate"}
SPECIFICATION Spec
PROPERTIES DuplicatesAreBenign
