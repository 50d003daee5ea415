\* Expected violation: a built or rejected row is taken out of its terminal state.
CONSTANTS
    g1 = g1  w1 = w1  w2 = w2  r1 = r1  r2 = r2
    Submission = {1}
    Slug = {g1}
    SlugOf <- OneSlug
    Worker = {w1, w2}
    Reviewer = {r1}
    Ops = {"approve", "reject"}
    Faults = {}
    MaxTotalAttempts = 3
    BuildPathRetired = TRUE
SPECIFICATION Spec
PROPERTIES TerminalIsFinal
