\* Expected violation: a decision taken on a stale read requeues a row in work.
CONSTANTS
    g1 = g1  w1 = w1  w2 = w2  r1 = r1  r2 = r2
    Submission = {1}
    Slug = {g1}
    SlugOf <- OneSlug
    Worker = {w1, w2}
    Reviewer = {r1, r2}
    Ops = {"approve"}
    Faults = {}
    MaxTotalAttempts = 3
    BuildPathRetired = FALSE
SPECIFICATION Spec
INVARIANTS SingleHolder
