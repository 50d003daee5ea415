\* One review request at a time, two workers; crashes and failing database calls.
CONSTANTS
    g1 = g1  w1 = w1  w2 = w2  r1 = r1  r2 = r2
    Submission = {1}
    Slug = {g1}
    SlugOf <- OneSlug
    Worker = {w1, w2}
    Reviewer = {r1}
    Ops = {"approve", "reject", "request_changes", "retry"}
    Faults = {"crash", "database"}
    MaxTotalAttempts = 3
    BuildPathRetired = FALSE
SYMMETRY PermutedW
SPECIFICATION Spec
INVARIANTS TypeOK SingleHolder AttemptCountIsFailures DecisionAudited DeadLetterExhausted
PROPERTIES RejectionStands SubmitterFailureStands ImplementsQueue
