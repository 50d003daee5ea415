\* Two approvals at a time of two submissions that ask for one slug, and
\* database calls whose outcome is unknown.
CONSTANTS
    g1 = g1  w1 = w1  w2 = w2  r1 = r1  r2 = r2
    Submission = {1, 2}
    Slug = {g1}
    SlugOf <- OneSlug
    Worker = {w1, w2}
    Reviewer = {r1, r2}
    Ops = {"approve"}
    Faults = {"crash", "database", "ack"}
    MaxTotalAttempts = 1
    BuildPathRetired = FALSE
SYMMETRY Permuted
SPECIFICATION Spec
INVARIANTS BuildingIsHeld BuiltIsAccounted PublishedWasApproved
PROPERTIES FirstPublisherKeepsSlug
