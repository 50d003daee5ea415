\* The code as it ships: the build path is retired, leftover rows are
\* drained, and review requests may be cut short.
CONSTANTS
    g1 = g1  w1 = w1  w2 = w2  r1 = r1  r2 = r2
    Submission = {1, 2}
    Slug = {g1}
    SlugOf <- OneSlug
    Worker = {w1, w2}
    Reviewer = {r1}
    Ops = {"approve", "reject"}
    Faults = {"request"}
    MaxTotalAttempts = 2
    BuildPathRetired = TRUE
SPECIFICATION FairSpec
INVARIANTS NothingBuilt
PROPERTIES LeftoversDrain
