\* Expected violation: the row of a crashed worker stays in building.
CONSTANTS
    g1 = g1  w1 = w1  w2 = w2  r1 = r1  r2 = r2
    Submission = {1}
    Slug = {g1}
    SlugOf <- OneSlug
    Worker = {w1, w2}
    Reviewer = {r1}
    Ops = {"approve"}
    Faults = {"crash"}
    MaxTotalAttempts = 3
    BuildPathRetired = TRUE
SPECIFICATION FairSpec
PROPERTIES CrashedBuildIsRetried
