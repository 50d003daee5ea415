CONSTANTS
    Member = {u1, u2}
    Publisher = {u1, u2}
    Post = {r1}
    Name = {n1}
    Upload = {i1}
    Digest = {d1, d2}
    Nothing = none
    FreePublicLimit = 1
    ProPrivateLimit = 1
    DockerfileSubmissions = TRUE
SPECIFICATION IntakeSpec
INVARIANT FileIsSubmitters
\* Nobody has to submit or upload again.
CHECK_DEADLOCK FALSE
