------------------------ MODULE MCSubmissionPipeline -------------------------
(* Values of the pipeline's constants for TLC.                             *)
EXTENDS SubmissionPipeline, TLC

CONSTANTS g1, w1, w2, r1, r2

OneSlug   == [s \in Submission |-> g1]
Permuted  == Permutations({w1, w2}) \cup Permutations({r1, r2})
PermutedW == Permutations({w1, w2})

=============================================================================
