-------------------------------- MODULE Reviews -------------------------------
(***************************************************************************)
(* One author's review of one module.  The author edits it, anyone flags   *)
(* it, administrators hide it and show it again.  upsertReview is a read,  *)
(* a write and, for a flagged row, a second write by id.  Ratings and      *)
(* texts are left out: the last write of a column wins.                    *)
(***************************************************************************)
EXTENDS FiniteSets

CONSTANTS Edit     \* upsertReview calls in flight

VARIABLES mode,       \* ModuleReview.moderation, or "none"
          hiddenBy,   \* ModuleReview.hiddenById is set
          edit,       \* edit[e]: where the call is, and whether it saw a row
          hideStands, \* history: an administrator hid the review and none showed it
          slipped     \* history: the hide landed between an edit's two writes

reviewVars == <<mode, hiddenBy, edit, hideStands, slipped>>

NotEditing == [step |-> "idle", existing |-> FALSE]

ReviewTypeOK ==
    /\ mode \in {"none", "visible", "flagged", "hidden"}
    /\ hiddenBy \in BOOLEAN
    /\ edit \in [Edit -> [step : {"idle", "write", "reset"}, existing : BOOLEAN]]
    /\ hideStands \in BOOLEAN
    /\ slipped \in BOOLEAN

ReviewInit ==
    /\ mode = "none"
    /\ hiddenBy = FALSE
    /\ edit = [e \in Edit |-> NotEditing]
    /\ hideStands = FALSE
    /\ slipped = FALSE

----------------------------------------------------------------------------
\* The module is there and is not the author's own; moduleReview.findUnique.
LookUpReview(e) ==
    /\ edit[e] = NotEditing
    /\ edit' = [edit EXCEPT ![e] = [step |-> "write", existing |-> mode # "none"]]
    /\ UNCHANGED <<mode, hiddenBy, hideStands, slipped>>

\* Mutant: every edit makes the review visible again.
WriteReviewAfresh(e) ==
    /\ edit[e].step = "write"
    /\ mode' = "visible"
    /\ edit' = [edit EXCEPT ![e] = NotEditing]
    /\ UNCHANGED <<hiddenBy, hideStands, slipped>>

\* moduleReview.upsert leaves the moderation of a row that is there alone,
\* and goes by what it returned.
WriteReview(e) ==
    /\ edit[e].step = "write"
    /\ mode' = IF mode = "none" THEN "visible" ELSE mode
    /\ edit' = [edit EXCEPT ![e] = IF edit[e].existing /\ mode = "flagged"
                                   THEN [@ EXCEPT !.step = "reset"] ELSE NotEditing]
    /\ UNCHANGED <<hiddenBy, hideStands, slipped>>

\* moduleReview.update by id, whatever the moderation is by now.
ResetFlag(e) ==
    /\ edit[e].step = "reset"
    /\ mode' = "visible"
    /\ edit' = [edit EXCEPT ![e] = NotEditing]
    /\ UNCHANGED <<hiddenBy, hideStands, slipped>>

\* Mutant: a hidden review can be flagged.
FlagAny ==
    /\ mode # "none"
    /\ mode' = "flagged"
    /\ UNCHANGED <<hiddenBy, edit, hideStands, slipped>>

\* flagReview: updateMany where not hidden.
Flag ==
    /\ mode \in {"visible", "flagged"}
    /\ mode' = "flagged"
    /\ UNCHANGED <<hiddenBy, edit, hideStands, slipped>>

\* setModeration.
Hide ==
    /\ mode # "none"
    /\ mode' = "hidden"
    /\ hiddenBy' = TRUE
    /\ hideStands' = TRUE
    /\ slipped' = \E e \in Edit : edit[e].step = "reset"
    /\ UNCHANGED edit

Show ==
    /\ mode # "none"
    /\ mode' = "visible"
    /\ hiddenBy' = FALSE
    /\ hideStands' = FALSE
    /\ slipped' = FALSE
    /\ UNCHANGED edit

ReviewNext ==
    \/ \E e \in Edit : LookUpReview(e) \/ WriteReview(e) \/ ResetFlag(e)
    \/ Flag \/ Hide \/ Show

ReviewSpec == ReviewInit /\ [][ReviewNext]_reviewVars

----------------------------------------------------------------------------
(* "Reset flagged back to visible.  Keep hidden as hidden"                 *)
(* (reviews.ts:255): what an administrator hid stays hidden through every  *)
(* edit and flag until one shows it, but for a hide that landed between    *)
(* the two writes of an edit, which that edit undoes.                      *)
HideStands == hideStands => mode = "hidden" \/ slipped

=============================================================================
