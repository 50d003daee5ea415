------------------------------ MODULE AccountKeys -----------------------------
(***************************************************************************)
(* One user's account, browser session and API keys.  Deletion is a        *)
(* transaction of three statements, at Read Committed; keys are minted     *)
(* from the settings page and by `flareo login` through cli-exchange,      *)
(* which does not look at deletedAt.  Sessions are JWTs: the rows that the *)
(* deletion removes play no part, and restoreAccount is never called.      *)
(***************************************************************************)
EXTENDS FiniteSets

CONSTANTS Key

VARIABLES email,      \* User.email is set
          deletedAt,  \* "no", "recent" (30 days), "old"
          signedIn,   \* a JWT of the user is about
          key,        \* ApiKey rows
          deletion,   \* the statements done by softDeleteAccount
          swept,      \* the keys its updateMany found
          byHand,     \* history: keys that revokeApiKey revoked
          after       \* history: keys minted since that updateMany

accountVars == <<email, deletedAt, signedIn, key, deletion, swept, byHand, after>>

AccountTypeOK ==
    /\ email \in BOOLEAN
    /\ deletedAt \in {"no", "recent", "old"}
    /\ signedIn \in BOOLEAN
    /\ key \in [Key -> {"none", "live", "revoked"}]
    /\ deletion \in {"idle", "marked", "revoked"}
    /\ swept \subseteq Key /\ byHand \subseteq Key /\ after \subseteq Key

AccountInit ==
    /\ email \in BOOLEAN
    /\ deletedAt = "no"
    /\ signedIn = FALSE
    /\ key = [k \in Key |-> "none"]
    /\ deletion = "idle"
    /\ swept = {} /\ byHand = {} /\ after = {}

Live == {k \in Key : key[k] = "live"}

----------------------------------------------------------------------------
\* The signIn callback lets a deleted user in for 30 days, and one whose
\* e-mail is not known for ever.
SignIn ==
    /\ ~signedIn
    /\ deletedAt # "old" \/ ~email
    /\ signedIn' = TRUE
    /\ UNCHANGED <<email, deletedAt, key, deletion, swept, byHand, after>>

\* The cookie is cleared or its time is up.
SignOut ==
    /\ signedIn
    /\ signedIn' = FALSE
    /\ UNCHANGED <<email, deletedAt, key, deletion, swept, byHand, after>>

Mint(k) ==
    /\ key[k] = "none"
    /\ key' = [key EXCEPT ![k] = "live"]
    /\ after' = IF deletion = "revoked" \/ deletedAt # "no" THEN after \cup {k} ELSE after
    /\ UNCHANGED <<email, deletedAt, signedIn, deletion, swept, byHand>>

\* keys/new asks for a session only, cli-exchange for a GitHub token.
CreateApiKey(k) == signedIn /\ Mint(k)
CliExchange(k) == Mint(k)

\* revokeApiKey; on a key the open transaction has locked it waits for it.
RevokeApiKey(k) ==
    /\ signedIn /\ key[k] = "live"
    /\ k \notin swept
    /\ key' = [key EXCEPT ![k] = "revoked"]
    /\ byHand' = byHand \cup {k}
    /\ UNCHANGED <<email, deletedAt, signedIn, deletion, swept, after>>

----------------------------------------------------------------------------
(* softDeleteAccount; nobody sees its writes before the commit.            *)

MarkDeleted ==
    /\ signedIn /\ deletion = "idle"
    /\ deletion' = "marked"
    /\ UNCHANGED <<email, deletedAt, signedIn, key, swept, byHand, after>>

\* Mutant: the keys are revoked outside the transaction.
RevokeAllAtOnce ==
    /\ deletion = "marked"
    /\ deletion' = "revoked"
    /\ key' = [k \in Key |-> IF k \in Live THEN "revoked" ELSE key[k]]
    /\ swept' = Live
    /\ UNCHANGED <<email, deletedAt, signedIn, byHand, after>>

RevokeAll ==
    /\ deletion = "marked"
    /\ deletion' = "revoked"
    /\ swept' = Live
    /\ UNCHANGED <<email, deletedAt, signedIn, key, byHand, after>>

\* session.deleteMany, which signs nobody out, and the commit.
CommitDeletion ==
    /\ deletion = "revoked"
    /\ deletion' = "idle"
    /\ deletedAt' = "recent"
    /\ key' = [k \in Key |-> IF k \in swept THEN "revoked" ELSE key[k]]
    /\ swept' = {}
    /\ UNCHANGED <<email, signedIn, byHand, after>>

\* An error in any statement, or a function that is stopped.
RollBack ==
    /\ deletion # "idle"
    /\ deletion' = "idle"
    /\ swept' = {}
    /\ after' = IF deletedAt = "no" THEN {} ELSE after
    /\ UNCHANGED <<email, deletedAt, signedIn, key, byHand>>

MonthGoesBy ==
    /\ deletedAt = "recent"
    /\ deletedAt' = "old"
    /\ UNCHANGED <<email, signedIn, key, deletion, swept, byHand, after>>

AccountNext ==
    \/ SignIn \/ SignOut \/ MonthGoesBy
    \/ \E k \in Key : CreateApiKey(k) \/ CliExchange(k) \/ RevokeApiKey(k)
    \/ MarkDeleted \/ RevokeAll \/ CommitDeletion \/ RollBack

AccountSpec == AccountInit /\ [][AccountNext]_accountVars

----------------------------------------------------------------------------

(* The deletion is whole or not at all.  A deleted account has no live key *)
(* but those minted since the transaction looked for keys, before or after *)
(* its commit; and while the account is not deleted, no key of it has been *)
(* revoked but by the user's own hand.                                     *)
DeletionIsWhole ==
    /\ deletedAt # "no" => Live \subseteq after
    /\ deletedAt = "no" => {k \in Key : key[k] = "revoked"} \subseteq byHand

=============================================================================
