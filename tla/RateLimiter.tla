------------------------------ MODULE RateLimiter -----------------------------
(***************************************************************************)
(* checkLimit without Redis: for every bucket, plan and key a list of the  *)
(* times of the requests let through.  One bucket and one key are          *)
(* followed; the caller's plan changes, and with it the list.              *)
(*                                                                         *)
(* Date.now() counts in ticks of which PerSecond make a second; it may     *)
(* stand still between two requests.  Upstash, used in production, is a    *)
(* service with a window of its own and is not modelled.                   *)
(***************************************************************************)
EXTENDS Integers, SequencesExt

CONSTANTS Tier,            \* plans
          LimitOf,         \* LimitOf[p]: effectiveLimit(bucket, p)
          WindowSeconds, PerSecond,
          LastTick         \* bound on the clock

ASSUME LimiterAssumption ==
    /\ LimitOf \in [Tier -> Nat \ {0}]
    /\ WindowSeconds \in Nat \ {0} /\ PerSecond \in Nat \ {0} /\ LastTick \in Nat

VARIABLES now,        \* Date.now()
          hits,       \* hits[p]: the entry of memStore, or <<>>
          granted,    \* history, granted[p]: the latest successes, one more than the limit
          toldWait    \* history, toldWait[p]: the latest refusal not followed by a success

limiterVars == <<now, hits, granted, toldWait>>

Window == WindowSeconds * PerSecond
NoRefusal == [at |-> 0, retryAfter |-> 0]

LimiterTypeOK ==
    /\ now \in 0..LastTick
    /\ hits \in [Tier -> Seq(0..LastTick)]
    /\ granted \in [Tier -> Seq(0..LastTick)]
    /\ toldWait \in [Tier -> [at : 0..LastTick, retryAfter : Nat]]

LimiterInit ==
    /\ now = 0
    /\ hits = [p \in Tier |-> <<>>]
    /\ granted = [p \in Tier |-> <<>>]
    /\ toldWait = [p \in Tier |-> NoRefusal]

----------------------------------------------------------------------------
\* The list is in the order of its times, so the filter drops the first of it.
Fresh(p) ==
    LET dropped == {i \in DOMAIN hits[p] : hits[p][i] <= now - Window}
    IN  SubSeq(hits[p], Cardinality(dropped) + 1, Len(hits[p]))

\* Mutant: the seconds are rounded down.
SecondsUntilDown(t) == Max({1, (t + Window - now) \div PerSecond})

\* Math.max(1, Math.ceil(...))
SecondsUntil(t) == Max({1, (t + Window - now + PerSecond - 1) \div PerSecond})

\* Mutant: one more than the limit goes through.
RefuseLate(p) == Len(Fresh(p)) > LimitOf[p]

Refuse(p) == Len(Fresh(p)) >= LimitOf[p]

Latest(times, n) == SubSeq(times, Max({1, Len(times) - n + 1}), Len(times))

\* checkMem.
CheckLimit(p) ==
    /\ IF Refuse(p)
       THEN /\ hits' = [hits EXCEPT ![p] = Fresh(p)]
            /\ toldWait' = [toldWait EXCEPT ![p] =
                               [at |-> now, retryAfter |-> SecondsUntil(Fresh(p)[1])]]
            /\ UNCHANGED granted
       ELSE /\ hits' = [hits EXCEPT ![p] = Append(Fresh(p), now)]
            /\ granted' = [granted EXCEPT ![p] = Latest(Append(@, now), LimitOf[p] + 1)]
            /\ toldWait' = [toldWait EXCEPT ![p] = NoRefusal]
    /\ UNCHANGED now

Tick ==
    /\ now < LastTick
    /\ now' = now + 1
    /\ UNCHANGED <<hits, granted, toldWait>>

LimiterNext == Tick \/ \E p \in Tier : CheckLimit(p)

LimiterSpec == LimiterInit /\ [][LimiterNext]_limiterVars

----------------------------------------------------------------------------
(* No window of the bucket's length, wherever it begins, holds more        *)
(* successes of a plan than its limit.                                     *)
WindowHolds ==
    \A p \in Tier : Len(granted[p]) > LimitOf[p]
                    => granted[p][LimitOf[p] + 1] >= granted[p][1] + Window

(* Retry-After is long enough, and no longer than the window: a caller     *)
(* that was refused and waits as long as it was told is let through, if    *)
(* no other request of that plan was in the meantime.                      *)
RetryAfterSuffices ==
    \A p \in Tier : toldWait[p] # NoRefusal =>
        /\ toldWait[p].retryAfter \in 1..WindowSeconds
        /\ now >= toldWait[p].at + toldWait[p].retryAfter * PerSecond => ~Refuse(p)

=============================================================================
