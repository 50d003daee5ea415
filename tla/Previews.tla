-------------------------------- MODULE Previews ------------------------------
(***************************************************************************)
(* The previews of one user for one module.  POST .../preview looks for a  *)
(* ready row, creates one, calls the allocator and stores its answer;      *)
(* DELETE /preview/[id] destroys the host and marks the row expired.       *)
(*                                                                         *)
(* The table allows one row per status, so a second row cannot become      *)
(* expired, failed or ready: that write throws and the request answers     *)
(* 500.  Rows are named by the requests that create them.                  *)
(***************************************************************************)
EXTENDS FiniteSets

CONSTANTS Launch      \* requests, their rows and their hosts

VARIABLES row,        \* row[l]: PreviewInstance.status, or "none"
          lapsed,     \* rows whose expiresAt is past
          hosts,      \* hosts that run
          launch,     \* launch[l]: where the request is
          teardown,   \* teardown[l]: where the DELETE of l's row is
          ended,      \* history: hosts the provider stopped by itself
          orphaned,   \* history: hosts the allocator failed to destroy
          early,      \* history: rows whose DELETE loaded them "allocating"
          unmarked    \* history: rows whose DELETE could not mark them

previewVars == <<row, lapsed, hosts, launch, teardown, ended, orphaned, early, unmarked>>

RowStatus == {"none", "allocating", "ready", "expired", "failed"}

PreviewTypeOK ==
    /\ row \in [Launch -> RowStatus]
    /\ \A s \in {lapsed, hosts, ended, orphaned, early, unmarked} : s \subseteq Launch
    /\ launch \in [Launch -> {"start", "create", "allocate", "ready", "failed", "over"}]
    /\ teardown \in [Launch -> {"idle", "destroy", "mark"}]

PreviewInit ==
    /\ row = [l \in Launch |-> "none"]
    /\ lapsed = {} /\ hosts = {} /\ ended = {}
    /\ orphaned = {} /\ early = {} /\ unmarked = {}
    /\ launch = [l \in Launch |-> "start"]
    /\ teardown = [l \in Launch |-> "idle"]

\* @@unique([userId, moduleSlug, status])
StatusFree(l, status) == \A k \in Launch \ {l} : row[k] # status

Launches(l, step) == launch' = [launch EXCEPT ![l] = step]

----------------------------------------------------------------------------
(* POST: the module is there, previewable and verified.                    *)

\* previewInstance.findUnique: a ready row that has not run out is the answer.
FindReady(l) ==
    /\ launch[l] = "start"
    /\ Launches(l, IF \E k \in Launch : row[k] = "ready" /\ k \notin lapsed
                   THEN "over" ELSE "create")
    /\ UNCHANGED <<row, lapsed, hosts, teardown, ended, orphaned, early, unmarked>>

CreateRow(l) ==
    /\ launch[l] = "create"
    /\ IF StatusFree(l, "allocating")
       THEN row' = [row EXCEPT ![l] = "allocating"] /\ Launches(l, "allocate")
       ELSE Launches(l, "over") /\ UNCHANGED row
    /\ UNCHANGED <<lapsed, hosts, teardown, ended, orphaned, early, unmarked>>

\* allocator.allocate: a host, or no host and a reason.
Allocate(l) ==
    /\ launch[l] = "allocate"
    /\ \/ hosts' = hosts \cup {l} /\ Launches(l, "ready")
       \/ UNCHANGED hosts /\ Launches(l, "failed")
    /\ UNCHANGED <<row, lapsed, teardown, ended, orphaned, early, unmarked>>

\* previewInstance.update, which throws when another row has the status.
StoreAnswer(l) ==
    /\ launch[l] \in {"ready", "failed"}
    /\ row' = IF StatusFree(l, launch[l]) THEN [row EXCEPT ![l] = launch[l]] ELSE row
    /\ lapsed' = IF StatusFree(l, launch[l]) /\ launch[l] = "ready" THEN lapsed \ {l} ELSE lapsed
    /\ Launches(l, "over")
    /\ UNCHANGED <<hosts, teardown, ended, orphaned, early, unmarked>>

\* The function is stopped between two calls.
LaunchDies(l) ==
    /\ launch[l] \in {"create", "allocate", "ready", "failed"}
    /\ Launches(l, "over")
    /\ UNCHANGED <<row, lapsed, hosts, teardown, ended, orphaned, early, unmarked>>

----------------------------------------------------------------------------
(* DELETE, and time.                                                     *)

\* loadOwned; only a ready row has a host to destroy.
LoadOwned(l) ==
    /\ teardown[l] = "idle" /\ row[l] # "none"
    /\ teardown' = [teardown EXCEPT ![l] = IF row[l] = "ready" THEN "destroy" ELSE "mark"]
    /\ early' = IF row[l] = "allocating" THEN early \cup {l} ELSE early
    /\ UNCHANGED <<row, lapsed, hosts, launch, ended, orphaned, unmarked>>

\* Mutant: the row is marked and the host left alone.
DestroyNothing(l) ==
    /\ teardown[l] = "destroy"
    /\ teardown' = [teardown EXCEPT ![l] = "mark"]
    /\ UNCHANGED <<row, lapsed, hosts, launch, ended, orphaned, early, unmarked>>

\* Best effort: a failure is logged, and the row is marked all the same.
Destroy(l) ==
    /\ teardown[l] = "destroy"
    /\ teardown' = [teardown EXCEPT ![l] = "mark"]
    /\ \/ hosts' = hosts \ {l} /\ UNCHANGED orphaned
       \/ orphaned' = orphaned \cup {l} /\ UNCHANGED hosts
    /\ UNCHANGED <<row, lapsed, launch, ended, early, unmarked>>

\* The update by id: whatever the row is by now, or 500 beside an expired one.
MarkExpired(l) ==
    /\ teardown[l] = "mark"
    /\ teardown' = [teardown EXCEPT ![l] = "idle"]
    /\ IF StatusFree(l, "expired")
       THEN /\ row' = [row EXCEPT ![l] = "expired"]
            /\ lapsed' = lapsed \cup {l}
            /\ UNCHANGED unmarked
       ELSE /\ unmarked' = unmarked \cup {l}
            /\ UNCHANGED <<row, lapsed>>
    /\ UNCHANGED <<hosts, launch, ended, orphaned, early>>

\* The provider stops the host: its time runs from the allocation, before the
\* answer is stored, and it may stop one on its own account.
HostEnds(l) ==
    /\ l \in hosts
    /\ hosts' = hosts \ {l}
    /\ ended' = ended \cup {l}
    /\ UNCHANGED <<row, lapsed, launch, teardown, orphaned, early, unmarked>>

\* expiresAt passes, which was set by the clock after the allocation; nothing
\* marks the row.
RowLapses(l) ==
    /\ row[l] = "ready"
    /\ lapsed' = lapsed \cup {l}
    /\ UNCHANGED <<row, hosts, launch, teardown, ended, orphaned, early, unmarked>>

PreviewNext ==
    \E l \in Launch :
        \/ FindReady(l) \/ CreateRow(l) \/ Allocate(l) \/ StoreAnswer(l) \/ LaunchDies(l)
        \/ LoadOwned(l) \/ Destroy(l) \/ MarkExpired(l)
        \/ HostEnds(l) \/ RowLapses(l)

PreviewSpec == PreviewInit /\ [][PreviewNext]_previewVars

----------------------------------------------------------------------------
(* The table and the hosts agree.  A host that runs has a row that is      *)
(* ready, or still says "allocating" for a request that is under way, was  *)
(* stopped or could not store its answer; but for a host that could not be *)
(* destroyed, and one whose row was deleted while it was being allocated.  *)
(* And a ready row that has not run out, which POST hands out as it is,    *)
(* has a host, unless the provider stopped it (which nothing tells the     *)
(* row), or its deletion destroyed the host and is not done or could not   *)
(* mark the row.                                                           *)
HostsAreKnown ==
    \A l \in Launch :
        /\ l \in hosts => row[l] \in {"ready", "allocating"} \/ l \in orphaned \cup early
        /\ row[l] = "ready" => \/ l \in hosts \cup lapsed \cup ended \cup unmarked
                             \/ teardown[l] = "mark"

=============================================================================
