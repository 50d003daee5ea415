----------------------------- MODULE RetryQueue ------------------------------
(***************************************************************************)
(* What the submission pipeline promises, without its reviewers, workers   *)
(* or database columns: a queue of jobs, each run by at most one worker at *)
(* a time and allowed a fixed number of failed runs.  A job whose last     *)
(* allowed run fails is set aside for a human, who may revive it with a    *)
(* fresh allowance.  A run may also be lost, together with its worker.     *)
(***************************************************************************)
EXTENDS Naturals

CONSTANTS Job, MaxTries

VARIABLES state,   \* state[j]: where job j is
          tries    \* tries[j]: failed runs since j was last given an allowance

queueVars == <<state, tries>>

JobState == {"waiting", "queued", "running", "done", "dead", "withdrawn", "lost"}

QueueInit ==
    /\ state = [j \in Job |-> "waiting"]
    /\ tries = [j \in Job |-> 0]

Move(j, from, to) ==
    /\ state[j] \in from
    /\ state' = [state EXCEPT ![j] = to]

Keep == UNCHANGED tries

Admit(j)    == Move(j, {"waiting"}, "queued") /\ Keep
Start(j)    == Move(j, {"queued"}, "running") /\ Keep
Complete(j) == Move(j, {"running"}, "done") /\ Keep
Lose(j)     == Move(j, {"queued", "running"}, "lost") /\ Keep

\* A failed run that leaves at least one more.
FailAgain(j) ==
    /\ Move(j, {"running"}, "queued")
    /\ tries[j] + 1 < MaxTries
    /\ tries' = [tries EXCEPT ![j] = @ + 1]

\* A failed run that was the last one allowed.
FailLast(j) ==
    /\ Move(j, {"running"}, "dead")
    /\ tries[j] + 1 = MaxTries
    /\ tries' = [tries EXCEPT ![j] = @ + 1]

Revive(j) ==
    /\ Move(j, {"dead"}, "queued")
    /\ tries' = [tries EXCEPT ![j] = 0]

\* A withdrawn job is not run again; one that is running runs to its end.
Withdraw(j) == Move(j, JobState \ {"withdrawn", "running"}, "withdrawn") /\ Keep

\* The worker of a job withdrawn while it ran is lost.
Drop(j) == Move(j, {"running"}, "withdrawn") /\ Keep

QueueNext ==
    \E j \in Job :
        \/ Admit(j) \/ Start(j) \/ Complete(j) \/ Lose(j)
        \/ FailAgain(j) \/ FailLast(j) \/ Revive(j)
        \/ Withdraw(j) \/ Drop(j)

QueueSpec == QueueInit /\ [][QueueNext]_queueVars

=============================================================================
