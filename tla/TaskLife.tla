------------------------------- MODULE TaskLife -------------------------------
(***************************************************************************)
(* The life of a task as the queue promises it, without workers' places,   *)
(* contexts, cancel functions, snapshots and requests in progress: who     *)
(* works on it, what may become of it while somebody does and while nobody *)
(* does, and what the runs say of it.  A task is adrift when somebody      *)
(* wrote its row from an outdated view; of such a task only its runs are   *)
(* promised, until it is settled or the daemon starts again.               *)
(***************************************************************************)
EXTENDS Integers, FiniteSets

CONSTANTS Tasks, Workers, NoWorker, Prereq, Runs, NoRun

VARIABLES
    status,     \* of each task
    named,      \* the run its row names
    owner,      \* the worker that has it, of a task that is not adrift
    runs,       \* the status of each run
    adrift,     \* tasks whose row was written from an outdated view
    limit       \* tasks that may run at once

vars == <<status, named, owner, runs, adrift, limit>>

Init ==
    /\ status = [t \in Tasks |-> "absent"]
    /\ named = [t \in Tasks |-> NoRun]
    /\ owner = [t \in Tasks |-> NoWorker]
    /\ runs = [r \in Runs |-> "unused"]
    /\ adrift = {}
    /\ limit \in Nat \ {0}

-----------------------------------------------------------------------------
\* One step is about one task.
Touch(t) ==
    /\ status' = [status EXCEPT ![t] = status'[t]]
    /\ named' = [named EXCEPT ![t] = named'[t]]
    /\ owner' = [owner EXCEPT ![t] = owner'[t]]
    /\ UNCHANGED <<runs, limit>>

\* A task is completed on the word of a run that is.
Honest(t) == status'[t] = "completed" => named'[t] \in Runs /\ runs[named'[t]] = "completed"

Becomes(t, moves) == status'[t] = status[t] \/ status'[t] \in moves[status[t]]

\* Nobody has the task: what the user may make of it, and the end of a worker that
\* had asked for an approval and was cancelled.
FreeMoves ==
    [s \in {"absent", "idea", "ready", "waiting", "needs_approval", "failed", "cancelled",
            "completed", "deleted"} |->
        CASE s = "absent"         -> {"idea", "ready"}
          [] s = "idea"           -> {"ready", "cancelled", "deleted"}
          [] s = "ready"          -> {"idea", "cancelled", "deleted"}
          [] s = "waiting"        -> {"ready", "cancelled", "deleted"}
          [] s = "needs_approval" -> {"ready", "waiting", "cancelled", "deleted", "completed", "failed"}
          [] s = "failed"         -> {"ready", "cancelled", "deleted"}
          [] s = "cancelled"      -> {"ready", "deleted"}
          [] s = "completed"      -> {"deleted"}
          [] s = "deleted"        -> {}]

\* A worker has it: it asks, it is paused, or the user cancels or deletes it and the
\* worker has not noticed.
KeptMoves ==
    [s \in {"running", "waiting", "needs_approval", "cancelled", "deleted"} |->
        CASE s = "running"        -> {"waiting", "needs_approval", "cancelled"}
          [] s = "waiting"        -> {"cancelled", "deleted"}
          [] s = "needs_approval" -> {"cancelled", "deleted"}
          [] s = "cancelled"      -> {"deleted"}
          [] s = "deleted"        -> {}]

\* The worker lets go: of a running task only with a verdict.
LastMoves ==
    [s \in {"running", "needs_approval"} |->
        CASE s = "running"        -> {"completed", "failed", "cancelled", "waiting", "needs_approval"}
          [] s = "needs_approval" -> {"completed", "failed"}]

-----------------------------------------------------------------------------
Running == {t \in Tasks : status[t] = "running"}

Take(t) ==
    /\ t \notin adrift /\ status[t] = "ready" /\ named[t] = NoRun /\ owner[t] = NoWorker
    /\ Cardinality(Running) < limit
    /\ \A p \in Prereq[t] : status[p] \in {"completed", "cancelled", "deleted"}
    /\ status'[t] = "running" /\ named'[t] = NoRun
    /\ owner'[t] \in Workers /\ \A u \in Tasks : owner[u] # owner'[t]
    /\ Touch(t) /\ UNCHANGED adrift

\* A running row is named only after a run that is open.
Keep(t) ==
    /\ t \notin adrift /\ owner[t] # NoWorker /\ owner'[t] = owner[t]
    /\ Becomes(t, KeptMoves)
    /\ status'[t] = "running" /\ named'[t] # named[t] => runs[named'[t]] = "running"
    /\ Touch(t) /\ UNCHANGED adrift

Leave(t) ==
    /\ t \notin adrift /\ owner[t] # NoWorker /\ owner'[t] = NoWorker
    /\ \/ status[t] # "running" /\ status'[t] = status[t] /\ named'[t] = named[t]
       \/ status[t] \in DOMAIN LastMoves /\ status'[t] \in LastMoves[status[t]]
    /\ Honest(t) /\ Touch(t) /\ UNCHANGED adrift

Rewrite(t) ==
    /\ t \notin adrift /\ owner[t] = NoWorker /\ owner'[t] = NoWorker
    /\ Becomes(t, FreeMoves)
    /\ Honest(t) /\ Touch(t) /\ UNCHANGED adrift

Lose(t) ==
    /\ adrift' = adrift \cup {t} /\ owner'[t] = NoWorker
    /\ Honest(t) /\ Touch(t)

\* Runs go one way.
Advance(r) ==
    /\ \/ runs[r] = "unused" /\ runs'[r] = "running"
       \/ runs[r] = "running" /\ runs'[r] \in {"completed", "failed", "cancelled"}
    /\ runs' = [runs EXCEPT ![r] = runs'[r]]
    /\ UNCHANGED <<status, named, owner, adrift, limit>>

SetLimit ==
    /\ limit' \in Nat \ {0}
    /\ UNCHANGED <<status, named, owner, runs, adrift>>

\* The daemon starts again: nobody has anything, what ran is queued and interrupted.
Restart ==
    /\ status' = [t \in Tasks |-> IF status[t] = "running" THEN "ready" ELSE status[t]]
    /\ named' = [t \in Tasks |-> IF status[t] = "running" THEN NoRun ELSE named[t]]
    /\ owner' = [t \in Tasks |-> NoWorker]
    /\ runs' = [r \in Runs |-> IF runs[r] = "running" THEN "interrupted" ELSE runs[r]]
    /\ adrift' \subseteq adrift /\ UNCHANGED limit

Next ==
    \/ \E t \in Tasks : Take(t) \/ Keep(t) \/ Leave(t) \/ Rewrite(t) \/ Lose(t)
    \/ \E r \in Runs : Advance(r)
    \/ SetLimit \/ Restart

Spec == Init /\ [][Next]_vars

=============================================================================
