----------------------------- MODULE ScheduleClaims -----------------------------
(***************************************************************************)
(* Durable schedules: internal/automation and the schedule and script_run  *)
(* rows of internal/store.                                                 *)
(*                                                                         *)
(* An engine claims a due schedule with a token and a lease, dispatches    *)
(* its occurrence (a task, a script run or an orientation request) and     *)
(* finishes the claim, which moves the schedule to its next occurrence.    *)
(* Every store call is a step; the user's edits and deletions, the clock,  *)
(* failures, a shutdown and a crash come in between.  nabud runs one       *)
(* engine; the store's protocol is written for several, and so is this     *)
(* module.                                                                 *)
(***************************************************************************)
EXTENDS Integers, FiniteSets

CONSTANTS
    Schedules,      \* schedule ids
    NoSchedule,     \* "no schedule"
    Engines,        \* automation engines over one store
    Kinds,          \* what the user's schedules dispatch: task, script, orient
    Cadences,       \* intervals; 0: a date that may not recur within a year
    Lease,          \* lease of a claim, in ticks
    MaxTime,        \* bound of the model: the clock stops here
    MaxClaims,      \* bound of the model: claim tokens
    MaxRuns,        \* bound of the model: script run rows
    MaxRequests     \* bound of the model: edits, failures, shutdowns to come

ASSUME ScheduleAssumption ==
    /\ NoSchedule \notin Schedules
    /\ Kinds \subseteq {"task", "script", "orient"}
    /\ Cadences \subseteq Nat
    /\ Lease \in Nat \ {0}
    /\ MaxTime \in Nat
    /\ MaxClaims \in Nat
    /\ MaxRuns \in Nat
    /\ MaxRequests \in Nat

Never   == -1       \* next_run_at IS NULL
NoToken == 0        \* claim_token = ''
NoRun   == 0

Times       == Nat
Occurrences == Schedules \X (0 .. MaxTime)      \* scheduleEffectID
ScriptRunStatuses == {"unused", "pending", "running", "completed", "failed", "interrupted"}
Ended       == {"completed", "failed", "interrupted"}

VARIABLES
    now,                \* the clock
    ready,              \* workspaces.context_ready
    row,                \* schedules: status, kind, cadence, next_run_at
    token, lease,       \* schedules.claim_token and lease_until
    lastToken,          \* the newest claim token
    pc, snap, claim,    \* each engine: where it is, the row and the token it claimed
    failed, run,        \* whether its dispatch failed; its script run
    tasks, births,      \* the task of an occurrence; history: how often inserted
    tried,              \* history: occurrences that were claimed
    runs, lastRun,      \* script_runs.status, newest run
    stopping,           \* SIGTERM: the daemon's context is cancelled
    edit,               \* an UpdateSchedule request in progress
    edited,             \* history: next_run_at was last written by the user
    left                \* requests the environment may still make

engine == <<pc, snap, claim, failed, run>>
effect == <<tasks, births, runs, lastRun>>
user   == <<ready, stopping, edit, left>>
vars   == <<now, row, token, lease, lastToken, engine, effect, user, edited, tried>>

Rows == [status : {"absent", "on", "off", "deleted"}, kind : Kinds \cup {"none"},
         cadence : Cadences \cup {0}, next : Times \cup {Never}]
Snaps == [id : Schedules \cup {NoSchedule}, row : Rows, lease : Nat]
Edits == [id : Schedules \cup {NoSchedule}, row : Rows]
Places == {"idle", "dispatch", "pending", "running", "signal", "finish"}
NoRow   == [status |-> "absent", kind |-> "none", cadence |-> 0, next |-> Never]
Exists(s) == row[s].status \in {"on", "off"}
Longer(a, b) == IF a > b THEN a ELSE b

-----------------------------------------------------------------------------
\* scheduler.Next: after an edit it must succeed; after an attempt a date that
\* does not come again within a year leaves the schedule without a next run.

NextForEdit(c)  == now + Longer(1, c)
NextAfterRun(c) == IF c = 0 THEN Never ELSE now + c

Due(s) == row[s].status = "on" /\ row[s].next # Never /\ row[s].next <= now /\ ready

\* Mutant of Claimable: a claim is taken although its lease still runs.
ClaimableAnyway(s) == Due(s)

\* Mutant of Claimable: an expired lease does not free the schedule.
ClaimableUnleased(s) == Due(s) /\ token[s] = NoToken

Claimable(s) ==
    /\ Due(s)
    /\ token[s] = NoToken \/ lease[s] <= now

-----------------------------------------------------------------------------
\* RunDue.

Busy(e)  == pc[e] # "idle"
Occ(e)   == <<snap[e].id, snap[e].row.next>>
NoSnap   == [id |-> NoSchedule, row |-> NoRow, lease |-> 0]
Goto(e, place) == pc' = [pc EXCEPT ![e] = place]
Errs(e)  == failed' = [failed EXCEPT ![e] = TRUE]

\* ClaimDueSchedule: one statement, the oldest due schedule first.
Claim(e) ==
    /\ pc[e] = "idle"
    /\ ~stopping
    /\ lastToken < MaxClaims
    /\ \E s \in Schedules :
        /\ Claimable(s)
        /\ \A r \in Schedules : Claimable(r) => row[s].next <= row[r].next
        /\ token' = [token EXCEPT ![s] = lastToken + 1]
        /\ lease' = [lease EXCEPT ![s] = now + Lease]
        /\ snap' = [snap EXCEPT ![e] = [id |-> s, row |-> row[s], lease |-> now + Lease]]
        /\ tried' = tried \cup {<<s, row[s].next>>}
    /\ lastToken' = lastToken + 1
    /\ claim' = [claim EXCEPT ![e] = lastToken + 1]
    /\ Goto(e, "dispatch")
    /\ UNCHANGED <<now, row, failed, run, effect, user, edited>>

Held == <<now, row, token, lease, lastToken, snap, claim, user, edited, tried>>

\* A payload, script, secret or store call that fails ends the dispatch.
DispatchFails(e) ==
    /\ pc[e] \in {"dispatch", "signal"}
    /\ Errs(e)
    /\ Goto(e, "finish")
    /\ UNCHANGED <<Held, run, effect>>

\* An orientation request, or a script result without a follow-up task.
Orient(e) ==
    /\ \/ pc[e] = "dispatch" /\ snap[e].row.kind = "orient"
       \/ pc[e] = "signal"
    /\ ~stopping
    /\ Goto(e, "finish")
    /\ UNCHANGED <<Held, failed, run, effect>>

\* createTask under the id of the occurrence: an insert, or the existing task
\* of the same creator read back.  A commit may be reported as a failure.
CreateTask(e) ==
    LET o == Occ(e) k == snap[e].row.kind IN
    /\ \/ pc[e] = "dispatch" /\ k = "task"
       \/ pc[e] = "signal"
    /\ ~stopping
    /\ tasks[o] \in {"none", "deleted", k}
    /\ tasks' = [tasks EXCEPT ![o] = k]
    /\ births' = [births EXCEPT ![o] = IF tasks[o] = k THEN @ ELSE @ + 1]
    /\ failed' \in {failed, [failed EXCEPT ![e] = TRUE]}
    /\ Goto(e, "finish")
    /\ UNCHANGED <<Held, run, runs, lastRun>>

-----------------------------------------------------------------------------
\* runScript.  script_runs.schedule_id references schedules.

StartScript(e) ==
    /\ pc[e] = "dispatch" /\ snap[e].row.kind = "script"
    /\ ~stopping
    /\ Exists(snap[e].id)
    /\ lastRun < MaxRuns
    /\ lastRun' = lastRun + 1
    /\ runs' = [runs EXCEPT ![lastRun + 1] = "pending"]
    /\ run' = [run EXCEPT ![e] = lastRun + 1]
    /\ Goto(e, "pending")
    /\ UNCHANGED <<Held, failed, tasks, births>>

\* The OnStart callback; its error is kept for the end of the run.
OnStart(e) ==
    /\ pc[e] = "pending"
    /\ IF ~stopping /\ Exists(snap[e].id)
       THEN runs' = [runs EXCEPT ![run[e]] = "running"] /\ UNCHANGED failed
       ELSE Errs(e) /\ UNCHANGED runs
    /\ Goto(e, "running")
    /\ UNCHANGED <<Held, run, tasks, births, lastRun>>

\* The process ended, or could not be started; the last UpdateScriptRun is not
\* cancelled with the daemon.  An interesting result goes on to its signal.
EndScript(e) ==
    \E r \in {"completed", "failed"} :
        /\ pc[e] = "running" \/ (pc[e] = "pending" /\ r = "failed")
        /\ runs' = IF Exists(snap[e].id) THEN [runs EXCEPT ![run[e]] = r] ELSE runs
        /\ \/ /\ r = "completed" /\ ~failed[e] /\ Exists(snap[e].id)
              /\ \E place \in {"signal", "finish"} : Goto(e, place)
              /\ UNCHANGED failed
           \/ /\ Errs(e)
              /\ Goto(e, "finish")
        /\ UNCHANGED <<Held, run, tasks, births, lastRun>>

-----------------------------------------------------------------------------
\* FinishScheduleClaim, under a context of its own.

Idle(e) ==
    /\ Goto(e, "idle")
    /\ snap' = [snap EXCEPT ![e] = NoSnap]
    /\ claim' = [claim EXCEPT ![e] = NoToken]
    /\ failed' = [failed EXCEPT ![e] = FALSE]
    /\ run' = [run EXCEPT ![e] = NoRun]

Holds(e) == Busy(e) /\ Exists(snap[e].id) /\ token[snap[e].id] = claim[e]

Move(s, c) ==
    /\ row' = [row EXCEPT ![s].next = NextAfterRun(c)]
    /\ token' = [token EXCEPT ![s] = NoToken]
    /\ lease' = [lease EXCEPT ![s] = 0]
    /\ edited' = [edited EXCEPT ![s] = FALSE]

FinishAnyToken(e) ==          \* mutant: the token is not compared
    /\ pc[e] = "finish"
    /\ IF Exists(snap[e].id) THEN Move(snap[e].id, snap[e].row.cadence)
                             ELSE UNCHANGED <<row, token, lease, edited>>
    /\ Idle(e)
    /\ UNCHANGED <<now, lastToken, effect, user, tried>>

Finish(e) ==
    /\ pc[e] = "finish"
    /\ IF Holds(e) THEN Move(snap[e].id, snap[e].row.cadence)
                   ELSE UNCHANGED <<row, token, lease, edited>>
    /\ Idle(e)
    /\ UNCHANGED <<now, lastToken, effect, user, tried>>

Request == left > 0 /\ left' = left - 1

\* The statement fails: the claim stays until its lease runs out.
FinishFails(e) ==
    /\ Request
    /\ pc[e] = "finish"
    /\ snap[e].lease <= MaxTime
    /\ Idle(e)
    /\ UNCHANGED <<now, row, token, lease, lastToken, effect, ready, stopping, edit, edited, tried>>

-----------------------------------------------------------------------------
\* The user.

Requested == <<now, lease, lastToken, engine, stopping, tried>>

CreateSchedule(s, k, c) ==
    /\ row[s].status = "absent"
    /\ row' = [row EXCEPT ![s] = [status |-> "on", kind |-> k, cadence |-> c,
                                  next |-> NextForEdit(c)]]
    /\ edited' = [edited EXCEPT ![s] = TRUE]
    /\ UNCHANGED <<Requested, token, effect, ready, edit, left>>

NoEdit == [id |-> NoSchedule, row |-> NoRow]

\* UpdateSchedule reads the row, changes fields, computes the next run ...
LoadEdit(s, st, k, c) ==
    /\ edit = NoEdit
    /\ Exists(s)
    /\ Request
    /\ edit' = [id |-> s, row |-> [status |-> st, kind |-> k, cadence |-> c,
                                   next |-> NextForEdit(c)]]
    /\ UNCHANGED <<Requested, row, token, effect, ready, edited>>

\* ... and writes every column but those of the claim.
CommitEdit(s) ==
    /\ edit.id = s
    /\ edit' = NoEdit
    /\ IF Exists(s)
       THEN /\ row' = [row EXCEPT ![s] = edit.row]
            /\ edited' = [edited EXCEPT ![s] = TRUE]
       ELSE UNCHANGED <<row, edited>>
    /\ UNCHANGED <<Requested, token, effect, ready, left>>

\* The foreign key of script runs is set to NULL.
DeleteSchedule(s) ==
    /\ Exists(s)
    /\ Request
    /\ row' = [row EXCEPT ![s] = [NoRow EXCEPT !.status = "deleted"]]
    /\ edited' = [edited EXCEPT ![s] = TRUE]
    /\ UNCHANGED <<Requested, token, effect, ready, edit>>

DeleteTask(o) ==
    /\ tasks[o] \notin {"none", "deleted"}
    /\ Request
    /\ tasks' = [tasks EXCEPT ![o] = "deleted"]
    /\ UNCHANGED <<Requested, row, token, births, runs, lastRun, ready, edit, edited>>

\* A new mission asks for the context again; Chat confirms it.
ResetContext ==
    /\ ready
    /\ Request
    /\ ready' = FALSE
    /\ UNCHANGED <<Requested, row, token, effect, edit, edited>>

ConfirmContext ==
    /\ ~ready
    /\ ready' = TRUE
    /\ UNCHANGED <<Requested, row, token, effect, edit, edited, left>>

-----------------------------------------------------------------------------
\* The clock, shutdown, crash.

Tick ==
    /\ now < MaxTime
    /\ now' = now + 1
    /\ UNCHANGED <<row, token, lease, lastToken, engine, effect, user, edited, tried>>

Stop ==
    /\ ~stopping
    /\ Request
    /\ stopping' = TRUE
    /\ UNCHANGED <<now, row, token, lease, lastToken, engine, effect, ready, edit, edited, tried>>

\* RecoverInterrupted, on schedules and script runs.
RecoveredNone(r) == r         \* mutant: script runs are left alone
Recovered(r) == IF r = "running" THEN "interrupted" ELSE r

Restart ==
    /\ Request
    /\ stopping' = FALSE
    /\ pc'     = [e \in Engines |-> "idle"]
    /\ snap'   = [e \in Engines |-> NoSnap]
    /\ claim'  = [e \in Engines |-> NoToken]
    /\ failed' = [e \in Engines |-> FALSE]
    /\ run'    = [e \in Engines |-> NoRun]
    /\ token'  = [s \in Schedules |-> NoToken]
    /\ lease'  = [s \in Schedules |-> 0]
    /\ runs'   = [r \in 1 .. MaxRuns |-> Recovered(runs[r])]
    /\ edit'   = NoEdit
    /\ UNCHANGED <<now, row, lastToken, tasks, births, lastRun, ready, edited, tried>>

-----------------------------------------------------------------------------
Init ==
    /\ now = 0
    /\ ready = TRUE
    /\ row = [s \in Schedules |-> NoRow]
    /\ token = [s \in Schedules |-> NoToken]
    /\ lease = [s \in Schedules |-> 0]
    /\ lastToken = 0
    /\ pc = [e \in Engines |-> "idle"]
    /\ snap = [e \in Engines |-> NoSnap]
    /\ claim = [e \in Engines |-> NoToken]
    /\ failed = [e \in Engines |-> FALSE]
    /\ run = [e \in Engines |-> NoRun]
    /\ tasks = [o \in Occurrences |-> "none"]
    /\ births = [o \in Occurrences |-> 0]
    /\ tried = {}
    /\ runs = [r \in 1 .. MaxRuns |-> "unused"]
    /\ lastRun = 0
    /\ stopping = FALSE
    /\ edit = NoEdit
    /\ edited = [s \in Schedules |-> FALSE]
    /\ left = MaxRequests

Work(e) ==
    \/ DispatchFails(e) \/ Orient(e) \/ CreateTask(e)
    \/ StartScript(e) \/ OnStart(e) \/ EndScript(e) \/ Finish(e)

UserStep(s) ==
    \/ \E k \in Kinds, c \in Cadences : CreateSchedule(s, k, c)
    \/ \E st \in {"on", "off"}, k \in Kinds, c \in Cadences : LoadEdit(s, st, k, c)
    \/ CommitEdit(s)
    \/ DeleteSchedule(s)

Next ==
    \/ \E e \in Engines : Claim(e) \/ Work(e) \/ FinishFails(e)
    \/ \E s \in Schedules : UserStep(s)
    \/ \E o \in Occurrences : DeleteTask(o)
    \/ ResetContext
    \/ ConfirmContext
    \/ Tick
    \/ Stop
    \/ Restart

Spec == Init /\ [][Next]_vars

\* The engine polls every five seconds and each of its store calls returns;
\* the clock runs.  Nothing else is promised.
Fairness ==
    /\ \A e \in Engines : WF_vars(Claim(e)) /\ WF_vars(Work(e))
    /\ WF_vars(Tick)

FairSpec == Spec /\ Fairness

-----------------------------------------------------------------------------
\* Properties.

\* Every variable has its type (rows of schedules and script_runs, the fields
\* RunDue works with).
TypeOK ==
    /\ now \in 0 .. MaxTime
    /\ ready \in BOOLEAN
    /\ row \in [Schedules -> Rows]
    /\ token \in [Schedules -> 0 .. MaxClaims]
    /\ lease \in [Schedules -> Nat]
    /\ lastToken \in 0 .. MaxClaims
    /\ pc \in [Engines -> Places]
    /\ snap \in [Engines -> Snaps]
    /\ claim \in [Engines -> 0 .. MaxClaims]
    /\ failed \in [Engines -> BOOLEAN]
    /\ run \in [Engines -> 0 .. MaxRuns]
    /\ tasks \in [Occurrences -> {"none", "task", "script", "deleted"}]
    /\ births \in [Occurrences -> Nat]
    /\ tried \subseteq Occurrences
    /\ runs \in [1 .. MaxRuns -> ScriptRunStatuses]
    /\ lastRun \in 0 .. MaxRuns
    /\ stopping \in BOOLEAN
    /\ edit \in Edits
    /\ edited \in [Schedules -> BOOLEAN]
    /\ left \in 0 .. MaxRequests

\* engine.go: the lease is "preventing a second daemon from reclaiming a live
\* script".  As long as the lease of an engine runs and its schedule exists,
\* the claim stays its own: no edit, other engine or late finisher takes it.
ClaimKept ==
    \A e \in Engines :
        Busy(e) /\ Exists(snap[e].id) =>
            token[snap[e].id] = claim[e] \/ snap[e].lease <= now

\* task.go: a stable id makes a repeated dispatch a read.  No crash, retry or
\* second engine gives an occurrence another task while it has one.
TaskPerOccurrence ==
    [][\A o \in Occurrences : births'[o] > births[o] => tasks[o] \in {"none", "deleted"}]_vars

\* An attempt that ends without an error has done its work: the task of the
\* occurrence was created, or its script run is on record as completed.
FinishedIsDone ==
    \A e \in Engines :
        pc[e] = "finish" /\ ~failed[e] =>
            /\ snap[e].row.kind = "task" => births[Occ(e)] > 0
            /\ snap[e].row.kind = "script" => runs[run[e]] = "completed"

\* A script run that is still open belongs to an engine at work on it, or is
\* one the store could not update: its schedule was deleted, or the daemon
\* died before the run was marked as running.
OpenRunsAreWorked ==
    \A r \in 1 .. MaxRuns :
        runs[r] = "running" =>
            \/ \E e \in Engines : run[e] = r /\ pc[e] = "running"
            \/ \E s \in Schedules : row[s].status = "deleted"

\* What the tables say of the work of an attempt is so, through failures,
\* crashes and restarts (RunDue, RecoverInterrupted).
WorkOnRecord == FinishedIsDone /\ OpenRunsAreWorked

\* A schedule that is due is attempted and moved on (or disabled, deleted, or
\* the daemon is shutting down), through failures, crashes and lost claims.
DueIsServed ==
    \A s \in Schedules : Due(s) ~> (~Due(s) \/ stopping)

\* The abstract specification: occurrences are attempted when due, have their
\* effect only once attempted, and a schedule leaves one only after that.
Abstract == INSTANCE ScheduleOccurrences WITH
    next   <- [s \in Schedules |-> row[s].next],
    byUser <- edited,
    done   <- {o \in Occurrences : births[o] > 0}

Implements == Abstract!Spec
=============================================================================
