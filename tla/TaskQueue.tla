------------------------------ MODULE TaskQueue ------------------------------
(***************************************************************************)
(* The durable task queue of internal/store and the eight task workers of  *)
(* internal/operator that drain it.                                        *)
(*                                                                         *)
(* SQLite runs on one connection, so every statement and every transaction *)
(* is one step.  Everything the operator does BETWEEN two statements is a  *)
(* separate step: a worker reads settings, claims, creates a run row,      *)
(* writes the row to running, runs Codex, records the run, settles the     *)
(* task, reads it back and writes the result.  User edits and              *)
(* Pause/Resume interleave with all of that, and the daemon may die        *)
(* anywhere.                                                               *)
(*                                                                         *)
(* A worker's store calls all carry the context of its claim.  Once that   *)
(* context is cancelled they fail, so a cancelled worker writes nothing    *)
(* more.                                                                   *)
(***************************************************************************)
EXTENDS Integers, FiniteSets

CONSTANTS
    Tasks,      \* task ids
    NoTask,     \* "holds no task"
    Workers,    \* worker numbers, 0 .. n-1, as task loops are numbered
    NoWorker,   \* "no cancel function"
    Editors,    \* concurrent UpdateTask / DeleteTask requests
    Prereq,     \* Prereq[t]: the tasks that t depends on
    MaxLimit,   \* largest max_parallel_tasks the user sets
    MaxReady,   \* maxReadyTasks: CreateTask queues beyond it as ideas
    MaxRuns,    \* bound of the model: run ids that may be created
    MaxRequests \* bound of the model: edits, pauses, limits and restarts to come

ASSUME QueueAssumption ==
    /\ NoTask \notin Tasks
    /\ Workers \subseteq Nat
    /\ NoWorker \notin Workers
    /\ Prereq \in [Tasks -> SUBSET Tasks]
    /\ MaxLimit \in Nat \ {0}
    /\ MaxReady \in Nat
    /\ MaxRuns \in Nat
    /\ MaxRequests \in Nat
ASSUME TasksAreFinite == IsFiniteSet(Tasks)

NoRun    == 0
ClaimKey == -1      \* the activeRuns key "claim:"+id, as pauseActive stores it
RunIds   == 1 .. MaxRuns
RunRefs  == RunIds \cup {NoRun, ClaimKey}

Statuses == {"absent", "idea", "ready", "running", "waiting", "needs_approval",
             "completed", "failed", "cancelled", "deleted"}
Exists(s)    == s \notin {"absent", "deleted"}
Terminal     == {"completed", "failed", "cancelled"}
Resolved     == {"completed", "cancelled", "deleted"}
RunStatuses  == {"unused", "running", "completed", "failed", "cancelled", "interrupted"}
Outcomes     == {"none", "error", "killed", "invalid", "completed", "deletes", "failed",
                 "needs_approval", "cancelled"}

VARIABLES
    status, runId,      \* tasks.status and tasks.current_run_id
    runs, lastRun,      \* runs.status, and the newest run id
    paused, limit,      \* settings.paused and settings.max_parallel_tasks
    pc, task, run,      \* where each worker is, the task and run it holds
    ctx,                \* "live", "run" (run context cancelled), "claim" (claim context too)
    outcome, seen,      \* how the process ended; the row finishTaskRun read back
    claimEntry,         \* activeRuns["claim:"+t]: whose cancel function is stored
    asks,               \* approvals with status pending, per task
    due,                \* ideas promoteDuePlannedTasks listed, under queueMu
    edit,               \* UpdateTask / DeleteTask requests in progress
    ctl,                \* the SetPaused request in progress
    left,               \* requests the environment may still make
    disturbed           \* history: tasks hit by a write based on an outdated view

rows    == <<status, runId>>
ledger  == <<runs, lastRun>>
setting == <<paused, limit>>
wrk     == <<pc, task, run, ctx, outcome, seen>>
vars    == <<rows, ledger, setting, wrk, claimEntry, asks, due, edit, ctl, left, disturbed>>

-----------------------------------------------------------------------------
\* Rows.

Row(t)   == [status |-> status[t], run |-> runId[t]]
NoRow    == [status |-> "absent", run |-> NoRun]
RowSet   == [status : Statuses, run : RunRefs]

WriteRow(t, s, r) ==
    /\ status' = [status EXCEPT ![t] = s]
    /\ runId'  = [runId EXCEPT ![t] = r]

\* A write is a disturbance when the writer's picture of the row was wrong.
Disturb(t, outdated) ==
    disturbed' = IF outdated THEN disturbed \cup {t} ELSE disturbed

ReadyCount   == Cardinality({t \in Tasks : status[t] = "ready"})
RunningCount == Cardinality({t \in Tasks : status[t] = "running"})

\* Mutants of Claimable: a claim that does not check the row again,
ClaimableUnchecked(t) ==
    /\ status[t] \in {"ready", "running"}
    /\ RunningCount < limit
    /\ \A p \in Prereq[t] : status[p] \in Resolved

\* an off-by-one in the limit, and a failed prerequisite that does not block.
ClaimableOneMore(t) ==
    /\ status[t] = "ready"
    /\ RunningCount <= limit
    /\ \A p \in Prereq[t] : status[p] \in Resolved

ClaimableAfterFailure(t) ==
    /\ status[t] = "ready"
    /\ RunningCount < limit
    /\ \A p \in Prereq[t] : status[p] \in Resolved \cup {"failed"}

Claimable(t) ==
    /\ status[t] = "ready"
    /\ RunningCount < limit
    /\ \A p \in Prereq[t] : status[p] \in Resolved

\* A worker owns its task from the claim until it has settled the row, as
\* long as nobody cancelled it.
Owning == {"claimed", "created", "started", "executing", "exited", "recorded", "judged"}
Owns(w, t) == task[w] = t /\ pc[w] \in Owning /\ ctx[w] = "live"
Owned(t)   == \E w \in Workers : Owns(w, t)

\* The worker registered its run context in activeRuns.
Registered == {"executing", "exited", "recorded", "judged", "settled", "loaded"}

-----------------------------------------------------------------------------
\* Cancel functions.  Cancelling the claim context cancels the run context.

Cancelled(w, key) == IF key = ClaimKey THEN "claim"
                     ELSE IF ctx[w] = "live" THEN "run" ELSE ctx[w]

NoEntry == [task |-> NoTask, key |-> NoRun, worker |-> NoWorker]
Entries == [task : Tasks, key : RunRefs, worker : Workers \cup {NoWorker}]

ActiveRuns ==
    {[task |-> t, key |-> ClaimKey, worker |-> claimEntry[t]] :
            t \in {u \in Tasks : claimEntry[u] # NoWorker}}
    \cup {[task |-> task[w], key |-> run[w], worker |-> w] :
            w \in {v \in Workers : pc[v] \in Registered}}

\* Mutant of Void: a cancel function outlives its worker's task.
VoidNever(e, w) == e

\* taskWorkOnce returns: the deferred calls cancel the claim context and
\* delete "claim:"+id, whoever stored it.  A cancel function that a pause
\* still holds has no effect from here on.
Void(e, w) == IF e.worker = w THEN [e EXCEPT !.worker = NoWorker] ELSE e

Finish(w) ==
    /\ pc'      = [pc EXCEPT ![w] = "idle"]
    /\ task'    = [task EXCEPT ![w] = NoTask]
    /\ run'     = [run EXCEPT ![w] = NoRun]
    /\ ctx'     = [ctx EXCEPT ![w] = "live"]
    /\ outcome' = [outcome EXCEPT ![w] = "none"]
    /\ seen'    = [seen EXCEPT ![w] = NoRow]
    /\ claimEntry' = [claimEntry EXCEPT ![task[w]] = NoWorker]
    /\ ctl'     = [ctl EXCEPT !.todo = {Void(e, w) : e \in ctl.todo},
                              !.cur = Void(ctl.cur, w)]

Goto(w, place) ==
    /\ pc' = [pc EXCEPT ![w] = place]
    /\ UNCHANGED <<task, run, ctx, outcome, seen, claimEntry, ctl>>

Settled(w) ==   \* an error return or the end of runTask: no row is written
    Finish(w) /\ UNCHANGED <<rows, ledger, disturbed>>

Aside == <<setting, asks, due, edit, left>>

-----------------------------------------------------------------------------
\* taskWorkOnce: settings are read first, the claim comes later.

\* Mutant of Gate: the pause flag is not consulted.
GateWhilePaused(w) ==
    /\ pc[w] = "idle"
    /\ w < limit
    /\ lastRun < MaxRuns
    /\ Goto(w, "gated")
    /\ UNCHANGED <<rows, ledger, Aside, disturbed>>

Gate(w) ==
    /\ pc[w] = "idle"
    /\ ~paused
    /\ w < limit
    /\ lastRun < MaxRuns
    /\ Goto(w, "gated")
    /\ UNCHANGED <<rows, ledger, Aside, disturbed>>

Refuse(w) ==
    /\ pc[w] = "gated"
    /\ due = {}
    /\ \A t \in Tasks : ~Claimable(t)
    /\ Goto(w, "idle")
    /\ UNCHANGED <<rows, ledger, Aside, disturbed>>

\* One UPDATE ... RETURNING statement under queueMu.  Which claimable task it
\* takes (run requests first, then priority and age) is abstracted away.
Claim(w) ==
    /\ pc[w] = "gated"
    /\ due = {}
    /\ \E t \in Tasks :
        /\ Claimable(t)
        /\ WriteRow(t, "running", runId[t])
        /\ task' = [task EXCEPT ![w] = t]
        /\ claimEntry' = [claimEntry EXCEPT ![t] = w]
    /\ pc' = [pc EXCEPT ![w] = "claimed"]
    /\ UNCHANGED <<run, ctx, outcome, seen, ledger, Aside, ctl, disturbed>>

-----------------------------------------------------------------------------
\* runTask.

\* The task packet cannot be built (failed), or the workspace is no longer
\* approved (waiting).
PrepareFails(w) ==
    /\ pc[w] = "claimed"
    /\ ctx[w] = "live"
    /\ IF Exists(status[task[w]])
       THEN /\ \E s \in {"failed", "waiting"} : WriteRow(task[w], s, NoRun)
            /\ Disturb(task[w], Row(task[w]) # [status |-> "running", run |-> NoRun])
       ELSE UNCHANGED <<rows, disturbed>>
    /\ Finish(w)
    /\ UNCHANGED <<ledger, Aside>>

\* Mutant of CreateRun: every attempt reuses the first run row.
CreateRunOnce(w) ==
    /\ pc[w] = "claimed"
    /\ ctx[w] = "live"
    /\ Exists(status[task[w]])
    /\ lastRun' = 1
    /\ runs' = [runs EXCEPT ![1] = "running"]
    /\ run' = [run EXCEPT ![w] = 1]
    /\ pc' = [pc EXCEPT ![w] = "created"]
    /\ UNCHANGED <<rows, task, ctx, outcome, seen, claimEntry, ctl, Aside, disturbed>>

\* runs.task_id references tasks: no run can be created for a deleted task.
CreateRun(w) ==
    /\ pc[w] = "claimed"
    /\ ctx[w] = "live"
    /\ Exists(status[task[w]])
    /\ lastRun < MaxRuns
    /\ lastRun' = lastRun + 1
    /\ runs' = [runs EXCEPT ![lastRun + 1] = "running"]
    /\ run' = [run EXCEPT ![w] = lastRun + 1]
    /\ pc' = [pc EXCEPT ![w] = "created"]
    /\ UNCHANGED <<rows, task, ctx, outcome, seen, claimEntry, ctl, Aside, disturbed>>

StartRun(w) ==
    /\ pc[w] = "created"
    /\ ctx[w] # "claim"
    /\ Exists(status[task[w]])
    /\ WriteRow(task[w], "running", run[w])
    /\ Disturb(task[w], Row(task[w]) # [status |-> "running", run |-> NoRun])
    /\ Goto(w, "started")
    /\ UNCHANGED <<ledger, Aside>>

StartMissing(w) ==
    /\ pc[w] = "created"
    /\ ~Exists(status[task[w]])
    /\ Settled(w)
    /\ UNCHANGED Aside

Register(w) ==
    /\ pc[w] = "started"
    /\ Goto(w, "executing")
    /\ UNCHANGED <<rows, ledger, Aside, disturbed>>

\* codexRunWithBrowser fails: the task fails, the run row is left running.
LaunchFails(w) ==
    /\ pc[w] = "executing"
    /\ ctx[w] # "claim"
    /\ IF Exists(status[task[w]])
       THEN /\ WriteRow(task[w], "failed", NoRun)
            /\ Disturb(task[w], Row(task[w]) # [status |-> "running", run |-> run[w]])
       ELSE UNCHANGED <<rows, disturbed>>
    /\ Finish(w)
    /\ UNCHANGED <<ledger, Aside>>

\* The process ends: a result only if nothing cancelled it.
Exit(w, o) ==
    /\ pc[w] = "executing"
    /\ IF ctx[w] = "live" THEN o \notin {"none", "killed", "deletes"} ELSE o = "killed"
    /\ outcome' = [outcome EXCEPT ![w] = o]
    /\ pc' = [pc EXCEPT ![w] = "exited"]
    /\ UNCHANGED <<rows, ledger, task, run, ctx, seen, claimEntry, ctl, Aside, disturbed>>

-----------------------------------------------------------------------------
\* finishTaskRun.

\* A completed result may ask to delete dataset rows.  That is an approval of
\* its own, and CreateApproval moves the task to needs_approval.
AskDeletion(w) ==
    /\ pc[w] = "exited"
    /\ ctx[w] # "claim"
    /\ outcome[w] = "completed"
    /\ Exists(status[task[w]])
    /\ asks' = [asks EXCEPT ![task[w]] = @ + 1]
    /\ outcome' = [outcome EXCEPT ![w] = "deletes"]
    /\ IF status[task[w]] \in Terminal THEN UNCHANGED <<rows, disturbed>>
       ELSE /\ WriteRow(task[w], "needs_approval", runId[task[w]])
            /\ Disturb(task[w], Row(task[w]) # [status |-> "running", run |-> run[w]])
    /\ UNCHANGED <<ledger, pc, task, run, ctx, seen, claimEntry, ctl, setting, due, edit, left>>

RunResult(o) == CASE o \in {"error", "invalid"} -> "failed"
                  [] o = "killed"  -> "cancelled"
                  [] OTHER         -> "completed"

\* Mutant of Record: the run is recorded as failed, the task goes on to its verdict.
RecordKeepsOutcome(w) ==
    /\ pc[w] = "exited"
    /\ ctx[w] # "claim"
    /\ Exists(status[task[w]])
    /\ \/ runs' = [runs EXCEPT ![run[w]] = RunResult(outcome[w])]
       \/ /\ outcome[w] \in {"completed", "deletes"}
          /\ runs' = [runs EXCEPT ![run[w]] = "failed"]
    /\ pc' = [pc EXCEPT ![w] = "recorded"]
    /\ UNCHANGED <<rows, lastRun, task, run, ctx, outcome, seen, claimEntry, ctl, Aside, disturbed>>

\* UpdateRun.  It fails when the task row is gone (runs.task_id would dangle):
\* the error path ignores that, the success path returns.
Record(w) ==
    /\ pc[w] = "exited"
    /\ ctx[w] # "claim"
    /\ Exists(status[task[w]])
    /\ \/ /\ runs' = [runs EXCEPT ![run[w]] = RunResult(outcome[w])]
          /\ UNCHANGED outcome
       \/ \* dataset writes or app registrations of the result are rejected
          /\ outcome[w] \in {"completed", "deletes"}
          /\ runs' = [runs EXCEPT ![run[w]] = "failed"]
          /\ outcome' = [outcome EXCEPT ![w] = "invalid"]
    /\ pc' = [pc EXCEPT ![w] = "recorded"]
    /\ UNCHANGED <<rows, lastRun, task, run, ctx, seen, claimEntry, ctl, Aside, disturbed>>

RecordMissing(w) ==
    /\ pc[w] = "exited"
    /\ ~Exists(status[task[w]])
    /\ Settled(w)
    /\ UNCHANGED Aside

\* What the row looks like if nobody else has written it.
HeldRows(w) == {[status |-> s, run |-> run[w]] : s \in {"running", "needs_approval"}}

StillOurs(w) == \* not superseded, cancelled or paused
    /\ Exists(status[task[w]])
    /\ runId[task[w]] = run[w]
    /\ status[task[w]] \notin {"cancelled", "waiting"}

\* The error path reads the task before it writes "failed".
Judge(w) ==
    /\ pc[w] = "recorded"
    /\ ctx[w] # "claim"
    /\ outcome[w] \in {"error", "killed"}
    /\ IF StillOurs(w)
       THEN Goto(w, "judged")
       ELSE Finish(w)
    /\ UNCHANGED <<rows, ledger, Aside, disturbed>>

Fail(w) ==
    /\ \/ pc[w] = "judged"
       \/ pc[w] = "recorded" /\ outcome[w] = "invalid"
    /\ ctx[w] # "claim"
    /\ IF Exists(status[task[w]])
       THEN /\ WriteRow(task[w], "failed", run[w])
            /\ Disturb(task[w], Row(task[w]) \notin HeldRows(w))
       ELSE UNCHANGED <<rows, disturbed>>
    /\ Finish(w)
    /\ UNCHANGED <<ledger, Aside>>

\* An accepted result: a terminal status, or CreateApproval.
Verdict(o) == IF o = "deletes" THEN "completed" ELSE o

Settle(w) ==
    /\ pc[w] = "recorded"
    /\ ctx[w] # "claim"
    /\ outcome[w] \in {"completed", "deletes", "failed", "cancelled"}
    /\ Exists(status[task[w]])
    /\ WriteRow(task[w], Verdict(outcome[w]), run[w])
    /\ Disturb(task[w], Row(task[w]) \notin HeldRows(w))
    /\ Goto(w, "settled")
    /\ UNCHANGED <<ledger, Aside>>

AskApproval(w) ==
    /\ pc[w] = "recorded"
    /\ ctx[w] # "claim"
    /\ outcome[w] = "needs_approval"
    /\ Exists(status[task[w]])
    /\ asks' = [asks EXCEPT ![task[w]] = @ + 1]
    /\ IF status[task[w]] \in Terminal THEN UNCHANGED <<rows, disturbed>>
       ELSE /\ WriteRow(task[w], "needs_approval", runId[task[w]])
            /\ Disturb(task[w], Row(task[w]) # [status |-> "running", run |-> run[w]])
    /\ Goto(w, "settled")
    /\ UNCHANGED <<ledger, setting, due, edit, left>>

SettleMissing(w) ==
    /\ pc[w] = "recorded"
    /\ outcome[w] \notin {"error", "killed"}
    /\ ~Exists(status[task[w]])
    /\ Settled(w)
    /\ UNCHANGED Aside

\* The row is read back and rewritten with its result.
Load(w) ==
    /\ pc[w] = "settled"
    /\ ctx[w] # "claim"
    /\ IF Exists(status[task[w]])
       THEN /\ seen' = [seen EXCEPT ![w] = Row(task[w])]
            /\ pc' = [pc EXCEPT ![w] = "loaded"]
            /\ UNCHANGED <<task, run, ctx, outcome, claimEntry, ctl>>
       ELSE Finish(w)
    /\ UNCHANGED <<rows, ledger, Aside, disturbed>>

StoreResult(w) ==
    /\ pc[w] = "loaded"
    /\ ctx[w] # "claim"
    /\ IF Exists(status[task[w]])
       THEN /\ WriteRow(task[w], seen[w].status, seen[w].run)
            /\ Disturb(task[w], Row(task[w]) # seen[w])
       ELSE UNCHANGED <<rows, disturbed>>
    /\ Finish(w)
    /\ UNCHANGED <<ledger, Aside>>

\* The claim context is gone: the next store call fails and the worker leaves.
Abandon(w) ==
    /\ ctx[w] = "claim"
    /\ pc[w] \in {"claimed", "created", "exited", "recorded", "judged", "settled", "loaded"}
    /\ Settled(w)
    /\ UNCHANGED Aside

-----------------------------------------------------------------------------
\* Requests of the user.  Each store call is a step of its own.

Request == left > 0 /\ left' = left - 1

NoEdit == [phase |-> "none", task |-> NoTask, row |-> NoRow, to |-> "none"]

\* CreateTask holds queueMu; the queue beyond maxReadyTasks is kept as ideas.
CreateTask(t) ==
    /\ status[t] = "absent"
    /\ due = {}
    /\ WriteRow(t, IF ReadyCount < MaxReady THEN "ready" ELSE "idea", NoRun)
    /\ UNCHANGED <<ledger, wrk, claimEntry, setting, asks, due, edit, ctl, disturbed, left>>

\* allowedUserTransition, an edit that keeps the status, and DeleteTask.
Targets(s) ==
    {"same"}
    \cup (IF s \notin {"completed", "cancelled"} THEN {"cancelled"} ELSE {})
    \cup (IF s \in {"idea", "waiting", "failed", "cancelled"} THEN {"ready"} ELSE {})
    \cup (IF s = "ready" THEN {"idea"} ELSE {})
    \cup (IF s # "running" THEN {"deleted"} ELSE {})

LoadEdit(e) ==
    /\ Request
    /\ edit[e].phase = "none"
    /\ \E t \in Tasks : \E to \in Targets(status[t]) :
        /\ Exists(status[t])
        /\ edit' = [edit EXCEPT ![e] = [phase |-> "loaded", task |-> t, row |-> Row(t), to |-> to]]
    /\ UNCHANGED <<rows, ledger, wrk, claimEntry, setting, asks, due, ctl, disturbed>>

\* The row UpdateTask writes: the whole snapshot, with the requested status.
Edited(row, to) ==
    CASE to = "same"    -> row
      [] to \in {"ready", "deleted"} -> [status |-> to, run |-> NoRun]
      [] OTHER          -> [row EXCEPT !.status = to]

CommitEdit(e) ==
    LET t == edit[e].task  row == edit[e].row  to == edit[e].to IN
    /\ edit[e].phase = "loaded"
    /\ IF Exists(status[t])
       THEN /\ WriteRow(t, Edited(row, to).status, Edited(row, to).run)
            /\ Disturb(t, Row(t) # row \/ (to = "ready" /\ Owned(t)))
            /\ asks' = IF to = "deleted" THEN [asks EXCEPT ![t] = 0] ELSE asks
            /\ edit' = [edit EXCEPT ![e] = IF to = "cancelled"
                                           THEN [@ EXCEPT !.phase = "cancelling"] ELSE NoEdit]
       ELSE /\ UNCHANGED <<rows, asks, disturbed>>
            /\ edit' = [edit EXCEPT ![e] = NoEdit]
    /\ UNCHANGED <<ledger, wrk, claimEntry, setting, due, ctl, left>>

\* cancelTask: every cancel function registered for the task.
CancelTask(e) ==
    LET t == edit[e].task
        hit(w) == {a.key : a \in {b \in ActiveRuns : b.task = t /\ b.worker = w}}
    IN
    /\ edit[e].phase = "cancelling"
    /\ ctx' = [w \in Workers |-> IF ClaimKey \in hit(w) THEN "claim"
                                  ELSE IF hit(w) # {} THEN Cancelled(w, NoRun) ELSE ctx[w]]
    /\ edit' = [edit EXCEPT ![e] = NoEdit]
    /\ Disturb(t, status[t] = "running")
    /\ UNCHANGED <<rows, ledger, pc, task, run, outcome, seen, claimEntry, setting, asks, due, ctl, left>>

RunNow(t) ==
    /\ status[t] \in {"idea", "ready"}
    /\ WriteRow(t, "ready", runId[t])
    /\ UNCHANGED <<ledger, wrk, claimEntry, setting, asks, due, edit, ctl, disturbed, left>>

\* Mutant of Resolve: the decision commits without the task's transition.
ResolveOnlyApproval(t, s) ==
    /\ asks[t] > 0
    /\ asks' = [asks EXCEPT ![t] = @ - 1]
    /\ UNCHANGED <<rows, disturbed, ledger, wrk, claimEntry, setting, due, edit, ctl, left>>

\* ResolveApproval and ExpireApprovals: only a pending approval is resolved,
\* and only a task that still needs approval moves.
Resolve(t, s) ==
    /\ asks[t] > 0
    /\ asks' = [asks EXCEPT ![t] = @ - 1]
    /\ IF status[t] = "needs_approval"
       THEN /\ WriteRow(t, s, NoRun)
            /\ Disturb(t, Owned(t))
       ELSE UNCHANGED <<rows, disturbed>>
    /\ UNCHANGED <<ledger, wrk, claimEntry, setting, due, edit, ctl, left>>

\* promoteDuePlannedTasks: list the due ideas, then write each one to ready.
\* queueMu keeps claims and CreateTask out; edits do not take it.
ListDue ==
    /\ due = {}
    /\ due' \in SUBSET {t \in Tasks : status[t] = "idea"}
    /\ due' # {}
    /\ ReadyCount + Cardinality(due') <= MaxReady
    /\ UNCHANGED <<rows, ledger, wrk, claimEntry, setting, asks, edit, ctl, disturbed, left>>

Promote(t) ==
    /\ t \in due
    /\ IF Exists(status[t])
       THEN /\ WriteRow(t, "ready", NoRun)
            /\ Disturb(t, Row(t) # [status |-> "idea", run |-> NoRun])
            /\ due' = due \ {t}
       ELSE /\ due' = {}
            /\ UNCHANGED <<rows, disturbed>>
    /\ UNCHANGED <<ledger, wrk, claimEntry, setting, asks, edit, ctl, left>>

SetLimit ==
    /\ Request
    /\ limit' \in 1 .. MaxLimit
    /\ UNCHANGED <<rows, ledger, wrk, claimEntry, paused, asks, due, edit, ctl, disturbed>>

-----------------------------------------------------------------------------
\* SetPaused.  The UI sends one request at a time.

Quiet == [phase |-> "none", todo |-> {}, cur |-> NoEntry]

Pause ==
    /\ Request
    /\ ctl.phase = "none"
    /\ paused' = TRUE
    /\ ctl' = [ctl EXCEPT !.phase = "pausing"]
    /\ UNCHANGED <<rows, ledger, wrk, claimEntry, limit, asks, due, edit, disturbed>>

\* pauseActive copies activeRuns under o.mu and works through the copy.
CopyActive ==
    /\ ctl.phase = "pausing"
    /\ ctl' = IF ActiveRuns = {} THEN Quiet
              ELSE [phase |-> "stopping", todo |-> ActiveRuns, cur |-> NoEntry]
    /\ UNCHANGED <<rows, ledger, wrk, claimEntry, setting, asks, due, edit, disturbed, left>>

PauseWrite ==
    /\ ctl.phase = "stopping"
    /\ \E e \in ctl.todo :
        /\ ctl' = [phase |-> "cancelling", todo |-> ctl.todo \ {e}, cur |-> e]
        /\ IF Exists(status[e.task])
           THEN /\ WriteRow(e.task, "waiting", e.key)
                /\ Disturb(e.task, status[e.task] \notin {"running", "waiting"} \/ e.worker = NoWorker)
           ELSE UNCHANGED <<rows, disturbed>>
    /\ UNCHANGED <<ledger, wrk, claimEntry, setting, asks, due, edit, left>>

PauseCancel ==
    /\ ctl.phase = "cancelling"
    /\ ctx' = IF ctl.cur.worker = NoWorker THEN ctx
              ELSE [ctx EXCEPT ![ctl.cur.worker] = Cancelled(ctl.cur.worker, ctl.cur.key)]
    /\ ctl' = IF ctl.todo = {} THEN Quiet ELSE [phase |-> "stopping", todo |-> ctl.todo, cur |-> NoEntry]
    /\ UNCHANGED <<rows, ledger, pc, task, run, outcome, seen, claimEntry, setting, asks, due, edit,
                   disturbed, left>>

Resume ==
    /\ Request
    /\ ctl.phase = "none"
    /\ paused' = FALSE
    /\ ctl' = [ctl EXCEPT !.phase = "listing"]
    /\ UNCHANGED <<rows, ledger, wrk, claimEntry, limit, asks, due, edit, disturbed>>

\* Only tasks that a pause stopped carry a run: those go back to the queue.
ListWaiting ==
    LET stopped == {[task |-> t, key |-> runId[t], worker |-> NoWorker] :
                        t \in {u \in Tasks : status[u] = "waiting" /\ runId[u] # NoRun}}
    IN
    /\ ctl.phase = "listing"
    /\ ctl' = IF stopped = {} THEN Quiet
              ELSE [phase |-> "resuming", todo |-> stopped, cur |-> NoEntry]
    /\ UNCHANGED <<rows, ledger, wrk, claimEntry, setting, asks, due, edit, disturbed, left>>

ResumeWrite ==
    /\ ctl.phase = "resuming"
    /\ \E e \in ctl.todo :
        IF Exists(status[e.task])
        THEN /\ WriteRow(e.task, "ready", NoRun)
             /\ Disturb(e.task, Row(e.task) # [status |-> "waiting", run |-> e.key] \/ Owned(e.task))
             /\ ctl' = IF ctl.todo = {e} THEN Quiet ELSE [ctl EXCEPT !.todo = @ \ {e}]
        ELSE /\ ctl' = Quiet
             /\ UNCHANGED <<rows, disturbed>>
    /\ UNCHANGED <<ledger, wrk, claimEntry, setting, asks, due, edit, left>>

\* setPausedFromChat flips the flag and nothing else.
ChatSetPaused ==
    /\ Request
    /\ paused' = ~paused
    /\ UNCHANGED <<rows, ledger, wrk, claimEntry, limit, asks, due, edit, ctl, disturbed>>

-----------------------------------------------------------------------------
\* The daemon dies or stops, and starts again: RecoverInterrupted runs before
\* the operator.

Recovered(s) == IF s = "running" THEN "interrupted" ELSE s

Restart ==
    /\ Request
    /\ status' = [t \in Tasks |-> IF status[t] = "running" THEN "ready" ELSE status[t]]
    /\ runId'  = [t \in Tasks |-> IF status[t] = "running" THEN NoRun ELSE runId[t]]
    /\ runs'   = [r \in RunIds |-> Recovered(runs[r])]
    /\ pc'      = [w \in Workers |-> "idle"]
    /\ task'    = [w \in Workers |-> NoTask]
    /\ run'     = [w \in Workers |-> NoRun]
    /\ ctx'     = [w \in Workers |-> "live"]
    /\ outcome' = [w \in Workers |-> "none"]
    /\ seen'    = [w \in Workers |-> NoRow]
    /\ claimEntry' = [t \in Tasks |-> NoWorker]
    /\ due'  = {}
    /\ edit' = [e \in Editors |-> NoEdit]
    /\ ctl'  = Quiet
    /\ disturbed' = {t \in disturbed : status[t] = "needs_approval"}
    /\ UNCHANGED <<lastRun, setting, asks>>

-----------------------------------------------------------------------------
Init ==
    /\ status = [t \in Tasks |-> "absent"]
    /\ runId  = [t \in Tasks |-> NoRun]
    /\ runs   = [r \in RunIds |-> "unused"]
    /\ lastRun = 0
    /\ paused = FALSE
    /\ limit \in 1 .. MaxLimit
    /\ pc      = [w \in Workers |-> "idle"]
    /\ task    = [w \in Workers |-> NoTask]
    /\ run     = [w \in Workers |-> NoRun]
    /\ ctx     = [w \in Workers |-> "live"]
    /\ outcome = [w \in Workers |-> "none"]
    /\ seen    = [w \in Workers |-> NoRow]
    /\ claimEntry = [t \in Tasks |-> NoWorker]
    /\ asks = [t \in Tasks |-> 0]
    /\ due  = {}
    /\ edit = [e \in Editors |-> NoEdit]
    /\ ctl  = Quiet
    /\ left = MaxRequests
    /\ disturbed = {}

Attempt(w) == \* from the claim to the end of the process
    \/ Claim(w) \/ PrepareFails(w) \/ CreateRun(w) \/ StartRun(w) \/ StartMissing(w)
    \/ Register(w) \/ LaunchFails(w) \/ \E o \in Outcomes : Exit(w, o)

Conclude(w) == \* finishTaskRun
    \/ AskDeletion(w) \/ Record(w) \/ RecordMissing(w) \/ Judge(w) \/ Fail(w) \/ Settle(w)
    \/ AskApproval(w) \/ SettleMissing(w) \/ Load(w) \/ StoreResult(w) \/ Abandon(w)

Work(w) == Refuse(w) \/ Attempt(w) \/ Conclude(w)

User ==
    \/ \E t \in Tasks : CreateTask(t) \/ RunNow(t) \/ \E s \in {"ready", "waiting"} : Resolve(t, s)
    \/ \E e \in Editors : LoadEdit(e) \/ CommitEdit(e) \/ CancelTask(e)
    \/ SetLimit \/ Pause \/ Resume \/ ChatSetPaused

Server == \* the rest of requests under way
    \/ CopyActive \/ PauseWrite \/ PauseCancel \/ ListWaiting \/ ResumeWrite
    \/ ListDue \/ \E t \in Tasks : Promote(t)

Next ==
    \/ \E w \in Workers : Gate(w) \/ Work(w)
    \/ User \/ Server \/ Restart

Spec == Init /\ [][Next]_vars

\* Goroutines run on, and a Codex process ends (every run has a time limit).
Fairness ==
    /\ \A w \in Workers : WF_vars(Work(w))
    /\ WF_vars(\E t \in Tasks : Promote(t))

FairSpec == Spec /\ Fairness

-----------------------------------------------------------------------------
\* Properties.

EditSet == [phase : {"loaded", "cancelling"}, task : Tasks, row : RowSet,
            to : {"same", "cancelled", "ready", "idea", "deleted"}] \cup {NoEdit}

CtlSet == [phase : {"none", "pausing", "stopping", "cancelling", "listing", "resuming"},
           todo : SUBSET Entries, cur : Entries \cup {NoEntry}]

Places == {"idle", "gated", "claimed", "created", "started", "executing", "exited",
           "recorded", "judged", "settled", "loaded"}

\* Every variable has its type.
TypeOK ==
    /\ status \in [Tasks -> Statuses]
    /\ runId \in [Tasks -> RunRefs]
    /\ runs \in [RunIds -> RunStatuses]
    /\ lastRun \in 0 .. MaxRuns
    /\ paused \in BOOLEAN
    /\ limit \in 1 .. MaxLimit
    /\ pc \in [Workers -> Places]
    /\ task \in [Workers -> Tasks \cup {NoTask}]
    /\ run \in [Workers -> RunIds \cup {NoRun}]
    /\ ctx \in [Workers -> {"live", "run", "claim"}]
    /\ outcome \in [Workers -> Outcomes]
    /\ seen \in [Workers -> RowSet]
    /\ claimEntry \in [Tasks -> Workers \cup {NoWorker}]
    /\ asks \in [Tasks -> Nat]
    /\ due \in SUBSET Tasks
    /\ edit \in [Editors -> EditSet]
    /\ ctl \in CtlSet
    /\ left \in 0 .. MaxRequests
    /\ disturbed \in SUBSET Tasks

\* A queued task carries no run, in the row and in every copy of a row that
\* somebody is about to write back: the next claim starts from a clean row.
CleanRow(r) == r.status \in {"idea", "ready"} => r.run = NoRun
QueuedIsClean ==
    /\ \A t \in Tasks : CleanRow(Row(t))
    /\ \A w \in Workers : CleanRow(seen[w])
    /\ \A e \in Editors : CleanRow(edit[e].row)

\* Atomic claims: unless somebody wrote the row from an outdated view, at most
\* one live worker holds a task.
ExclusiveOwner ==
    \A t \in Tasks \ disturbed : \A v, w \in Workers : Owns(v, t) /\ Owns(w, t) => v = w

\* ... a row that says running has a worker behind it,
RunningIsOwned ==
    \A t \in Tasks \ disturbed : status[t] = "running" => Owned(t)

\* ... the row names the run of that worker,
OwnerIsNamed ==
    \A w \in Workers : \A t \in Tasks \ disturbed :
        Owns(w, t) /\ status[t] \in {"running", "needs_approval"} =>
            runId[t] = IF pc[w] \in {"claimed", "created"} THEN NoRun ELSE run[w]

\* ... and while it works the task is neither queued nor finished.
OwnedIsUnsettled ==
    \A w \in Workers : \A t \in Tasks \ disturbed :
        Owns(w, t) => \/ status[t] \in {"running", "waiting", "cancelled", "deleted"}
                      \/ status[t] = "needs_approval" /\ outcome[w] \in {"deletes", "invalid"}

Ownership == ExclusiveOwner /\ RunningIsOwned /\ OwnerIsNamed /\ OwnedIsUnsettled

\* Every worker records a run of its own, and the run row is open until then.
OwnRun ==
    \A w \in Workers :
        /\ run[w] <= lastRun
        /\ \A v \in Workers : run[v] = run[w] => run[w] = NoRun \/ v = w
        /\ pc[w] \in {"created", "started", "executing", "exited"} =>
              run[w] # NoRun /\ runs[run[w]] = "running"

\* Bookkeeping.  A worker's place says what it holds,
PlaceSaysWhat ==
    \A w \in Workers :
        /\ pc[w] \in {"idle", "gated"} <=> task[w] = NoTask
        /\ pc[w] \in {"idle", "gated", "claimed"} <=> run[w] = NoRun
        /\ pc[w] \in {"idle", "gated"} => ctx[w] = "live"
        /\ pc[w] \notin Registered => ctx[w] # "run"
        /\ pc[w] \in {"idle", "gated", "claimed", "created", "started", "executing"} => outcome[w] = "none"

\* ... a cancel function stored in activeRuns, or copied by a pause, belongs to
\* a worker that holds the task,
EntryIsHeld(e) ==
    e.worker # NoWorker =>
        /\ task[e.worker] = e.task
        /\ e.key # ClaimKey => pc[e.worker] \in Registered
CancelsAreHeld ==
    /\ \A t \in Tasks : claimEntry[t] # NoWorker => task[claimEntry[t]] = t
    /\ \A e \in ctl.todo \cup {ctl.cur} : EntryIsHeld(e)

\* ... an edit in progress asks for a legal transition of its snapshot,
EditsAreLegal ==
    \A e \in Editors : edit[e].phase = "loaded" => edit[e].to \in Targets(edit[e].row.status)

\* ... run rows are created in order,
FreshRuns == \A r \in RunIds : r > lastRun => runs[r] = "unused"

Holdings == PlaceSaysWhat /\ CancelsAreHeld /\ EditsAreLegal /\ FreshRuns

\* ... and a pause is not about to cancel the owner of a running row: it wrote
\* the row to waiting before.
CancelIsMarked ==
    ctl.cur.worker # NoWorker /\ ctl.cur.task \notin disturbed
        /\ Owns(ctl.cur.worker, ctl.cur.task) => status[ctl.cur.task] # "running"

\* A task that says completed names a run that was recorded as completed, in the row
\* and in every copy of it, also where rows are written from an outdated view.
DoneRow(r) == r.status = "completed" => r.run \in RunIds /\ runs[r.run] = "completed"
DoneIsRecorded ==
    /\ \A t \in Tasks : DoneRow(Row(t))
    /\ \A w \in Workers : DoneRow(seen[w])
    /\ \A e \in Editors : DoneRow(edit[e].row)

\* The bookkeeping of tasks.go and operator.go as a whole: no edit, pause or restart
\* leaves a queued task with the run of an old attempt, or a snapshot that could write
\* one back, a completed task has its completed run, and no cancel function reaches a
\* worker on behalf of a task it has left.
Books == TypeOK /\ QueuedIsClean /\ DoneIsRecorded /\ Holdings /\ CancelIsMarked

\* A task that needs approval has an approval the user can resolve.
ApprovalIsPending ==
    \A t \in Tasks \ disturbed : status[t] = "needs_approval" => asks[t] > 0

\* The number of running tasks only grows within the configured limit.
GrowthWithinLimit ==
    [][disturbed' = {} /\ RunningCount' > RunningCount => RunningCount' <= limit]_vars

\* Who has a task, as TaskLife sees it: nobody is promised a task that was disturbed.
OwnerOf ==
    [t \in Tasks |-> IF t \in disturbed \/ ~Owned(t) THEN NoWorker ELSE CHOOSE w \in Workers : Owns(w, t)]

\* Whatever workers, requests and restarts do, a task lives as TaskLife says: it is
\* taken from the queue by one worker, within the limit and after its prerequisites,
\* and let go of with a verdict that its run supports (tasks.go, operator.go).
Life == INSTANCE TaskLife WITH
    Runs   <- RunIds,
    named  <- runId,
    owner  <- OwnerOf,
    adrift <- disturbed

LivesAsPromised == Life!Spec

\* allowedUserTransition lets nobody reopen a completed task: it stays so until it is
\* deleted, whatever workers, pauses and restarts do, unless its row is written from an
\* outdated view (pauseActive).
CompletedStays ==
    [][\A t \in Tasks \ disturbed' : status[t] = "completed" => status'[t] \in {"completed", "deleted"}]_vars

\* A run that was recorded, or was interrupted, is never rewritten.
RunsAreFinal ==
    [][\A r \in RunIds : runs[r] \notin {"unused", "running"} => runs'[r] = runs[r]]_vars

\* Whatever step makes a task running, its prerequisites are resolved by then.
StartsInOrder ==
    [][\A t \in Tasks \ disturbed' : (status[t] # "running" /\ status'[t] = "running") =>
            \A p \in Prereq[t] : status[p] \in Resolved]_vars

\* If the operator stays paused, every worker comes to rest.
PauseDrains == <>[]paused => <>[](\A w \in Workers : pc[w] = "idle")

\* PRD.md: "atomic claims prevent duplicate execution".  At most one live worker
\* holds a task, whoever else writes its row (ClaimNextReadyTask).
NeverTwoOwners ==
    \A t \in Tasks : \A v, w \in Workers : Owns(v, t) /\ Owns(w, t) => v = w
=============================================================================
