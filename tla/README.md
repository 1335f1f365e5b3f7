# Nabu: TLA+ models, model checking and proofs

Nabu is a local, always-on operator. A Go daemon (`cmd/nabud`) keeps missions,
tasks, chat, schedules, scripts, approvals, datasets and local apps of several
workspaces in one SQLite database, and runs Codex processes on their behalf.
This directory models the parts of it that are hard to test: what happens when
its goroutines, its users and its crashes interleave.

## 1. The system

| component | state | operations | talks to |
|---|---|---|---|
| task queue (`store/tasks.go`, `store/runs.go`, `operator/operator.go`) | `tasks`, `runs`, `settings`; in memory: `activeRuns`, `queueMu` | claim, run, finish, edit, delete, run now, promote, pause, resume, limit | approvals, datasets, reports, event bus, process supervisor |
| approvals (`store/approvals.go`, `operator/product_store.go`) | `approvals`, the status of their task | create, expire, approve, reject, execute a deletion | task queue, datasets |
| task dependencies (`store/tasks.go`) | `task_dependencies` | replace the prerequisites of a task, delete a task | the claim statement |
| schedules (`automation/*.go`, `store/schedules.go`, `store/scripts.go`, `scheduler/next.go`) | `schedules` with a claim and a lease, `scripts`, `script_runs` | claim when due, dispatch (task, script, orientation), finish; create, edit, delete | task queue, orientation, script runner |
| chat lane (`operator/chat.go`, `store/messages.go`) | `messages`, chat runs | queue, claim, answer, repair, apply effects, complete, fail, requeue | everything an effect creates |
| orientation lane (`operator/operator.go`) | orientation request of a workspace, `orientationClaimed`, `retryUsed` | request, run when nothing is active, complete, fail | task queue (excluded by `queueMu`) |
| idle steward (`operator/idle_steward.go`, `store/idle_steward.go`) | idle window, review lease, cooldown | claim a review, complete it | orientation lane |
| settings (`store/settings.go`, `store/missions.go`) | one row: paused, limit, active workspace, setup | read-modify-write from six handlers | everything that reads it |
| datasets (`store/datasets.go`, `operator/task_datasets.go`) | datasets, rows, policies | the writes of a finished task, chat and user edits | approvals |
| local apps (`appruntime/manager.go`) | processes, last states | start, stop, wait, shutdown | operating system |
| process supervisor (`runner/supervisor.go`) | attempts of one Codex run | run, retry, time out, cancel | every lane |
| memory (`store/memory.go`, `config/memory.go`) | proposed updates, a file | propose, resolve | chat, tasks |
| secrets (`operator/secrets.go`, `mcp.go`, `credentials/`) | records in SQLite, values in the key chain, what binds them to connectors and scripts | create, update, delete, bind, gather for a run | scripts, connectors |
| integrations (`operator/integrations.go`, `integrations/`) | one row, credentials in the key chain | save, delete and verify credentials | provider |
| task results (`runner/results.go`, `operator/script_context.go`, `operator/reports.go`) | the plan of an attempt, the definition of done, artifacts and reports | find the report, delegate the browser check, judge, mark, promote | task queue, datasets, local apps, script runner |
| steering contract (`steering/`) | nothing; reads the state of the turn | extract, validate, repair the result of a chat turn | chat lane |
| calendar (`scheduler/next.go`) | nothing | the next run of a cadence | schedules |
| workspaces (`store/workspaces.go`, `operator/product_store.go`) | approved folders, the active one | create, switch, delete | every component |
| event bus (`eventbus/bus.go`) | subscriber channels | publish, subscribe, close | the web interface |

Everything durable goes through **one SQLite connection** (`store.go`,
`SetMaxOpenConns(1)`), so a statement or a transaction is atomic and the models
take each as one step. What is hard lies between the statements: the daemon
runs one operator loop, one chat loop, eight task loops, one automation loop
and any number of HTTP handlers, and they read a row, decide, and write later.

## 2. Hard behaviours

PROJECT.json lists them under `hazards`, each at its line. The most important:

* **Ownership.** The claim is one statement; everything after it writes the task
  row by id from what the writer believes it to be. Edits, Pause, approvals and
  deletion do the same.
* **Pause** copies the table of active runs and then works through the copy.
* **Crash and restart.** `RecoverInterrupted` decides from the rows alone.
* **Schedules** must fire each occurrence once although the daemon may die
  between the effect and the statement that moves the schedule on.
* **Read-modify-write** of task, schedule and settings rows.
* **Order**: dependent tasks, chat messages, orientation against running tasks.
* **Half-done work**: the effects of a chat reply, the status of the message and
  the answer are three writes; a stop cancels some of the calls and not others.
  The dataset writes of a task are one transaction each; a secret is a row and
  a value in another program; a note is a row and a line in a file.
* **Look, then act**: the app manager looks at its map, starts a process without
  the lock, and fills the map; the operator loop looks for active work and then
  takes the lock that stops it.

For each component, what makes it correct:

| component | correct when |
|---|---|
| task queue | one worker at a time executes a task; its row says so; runs are recorded once; a pause comes to rest; the limit holds |
| dependencies | the graph stays acyclic and inside one workspace; a task starts only when its prerequisites are resolved; nothing queued waits for nothing |
| schedules | each occurrence has its effect once; a due schedule is attempted and moved on; nobody disturbs a live claim |
| chat lane | messages are settled in order, once, with a reply that tells the truth; none is forgotten |
| approvals, datasets | an approved change is executed once and completely, a rejected one never |
| orientation, idle steward | alone when it must be, requested work is not lost, one review at a time |
| settings | no handler undoes the change of another |
| local apps, process supervisor | one process for one app; a cancelled or timed-out run is not retried; shutdown leaves no process |
| secrets, connectors | a binding names a secret that exists; a run gets exactly the values its connectors are bound to |
| integrations | an integration does not stay "verifying" |
| memory | a note is in the file once, and only if it was accepted |
| task results | a task is done on the evidence of this attempt; its definition says so; each report file has one report |
| steering contract | what is accepted is acceptable as a whole and is the last such object of the answer |
| calendar | the next run is the least later time that matches |

## 3. Plan

The order is that of importance: what executes work comes first, then what
feeds it, then what the owner sees, then the services around it.

| stage | modules | composes with | state |
|---|---|---|---|
| 1 | `TaskQueue`, `TaskQueueProofs` | approvals by their count, dependencies by the constant `Prereq` | done |
| 1 | `ScheduleOccurrences` (abstract), `ScheduleClaims`, `ScheduleClaimsProofs` | refines `ScheduleOccurrences` | done |
| 1 | `TaskDependencies`, proved in `StoreProofs` | takes the queue as claim, settle, restart | done |
| 1 | `ChatLane`, `ChatLaneProofs` | | done |
| 2 | `Datasets`: rows, schemas, batches of tasks and Chat, approved deletion, export | end of a task, approvals | done |
| 2 | `Orientation`: operator loop, idle steward, the settings row and its writers | workers and chat as processes of the model | done |
| 2 | `LocalApps`, `ProcessRuns`, composed by `MCProcesses` | the operating system as exits and signals | done |
| 2 | `Vault`, `Integrations`, `MemoryUpdates`, composed by `MCVault` | what is kept outside of the store | done |
| 2 | `SteeringContract`, `Calendar`, composed by `MCContract` | what Chat may do, when schedules run | done |
| 2 | `TaskResults`, checked in `MCContract` | the process as what it printed; writes and applications as accepted or refused | done |
| 3 | `OrientationProofs`, `ProcessesProofs`, `StoreProofs` (dependencies, secrets, notes) | | done |
| 4 | `ContractProofs` (contract, calendar, task results), `DatasetsProofs` | | done |
| 5 | `TaskLife`, an abstract life of a task, with the proof that `TaskQueue` implements it | snapshots, contexts and cancel functions are gone | done |
| 6 | the refresh protocol of the web pages | | left |

## 4. Conventions

* Every statement and every transaction of the store is one step; everything
  between two of them is another step of the goroutine that runs it. Reads
  whose result is used later are steps of their own that keep the snapshot
  (`edit`, `snap`, `seen`, `ctl`).
* A cancelled context makes the store calls that carry it fail. Where the code
  uses `context.WithoutCancel` or `context.Background` the call goes on.
* Ids are values of a set or numbers in order of creation, texts and JSON are
  left out, time is a counter.
* Operators named `...Never`, `...Anyway`, `...Alone` and the like, marked
  "Mutant of" or "(mutant)", are not part of a specification: each is a plausible bug. With
  it in place of the definition it names, TLC finds the property it is listed
  with in PROJECT.json violated.
* History variables (`disturbed`, `tried`, `births` and `edited` of the
  schedules, `crashes`, the row fields `to` and `changed`, `overtaken`,
  `erased`, `owed`, `quiet`, `witness`, `steady`, `deleted`) are written and never read by an
  action, but for bounds.
* A module per component; where the parts of one run share nothing, the MC
  module chooses one of them in the initial state (`part`, `life`, `run`) and
  a behaviour is about it alone.
* Bounds of the models are constants named `Max...` with a comment "bound of
  the model"; `Limit`, `MaxLimit` and `MaxReady` are the program's own.

## 5. The task queue: TaskQueue

State: `status`, `runId` (tasks.status, current_run_id), `runs`, `lastRun`,
`paused`, `limit`; for each worker `pc`, `task`, `run`, `ctx` (which of its two
contexts is cancelled), `outcome`, `seen` (the row `finishTaskRun` read back);
`claimEntry` and `ActiveRuns` for the map `activeRuns`; `asks` (pending
approvals), `due` (the list of `promoteDuePlannedTasks`), `edit` (one per
overlapping request), `ctl` (the pause or resume in progress).

| action | code |
|---|---|
| `Gate`, `Refuse`, `Claim` | `taskWorkOnce`: settings first, then `queueMu` and the claim statement |
| `PrepareFails`, `CreateRun`, `StartRun`, `StartMissing`, `Register`, `LaunchFails` | `runTask` up to the process |
| `Exit`, `AskDeletion`, `Record`, `RecordMissing`, `Judge` | the end of the process, dataset writes, the run row, the check for a superseded task |
| `Fail`, `Settle`, `AskApproval`, `SettleMissing`, `Load`, `StoreResult`, `Abandon` | `failTask`, `finishTaskRun` |
| `CreateTask`, `LoadEdit`, `CommitEdit`, `CancelTask`, `RunNow`, `Resolve` | the owner's requests |
| `ListDue`, `Promote` | `promoteDuePlannedTasks` |
| `Pause`, `CopyActive`, `PauseWrite`, `PauseCancel`, `Resume`, `ListWaiting`, `ResumeWrite`, `ChatSetPaused`, `SetLimit` | `SetPaused`, `pauseActive`, `resumeWaiting`, `setPausedFromChat`, settings |
| `Restart` | `RecoverInterrupted` after a kill at any point |

`disturbed` deserves an explanation. The code writes task rows by id from an
earlier picture of them: an edit from a snapshot, a pause over a copy, Chat over
the row it has just created. When such a write finds a row its picture does not
fit, the task becomes *disturbed*. `Ownership` and its parts are about the
undisturbed tasks: they say exactly where atomic claims do what the documents
say, and that there is no other way to lose them. What happens to a disturbed
task is shown by the violation run `queue_two_owners`, told under Divergences,
and bounded by `Books` (with its parts `QueuedIsClean` and `DoneIsRecorded`),
`OwnRun`, `PauseDrains` and `RunsAreFinal`, which is only proved; they hold for
every task.

`TaskLife` is what the queue promises of a task, without workers' places,
contexts, cancel functions, snapshots and requests in progress. Its variables are
the status of each task, the run its row names, who has it, the status of each
run, the limit, and which tasks are adrift. A task that nobody has may change as
its status allows (`FreeMoves`), one that is worked on only so that its worker
can still tell (`KeptMoves`), and a worker lets go of a running task only with a
verdict (`LastMoves`). Only `Take` makes a task running: ready, not named after
an older run, within the limit, after its prerequisites, by a worker that has
nothing else. A task becomes completed only on the word of a run that was
recorded as completed, adrift or not, and a run goes from unused to running to
one end. `TaskQueue` implements it (`LivesAsPromised`) under the mapping
`named <- runId`, `owner <- OwnerOf`, `adrift <- disturbed`, where `OwnerOf` is
the worker that owns an undisturbed task. Reading and loading rows, the gate, the
process and the lists of a pause are stuttering steps of it.

## 6. Schedules: ScheduleClaims and ScheduleOccurrences

State: `row`, `token`, `lease` (schedules), `pc`, `snap`, `claim`, `failed`,
`run` of each engine, `tasks` and `runs` (the rows an occurrence makes), `ready`
(context_ready), `stopping`, `now`. An occurrence is a schedule and a due time,
as in `scheduleEffectID`. Actions: `Claim` (ClaimDueSchedule), `Orient`,
`CreateTask`, `StartScript`, `OnStart`, `EndScript`, `DispatchFails` (dispatch),
`Finish`, `FinishFails` (FinishScheduleClaim), the owner's create, edit (two
steps), delete, `DeleteTask`, `ResetContext`, `ConfirmContext`, `Tick`, `Stop`,
`Restart`.

`ScheduleOccurrences` is what schedules promise without engines, leases or
crashes: an occurrence is attempted when due, has its effect only once
attempted, and a schedule leaves an occurrence only when it was attempted or
rewritten by the owner. `ScheduleClaims` implements it under the mapping
`next <- row[s].next`, `byUser <- edited`, `done <- {o : births[o] > 0}`.

`nabud` runs one engine; claim tokens and leases are written for more than one
(engine.go says the lease is "preventing a second daemon from reclaiming a live
script"). Safety is checked with two engines, liveness with one, as shipped.

## 7. Dependencies: TaskDependencies

State: `deps` (task_dependencies), `status`, `home`, `open`, and for each
request the row it has read. `CommitEdit` writes the whole row, with new
prerequisites or with those of the snapshot; `Accepted` is
`validateTaskDependenciesTx`, with the recursive query as the least closed set.
Deletion of a task or a workspace cascades. `Claim`, `Settle`, `RunNow` and
`Restart` stand for the queue. "held" joins waiting, needs_approval and failed.

## 8. The chat lane: ChatLane

State: `messages` (a sequence of rows, a row's id is its place), `runs`,
`workspaces`, `active`, `cooling` (codexRetryAt), `wake` (the buffered channel
`chatWake`), `worker` (the goroutine of `chatLoop` with its place, message and
effects), `process`. Of the type of an effect one thing is kept: whether the first
one is on a local app (`app`), since the answer is recorded under the type of its
first effect and `validateMessage` refuses those (`Recordable`).

| action | code |
|---|---|
| `CheckQueue`, `Claim`, `FindWorkspace` | `chatLoop`, `chatWorkOnce`, `ClaimNextQueuedMessage` |
| `Packet`, `Launch`, `Codex`, `Repair` | `runChat` up to a valid response; each may fail or be cancelled |
| `ApplyEffect` | `applyChatEffects`, one effect a step, the first refusal ends the list |
| `Complete`, `Answer` | the two writes without the context of the run; the answer fails when its rows are gone or its effect is refused |
| `Fail`, `Excuse` | `finishChatFailure`: `bound` tells which context it was given; with a cancelled one it writes nothing |
| `Requeue`, `Finish` | `requeueChatMessage`; `finishChatRun` and `endChat` |
| `SendChat`, `DeleteChatMessage`, `SelectWorkspace`, `StaleSettings`, `StartMission`, `DeleteWorkspace` | the owner |
| `Stop`, `Exit`, `Crash`, `Restart` | SIGTERM, the end of the lane, a kill or the forced exit after ten seconds, `RecoverInterrupted` |

`RepliesAreTrue` has two parts. `ReplyMatchesOutcome` is about the rows: one reply
for a settled message, of the kind its status says. `DeniesOnlyApps` is about the
step that writes an excuse: after effects it does so only for an answer that began
with an effect on a local app. That this one denies what was done is told under
Divergences (`TruthfulExcuse`).

## 9. Datasets: Datasets

State: `datasets`, `rows`, `births` (the AUTOINCREMENT counter), `approvals` (those
of row deletions); `work`, for each task worker and for Chat the writes in
progress; `edit`, `decide`, `export`, the requests in progress. A row's column
values are small numbers, its fingerprint (`print`) is the part of them under the
unique key, and `birth` is its number among all rows ever inserted, which the
code does not have: only properties use it, to tell a row from a later one with
its identifier.

| action | code |
|---|---|
| `Begin`, `Validate`, `RefuseBatch`, `StartApply`, `Apply`, `Cut` | `applyTaskDatasetWrites`: all is validated, then applied write by write; the first refusal ends the batch, what was written stays |
| `LookUp`, `AskApproval` | `requestDatasetDeletionApproval` after the writes: each row is looked up, in the order of the deletions among the writes, then all are asked for together |
| `ChatEffect` and the same steps with one write | `applyChatEffect`, a call of the store an effect |
| `CreateDataset`, `BulkDatasetRows`, `UpdateDatasetRow`, `DeleteDatasetRow`, `DeleteDataset`, `RestoreDataset` | the owner's requests, one transaction each |
| `LoadEdit`, `CheckEdit`, `WriteEdit` | `UpdateDataset`: reads, compares, writes the whole row |
| `Resolve`, `Look`, `Execute`, `Respond` | the decision on an approval and the deletions it carries, one by one, after the decision is stored |
| `StartExport`, `Page`, `CloseExport` | the export, a page a query |
| `Crash` | a kill at any step |

`overtaken` marks a dataset whose schema edit was written over rows or columns
its check had not seen. That is possible (the check reads before the write), so
`RowsFit` speaks of the other datasets and says there is no other way.

A bulk write (`Put`) is a recursive function over the batch: each row meets the
rows that the earlier ones left. Rows that have no value at all give no schema
and are refused (`Described`). The order of an export is by identifier: `Place`
counts the identifiers up to one's own, `Sorted` lists them by their places.
The assumptions say of the constants what the code's types say: a shape is a
schema and a key that `validateDatasetMetadata` accepts, a change gives values
to some columns, and there is a slug to be named by.

## 10. The operator loop, the idle steward and the settings row: Orientation

State: `settings` and `ws` (the tables), `idle` (idle_steward_state), `ready`
(tasks that can be claimed, by workspace); `loop` (where the operator loop is,
with its snapshot of the settings, its workspace and the row), `claimed`,
`asked`, `retried` (the three flags of the operator), `worker`, `chat`, `cool`
(codexRetryAt), `ed` (handlers between their read and their write). `owed` and
`quiet` are clocks for `ReviewIsDue`: how long each workspace is still in the
cooldown of its last review, and how long it has been idle.

| action | code |
|---|---|
| `Load`, `Gate`, `Prompt`, `Resolve`, `Lock`, `Consume`, `RequestFirst`, `IdleCheck` | `workOnce` from the settings to the decision to run |
| `Launch`, `Run`, `Fail`, `Retry`, `CreateTasks`, `CompleteOrientation`, `CompleteIdleSteward`, `Clear` | `runOrientationMode`, `finishOrientation` |
| `WorkerGate`, `WorkerClaim`, `WorkerNote`, `WorkerSettle`, `WorkerClear` | what of `taskWorkOnce` matters to the loop: `TaskQueue` has the rest |
| `SendMessage`, `ClaimMessage`, `FinishMessage` | the chat lane, which holds the loop back |
| `ReadSettings`, `BeginSetup`, `UpdateSettings`, `Sweep` | pause, resume, start, setup: read the settings row, write all of it |
| `ReadRow`, `ReadActive`, `LoadActive`, `UpdateWorkspace`, `EnsureContextPrompt`, `RequestOrientation`, `SetActiveWorkspace`, `CreateWorkspace`, `CheckDeletion`, `DeleteWorkspaceData` | the handlers and chat effects on workspaces |
| `DraftTask`, `FinishDraft`, `AddTask` | drafts hold `aiMu`; a task from elsewhere |
| `Tick`, `Crash` | time, a kill and restart |

Durations are one or two ticks: what a property can tell is the order in which
the deadlines pass, and each of them passes before and after each of the others.
The lookup of the active workspace's id and the transaction on it are one step.
`IdleCheck` asks about the workspace the loop has loaded, `Launch` reviews the one
that is active by then. `ReviewIsDue` therefore speaks of both steps: the review
is taken up after the cooldown and the idle time of the workspace that was
checked, and it starts outside the cooldown of the workspace it reviews unless that
is another one. Without the exception the property is `NoReviewInCooldown`, which
the code does not keep (section 17, Divergences).
Requests are made through the ticker, not the wake channel, which only makes
them earlier.

## 11. Processes: LocalApps and ProcessRuns

`LocalApps` has `rows` (local_apps), the two maps of the manager (`registered`,
`shown`), `proc` (the operating system's processes, with the last signal sent and
the goroutine that waits), `call` (what each handler, the auto starter and the
daemon's stop are doing) and `life`.

| action | code |
|---|---|
| `Request`, `Look`, `CreateLocalApp`, `UpdateLocalApp`, `DeleteLocalApp`, `NextApp` | `operator/local_apps.go`, `task_local_apps.go`, `startAutoApps` |
| `Check`, `Spawn`, `Register` | `Manager.Start`: looks, starts the process without the lock, looks again and fills the map, or kills what it started |
| `StopFind`, `Interrupt`, `StopDone`, `Deadline`, `GiveUp` | `Manager.Stop`: interrupt, wait, kill, wait |
| `Exit`, `Reap`, `Unregister` | the process ends; `wait` reaps it and clears the map if it is still the one in it |
| `ListAuto`, `Halt` | start and stop of the daemon; `Halt` is the stop in which the workers end in time, see section 18 |

`ProcessRuns` is one call of the process supervisor, or of the script runner:
`run` (attempt, place, status), `ctx` (the context over all attempts), `child`,
`secrets` (the buffers), `attempts`. `Prepare`, `BeginAttempt`, `Start`, `Collect`,
`Terminate`, `GraceEnds`, `Settle`, `Decide`, `RetryDelay` follow `Run` and
`runAttempt`; `Expire` and `Cancel` end the context at any moment; `ChildExits`
when it likes. What a child printed is one of the endings that
`DefaultRetryDecider` tells apart. A script has no retry, and two flaws of its own:
logs that cannot be written, which come before the context in its verdict, and a
structured result that is not supported, which comes last.

## 12. Outside of the store: Vault, Integrations, MemoryUpdates

`Vault` has `secretRow`, `vault` (a value is modelled by the record it was entered
for), `server` with its bindings, `bound` (the bindings of one script), `request`
and `launch` (one run that gathers its environment). Creation is `Find`,
`CreateSecretRecord`, `PutValue`, and `Withdraw` if that fails; `UpdateSecretRecord`
and `PutValue`; `DeleteSecret` and `EraseValue`; `SaveServer`, `DeleteServer`,
`SetScriptBindings` are one transaction each. A run lists the connectors
(`ListMCPServers`), reads the bindings of each (`ListBindings`), or those of the
script (`ReadScript`), and the values one by one (`NextServer`, `GetValue`,
`TakeServer`, `Launch`). A failing vault is an outcome of each step on it. A
connector that needs a login may be left out of any run (`DropServer`).

`Integrations`: `row` (integrations.status), `saved` (which fields have a value),
`call`. `Save`, `SaveCredential` (one field at a time), `SaveStatus`;
`DeleteCredential`, `DeleteStatus`; `Verify`, `CheckCredentials`,
`BeginVerification`, `Execute`, `FinishVerification`. `Disconnect` cancels the
context of a request between any two of them.

`MemoryUpdates`: `update` (memory_updates.status), `file` (the notes in it),
`decide`, `editor`. `ReadUpdate`, `ResolveMemoryUpdate` (a conditional statement)
and `AppendMemory` are three steps; the owner's `UpdateMemory` replaces the file
with what the editor showed, more or less.

## 13. What Chat may do, when, and what is done: SteeringContract, Calendar, TaskResults

`SteeringContract`: an answer of Codex is a sequence of objects, an object a
sequence of effects, an effect a record of the fields it was sent with; a value
is the way it is right or wrong. `Answer` extracts the objects (a repeated one
keeps its first place, `Extract`), `ParseResult` takes the last one left, `ValidateEffect`
goes through its effects in the order the code sorts them into, `ValidateResult`
ends it, `NoCandidate` asks for the one repair. The search for a cycle (`Cycle`)
is written as what it finds: a set with the task in it that no way leads out of
to an end. `Acceptable` in the property is
written without that order and without what the code remembers on its way.

`Calendar`: the calendar's sizes are constants, an instant is a number of seconds
from the start of a leap year, `Search` is the loop over minutes of `next.go`.
`Create` is the owner who asks, `Run` the engine that comes late and asks again.
`NextIsFirst` reads a cadence item by item and takes the least later instant.

`TaskResults` is one task of Nabu's from claim to reports, through several
attempts: `row` (status and definition of done), `plan` (`taskScriptPlan`),
`printed` (the reports in the output, in order), `place`, `verdict`; `attached`
(`SetAutomation` was called), `artifacts`, `reports`, `readable` (what files
there are); the history variables `witness`, `steady`, `deleted`.

| action | code |
|---|---|
| `Claim`, `Fail`, `Finish` | `taskScriptContext`, the end of the process |
| `Verify` | `applyTaskBrowserVerification`: the verifier's word is printed behind Codex's and found by the same search |
| `Judge`, `Apply`, `Settle`, `Mark`, `Promote` | `finishTaskRun` in its order; each is a place where the daemon may die |
| `Requeue`, `EditDefinition`, `DeleteReport`, `FilesChange` | the owner, and files that come and go |
| `Restart`, `SetAutomation` | recovery and `ReconcileReports`; the workers run before the script engine is attached |

`Places` are those `extractJSONObjects` visits in Codex's messages, in their order
(`Earlier`): each object, then the ones in it. `Understood` is `normalizeRunResult`,
`LastFound` the place whose report is taken. A check is told apart by whether it is about the browser,
mentions it or is about something else, a path by whether it is the file's own.
`VerdictIsEarned` asks for a report among what *Codex* printed and for what became
of the check in `witness`, and so does not rest on the search. What is left out:
artifacts that are not reports, the details of outcomes, read-only scripts that
run before Codex, and a report that is spelt in two ways in one output.

## 14. Runs

| run | instance | shows |
|---|---|---|
| queue_edits | 1 task, 2 workers, 1 overlapping edit, 1 attempt recorded, 2 requests | the parts of ownership, approvals, bookkeeping with types, clean queued rows and completed rows, refinement of `TaskLife`, and that a paused operator comes to rest |
| queue_trio | 3 tasks, one dependent, 2 workers, 2 attempts, 1 request | run rows are an attempt's own; limit and order of dependent tasks |
| queue_two_owners | 1 task, 2 workers, 2 attempts, 3 requests | the finding of section 17: two owners of one task |
| schedules_two_engines | 1 schedule, 2 engines, 3 claims, tasks and scripts | claims under expired leases, refinement of `ScheduleOccurrences` |
| schedules_served | 1 schedule, 1 engine, 5 claims, 5 script runs, all kinds | what an attempt leaves behind, and that what is due is served |
| dependencies | 3 tasks, 2 workspaces, at most 1 prerequisite, 2 overlapping edits, 2 requests | the graph stays sound, nothing waits for nothing, and the queue drains up to what waits for a person |
| chat | 2 messages of the owner, 2 workspaces, 1 effect, 1 kill, 2 requests | order, replies, excuses, effects, signals, and that the lane drains |
| datasets | 1 dataset, 3 rows, 2 columns, 1 worker with 2 writes, Chat, 1 schema editor, 1 approver, pages of 1 row, 3 requests | row counts, rows that fit, deletions as approved, batches cut short, exports |
| orientation | 2 workspaces, 1 worker, 2 handlers, from a new or an installed daemon | the settings row mirrors the workspaces, orientation is alone, reviews are taken up after the cooldown of the workspace checked and never cease |
| processes | 1 app, 2 handlers, 3 processes, 2 requests; or 1 run of 2 attempts | processes stay accounted for, retries are safe, stops and runs end |
| vault | 2 records, 2 names, 2 variables, 2 connectors, 2 requests; or 2 fields, 2 clients; or 2 notes, 2 deciders, 1 owner | what a run is given, bindings, verifications that end, notes kept once |
| contract | some 1,800 answers in 6 states of a workspace; 16 cadences at 201 instants | what is accepted is right, the next run is the first |
| | or 1 task, 3 definitions, 4 inventories, 70 outputs, 2 attempts, 1 edit, 1 restart | a completed task has its evidence, marks follow from what was reported, a report file has one report |

Why the bounds are enough. The hazards are about two actors and one row, so two
workers (engines, editors, handlers) and one task (schedule, dataset, app) meet
in every way; a third task where order or the limit matters. A cycle needs
two tasks, and one closed through a task nobody edits needs three; one
prerequisite each is enough to close it, and exercises the size limit. In
`chat` the second message makes order and requeueing meet; one kill tells
effects repeated by a kill from effects repeated by anything else, two requests
allow a deletion and another disturbance during one reply. `datasets` needs three
rows for a batch of two that meets an older row, and pages of one row so that
an export has rows deleted on both sides of its place. `orientation` chooses one
of four sets of bounds: two handlers against the loop and each other without
time, one handler with a task, or one kill with tasks, messages and time, or with
a handler and time. Three processes are two that race and one that follows. In
`contract` an object has up to three effects since what excludes effects relates
two, and the third is `complete_context` or a task, which change what the others
may be; `MaxEffects` and `MaxCreated` are small enough to be met and exceeded. The
calendar's year has 7 days (8 in a leap year), weeks of 3 and days of 8 seconds:
every field carries over into every other within the instants asked at. Two
attempts let marks and artifacts of a failed one meet the next, one restart hits
every place between them, and `MaxWrites` is 1 so that it can be exceeded.

`queue_trio` cuts the search behind the step that disturbs a task.
What its properties say of the states behind that step is proved without the
cut (`OwnRunHolds`, `StartsStayInOrder`, `GrowthStaysWithinLimit`). The
theorems of section 16 have no bounds but those the constants name, and those
may be any.

Deadlock is checked in `chat` and `orientation`, where a daemon that is up can
always do something. In the other models the requests and identifiers may be
used up and the system then rests, so `CHECK_DEADLOCK` is off.

## 15. Fairness

* `TaskQueue`: each worker's step after the gate is weakly fair. A goroutine
  runs on, every store call returns, and a Codex process ends: the runner's
  time limit is 30 minutes by default. The gate itself is not fair, so a worker
  may idle for ever; `PauseDrains` needs no more.
* `ScheduleClaims`: claim and work of an engine (it polls every five seconds)
  and the clock are weakly fair. The owner, failures and stops are not.
* `TaskDependencies`: claim and settle of each task, as eight workers with a
  30-second ticker retry while a task is claimable.
* `ChatLane`: one condition for the lane as a whole; the ticker fires every 30
  seconds whether or not a signal came. `Drains` assumes that the daemon comes
  to stay up in a started workspace with Codex available; without that nothing
  obliges it to work.
* `Orientation`: the loop, the workers and a handler that has begun are strongly
  fair, since they wait for mutexes (`aiMu`, `queueMu`) that are released again
  and again, and a Go mutex hands itself to a waiter that starves. `KeepsLooking`
  assumes that the daemon comes to be allowed to work and that time passes.
* `LocalApps`: goroutines run, and a killed process dies; one that is interrupted
  need not. `ProcessRuns`: the same, and the deadline passes. Nobody is obliged
  to cancel. Both assume of the environment that `Wait` returns once the process
  group was sent SIGKILL: the code sets no `WaitDelay` (supervisor.go:435,
  scriptrunner/runner.go:168), so a descendant that has left the group and keeps
  the pipes open would hold the run.
* `Integrations`: a request that has begun goes on; the provider has 30 seconds.

## 16. Proofs

Theorems of the specifications, for all values of the constants under the named
assumptions of each module: sets are disjoint from their "none" value, bounds
are natural numbers, what is counted is finite. PROJECT.json lists them. In each
module one lemma per action (or group of alike ones) shows that the inductive
invariant is kept, and the theorems follow from it.

**TaskQueueProofs.** `Sound` = types, what workers and cancel functions hold,
runs, clean queued rows. It is inductive by itself and gives `TypeCorrect`,
`OwnRunHolds`, `QueuedIsCleanHolds`, `RunsStayFinal`, `StartsStayInOrder`.
Ownership is not inductive alone: a pause that calls a cancel function it copied
earlier could take the worker of a running row away. `CancelIsMarked` says it
wrote the row to waiting before, and that a cancel function dies with the task
of its worker is in `Sound`. `DoneIsRecorded` is inductive with `RecordedIsDone`,
what a worker knows between the record of its run and its verdict: rows that say
completed come from that worker, or from a snapshot of a row that did, and a
recorded run is never rewritten. `QueueInv` = `Sound`, `RecordedIsDone`,
`DoneIsRecorded`, `Ownership`, `CancelIsMarked`, `ApprovalIsPending` gives `OwnershipHolds`, `ApprovalStaysPending`, `BooksHold`.
`GrowthStaysWithinLimit` adds that only a claim starts a task, and that it counts
the others first; it assumes `TasksAreFinite`. `QueueLivesAsPromised` is the
refinement: `HolderIs` says that the `CHOOSE` of the mapping is the one owner,
`TouchStep` that a step about one task leaves the others as they were, and a
lemma per abstract action (`KeepStep`, `LeaveStep`, `RewriteStep`, `LoseStep`,
`SameRowStep`) what a step must show to be one. `WorkWrites` finds that a worker
that rewrites an undisturbed row starts it, asks, gives up or decides, on a row
that names its own run, so that `NamedOwner` makes it the owner or the task free
(a deletion was asked for and its worker cancelled). `CompletedTasksStay` is read
off the abstract steps: a completed task stays so until it is deleted.

**ScheduleClaimsProofs.** `ClaimInv` adds to the types that tokens are never
reused (`Claims`) and that whoever holds a schedule knows its lease, and its
occurrence unless the owner rewrote it (`Known`). The second is what lets
`Finish` map to the abstract `Advance`. `FullInv` adds what script runs and task
rows say of each other, for `WorkOnRecordHolds`. `EngineImplements` is the refinement: Init maps
to Init and each action to an abstract action or a stuttering step.

**StoreProofs, dependencies.** `GraphInv` = types, acyclicity, dependencies within
a workspace. The heart is `ReplaceKeepsAcyclic`: replacing the prerequisites of
t by a set none of which leads to t closes no cycle. Acyclicity is stated
without paths (every non-empty set has a member with no prerequisite in it) and
reachability as least closed set, so the proof needs no induction.
`SoundGraphHolds` is `GraphInv` without the types; `BlockedForAReasonHolds` follows
from acyclicity alone.

**ChatLaneProofs.** `LaneInv` says, for each place of the worker, what its message
looks like: `Shape` and `Marked` (a message in hand is marked processing, after
effects it is settled before anything else), `Oldest` (no older message is to be
settled), `Unreplied` (no reply before the worker writes it), `Muted` (a
failure after effects leaves no row to put an excuse in, or is that of an answer
whose effect on a local app was refused),
`Counted` (attempts with effects against kills), `Alone`, `Asked`. One lemma per
action; the steps that write one status share `SettlingKeeps`, those that leave
rows alone `QuietMoveKeeps`, the owner's `BystanderKeeps`, the end of an attempt
`IdleKeeps`. It gives every safety property of the run
(`RepliesTrue`, `AttendedHolds` and their parts; `NoOtherExcuse` reads
`OnlyAppsAreDenied` off `Muted`, step by step); `SettledInOrder` needs
besides that only the message in hand is ever settled.

**OrientationProofs.** `Inv` = `Tables` (types and `Mirrored`), `Lane`, `Handlers`,
`Clocks`, `Queues`. `Mirrored` is not inductive alone: a handler may write back
a settings row it read long ago, so `Handlers` says of each snapshot what it may
still be used for, and that a row about to be written is one that was live.
`Lane` has the step before the lock is taken: the loop has seen nobody at work,
and whoever looked earlier is kept out. `Clocks` relates the stored times to
`owed` and `quiet`, for `ReviewIsDue`; its second part needs besides that a
workspace found due stays out of its cooldown until its review starts (`Cooled`),
since nothing but a completed review begins one. A deleted active workspace is followed by
the oldest one that is left, which exists: `LeastMember`, by well-founded
induction on finite sets. Assumes `CountIsPositive`, `DurationsArePositive`,
`WorkersAreFinite`, `EditorsAreNumbers`, `BoundsAreNumbers`.

**ProcessesProofs.** For a supervised run `RunInv` = types, `Places` (what of child,
attempt and verdict goes with each place of the run), `Recordings` (earlier
attempts ended in a way that may be tried again). It needs `AttemptsAreCapped`,
which is how `Run` caps a request. For applications `AppsInv` = types, `Mapped` (the map
names exactly the processes that are watched and not done, and what is shown as
running is in it), `Held` (a start holds the process it spawned, alone, until it
registers or kills it), `Unhalted`. It gives
`Accounted`, for any number of processes that exist at once. Assumes `AppsExist`,
`NamesApart`, `CountsAreNumbers`.

**StoreProofs, secrets.** `StoreInv` = types, `Kept` (a value is kept under
the record it was entered for), `Dropped` (a deleted connector names nothing),
`BindingsHold`; nothing in flight can break it, since each
transaction checks again what it was asked for. `LaunchOK` says of a run at each
place which connectors it has still to visit and that what it took is what they
were bound to when they were read. Assumes `BindingsBind`, `NoneIsNoRecord`,
`RequestsAreCounted`.

**StoreProofs, notes.** `MemoryInv`: the file and everything an editor was shown
is a sequence of accepted notes without repetition (`Sound`), and a note that a
decision is about to append is in none of them and in no other decision's hands.

**DatasetsProofs.** Four invariants, one on top of the other, each checked by TLC
on a small instance before it was proved.

* `DataInv` = `TableInv`, `WorkTypes`, `EditTypes`. `TableInv` has what
  `RowsAreSound` says and what makes it inductive: identifiers are numbers that
  were given out, a row's number at birth is its identifier, schemas are well
  formed, a dataset without a schema has no row. The work is in the bulk write:
  `BatchIsPut` says what the rows are after each row of the batch (the old ones
  changed in place or kept, new ones with new numbers, `inserted` of them), by
  the least number of rows at which it would fail, and `PutIsTheEnd` that this is
  what `Put` returns.
* `DeletionInv`: each place in a request, an approval or a deletion was a row's
  once (`Named`: its identifier was given out, and belongs to that birth for
  ever), what a deletion has passed is gone (`Gone`) and cannot come back, since
  an identifier is used once. `DeletionsAreAsApproved` follows, for any number of
  approvers that decide at once.
* `CleanInv` says of a batch that nobody disturbed since it was validated
  (`clean`) that each write still to come is one its transaction takes
  (`Ready`), or fails for a reason the validation does not look at, and that its
  own earlier writes do not spoil it (`ReadyStays`). `CutsAreExplained` is what is
  left of it when a batch is cut.
* `ExportInv`: what was listed is what the dataset has up to the offset
  (`Listed`), as long as no row was deleted; the identifiers of new rows come
  after all others, so they move no place (`ListedGrows`). `PageOfPlaces` is one
  page.

It assumes `DatasetsAssumption` alone.

**ContractProofs.** Three components whose code is loops over data. The library's
induction theorems cannot be used here, so a loop is followed by its invariant
where the model steps through it, and otherwise by `LeastNumber`: of the numbers
at which a claim fails there is a least one, and the claim holds before it.

* `ContractInv` says of the candidate in hand what the validated effects have
  passed (`Validated`), that `seen` is a summary of them (`Summary`), and that no
  later candidate is acceptable. The code validates in an order of its own;
  `OrderedRearranges` says that order is a permutation of what was sent and
  `SoundInAnyOrder` that soundness does not depend on it, which together give
  `AcceptedIsTheLastSound`. `ValidStaysAcyclic` ties the search for cycles to the
  graph after the effect. Assumes `EffectsAreBounded`; `AnswersAreSequences`
  (an answer is a list of objects, each a list of effects); `NoneIsNoTask` (an
  empty string is the id of no task).
* `CalendarInv`: while the search runs, no minute from the instant asked at to
  the candidate matches, by the fields read one by one (`Searching`). When it
  ends, the candidate is the least instant that matches, or there is none in the
  year looked at (`NextOccurrence`), for calendars of any sizes
  (`CalendarCounts`) and cadences whose parts are what the parser can return
  (`CadencesAreRead`).
* `ResultInv` = `Typed`, `Heard` (what was printed is what Codex reported and, at
  most, Nabu's word on the browser check behind it), `Judgement` (a verdict rests
  on a report in what was printed, and a completed one on what became of the
  check) and `ReportsKept`. Assumes `TextsAreKnown`, `OutputsAreReports` (types of
  what is enumerated) and `WordIsNew`: Nabu's word on a check carries what the
  verifier said, so Codex did not print the same object before. Without it a
  repeated object would keep its first place, and an earlier report would win;
  that is the divergence on repeated reports of section 17.

**Only model-checked.** Liveness (`PauseDrains`, `DueIsServed`, both `Drains`,
`KeepsLooking`, `ProcessesEnd`, `VerifyingEnds`) is out of the prover's reach.
Every other property of a passing run has a theorem. The invariants the theorems
rest on are no properties of the runs.
The least closed set of `Upstream` is the meaning of the recursive SQL query;
that SQLite computes it is taken as given, and so is that a transaction is
atomic and that a Go mutex excludes. `Put` and `Sorted` are what the loop and the
ORDER BY compute; the theorems are about these definitions.

## 17. Findings and divergences

One run violates what the documents say by a short trace; PROJECT.json quotes
the line.

* `queue_two_owners`: a dataset deletion asks for approval while its worker still
  holds the task; approving it queues the task, and a second worker executes it.

### Divergences

The models contain these behaviours as the code has them, each is a few steps
long, and no property of a run forbids them.

Two of them contradict what the program says, and have a configuration of their
own, beside the runs, in which TLC finds the claim violated within seconds:

* `tlc -config chat_excuses.cfg MCChatLane` (`TruthfulExcuse`): an answer whose
  first effect is on a local app cannot be stored, since `validateMessage`
  (store/messages.go:342-350) does not list create_local_app, start_local_app and
  stop_local_app, which the contract accepts (steering/validate.go:457-473,
  local_apps_test.go:21), Chat applies (chat.go:992-1015) and `runChat` makes the
  effect of the answer (chat.go:366-369). The effects are applied and the message
  is complete by then; the failure marks it failed and tells the owner "No changes
  were made" (chat.go:1258).
* `tlc -config orientation_switches.cfg MCOrientation` (`NoReviewInCooldown`): the
  loop asks the throttle of idle reviews, "durable, per-workspace"
  (store/idle_steward.go:10), for the workspace it has loaded (operator.go:386),
  and `runOrientationMode` reviews the one that is active when it starts
  (operator.go:1628). A selection in between reviews a workspace inside its
  cooldown, and the lease of the review stays with the other.

The others:

* Tasks: a pause writes waiting over a task that has just completed, and Resume
  queues it again (PRD.md:496: Pause cancels "exact active runs without corrupting
  unrelated tasks"). `CompletedStays` holds of tasks no outdated write has hit. An edit of the
  title writes back the prerequisites of the row it read; those added meanwhile are
  lost (PRD.md:493). A pause between the gate and the claim of a worker misses it.
* Schedules: a due time set during a dispatch is overwritten at its end from the
  claimed snapshot. A task deleted after its occurrence is created again if that
  occurrence is repeated; a script run still pending at a kill stays pending.
* Chat: a message whose workspace cannot be read as the daemon stops is marked
  failed without a reply; a stop during a repair fails the message instead of
  queueing it again; the excuse speaks of its own attempt, not of one before a
  kill; selecting a workspace or starting a mission does not wake the lane.
* Datasets: the writes of a task are one transaction each, so a batch can be
  applied in part, although task_datasets.go:38 validates all of them first,
  "preventing malformed later writes from causing a partial batch"; its "the
  operator loop serializes autonomous task application" (line 40) is from before
  there were several task workers; an approval that was given stays given
  when its deletion fails, and must be
  repeated by hand; a schema edit can be written over a column it has not seen.
* Settings: the row is written whole from an earlier read, so that a slow handler
  undoes a pause, a request for orientation or the selection of a workspace made
  meanwhile; completing an orientation after the workspace was switched clears the
  request of the other workspace; a request that arrives during an orientation is
  cleared at its end, and one that was consumed is lost with a kill.
* Apps: a start that races the deletion of its app leaves a process without a
  row, which the daemon's stop still ends; nobody waits for the automatic starts at
  the daemon's stop, so a process may start after it; a stop that races the exit
  reports an error (ESRCH is not os.ErrProcessDone); the registration of an app
  that fails after the dataset writes of its task leaves those applied. A run whose
  child completed while the deadline passed is reported timed out.
* Secrets: a creation whose value cannot be stored withdraws the record, also one
  that existed before it; a value put after its record was deleted stays in the
  vault; a renaming writes back the name it read. Script bindings cascade away
  with their record (store.go, ON DELETE CASCADE), although the error of
  `DeleteSecret` asks for removing them first.
* Integrations: a verification that overlaps a change of credentials ends as ready
  with credentials that were not verified; a kill leaves "verifying" behind, which
  `VerifyingEnds` is not about.
* Memory: an accepted note is missing in the file if the append fails after the
  store has committed, or if the owner saves an older text.
* Contract: two effects that each leave the prerequisites acyclic can close a cycle
  together, and an update can take the title that another effect creates: the store
  refuses the second while they are applied, and the owner is told of effects
  applied in part. The same holds for the update of a row that was deleted by an
  earlier effect. An object that Codex repeats keeps its first place, so that
  "last valid result wins" (parse.go) fails when a draft is repeated last.
  A streamed reply is the first valid message, the result the last, and they may
  differ.
* Calendar: a day of the month and a weekday must both match (cron takes either); a
  cadence that occurs only on leap days is refused when made more than a year
  ahead, and otherwise runs once and never again, though it stays enabled.

* Results: a repeated report keeps its first place, so that an earlier different
  one wins; a row among the dataset writes that has a status and a summary is found
  behind its report and taken for it. An outcome whose text fits no item is taken
  for the item in its place; all items of a completed task are done, also one that
  the report calls failed. When the browser check is delegated, every check that
  mentions the browser is dropped, a failed one too; it is deferred as if there were
  no verifier while the script engine is not yet attached (main.go starts the
  operator first). A crash between the status and the marks leaves a completed task
  with open items.
* Reports: "a task/path pair is represented only once" (reports.go:18) holds for a
  file's own path; one called by an absolute path or through a link is promoted
  again at every start. A report that the owner deleted comes back at the next
  start, and so do report files of attempts that failed once the task is completed.

## 18. Not modelled

PROJECT.json lists every component with its status and the reason.

* Left out for good: HTTP decoding, the wording and layout of packets and prompts,
  the web pages and their refresh protocol, drafting, service installation, remote
  access programs, migrations and backups, plans (rows written by one statement),
  the event bus (a hint to load the store again, on
  which no durable state depends). The calendar page, which lists occurrences, is
  a view.
* Abstracted inside the models: names, slugs and descriptions of a dataset beyond
  whether they clash; mission texts and policies; workspace files; sizes and
  spellings in the contract, and the packets that continue a turn; script hashing
  and bounded output; the result of an orientation; time zones.
* Not reached by any caller and so left out: `ExpireApprovals`, `UpdateApproval`,
  `DeleteApproval` and `PurgeDataset` of the store.
* Not modelled though it could bite: app processes that survive a kill of the
  daemon, and a stop that gives up. `Operator.Stop` returns without
  `Manager.Shutdown` when the workers miss its deadline (operator.go:216-217), so
  applications may outlive the daemon; `Halt` is the orderly stop only.
* Shown for a moment: between `Reap` and `Unregister` an application is listed as
  running although its process has ended; `Accounted` allows that.
