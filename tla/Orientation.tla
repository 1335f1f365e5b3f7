---------------------------- MODULE Orientation ----------------------------
(* The operator loop of Nabu (operator.go: workOnce, runOrientationMode,     *)
(* finishOrientation), which decides when the daemon looks for new work, and *)
(* the two rows it decides from: `settings` (one row) and `workspaces` (one  *)
(* row for each), which every handler reads, changes and writes back whole.  *)
(*                                                                           *)
(* Around the loop: task workers (taskWorkOnce), of which only the claim,    *)
(* the settling and their marks in memory matter here; the chat lane, which  *)
(* holds the loop back; and editors, the HTTP handlers and chat effects that *)
(* pause, resume, start, set up, select, edit, create and delete.            *)
(*                                                                           *)
(* One SQLite connection makes each statement or transaction one step. The   *)
(* lookup of the active workspace's id just before a transaction on it       *)
(* (RequestOrientation, ConsumeOrientationRequest, CompleteOrientation) is   *)
(* one step with the transaction. Time is a countdown that Tick moves on.    *)
EXTENDS Naturals, FiniteSets

CONSTANTS
  Count,         \* workspaces that ever exist, in the order of created_at
  Workers,       \* task workers
  Editors,       \* concurrent handlers, numbered; a new one takes the least free number
  MinIdle,       \* idleMinimumDuration, in ticks
  Lease,         \* idleReviewLease and idleFailureCooldown
  Useful,        \* idleUsefulCooldown
  NoWork,        \* idleNoWorkCooldown
  Cool,          \* the longest codexRetryAt
  Bounds         \* the handlers, tasks, messages and restarts of a behaviour,
                 \* and whether time passes in it

ASSUME CountIsPositive == Count \in Nat \ {0}
ASSUME DurationsArePositive ==
  /\ {MinIdle, Lease, Useful, NoWork} \subseteq Nat \ {0}
  /\ Cool \in Nat
ASSUME WorkersAreFinite == IsFiniteSet(Workers)
ASSUME EditorsAreNumbers == Editors \subseteq Nat
ASSUME BoundsAreNumbers ==
  Bounds \subseteq [edits : Nat, tasks : Nat, chats : Nat, crashes : Nat, time : BOOLEAN]

VARIABLES
  settings,   \* the settings row
  ws,         \* the workspace rows
  idle,       \* the idle_steward_state rows
  ready,      \* ready tasks of each workspace
  loop,       \* the operator loop: where it is, its snapshot, its workspace
  claimed,    \* orientationClaimed
  asked,      \* emptyOrientationAttempted
  retried,    \* orientationRetryAttempted
  worker,     \* task workers
  chat,       \* the chat lane
  cool,       \* time until codexRetryAt
  ed,         \* editors
  owed,       \* history: what is left of the last review's cooldown
  quiet,      \* history: time since work was last noted in a workspace
  left        \* what the bounds still allow

durable == <<settings, ws, idle, ready>>
memory == <<loop, claimed, asked, retried, worker, chat, cool, ed>>
vars == <<durable, memory, owed, quiet, left>>

None == 0
Workspaces == 1..Count
Row == [at : {"none", "live", "gone"}, started : BOOLEAN, ready : BOOLEAN,
        prompted : BOOLEAN, queued : BOOLEAN, last : BOOLEAN]
SettingsRow == [setup : BOOLEAN, paused : BOOLEAN, started : BOOLEAN,
                queued : BOOLEAN, last : BOOLEAN, active : Workspaces \cup {None}]
NoRow == [at |-> "none", started |-> FALSE, ready |-> FALSE, prompted |-> FALSE,
          queued |-> FALSE, last |-> FALSE]
FreshSettings == [setup |-> FALSE, paused |-> FALSE, started |-> FALSE,
                  queued |-> FALSE, last |-> FALSE, active |-> None]

\* An idle row: a marker for a window that is running, and the time left until
\* next_run_at (Unset when it is NULL).
Unset == 1 + Useful + NoWork + Lease + MinIdle
NoIdle == [checks |-> 0, next |-> Unset]

Asleep == [at |-> "sleep", s |-> FreshSettings, w |-> None, r |-> NoRow, idle |-> FALSE]
Free == [at |-> "free", op |-> "none", s |-> FreshSettings, w |-> None, r |-> NoRow]

Live(w) == w # None /\ ws[w].at = "live"
LiveOnes == {w \in Workspaces : Live(w)}

TypeOK ==
  /\ settings \in SettingsRow
  /\ ws \in [Workspaces -> Row]
  /\ idle \in [Workspaces -> [checks : 0..1, next : 0..Unset]]
  /\ ready \in [Workspaces -> Nat]
  /\ loop \in [at : {"sleep", "gate", "prompt", "resolve", "lock", "consume", "launch",
                     "first", "check", "run", "failed", "retry", "tasks", "done", "rest", "clear"},
               s : SettingsRow, w : Workspaces \cup {None}, r : Row, idle : BOOLEAN]
  /\ {claimed, asked, retried} \subseteq BOOLEAN
  /\ worker \in [Workers -> [at : {"sleep", "claim", "note", "work", "clear"},
                             w : Workspaces \cup {None}]]
  /\ chat \in [at : {"none", "queued", "active"}, w : Workspaces \cup {None}]
  /\ cool \in 0..Cool
  /\ owed \in [Workspaces -> Nat] /\ quiet \in [Workspaces -> 0..MinIdle]

-----------------------------------------------------------------------------
(* The store: each operator says what one statement or transaction leaves.   *)

\* UpdateSettings replaces the row and copies its mission state to the
\* workspace it names. The foreign key refuses a workspace that was deleted.
CanWriteSettings(s) == s.active = None \/ Live(s.active)
WriteSettings(s) ==
  /\ settings' = s
  /\ ws' = IF s.active = None THEN ws
           ELSE [ws EXCEPT ![s.active].started = s.started,
                           ![s.active].queued = s.queued,
                           ![s.active].last = s.last]

\* UpdateWorkspace replaces a row and copies it to the settings if it is active.
WriteRow(w, r) ==
  /\ ws' = [ws EXCEPT ![w] = r]
  /\ settings' = IF settings.active # w THEN settings
                 ELSE [settings EXCEPT !.started = r.started, !.queued = r.queued,
                                       !.last = r.last]

\* Mutant: a request made while another workspace was active is not copied.
SelectingAlone(w) ==
  [settings EXCEPT !.active = w, !.started = ws[w].started, !.last = ws[w].last]

\* SetActiveWorkspace copies the mission state of the new active workspace.
Selecting(w) ==
  [settings EXCEPT !.active = w, !.started = ws[w].started,
                   !.queued = ws[w].queued, !.last = ws[w].last]

\* A request is queued or consumed in the workspace and, if it is active, in
\* the settings.
Queue(w, queued) ==
  /\ ws' = [ws EXCEPT ![w].queued = queued]
  /\ settings' = IF settings.active # w THEN settings
                 ELSE [settings EXCEPT !.queued = queued]

\* RequestOrientation, for the active workspace or for a named one.
RequestFor(w) ==
  IF w = None
  THEN settings' = [settings EXCEPT !.queued = TRUE] /\ UNCHANGED ws
  ELSE IF Live(w) THEN Queue(w, TRUE) ELSE UNCHANGED <<settings, ws>>

\* CompleteOrientation: for whichever workspace is active now.
CompleteActive ==
  /\ settings' = [settings EXCEPT !.queued = FALSE, !.last = TRUE]
  /\ ws' = IF settings.active = None THEN ws
           ELSE [ws EXCEPT ![settings.active].queued = FALSE, ![settings.active].last = TRUE]

\* DeleteWorkspaceData: the oldest remaining workspace becomes active, and
\* without one the setup has to be done again.
AfterDeletion(w) ==
  LET rest == LiveOnes \ {w}
      oldest == CHOOSE v \in rest : \A u \in rest : v <= u
  IN  IF settings.active # w THEN settings
      ELSE IF rest # {} THEN Selecting(oldest)
      ELSE [settings EXCEPT !.active = None, !.setup = FALSE, !.started = FALSE,
                            !.queued = FALSE, !.last = FALSE]

\* Mutant: noted work ends a cooldown too.
ResetAny(i) == NoIdle

\* ResetIdleChecks ends a window that is running and leaves a cooldown alone.
ResetRow(i) == IF i.checks # 0 THEN NoIdle ELSE i
Reset(w) ==
  IF Live(w) THEN /\ idle' = [idle EXCEPT ![w] = ResetRow(@)]
                  /\ quiet' = [quiet EXCEPT ![w] = 0]
             ELSE UNCHANGED <<idle, quiet>>

\* RecordIdleCheck: wait, start a window, or take the review under a lease.
Waiting(i) == i.next # Unset /\ i.next > 0
IsDue(i) == i.checks > 0 /\ i.next = 0
Checked(i) ==
  IF Waiting(i) THEN i
  ELSE IF IsDue(i) THEN [checks |-> 0, next |-> Lease]
  ELSE [checks |-> 1, next |-> MinIdle]

\* CompleteIdleSteward: nothing is reviewed again before the cooldown is over.
Rested(w, time) ==
  IF Live(w) THEN /\ idle' = [idle EXCEPT ![w] = [checks |-> 0, next |-> time]]
                  /\ owed' = [owed EXCEPT ![w] = time]
             ELSE UNCHANGED <<idle, owed>>

-----------------------------------------------------------------------------
(* Memory: who is at work and who holds the locks.                           *)

AtWork(k) == worker[k].at \in {"note", "work", "clear"}
Running(k) == worker[k].at \in {"note", "work"}   \* its task row says running
Reviewing == loop.at \in {"run", "failed", "retry", "tasks", "done", "rest", "clear"}
Drafting == \E e \in Editors : ed[e].at = "draft"
exclusiveActive == Reviewing \/ Drafting \/ chat.at = "active"
isActive == exclusiveActive \/ \E k \in Workers : AtWork(k)
aiMu == loop.at # "sleep" \/ Drafting
queueMu == loop.at \in {"consume", "done", "rest"}
codexReady == cool = 0
ChatWorking == chat.at # "none"

-----------------------------------------------------------------------------
(* The loop.                                                                 *)

Goto(at) == loop' = [loop EXCEPT !.at = at]
Sleep == loop' = Asleep
others == <<claimed, asked, retried, worker, chat, cool, ed, owed, left>>

\* A signal or the ticker: the loop takes aiMu and reads the settings.
Load ==
  /\ ~aiMu
  /\ loop' = [Asleep EXCEPT !.at = "gate", !.s = settings]
  /\ UNCHANGED <<durable, others, quiet>>

\* Nothing is looked for while anything runs. A workspace that was never asked
\* for its context is asked now.
Unprompted(r) == ~r.ready /\ ~r.prompted /\ r.started
Gate ==
  LET s == loop.s
      started == s.started /\ s.active # None
  IN
  /\ loop.at = "gate"
  /\ \/ /\ ~s.setup
        /\ Sleep /\ UNCHANGED <<idle, quiet>>
     \/ /\ s.setup /\ isActive
        /\ Sleep /\ Reset(s.active)
     \/ /\ s.setup /\ ~isActive /\ started /\ ~Live(s.active)
        /\ Sleep /\ UNCHANGED <<idle, quiet>>
     \/ /\ s.setup /\ ~isActive
        /\ started => Live(s.active)
        /\ IF started /\ Unprompted(ws[s.active])
           THEN loop' = [loop EXCEPT !.at = "prompt", !.r = ws[s.active], !.w = s.active]
           ELSE Goto("resolve")
        /\ UNCHANGED <<idle, quiet>>
  /\ UNCHANGED <<settings, ws, ready, others>>

\* ensureContextPrompt writes back the row it was given.
Prompt ==
  /\ loop.at = "prompt"
  /\ IF Live(loop.w)
     THEN /\ WriteRow(loop.w, [loop.r EXCEPT !.prompted = TRUE])
          /\ loop' = [loop EXCEPT !.at = "resolve", !.r = NoRow, !.w = None]
     ELSE Sleep /\ UNCHANGED <<settings, ws>>
  /\ UNCHANGED <<idle, ready, others, quiet>>

\* Chat goes first; pause and mission are those of the snapshot, the workspace
\* is the one that is active now.
Resolve ==
  LET w == settings.active IN
  /\ loop.at = "resolve"
  /\ \/ /\ ~codexReady \/ (~ChatWorking /\ ~(Live(w) /\ ws[w].ready))
        /\ Sleep /\ UNCHANGED <<idle, quiet>>
     \/ /\ codexReady /\ ChatWorking
        /\ Sleep /\ Reset(loop.s.active)
     \/ /\ codexReady /\ ~ChatWorking /\ Live(w) /\ ws[w].ready
        /\ IF loop.s.paused \/ ~loop.s.started
           THEN Sleep /\ Reset(w)
           ELSE loop' = [loop EXCEPT !.at = "lock", !.w = w] /\ UNCHANGED <<idle, quiet>>
  /\ UNCHANGED <<settings, ws, ready, others>>

\* Under queueMu no task is claimed: look again, then take a request.
Lock ==
  /\ loop.at = "lock"
  /\ IF isActive THEN Sleep ELSE Goto("consume")
  /\ UNCHANGED <<durable, others, quiet>>

First == ~loop.s.last /\ ~asked
Consume ==
  LET w == settings.active
      queued == IF w = None THEN settings.queued ELSE ws[w].queued
  IN
  /\ loop.at = "consume"
  /\ claimed' = queued
  /\ asked' = (asked \/ queued \/ First)
  /\ IF queued
     THEN /\ Goto("launch")
          /\ IF w = None THEN settings' = [settings EXCEPT !.queued = FALSE] /\ UNCHANGED ws
             ELSE Queue(w, FALSE)
     ELSE /\ Goto(IF First THEN "first" ELSE "check")
          /\ UNCHANGED <<settings, ws>>
  /\ UNCHANGED <<idle, ready, retried, worker, chat, cool, ed, owed, quiet, left>>

\* A workspace that was never oriented is, once for each start of the daemon.
RequestFirst ==
  /\ loop.at = "first"
  /\ Sleep
  /\ Reset(loop.w)
  /\ RequestFor(settings.active)
  /\ UNCHANGED <<ready, others>>

IdleCheck ==
  /\ loop.at = "check"
  /\ IF Live(loop.w)
     THEN /\ idle' = [idle EXCEPT ![loop.w] = Checked(@)]
          /\ IF ~Waiting(idle[loop.w]) /\ IsDue(idle[loop.w])
             THEN loop' = [loop EXCEPT !.at = "launch", !.idle = TRUE]
             ELSE Sleep
     ELSE Sleep /\ UNCHANGED idle
  /\ UNCHANGED <<settings, ws, ready, others, quiet>>

\* runOrientationMode works on the workspace that is active by now. What fails
\* before the process starts ends an idle review with its failure cooldown, and
\* a requested orientation with nothing.
Launch ==
  LET w == settings.active IN
  /\ loop.at = "launch"
  /\ \/ /\ Live(w) /\ ws[w].ready
        /\ loop' = [loop EXCEPT !.at = "run", !.w = w]
        /\ IF loop.idle THEN UNCHANGED <<idle, quiet>> ELSE Reset(loop.w)
        /\ UNCHANGED <<claimed, owed>>
     \/ /\ Sleep /\ claimed' = FALSE
        /\ IF loop.idle THEN Rested(w, Lease) /\ UNCHANGED quiet
           ELSE Reset(loop.w) /\ UNCHANGED owed
  /\ UNCHANGED <<settings, ws, ready, asked, retried, worker, chat, cool, ed, left>>

\* The process ends. A failure may keep Codex unavailable for a while.
Run ==
  /\ loop.at = "run"
  /\ \/ Goto("tasks") /\ UNCHANGED cool
     \/ Goto("failed") /\ cool' \in {cool, Cool}
  /\ UNCHANGED <<durable, claimed, asked, retried, worker, chat, ed, owed, quiet, left>>

Fail ==
  /\ loop.at = "failed"
  /\ Rested(loop.w, Lease)
  /\ Goto(IF loop.idle THEN "clear" ELSE "retry")
  /\ UNCHANGED <<settings, ws, ready, claimed, asked, retried, worker, chat, cool, ed, quiet, left>>

\* Mutant: every failure asks again.
RetryAlways ==
  /\ loop.at = "retry"
  /\ retried' = TRUE
  /\ RequestFor(settings.active)
  /\ Goto("clear")
  /\ UNCHANGED <<idle, ready, claimed, asked, worker, chat, cool, ed, owed, quiet, left>>

\* retryOrientationOnce
Retry ==
  /\ loop.at = "retry"
  /\ retried' = TRUE
  /\ IF retried THEN UNCHANGED <<settings, ws>> ELSE RequestFor(settings.active)
  /\ Goto("clear")
  /\ UNCHANGED <<idle, ready, claimed, asked, worker, chat, cool, ed, owed, quiet, left>>

\* finishOrientation under queueMu: proposed tasks, the request, the cooldown.
CreateTasks ==
  /\ loop.at = "tasks"
  /\ \/ UNCHANGED <<ready, left>>
     \/ /\ left.tasks > 0
        /\ left' = [left EXCEPT !.tasks = @ - 1]
        /\ \E w \in LiveOnes : ready' = [ready EXCEPT ![w] = @ + 1]
  /\ Goto("done")
  /\ UNCHANGED <<settings, ws, idle, claimed, asked, retried, worker, chat, cool, ed, owed, quiet>>

CompleteOrientation ==
  /\ loop.at = "done"
  /\ CompleteActive
  /\ Goto("rest")
  /\ UNCHANGED <<idle, ready, others, quiet>>

CompleteIdleSteward ==
  /\ loop.at = "rest"
  /\ \E time \in {Useful, NoWork} : Rested(loop.w, time)
  /\ retried' = (retried /\ ~Live(loop.w))
  /\ Goto("clear")
  /\ UNCHANGED <<settings, ws, ready, claimed, asked, worker, chat, cool, ed, quiet, left>>

Clear ==
  /\ loop.at = "clear"
  /\ Sleep /\ claimed' = FALSE
  /\ UNCHANGED <<durable, asked, retried, worker, chat, cool, ed, owed, quiet, left>>

LoopStep == Gate \/ Prompt \/ Resolve \/ Lock \/ Consume \/ RequestFirst \/ IdleCheck
            \/ Launch \/ Run \/ Fail \/ Retry \/ CreateTasks \/ CompleteOrientation
            \/ CompleteIdleSteward \/ Clear

-----------------------------------------------------------------------------
(* A task worker: taskWorkOnce up to the claim, and the end of runTask.      *)

lane == <<loop, asked, retried, ed, owed>>

\* What a worker reads before it takes queueMu may be old when it claims.
WorkerGate(k) ==
  LET w == settings.active IN
  /\ worker[k].at = "sleep"
  /\ settings.setup /\ settings.started /\ ~settings.paused
  /\ codexReady /\ ~ChatWorking /\ ~exclusiveActive
  /\ Live(w) /\ ws[w].ready /\ ws[w].started
  /\ worker' = [worker EXCEPT ![k] = [at |-> "claim", w |-> w]]
  /\ UNCHANGED <<durable, lane, claimed, chat, cool, quiet, left>>

\* Mutant: the worker relies on what it saw before it took the lock.
MayClaimUnseen(k) == Live(worker[k].w) /\ ready[worker[k].w] > 0

\* Under queueMu, and only if no orientation was claimed meanwhile.
MayClaim(k) == ~claimed /\ Live(worker[k].w) /\ ready[worker[k].w] > 0
WorkerClaim(k) ==
  /\ worker[k].at = "claim" /\ ~queueMu
  /\ IF MayClaim(k)
     THEN /\ worker' = [worker EXCEPT ![k].at = "note"]
          /\ ready' = [ready EXCEPT ![worker[k].w] = @ - 1]
     ELSE /\ worker' = [worker EXCEPT ![k] = [at |-> "sleep", w |-> None]]
          /\ UNCHANGED ready
  /\ UNCHANGED <<settings, ws, idle, lane, claimed, chat, cool, quiet, left>>

WorkerNote(k) ==
  /\ worker[k].at = "note"
  /\ worker' = [worker EXCEPT ![k].at = "work"]
  /\ Reset(worker[k].w)
  /\ UNCHANGED <<settings, ws, ready, lane, claimed, chat, cool, left>>

\* Most ends of a task ask for an orientation of the workspace active by then.
WorkerSettle(k) ==
  LET w == settings.active IN
  /\ worker[k].at = "work"
  /\ worker' = [worker EXCEPT ![k].at = "clear"]
  /\ \/ UNCHANGED <<settings, ws>>
     \/ Live(w) /\ ws[w].ready /\ RequestFor(w)
  /\ cool' \in {cool, Cool}
  /\ UNCHANGED <<idle, ready, lane, claimed, chat, quiet, left>>

WorkerClear(k) ==
  /\ worker[k].at = "clear"
  /\ worker' = [worker EXCEPT ![k] = [at |-> "sleep", w |-> None]]
  /\ UNCHANGED <<durable, lane, claimed, chat, cool, quiet, left>>

WorkerStep(k) == WorkerGate(k) \/ WorkerClaim(k) \/ WorkerNote(k) \/ WorkerSettle(k)
                 \/ WorkerClear(k)

-----------------------------------------------------------------------------
(* The chat lane, one message at a time.                                     *)

NoChat == [at |-> "none", w |-> None]

SendMessage(w) ==
  /\ left.chats > 0 /\ chat = NoChat /\ Live(w) /\ settings.setup
  /\ chat' = [at |-> "queued", w |-> w]
  /\ left' = [left EXCEPT !.chats = @ - 1]
  /\ UNCHANGED <<durable, lane, claimed, worker, cool, quiet>>

ClaimMessage ==
  /\ chat.at = "queued"
  /\ settings.setup /\ settings.started /\ codexReady
  /\ chat' = IF Live(chat.w) /\ ws[chat.w].started THEN [chat EXCEPT !.at = "active"] ELSE NoChat
  /\ UNCHANGED <<durable, lane, claimed, worker, cool, quiet, left>>

FinishMessage ==
  /\ chat.at = "active"
  /\ chat' = NoChat
  /\ cool' \in {cool, Cool}
  /\ UNCHANGED <<durable, lane, claimed, worker, quiet, left>>

-----------------------------------------------------------------------------
(* Editors: each handler reads a row, and writes all of it later.            *)

still == <<loop, claimed, asked, retried, worker, chat>>
Move(e, at) == ed' = [ed EXCEPT ![e].at = at]
Done(e) == ed' = [ed EXCEPT ![e] = Free]
Starts(e) == /\ ed[e] = Free /\ left.edits > 0
             /\ \A f \in Editors : f < e => ed[f] # Free
             /\ left' = [left EXCEPT !.edits = @ - 1]

\* Settings, pause, resume and start read the settings row.
ReadSettings(e, op) ==
  /\ Starts(e)
  /\ op = "start" => settings.setup
  /\ ed' = [ed EXCEPT ![e] = [Free EXCEPT !.at = "settings", !.op = op, !.s = settings]]
  /\ UNCHANGED <<durable, still, cool, owed, quiet>>

\* CompleteSetup reads it too, then lists or creates its workspace.
BeginSetup(e, w) ==
  /\ Starts(e)
  /\ ~settings.setup /\ Live(w)
  /\ ed' = [ed EXCEPT ![e] = [Free EXCEPT !.at = "select", !.op = "setup",
                                          !.s = settings, !.w = w]]
  /\ UNCHANGED <<durable, still, cool, owed, quiet>>

Edited(e) ==
  LET s == ed[e].s IN
  CASE ed[e].op = "pause" -> [s EXCEPT !.paused = TRUE]
    [] ed[e].op = "resume" -> [s EXCEPT !.paused = FALSE]
    [] ed[e].op = "start" -> [s EXCEPT !.started = TRUE, !.paused = FALSE]
    [] ed[e].op = "setup" -> [s EXCEPT !.setup = TRUE, !.active = ed[e].w]
    [] OTHER -> s

\* A pause from the interface goes on to pauseActive, one from the chat ends
\* here; StartMission goes on to the workspace.
UpdateSettings(e) ==
  /\ ed[e].at = "settings"
  /\ IF CanWriteSettings(Edited(e))
     THEN /\ WriteSettings(Edited(e))
          /\ CASE ed[e].op = "pause" -> Move(e, "sweep") \/ Done(e)
               [] ed[e].op = "start" -> Move(e, "load")
               [] OTHER -> Done(e)
     ELSE Done(e) /\ UNCHANGED <<settings, ws>>
  /\ UNCHANGED <<idle, ready, still, cool, owed, quiet, left>>

\* pauseActive: an orientation, a draft or a chat reply that is running is
\* cancelled and an orientation asked for.
Sweep(e) ==
  /\ ed[e].at = "sweep"
  /\ IF exclusiveActive THEN Move(e, "request") ELSE Done(e)
  /\ UNCHANGED <<durable, still, cool, owed, quiet, left>>

\* SetActiveScope, UpdateScope and the icon of a workspace, the chat's
\* complete_context: they read the row of the workspace they were given.
ReadRow(e, op, w) ==
  /\ Starts(e) /\ Live(w)
  /\ ed' = [ed EXCEPT ![e] = [Free EXCEPT !.at = IF op = "select" THEN "select" ELSE "row",
                                          !.op = op, !.w = w, !.r = ws[w]]]
  /\ UNCHANGED <<durable, still, cool, owed, quiet>>

\* UpdateMission and RequestOrientation take the active workspace, if it is ready.
ReadActive(e, op) ==
  /\ Starts(e) /\ Live(settings.active) /\ ws[settings.active].ready
  /\ ed' = [ed EXCEPT ![e] = [Free EXCEPT !.at = IF op = "ask" THEN "request" ELSE "row",
                                  !.op = op, !.w = settings.active, !.r = ws[settings.active]]]
  /\ UNCHANGED <<durable, still, cool, owed, quiet>>

LoadActive(e) ==
  /\ ed[e].at = "load"
  /\ IF Live(settings.active)
     THEN ed' = [ed EXCEPT ![e].at = "row", ![e].w = settings.active,
                           ![e].r = ws[settings.active]]
     ELSE Done(e)
  /\ UNCHANGED <<durable, still, cool, owed, quiet, left>>

RowEdited(e) ==
  LET r == ed[e].r IN
  CASE ed[e].op = "start" -> [r EXCEPT !.started = TRUE]
    [] ed[e].op = "mission" -> [r EXCEPT !.ready = FALSE, !.prompted = FALSE]
    [] ed[e].op = "context" -> [r EXCEPT !.ready = TRUE, !.prompted = TRUE]
    [] OTHER -> r

UpdateWorkspace(e) ==
  LET r == RowEdited(e) IN
  /\ ed[e].at = "row"
  /\ IF Live(ed[e].w)
     THEN /\ WriteRow(ed[e].w, r)
          /\ IF ed[e].op = "context" \/ (ed[e].op = "start" /\ r.ready) THEN Move(e, "request")
             ELSE IF ed[e].op \in {"start", "mission"} /\ Unprompted(r)
             THEN ed' = [ed EXCEPT ![e].at = "prompt", ![e].r = r]
             ELSE Done(e)
     ELSE Done(e) /\ UNCHANGED <<settings, ws>>
  /\ UNCHANGED <<idle, ready, still, cool, owed, quiet, left>>

EnsureContextPrompt(e) ==
  /\ ed[e].at = "prompt"
  /\ IF Live(ed[e].w) THEN WriteRow(ed[e].w, [ed[e].r EXCEPT !.prompted = TRUE])
     ELSE UNCHANGED <<settings, ws>>
  /\ Done(e)
  /\ UNCHANGED <<idle, ready, still, cool, owed, quiet, left>>

\* Start and complete_context ask for the workspace they wrote, the others for
\* the active one.
RequestOrientation(e) ==
  /\ ed[e].at = "request"
  /\ RequestFor(IF ed[e].op \in {"start", "context"} THEN ed[e].w ELSE settings.active)
  /\ Done(e)
  /\ UNCHANGED <<idle, ready, still, cool, owed, quiet, left>>

SetActiveWorkspace(e) ==
  /\ ed[e].at = "select"
  /\ IF Live(ed[e].w)
     THEN /\ settings' = Selecting(ed[e].w)
          /\ IF ed[e].op = "setup" THEN Move(e, "settings")
             ELSE IF Unprompted(ed[e].r) THEN Move(e, "prompt") ELSE Done(e)
     ELSE Done(e) /\ UNCHANGED settings
  /\ UNCHANGED <<ws, idle, ready, still, cool, owed, quiet, left>>

\* CreateScope starts the mission of its workspace, CompleteSetup does not. The
\* first workspace is selected in the same transaction.
Insert(w, started) ==
  /\ ws' = [ws EXCEPT ![w] = [NoRow EXCEPT !.at = "live", !.started = started]]
  /\ settings' = IF settings.active # None THEN settings
                 ELSE [settings EXCEPT !.active = w, !.started = started,
                                       !.queued = FALSE, !.last = FALSE]
CreateWorkspace(e, started) ==
  LET new == {w \in Workspaces : ws[w].at = "none" /\ \A v \in 1..(w - 1) : ws[v].at # "none"}
  IN
  /\ Starts(e)
  /\ started \/ ~settings.setup
  /\ \E w \in new : Insert(w, started)
  /\ UNCHANGED <<idle, ready, still, cool, ed, owed, quiet>>

\* DeleteScope looks first, in memory too, and deletes later; the transaction
\* itself, under queueMu, looks only at the rows.
OpenWork(w) == (chat.at # "none" /\ chat.w = w) \/ \E k \in Workers : Running(k) /\ worker[k].w = w
CheckDeletion(e, w) ==
  /\ Starts(e) /\ Live(w)
  /\ ~OpenWork(w)
  /\ ~(Reviewing /\ loop.w = w) /\ \A k \in Workers : AtWork(k) => worker[k].w # w
  /\ ed' = [ed EXCEPT ![e] = [Free EXCEPT !.at = "delete", !.op = "delete", !.w = w]]
  /\ UNCHANGED <<durable, still, cool, owed, quiet>>

DeleteWorkspaceData(e) ==
  LET w == ed[e].w IN
  /\ ed[e].at = "delete" /\ ~queueMu
  /\ IF Live(w) /\ ~OpenWork(w)
     THEN /\ settings' = AfterDeletion(w)
          /\ ws' = [ws EXCEPT ![w] = [NoRow EXCEPT !.at = "gone"]]
          /\ idle' = [idle EXCEPT ![w] = NoIdle]
          /\ ready' = [ready EXCEPT ![w] = 0]
          /\ owed' = [owed EXCEPT ![w] = 0]
          /\ quiet' = [quiet EXCEPT ![w] = 0]
     ELSE UNCHANGED <<durable, owed, quiet>>
  /\ Done(e)
  /\ UNCHANGED <<still, cool, left>>

\* DraftTask holds aiMu from its checks to the end of its process.
DraftTask(e) ==
  LET w == settings.active IN
  /\ Starts(e) /\ ~aiMu
  /\ settings.setup /\ settings.started /\ ~settings.paused
  /\ Live(w) /\ ws[w].ready /\ codexReady
  /\ Move(e, "draft")
  /\ UNCHANGED <<durable, still, cool, owed, quiet>>

FinishDraft(e) ==
  /\ ed[e].at = "draft"
  /\ Done(e)
  /\ cool' \in {cool, Cool}
  /\ UNCHANGED <<durable, still, owed, quiet, left>>

\* CreateTask, an approved plan, a schedule: work appears in a workspace.
AddTask(w) ==
  /\ left.tasks > 0 /\ Live(w)
  /\ left' = [left EXCEPT !.tasks = @ - 1]
  /\ ready' = [ready EXCEPT ![w] = @ + 1]
  /\ UNCHANGED <<settings, ws, idle, memory, owed, quiet>>

Begin(e) ==
  \/ \E op \in {"settings", "pause", "resume", "start"} : ReadSettings(e, op)
  \/ \E op \in {"ask", "mission"} : ReadActive(e, op)
  \/ \E w \in Workspaces :
       \/ BeginSetup(e, w) \/ CheckDeletion(e, w)
       \/ \E op \in {"select", "rename", "context"} : ReadRow(e, op, w)
  \/ \E started \in BOOLEAN : CreateWorkspace(e, started)
  \/ DraftTask(e)
Continue(e) ==
  \/ UpdateSettings(e) \/ Sweep(e) \/ LoadActive(e) \/ UpdateWorkspace(e)
  \/ EnsureContextPrompt(e) \/ RequestOrientation(e) \/ SetActiveWorkspace(e)
  \/ DeleteWorkspaceData(e) \/ FinishDraft(e)

-----------------------------------------------------------------------------
(* Time and restarts.                                                        *)

Down(n) == IF n = 0 THEN 0 ELSE n - 1
Tick ==
  /\ left.time
  /\ idle' = [w \in Workspaces |-> IF idle[w].next = Unset THEN idle[w]
                                    ELSE [idle[w] EXCEPT !.next = Down(@)]]
  /\ cool' = Down(cool)
  /\ owed' = [w \in Workspaces |-> Down(owed[w])]
  /\ quiet' = [w \in Workspaces |-> IF Live(w) /\ quiet[w] < MinIdle THEN quiet[w] + 1
                                     ELSE quiet[w]]
  /\ UNCHANGED <<settings, ws, ready, loop, claimed, asked, retried, worker, chat, ed, left>>

\* RecoverInterrupted puts running tasks and the message back; everything in
\* memory is gone, a consumed request for orientation too.
Crash ==
  LET lost(w) == {k \in Workers : Running(k) /\ worker[k].w = w} IN
  /\ left.crashes > 0
  /\ left' = [left EXCEPT !.crashes = @ - 1]
  /\ ready' = [w \in Workspaces |-> ready[w] + Cardinality(lost(w))]
  /\ chat' = IF chat.at = "active" THEN [chat EXCEPT !.at = "queued"] ELSE chat
  /\ loop' = Asleep /\ claimed' = FALSE /\ asked' = FALSE /\ retried' = FALSE
  /\ worker' = [k \in Workers |-> [at |-> "sleep", w |-> None]]
  /\ cool' = 0
  /\ ed' = [e \in Editors |-> Free]
  /\ UNCHANGED <<settings, ws, idle, owed, quiet>>

-----------------------------------------------------------------------------
(* A new installation, or a daemon that starts on two workspaces of which the *)
(* first is active, oriented and ready.                                       *)

Ready == [NoRow EXCEPT !.at = "live", !.started = TRUE, !.ready = TRUE,
                       !.prompted = TRUE, !.last = TRUE]
Installed == /\ ws = [w \in Workspaces |-> IF w = 1 THEN Ready
                                            ELSE [NoRow EXCEPT !.at = "live", !.started = TRUE]]
             /\ settings = [setup |-> TRUE, paused |-> FALSE, started |-> TRUE,
                            queued |-> FALSE, last |-> TRUE, active |-> 1]
New == /\ ws = [w \in Workspaces |-> NoRow]
       /\ settings = FreshSettings

Init ==
  /\ Installed \/ New
  /\ idle = [w \in Workspaces |-> NoIdle]
  /\ ready = [w \in Workspaces |-> 0]
  /\ loop = Asleep /\ claimed = FALSE /\ asked = FALSE /\ retried = FALSE
  /\ worker = [k \in Workers |-> [at |-> "sleep", w |-> None]]
  /\ chat = NoChat /\ cool = 0
  /\ ed = [e \in Editors |-> Free]
  /\ owed = [w \in Workspaces |-> 0] /\ quiet = [w \in Workspaces |-> 0]
  /\ left \in Bounds

Next ==
  \/ Load \/ LoopStep
  \/ \E k \in Workers : WorkerStep(k)
  \/ \E w \in Workspaces : SendMessage(w) \/ AddTask(w)
  \/ ClaimMessage \/ FinishMessage
  \/ \E e \in Editors : Begin(e) \/ Continue(e)
  \/ Tick \/ Crash

\* The loops of the daemon run, by signal or ticker; a process ends, within its
\* timeout; a handler that began goes on; time passes. aiMu and queueMu are
\* released again and again, and a Go mutex does not let a waiter starve.
Fairness ==
  /\ SF_vars(Load \/ LoopStep) /\ WF_vars(Tick)
  /\ WF_vars(ClaimMessage \/ FinishMessage)
  /\ \A k \in Workers : SF_vars(WorkerStep(k))
  /\ \A e \in Editors : SF_vars(Continue(e))

Spec == Init /\ [][Next]_vars /\ Fairness

-----------------------------------------------------------------------------
(* What must hold.                                                           *)

\* Whatever handlers overwrite, the two tables agree: the settings row repeats
\* the mission state of the active workspace, which exists, and a daemon that
\* is set up has an active workspace.
Mirrored ==
  /\ settings.active # None =>
       LET r == ws[settings.active] IN
       /\ r.at = "live"
       /\ settings.started = r.started
       /\ settings.queued = r.queued
       /\ settings.last = r.last
  /\ settings.setup => settings.active # None

\* While a requested orientation is prepared or runs, no worker holds a task,
\* although workers look before they take the lock (orientationClaimed).
OrientationAlone == claimed => \A k \in Workers : ~AtWork(k)

\* An idle review is taken up only when the cooldown of the last one is over
\* and the workspace was idle for the minimum time since work was last noted
\* in it, over restarts and resets; and the review that then starts finds its
\* workspace outside its cooldown. The exception is a switch between the two
\* (RecordIdleCheck, runIdleOrientation): see NoReviewInCooldown.
TakesReview == loop.at = "check" /\ loop'.at = "launch"
StartsReview == loop.at = "launch" /\ loop.idle /\ loop'.at = "run"
ReviewIsDue ==
  [][/\ TakesReview => owed[loop.w] = 0 /\ quiet[loop.w] >= MinIdle
     /\ StartsReview => owed[loop'.w] = 0 \/ loop'.w # loop.w]_vars

\* No idle review starts inside the cooldown of the workspace it reviews: "the
\* durable, per-workspace throttle for proactive idle reviews". This does not
\* hold: the throttle is asked for the workspace that was active at the check,
\* and runOrientationMode reviews the one that is active when it starts.
NoReviewInCooldown == [][StartsReview => owed[loop'.w] = 0]_vars

\* While the daemon may work, a request for orientation does not stay, and
\* reviews never cease: no lease, cooldown, lost request or restart ends them.
Servable ==
  /\ settings.setup /\ settings.started /\ ~settings.paused
  /\ Live(settings.active) /\ ws[settings.active].ready
KeepsLooking ==
  <>[](Servable /\ left.time) => []<>(~settings.queued) /\ []<>(loop.at = "launch" /\ loop.idle)
=============================================================================
