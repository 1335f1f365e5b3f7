--------------------------- MODULE SteeringContract --------------------------
(* What Chat may make of an answer (steering/validate.go, parse.go,          *)
(* repair.go; runChat in operator/chat.go): the objects found in Codex's     *)
(* output are tried from the last one to the first, each effect by effect    *)
(* against the state of the turn; if none is valid, Codex is asked once more.*)
(*                                                                           *)
(* An effect is a record of the fields that it was sent with, so that a      *)
(* missing field and one too many can be told. Sizes and spellings of texts  *)
(* are left out; a title stands for its normalized form.                     *)
EXTENDS Naturals, Sequences, FiniteSets, SequencesExt

CONSTANTS
  Worlds,      \* states a turn is validated against
  Answers,     \* what Codex answers: sequences of candidates
  Repairs,     \* what it answers to the repair request
  MaxEffects, MaxCreated   \* MaxEffects, MaxCreatedTasks

ASSUME EffectsAreBounded == MaxEffects \in Nat /\ MaxCreated \in Nat

ASSUME AnswersAreSequences ==
  \A a \in Answers \cup Repairs : /\ a \in Seq(ToSet(a))
                                 /\ \A c \in ToSet(a) : c.effects \in Seq(ToSet(c.effects))

None == "none"

\* No task goes by the name that stands for none (an empty ID).
ASSUME NoneIsNoTask == \A w \in Worlds : None \notin DOMAIN w.tasks

VARIABLES
  state,    \* ValidationState
  answer,   \* the candidates of the answer in hand
  turn,     \* first, repair
  at,       \* run, next, effect, accepted, refused
  pick,     \* the candidate that is tried
  effects,  \* its effects, in the order they are validated in
  index,    \* the next of them
  seen      \* what ValidateResult remembers of the earlier ones

contractVars == <<state, answer, turn, at, pick, effects, index, seen>>

NothingSeen == [created |-> 0, titles |-> {}, tasks |-> {}, approvals |-> {},
                categories |-> {}, apps |-> {}, once |-> {}]

Plain == {"conversation_only", "propose_context", "complete_context", "pause", "resume"}
Resolving == {"approve_action", "reject_action"}
AppAction == {"start_local_app", "stop_local_app"}
RowAction == {"update_dataset_row", "delete_dataset_row"}

ContractTypeOK ==
  /\ turn \in {"first", "repair"}
  /\ at \in {"run", "next", "effect", "accepted", "refused"}
  /\ pick \in 0..Len(answer) /\ index \in 1..(MaxEffects + 2)
  /\ seen.created \in 0..MaxEffects

------------------------------------------------------------------------------
(* One effect: validateEffect.                                               *)

Has(e, field) == field \in DOMAIN e

\* extraneousFields
Allowed(type) ==
  CASE type \in Plain -> {}
    [] type = "request_choice" -> {"choice"}
    [] type = "create_task" -> {"task"}
    [] type = "update_task" -> {"task_id", "task"}
    [] type = "cancel_task" -> {"task_id", "note"}
    [] type = "update_mission" -> {"mission"}
    [] type = "update_context" -> {"context"}
    [] type = "update_soul" -> {"soul"}
    [] type = "update_policy" -> {"policy"}
    [] type = "approve_action" -> {"approval_id"}
    [] type = "reject_action" -> {"approval_id", "note"}
    [] type = "request_report" -> {"report"}
    [] type = "create_plan" -> {"plan"}
    [] type = "create_schedule" -> {"schedule"}
    [] type = "create_secret" -> {"secret"}
    [] type = "create_script" -> {"script"}
    [] type = "create_local_app" -> {"local_app"}
    [] type \in AppAction -> {"app_id"}
    [] type = "create_dataset" -> {"dataset"}
    [] type = "upsert_dataset_rows" -> {"dataset_rows"}
    [] type \in RowAction -> {"dataset_row"}
    [] OTHER -> {}

Known == Plain \cup Resolving \cup AppAction \cup RowAction \cup
  {"request_choice", "create_task", "update_task", "cancel_task", "update_mission",
   "update_context", "update_soul", "update_policy", "request_report", "create_plan",
   "create_schedule", "create_secret", "create_script", "create_local_app",
   "create_dataset", "upsert_dataset_rows"}

Distinct(seq) == \A j, k \in DOMAIN seq : seq[j] = seq[k] => j = k

\* normalizeChoiceRequest
ChoiceOK(c) ==
  /\ Len(c.labels) \in 2..5 /\ Len(c.values) = Len(c.labels)
  /\ Distinct(c.labels) /\ Distinct(c.values)
  /\ c.primary <= 1

\* normalizeTaskChange: the statuses are normalized names.
TaskStatuses == {"idea", "ready", "waiting", "running", "needs_approval", "completed",
                 "failed", "cancelled"}
TaskChangeOK(c, creating) ==
  /\ creating => {"title", "purpose", "done"} \subseteq DOMAIN c
  /\ Has(c, "priority") => c.priority \in {"high", "normal", "low"}
  /\ Has(c, "status") => c.status \in TaskStatuses /\ (creating => c.status = "ready")
  /\ Has(c, "workspace") => c.workspace = state.workspace
  /\ Has(c, "done") => c.done # {}
  /\ Has(c, "planned") => c.planned <= 14

\* validateTaskDependencies: the search in depth from a task comes back to one it
\* is visiting, unless each way from the task ends.
Cycle(graph, id) ==
  \E S \in SUBSET DOMAIN graph : id \in S /\ \A t \in S : graph[t] \cap S # {}

\* The dependencies of all tasks, those of one changed.
Graph(task, deps) ==
  [t \in DOMAIN state.tasks |-> IF t = task THEN deps ELSE state.tasks[t].deps]

DependenciesOK(deps, task, workspace) ==
  /\ deps \subseteq DOMAIN state.tasks
  /\ task \notin deps
  /\ workspace # None => \A d \in deps : state.tasks[d].workspace = workspace
  /\ task # None => ~Cycle(Graph(task, deps), task)

Deps(c) == IF Has(c, "deps") THEN c.deps ELSE {}

CreateTaskOK(e) ==
  /\ Has(e, "task") /\ TaskChangeOK(e.task, TRUE)
  /\ DependenciesOK(Deps(e.task), None, IF Has(e.task, "workspace") THEN e.task.workspace ELSE None)

\* A task that runs, or is completed, is not edited; and what a task becomes by
\* its own running is not set.
UpdateTaskOK(e) ==
  /\ Has(e, "task_id") /\ Has(e, "task") /\ e.task_id \in DOMAIN state.tasks
  /\ state.tasks[e.task_id].status \notin {"completed", "running"}
  /\ TaskChangeOK(e.task, FALSE)
  /\ Has(e.task, "deps") => DependenciesOK(e.task.deps, e.task_id, state.tasks[e.task_id].workspace)
  /\ DOMAIN e.task # {}
  /\ Has(e.task, "status") => e.task.status \in {"idea", "ready", "waiting"}

CancelTaskOK(e) ==
  /\ Has(e, "task_id") /\ e.task_id \in DOMAIN state.tasks
  /\ state.tasks[e.task_id].status \notin {"completed", "cancelled"}

PolicyOK(e) ==
  /\ Has(e, "policy")
  /\ e.policy.category \in {"read", "work", "publish", "dangerous"}
  /\ e.policy.decision \in {"allow", "ask"}
  /\ ~(e.policy.category = "dangerous" /\ e.policy.decision = "allow")

\* normalizePlanChange
PlanOK(p) ==
  /\ Len(p.items) \in 1..24
  /\ \A k \in DOMAIN p.items :
       p.items[k].kind \in {"task", "schedule", "milestone"} /\ p.items[k].planned <= 14

\* normalizeScheduleChange; cadence is what scheduler.Next says of it.
ScheduleOK(s) ==
  /\ (s.expression = None) # (s.interval = 0)
  /\ s.interval # 0 => s.interval >= 60
  /\ \/ s.kind = "task" /\ Has(s, "task") /\ ~Has(s, "reason") /\ TaskChangeOK(s.task, TRUE)
     \/ s.kind = "orient" /\ ~Has(s, "task")
  /\ s.cadence

\* normalizeScriptChange
ScriptOK(s) ==
  /\ s.path = "file" /\ s.shebang /\ s.access \in {"read", "write"}
  /\ s.timeout \in 1..1800
  /\ Len(s.envs) <= 16 /\ Distinct(s.envs) /\ Len(s.secrets) = Len(s.envs)
  /\ \A k \in DOMAIN s.envs : s.envs[k] # "PATH" /\ s.secrets[k] \in state.configured

\* normalizeLocalAppChange
LocalAppOK(a) ==
  /\ a.directory = "repos"
  /\ a.command # << >> /\ Len(a.command) <= 32 /\ a.command[1] # "sh"
  /\ a.port \in 1024..65535 /\ a.health = "/"

\* normalizeDatasetChange
DatasetOK(d) ==
  /\ Len(d.columns) \in 1..32 /\ Distinct(d.columns)
  /\ \A k \in DOMAIN d.types :
       d.types[k] \in {"string", "integer", "number", "boolean", "datetime", "json"}
  /\ d.key \subseteq {d.columns[k] : k \in DOMAIN d.columns}

\* validateDatasetRowsForOperation, of one row: a value is right or wrong for
\* its column. A column that is left out, or null, is nullable.
RowFits(dataset, row) ==
  /\ \A c \in DOMAIN row : c \in dataset.columns /\ row[c] \in {"right", "null"}
  /\ \A c \in dataset.columns : c \notin DOMAIN row \/ row[c] = "null" => c \in dataset.nullable

UpsertOK(u) ==
  /\ u.dataset \in DOMAIN state.datasets
  /\ state.datasets[u.dataset].keyed
  /\ Len(u.rows) \in 1..100
  /\ \A k \in DOMAIN u.rows : RowFits(state.datasets[u.dataset], u.rows[k])

\* A row can be named only if it was shown, and is edited as a whole.
RowOK(e) ==
  LET r == e.dataset_row
      shown == state.datasets[r.dataset].shown
  IN /\ r.dataset \in DOMAIN state.datasets
     /\ r.row \in DOMAIN shown
     /\ IF e.type = "delete_dataset_row" THEN DOMAIN r.values = {}
        ELSE /\ DOMAIN r.values # {}
             /\ RowFits(state.datasets[r.dataset],
                  [c \in DOMAIN shown[r.row] \cup DOMAIN r.values |->
                    IF c \in DOMAIN r.values THEN r.values[c] ELSE shown[r.row][c]])

\* The sizes and the spelling of a text are not modelled: it is there or not.
TextOK(e, field) == Has(e, field)

EffectOK(e) ==
  /\ e.type \in Known
  /\ DOMAIN e \ {"type"} \subseteq Allowed(e.type)
  /\ \/ e.type \in Plain
     \/ e.type = "request_choice" /\ Has(e, "choice") /\ ChoiceOK(e.choice)
     \/ e.type = "create_task" /\ CreateTaskOK(e)
     \/ e.type = "update_task" /\ UpdateTaskOK(e)
     \/ e.type = "cancel_task" /\ CancelTaskOK(e)
     \/ e.type = "update_mission" /\ TextOK(e, "mission")
     \/ e.type = "update_context" /\ TextOK(e, "context")
     \/ e.type = "update_soul" /\ TextOK(e, "soul")
     \/ e.type = "update_policy" /\ PolicyOK(e)
     \/ e.type \in Resolving /\ Has(e, "approval_id") /\ e.approval_id \in state.approvals
     \/ e.type = "request_report" /\ TextOK(e, "report")
     \/ e.type = "create_plan" /\ Has(e, "plan") /\ PlanOK(e.plan)
     \/ e.type = "create_schedule" /\ state.schedule /\ Has(e, "schedule") /\ ScheduleOK(e.schedule)
     \/ e.type = "create_secret" /\ TextOK(e, "secret")
     \/ e.type = "create_script" /\ Has(e, "script") /\ ScriptOK(e.script)
     \/ e.type = "create_local_app" /\ Has(e, "local_app") /\ LocalAppOK(e.local_app)
     \/ e.type \in AppAction /\ Has(e, "app_id") /\ e.app_id \in state.apps
     \/ e.type = "create_dataset" /\ Has(e, "dataset") /\ DatasetOK(e.dataset)
     \/ e.type = "upsert_dataset_rows" /\ Has(e, "dataset_rows") /\ UpsertOK(e.dataset_rows)
     \/ e.type \in RowAction /\ Has(e, "dataset_row") /\ RowOK(e)

------------------------------------------------------------------------------
(* One result: ValidateResult.                                               *)

Gated == state.gate /\ ~state.ready

\* contextSetupEffect
Setup == {"conversation_only", "propose_context", "request_choice", "complete_context",
          "update_mission", "update_context", "create_secret", "create_script",
          "create_local_app", "update_soul"}

OpenTitles ==
  {state.tasks[t].title : t \in {x \in DOMAIN state.tasks :
    state.tasks[x].status \notin {"completed", "failed", "cancelled"}}}

\* (mutant) Effects are validated in the order they were sent in.
AsSent(es) == es

\* A confirmed completion is validated first, wherever it stands.
Ordered(es) ==
  LET completes == {k \in DOMAIN es : es[k].type = "complete_context"}
  IN IF ~Gated \/ ~state.confirmed \/ completes = {} THEN es
     ELSE LET first == CHOOSE k \in completes : \A j \in completes : k <= j
          IN [k \in DOMAIN es |-> IF k = 1 THEN es[first] ELSE IF k <= first THEN es[k - 1] ELSE es[k]]

\* What may be there once: an update of the soul counts as one of the context.
Once(e) ==
  CASE e.type = "update_soul" -> "update_context"
    [] e.type \in {"pause", "resume"} -> "pause"
    [] OTHER -> e.type
Singular == {"request_choice", "update_mission", "update_context", "pause", "create_plan"}

Refuses(e) ==
  \/ Gated /\ "complete_context" \notin seen.once /\ e.type \notin Setup
  \/ e.type = "propose_context" /\ state.ready
  \/ e.type = "complete_context" /\ (state.ready \/ "complete_context" \in seen.once \/ ~state.confirmed)
  \/ /\ e.type = "create_task"
     /\ seen.created >= MaxCreated \/ e.task.title \in OpenTitles \cup seen.titles
  \/ /\ e.type \in {"update_task", "cancel_task"}
     /\ \/ state.recovery # None /\ e.task_id # state.recovery
        \/ e.task_id \in seen.tasks
  \/ e.type = "update_policy" /\ e.policy.category \in seen.categories
  \/ e.type \in Resolving /\ e.approval_id \in seen.approvals
  \/ e.type \in AppAction /\ e.app_id \in seen.apps
  \/ Once(e) \in Singular /\ Once(e) \in seen.once

Remember(e) ==
  seen' = [created |-> seen.created + (IF e.type = "create_task" THEN 1 ELSE 0),
    titles |-> IF e.type = "create_task" THEN seen.titles \cup {e.task.title} ELSE seen.titles,
    tasks |-> IF e.type \in {"update_task", "cancel_task"} THEN seen.tasks \cup {e.task_id} ELSE seen.tasks,
    approvals |-> IF e.type \in Resolving THEN seen.approvals \cup {e.approval_id} ELSE seen.approvals,
    categories |-> IF e.type = "update_policy" THEN seen.categories \cup {e.policy.category}
                   ELSE seen.categories,
    apps |-> IF e.type \in AppAction THEN seen.apps \cup {e.app_id} ELSE seen.apps,
    once |-> seen.once \cup {Once(e)}]

------------------------------------------------------------------------------
(* The turn.                                                                 *)

\* extractJSONObjects: an object that is repeated keeps its first place.
Extract(k) == \A j \in 1..(k - 1) : answer[j] # answer[k]

Answer ==
  /\ at = "run"
  /\ \E a \in IF turn = "first" THEN Answers ELSE Repairs :
       answer' = a /\ pick' = Len(a)
  /\ at' = "next"
  /\ UNCHANGED <<state, turn, effects, index, seen>>

\* The repair run fails.
RepairFails ==
  /\ at = "run" /\ turn = "repair"
  /\ at' = "refused"
  /\ UNCHANGED <<state, answer, turn, pick, effects, index, seen>>

Reject == pick' = pick - 1 /\ at' = "next" /\ UNCHANGED <<effects, index, seen>>

\* looksLikeResult, decodeResult, and what ValidateResult looks at first.
Begins(c) == c.result /\ c.decodes /\ c.response /\ Len(c.effects) \in 1..MaxEffects

ParseResult ==
  /\ at = "next" /\ pick > 0
  /\ IF Extract(pick) /\ Begins(answer[pick])
     THEN /\ effects' = Ordered(answer[pick].effects) /\ index' = 1 /\ seen' = NothingSeen
          /\ at' = "effect" /\ UNCHANGED pick
     ELSE Reject
  /\ UNCHANGED <<state, answer, turn>>

ValidateEffect ==
  /\ at = "effect" /\ index <= Len(effects)
  /\ IF EffectOK(effects[index]) /\ ~Refuses(effects[index])
     THEN Remember(effects[index]) /\ index' = index + 1 /\ UNCHANGED <<pick, at, effects>>
     ELSE Reject
  /\ UNCHANGED <<state, answer, turn>>

ValidateResult ==
  /\ at = "effect" /\ index > Len(effects)
  /\ IF "conversation_only" \in seen.once /\ Len(effects) # 1 THEN Reject
     ELSE at' = "accepted" /\ UNCHANGED <<pick, effects, index, seen>>
  /\ UNCHANGED <<state, answer, turn>>

\* BuildRepairPacket: once, and before anything is applied.
NoCandidate ==
  /\ at = "next" /\ pick = 0
  /\ IF turn = "first" THEN turn' = "repair" /\ at' = "run" ELSE at' = "refused" /\ UNCHANGED turn
  /\ UNCHANGED <<state, answer, pick, effects, index, seen>>

ContractInit ==
  /\ state \in Worlds
  /\ answer = << >> /\ turn = "first" /\ at = "run" /\ pick = 0
  /\ effects = << >> /\ index = 1 /\ seen = NothingSeen

ContractNext ==
  Answer \/ RepairFails \/ ParseResult \/ ValidateEffect \/ ValidateResult \/ NoCandidate

ContractSpec == ContractInit /\ [][ContractNext]_contractVars

------------------------------------------------------------------------------
(* Properties.                                                               *)

\* Two effects that one result cannot have both.
Conflict(d, e) ==
  \/ d.type = e.type /\ d.type \in {"request_choice", "complete_context", "update_mission", "create_plan"}
  \/ {d.type, e.type} \subseteq {"update_context", "update_soul"}
  \/ {d.type, e.type} \subseteq {"pause", "resume"}
  \/ "conversation_only" \in {d.type, e.type}
  \/ d.type = "create_task" /\ e.type = "create_task" /\ d.task.title = e.task.title
  \/ d.type = "update_policy" /\ e.type = "update_policy" /\ d.policy.category = e.policy.category
  \/ /\ {d.type, e.type} \subseteq {"update_task", "cancel_task"}
     /\ d.task_id = e.task_id
  \/ {d.type, e.type} \subseteq Resolving /\ d.approval_id = e.approval_id
  \/ {d.type, e.type} \subseteq AppAction /\ d.app_id = e.app_id

\* The new graph has no way from the task back to itself.
StaysAcyclic(e) ==
  e.type = "update_task" /\ Has(e.task, "deps") =>
    LET graph == Graph(e.task_id, e.task.deps)
    IN \A n \in 1..Cardinality(DOMAIN graph) : \A way \in [0..n -> DOMAIN graph] :
         way[0] = e.task_id /\ way[n] = e.task_id => \E k \in 1..n : way[k] \notin graph[way[k - 1]]

\* What may be applied, said of the effects as a whole, whatever their order.
Sound(es) ==
  LET types == {es[k].type : k \in DOMAIN es}
      of(type) == {k \in DOMAIN es : es[k].type = type}
  IN /\ \A k \in DOMAIN es : EffectOK(es[k]) /\ StaysAcyclic(es[k])
     /\ \A j, k \in DOMAIN es : j # k => ~Conflict(es[j], es[k])
     /\ Gated => types \subseteq Setup \/ "complete_context" \in types
     /\ "complete_context" \in types => state.confirmed /\ ~state.ready
     /\ "propose_context" \in types => ~state.ready
     /\ Cardinality(of("create_task")) <= MaxCreated
     /\ \A k \in of("create_task") : es[k].task.title \notin OpenTitles
     /\ state.recovery # None =>
          \A k \in of("update_task") \cup of("cancel_task") : es[k].task_id = state.recovery

Acceptable(k) == Extract(k) /\ Begins(answer[k]) /\ Sound(answer[k].effects)

\* What is accepted is the last acceptable object of the answer, and an answer
\* is given up only if none of its objects is: the order in which a model
\* happens to write its effects never decides, nothing is done before the
\* context is confirmed, and no two effects of a result contradict.
AcceptedIsRight ==
  /\ at = "accepted" =>
       /\ Acceptable(pick)
       /\ Gated => \A k \in DOMAIN effects :
            effects[k].type \in Setup \/ \E j \in 1..(k - 1) : effects[j].type = "complete_context"
  /\ at \in {"accepted", "next", "refused"} =>
       \A k \in (pick + 1)..Len(answer) : ~Acceptable(k)
=============================================================================
