----------------------------- MODULE MCContract -----------------------------
\* What a turn may do, when a schedule runs, when a task is done: a behaviour is
\* about one of them.
EXTENDS SteeringContract, Calendar, TaskResults, TLC

CONSTANTS contract, almanac, verdicts, t1, t2, t3, t4, A, B, C
VARIABLE part

Row(status, title, deps) == [status |-> status, title |-> title, deps |-> deps, workspace |-> "w"]
MCTasks == [t \in {t1, t2, t3, t4} |->
  CASE t = t1 -> Row("ready", A, {}) [] t = t2 -> Row("waiting", B, {t1})
    [] t = t3 -> Row("running", B, {}) [] t = t4 -> Row("completed", C, {})]
MCSheet == [columns |-> {"k", "v"}, nullable |-> {"v"}, keyed |-> TRUE,
            shown |-> [r \in {1} |-> [c \in {"k"} |-> "right"]]]

World(gate, ready, confirmed, scheduled, recovery) ==
  [gate |-> gate, ready |-> ready, confirmed |-> confirmed, schedule |-> scheduled,
   recovery |-> recovery, tasks |-> MCTasks, workspace |-> "w", approvals |-> {"a1"},
   apps |-> {"app"}, configured |-> {"s1"},
   datasets |-> [d \in {"d1", "d2"} |-> [MCSheet EXCEPT !.keyed = d = "d1"]]]

\* Chat always has the gate on; a recovery turn is about a task that waits.
MCWorlds == {World(TRUE, r, c, TRUE, None) : r, c \in BOOLEAN} \cup
            {World(TRUE, TRUE, FALSE, FALSE, t2), World(FALSE, FALSE, FALSE, TRUE, None)}

Only(type) == [type |-> type]
New(title) == [title |-> title, purpose |-> "why", done |-> {"d"}]
Create1(task) == [type |-> "create_task", task |-> task]
Update1(t, task) == [type |-> "update_task", task_id |-> t, task |-> task]
Cancel1(t) == [type |-> "cancel_task", task_id |-> t]
Set1(c, d) == [type |-> "update_policy", policy |-> [category |-> c, decision |-> d]]
Text1(type, field) == [f \in {"type", field} |-> IF f = "type" THEN type ELSE "text"]

\* Effects that meet in one result.
Mixing ==
  {Only(t) : t \in Plain} \cup
  {Create1(New(C)), Create1(New(A)), Create1([deps |-> {t2}] @@ New("D")),
   Update1(t1, [deps |-> {t2}]), Update1(t1, [deps |-> {t4}]), Update1(t2, [status |-> "ready"]),
   Cancel1(t2), Cancel1(t3), Set1("work", "ask"), Set1("work", "allow"),
   Text1("update_context", "context"), Text1("update_soul", "soul"), Text1("update_mission", "mission"),
   [type |-> "approve_action", approval_id |-> "a1"], [type |-> "reject_action", approval_id |-> "a1"],
   [type |-> "start_local_app", app_id |-> "app"], [type |-> "stop_local_app", app_id |-> "app"]}

Choice(ls, vs, p) == [type |-> "request_choice", choice |-> [labels |-> ls, values |-> vs, primary |-> p]]
Plan(items) == [type |-> "create_plan", plan |-> [items |-> items]]
Item(k, d) == [kind |-> k, planned |-> d]
Timed(s) == [type |-> "create_schedule", schedule |-> s]
Script(path, access, time, envs, secrets) == [type |-> "create_script",
  script |-> [path |-> path, shebang |-> TRUE, access |-> access, timeout |-> time, envs |-> envs, secrets |-> secrets]]
App(dir, cmd, port) == [type |-> "create_local_app",
  local_app |-> [directory |-> dir, command |-> <<cmd>>, port |-> port, health |-> "/"]]
Sheet(cols, types, key) == [type |-> "create_dataset", dataset |-> [columns |-> cols, types |-> types, key |-> key]]
Upsert(d, rows) == [type |-> "upsert_dataset_rows", dataset_rows |-> [dataset |-> d, rows |-> rows]]
RowEdit(type, d, r, v) == [type |-> type, dataset_row |-> [dataset |-> d, row |-> r, values |-> v]]

\* Effects that are right or wrong by themselves.
Alone ==
  {Choice(<<A, B>>, <<A, B>>, 1), Choice(<<A, A>>, <<A, B>>, 1), Choice(<<A>>, <<A>>, 0), Choice(<<A, B>>, <<A, B>>, 2),
   Plan(<<Item("task", 14)>>), Plan(<<Item("task", 15)>>), Plan(<<Item("report", 0)>>), Plan(<< >>),
   Timed([expression |-> None, interval |-> 60, kind |-> "orient", cadence |-> TRUE]),
   Timed([expression |-> None, interval |-> 59, kind |-> "orient", cadence |-> TRUE]),
   Timed([expression |-> "daily", interval |-> 60, kind |-> "orient", cadence |-> TRUE]),
   Timed([expression |-> "daily", interval |-> 0, kind |-> "task", task |-> New(A), cadence |-> TRUE]),
   Timed([expression |-> "daily", interval |-> 0, kind |-> "script", cadence |-> TRUE]),
   Timed([expression |-> "odd", interval |-> 0, kind |-> "orient", cadence |-> FALSE]),
   Script("file", "read", 300, <<A, B>>, <<"s1", "s1">>), Script("file", "read", 300, <<A, A>>, <<"s1", "s1">>),
   Script("outside", "read", 300, << >>, << >>), Script("file", "write", 1801, << >>, << >>),
   Script("file", "read", 1, <<A>>, <<"s2">>), Script("file", "read", 1, <<"PATH">>, <<"s1">>),
   App("repos", "node", 1024), App("root", "node", 1024), App("repos", "sh", 1024), App("repos", "node", 80),
   Sheet(<<"k", "v">>, <<"string", "json">>, {"k"}), Sheet(<<"k", "k">>, <<"string", "json">>, {}),
   Sheet(<<"k">>, <<"string">>, {"x"}), Sheet(<<"k">>, <<"blob">>, {}),
   Upsert("d1", <<[k |-> "right"]>>), Upsert("d1", <<[k |-> "wrong"]>>), Upsert("d1", <<[v |-> "right"]>>),
   Upsert("d2", <<[k |-> "right"]>>), Upsert("d3", <<[k |-> "right"]>>), Upsert("d1", << >>),
   RowEdit("update_dataset_row", "d2", 1, [v |-> "right"]), RowEdit("update_dataset_row", "d2", 1, [k |-> "null"]),
   RowEdit("update_dataset_row", "d1", 2, [k |-> "right"]), RowEdit("update_dataset_row", "d1", 1, << >>),
   RowEdit("delete_dataset_row", "d1", 1, << >>), RowEdit("delete_dataset_row", "d1", 1, [k |-> "right"]),
   Text1("request_report", "report"), Text1("create_secret", "secret"), Only("create_secret"), Only("merge"),
   Text1("pause", "note"), Set1("dangerous", "allow"), Set1("dangerous", "ask"), Set1("money", "ask"),
   Create1([title |-> "D", purpose |-> "why"]), Create1([status |-> "running"] @@ New("D")),
   Create1([status |-> "ready", planned |-> 14, priority |-> "low"] @@ New("D")),
   Create1([workspace |-> "w", deps |-> {t1}] @@ New("D")), Create1([workspace |-> "x"] @@ New("D")),
   Create1([planned |-> 15] @@ New("D")),
   Update1(t3, [title |-> C]), Update1(t4, [title |-> C]), Update1(t1, [deps |-> {t1}]), Update1(t1, << >>),
   Update1(t1, [status |-> "running"]), Update1(t1, [deps |-> {"t5"}]), Cancel1(t4), Cancel1("t5"),
   [type |-> "approve_action", approval_id |-> "a2"], [type |-> "start_local_app", app_id |-> "other"]}

Object(es) == [result |-> TRUE, decodes |-> TRUE, response |-> TRUE, effects |-> es]
Garbled == [Object(<<Only("pause")>>) EXCEPT !.decodes = FALSE]
Silent == [Object(<<Only("pause")>>) EXCEPT !.response = FALSE]
Other == [Object(<< >>) EXCEPT !.result = FALSE]
Started == Object(<<Create1(New(C)), Only("complete_context")>>)
Wrong == Object(<<Only("resume"), Only("pause")>>)
Right == Object(<<Only("propose_context"), Text1("update_soul", "soul")>>)
Long == Object(<<Only("propose_context"), Only("pause"), Create1(New(C)), Create1(New("D")), Create1(New("E"))>>)
Many == Object(<<Create1(New(C)), Create1(New("D")), Create1(New("E")), Create1(New("F"))>>)

MCAnswers ==
  {<<Object(<<e>>)>> : e \in Mixing \cup Alone} \cup
  {<<Object(<<d, e>>)>> : d, e \in Mixing} \cup
  {<<Object(<<d, e, Only("complete_context")>>)>> : d, e \in Mixing} \cup
  {<<Object(<<d, e, Create1(New(C))>>)>> : d, e \in Mixing} \cup
  {<<c, d>> : c, d \in {Garbled, Silent, Other, Started, Wrong, Right, Long, Many, Object(<< >>)}} \cup
  {<<c, d, c>> : c, d \in {Started, Wrong, Right}}
MCRepairs == {<< >>, <<Other>>, <<Wrong>>, <<Right>>, <<Right, Wrong>>, <<Started, Right>>}

------------------------------------------------------------------------------

Star == [base |-> "*", lo |-> 0, hi |-> 0, step |-> 1]
Part(b, lo, hi, step) == [base |-> b, lo |-> lo, hi |-> hi, step |-> step]
OneOf(n) == {Part("item", n, n, 1)}
Expr(m, h, d, mo, w) == [minute |-> m, hour |-> h, day |-> d, month |-> mo, weekday |-> w]

MCMonths == <<2, 2, 3>>
MCSchedules ==
  {[interval |-> 3],
   Expr({}, {}, {}, {}, {}), Expr(OneOf(0), {}, {}, {}, {}), Expr(OneOf(0), OneOf(0), {}, {}, OneOf(0)),
   Expr(OneOf(1), OneOf(1), {}, {}, OneOf(3)),                       \* the other number of the first weekday
   Expr(OneOf(0), OneOf(0), {}, {}, {Part("range", 2, 3, 1)}),       \* over the end of the week
   Expr(OneOf(0), OneOf(1), OneOf(3), {}, {}),                       \* a day most months do not have
   Expr(OneOf(0), OneOf(0), OneOf(3), OneOf(2), {}),                 \* the leap day
   Expr(OneOf(0), OneOf(0), OneOf(1), OneOf(1), OneOf(1)),           \* a day of the month and of the week
   Expr(OneOf(0), {}, {Part("range", 1, 3, 2)}, {Star}, {}),
   Expr({Part("*", 0, 0, 2)}, {}, {}, OneOf(3), OneOf(1) \cup OneOf(2)),
   Expr(OneOf(2), {}, {}, {}, {}), Expr({}, {}, OneOf(0), {}, {}), Expr({}, {}, {}, {}, OneOf(4)),
   Expr({Part("item", 0, 0, 2)}, {}, {}, {}, {}), Expr({}, {}, {}, {Part("range", 3, 2, 1)}, {})}

------------------------------------------------------------------------------

Tell(about, status) == [about |-> about, status |-> status, told |-> TRUE]
Mute(status) == [Tell("other", status) EXCEPT !.told = FALSE]
Said(text, status) == [text |-> text, status |-> status]
Write(operation, has) == [operation |-> operation, has |-> has]
Done == [status |-> "completed", summary |-> TRUE, checks |-> {Tell("other", "passed")},
         outcomes |-> << >>, asks |-> FALSE, kept |-> TRUE, artifacts |-> << >>, writes |-> << >>, apps |-> << >>, rows |-> << >>]
Bare == [Done EXCEPT !.checks = {}, !.kept = FALSE]
Failed == [Done EXCEPT !.status = "failed", !.outcomes = <<Said("api", "failed"), Said("page", "passed")>>]
Stored == [Done EXCEPT !.writes = <<Write("upsert_rows", {"dataset_id", "rows"})>>]

\* Scripts: none, one verifier that only reads, two of which the task names the second or none.
Verifier(id, access, named) == [id |-> id, access |-> access, verifier |-> TRUE, named |-> named]
MCInventories ==
  {<< >>, <<Verifier("w", "write", TRUE), Verifier("v", "read", FALSE)>>,
   <<Verifier("w", "read", FALSE), Verifier("v", "read", TRUE)>>,
   <<Verifier("w", "read", FALSE), Verifier("v", "read", FALSE)>>}
MCDefinitions == {<<"api", "page">>, <<"rows">>, <<"page">>}

\* Report files, and one that is called by another path.
Path(plain) == [file |-> "report.md", plain |-> plain]
Written == {[Done EXCEPT !.artifacts = <<Path(TRUE)>>], [Failed EXCEPT !.artifacts = <<Path(TRUE)>>],
            [Done EXCEPT !.artifacts = <<Path(FALSE)>>, !.kept = FALSE], [Done EXCEPT !.artifacts = <<Path(TRUE), Path(FALSE)>>],
            [Stored EXCEPT !.artifacts = <<Path(TRUE)>>]}

MCReports ==
  {[Done EXCEPT !.checks = c, !.kept = b] : b \in BOOLEAN,
     c \in {{}, {Tell("other", "passed")}, {Tell("other", "not_run")}, {Mute("passed")},
            {Tell("other", "passed"), Tell("other", "failed")}, {Tell("verifies", "passed")},
            {Tell("other", "passed"), Tell("verifies", "failed")}, {Tell("mentions", "passed")},
            {Tell("other", "passed"), Tell("verifies", "passed")}}} \cup
  {[Done EXCEPT !.status = s] : s \in {"failed", "cancelled", "needs_approval", "other"}} \cup
  {[Done EXCEPT !.writes = <<w>>, !.kept = FALSE] :
     w \in {Write("upsert_rows", {"dataset_id", "rows"}), Write("upsert_rows", {"dataset_id", "rows", "rows_file"}),
            Write("create_dataset", {"dataset"}), Write("create_dataset", {"dataset", "rows_file"}),
            Write("update_row", {"dataset_id", "row_id", "values"}), Write("delete_row", {"dataset_id", "row_id"}),
            Write("delete_row", {"dataset_id"}), Write("drop", {"dataset_id"})}} \cup
  {[Done EXCEPT !.apps = <<[directory |-> d, command |-> c, port |-> 3000]>>, !.kept = FALSE] :
     d \in {"repos", "outside"}, c \in {"program", "shell"}} \cup
  {[Done EXCEPT !.status = s, !.outcomes = o] : s \in {"failed", "cancelled"},
     o \in {<<Said("api", "passed"), Said("page", "failed")>>, <<Said("page", "passed")>>,
            <<Said("api", "failed"), Said("api", "passed")>>, <<Said("other", "not_run"), Said("other", "passed")>>}} \cup
  {[Done EXCEPT !.asks = TRUE], [Done EXCEPT !.summary = FALSE], [Stored EXCEPT !.rows = <<Bare>>],
   [Done EXCEPT !.writes = <<Write("delete_row", {"dataset_id", "row_id"}), Write("delete_row", {"dataset_id", "row_id"})>>],
   [Done EXCEPT !.outcomes = <<Said("api", "other")>>], [Done EXCEPT !.outcomes = <<Said("api", "failed")>>]} \cup Written

MCOutputs ==
  {<< >>} \cup {<<r>> : r \in MCReports} \cup
  {<<q, r>> : q, r \in {Done, Failed, Stored, Bare}} \cup {<<Done, Failed, Done>>}

------------------------------------------------------------------------------

mcVars == <<part, contractVars, calendarVars, resultVars>>
MCInit ==
  \/ /\ part = contract /\ ContractInit
     /\ CalendarInit /\ now = 0 /\ schedule = [interval |-> 3]
     /\ ResultInit /\ row.items = Items(<<"page">>)
  \/ /\ part = almanac /\ CalendarInit
     /\ ContractInit /\ state = World(TRUE, TRUE, FALSE, FALSE, t2)
     /\ ResultInit /\ row.items = Items(<<"page">>)
  \/ /\ part = verdicts /\ ResultInit
     /\ ContractInit /\ state = World(TRUE, TRUE, FALSE, FALSE, t2)
     /\ CalendarInit /\ now = 0 /\ schedule = [interval |-> 3]
MCNext ==
  /\ UNCHANGED part
  /\ \/ part = contract /\ ContractNext /\ UNCHANGED <<calendarVars, resultVars>>
     \/ part = almanac /\ CalendarNext /\ UNCHANGED <<contractVars, resultVars>>
     \/ part = verdicts /\ ResultNext /\ UNCHANGED <<contractVars, calendarVars>>
MCSpec == MCInit /\ [][MCNext]_mcVars

TypeOK == ContractTypeOK /\ ResultTypeOK
=============================================================================
