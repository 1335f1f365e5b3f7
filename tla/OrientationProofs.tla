-------------------------- MODULE OrientationProofs --------------------------
\* Proofs about Orientation, for any number of workspaces, workers and handlers
\* and for all durations.
EXTENDS Orientation, FiniteSetTheorems, WellFoundedInduction, TLAPS

\* The invariant, by the variables it is about.

Tables == settings \in SettingsRow /\ ws \in [Workspaces -> Row] /\ Mirrored

\* Places of the loop and the workers. With the lock in hand the loop has seen
\* that nobody is at work, and nobody may have begun since.
Loops ==
  [at : {"sleep", "gate", "prompt", "resolve", "lock", "consume", "launch", "first", "check",
         "run", "failed", "retry", "tasks", "done", "rest", "clear"},
   s : SettingsRow, w : Workspaces \cup {None}, r : Row, idle : BOOLEAN]
Lane ==
  /\ loop \in Loops
  /\ {claimed, asked, retried} \subseteq BOOLEAN
  /\ worker \in [Workers -> [at : {"sleep", "claim", "note", "work", "clear"},
                             w : Workspaces \cup {None}]]
  /\ chat \in [at : {"none", "queued", "active"}, w : Workspaces \cup {None}]
  /\ cool \in 0..Cool
  /\ loop.at = "prompt" => loop.w # None /\ loop.r.at = "live"
  /\ claimed \/ loop.at = "consume" => \A k \in Workers : ~AtWork(k)

\* What a handler has read and is going to write back.
Held ==
  [at : {"free", "settings", "select", "sweep", "load", "row", "prompt", "request", "delete", "draft"},
   op : {"none", "settings", "pause", "resume", "start", "setup", "ask", "mission", "select",
         "rename", "context", "delete"},
   s : SettingsRow, w : Workspaces \cup {None}, r : Row]
HeldOK(h) ==
  /\ h.s.setup => h.s.active # None
  /\ h.op \in {"setup", "context"} => h.w # None
  /\ h.at \in {"row", "prompt"} => h.w # None /\ h.r.at = "live"
  /\ h.at = "sweep" => h.op = "pause"
  /\ h.at = "select" => h.w # None /\ (h.op # "setup" => h.r.at = "live")
  /\ h.at = "request" /\ h.op = "start" => h.w # None
Handlers == ed \in [Editors -> Held] /\ \A e \in Editors : HeldOK(ed[e])

\* An idle window runs only in a workspace that is there, and with it the time
\* without work; what is owed of a cooldown is on record as a cooldown.
ClockOK(w) ==
  /\ idle[w].checks # 0 =>
       Live(w) /\ idle[w].next # Unset /\ quiet[w] + idle[w].next >= MinIdle
  /\ owed[w] > 0 =>
       idle[w].checks = 0 /\ idle[w].next # Unset /\ idle[w].next >= owed[w]
Clocks ==
  /\ idle \in [Workspaces -> [checks : 0..1, next : 0..Unset]]
  /\ owed \in [Workspaces -> Nat] /\ quiet \in [Workspaces -> 0..MinIdle]
  /\ \A w \in Workspaces : ClockOK(w)

Queues ==
  /\ ready \in [Workspaces -> Nat]
  /\ left \in [edits : Nat, tasks : Nat, chats : Nat, crashes : Nat, time : BOOLEAN]

Inv == Tables /\ Lane /\ Handlers /\ Clocks /\ Queues

LEMMA InvType == Inv => TypeOK
BY DEF Inv, Tables, Lane, Loops, Clocks, Queues, TypeOK

-----------------------------------------------------------------------------
\* Records that are written back.

LEMMA Records ==
  /\ NoRow \in Row /\ FreshSettings \in SettingsRow /\ ~FreshSettings.setup
  /\ FreshSettings.active = None /\ None \notin Workspaces
BY DEF NoRow, Row, FreshSettings, SettingsRow, None, Workspaces

\* A set of numbers up to n has a least one: of the sets of members at most v,
\* as v ranges over it, one contains no other.
LEMMA LeastMember ==
  ASSUME NEW n \in Nat, NEW S \in SUBSET (1..n), S # {}
  PROVE  \E v \in S : \A u \in S : v <= u
<1> DEFINE upto == [v \in S |-> {u \in S : u <= v}]
           T == {upto[v] : v \in S}
           R == StrictSubsetOrdering(1..n)
<1>0. \A x \in S : x \in Int
  OBVIOUS
<1>1. upto \in [S -> SUBSET (1..n)]
  OBVIOUS
<1>2. \A u, v \in S : u \in upto[v] <=> u <= v
  OBVIOUS
<1> HIDE DEF upto
<1>3. IsWellFoundedOn(R, FiniteSubsetsOf(1..n))
  BY FS_StrictSubsetOrderingWellFounded
<1>4. FiniteSubsetsOf(1..n) = SUBSET (1..n)
  <2>1. IsFiniteSet(1..n)
    BY FS_Interval
  <2> QED
    BY <2>1, FS_FiniteSubsetsOfFinite
<1>5. T \subseteq FiniteSubsetsOf(1..n) /\ T # {}
  <2>1. \A v \in S : upto[v] \in SUBSET (1..n)
    BY <1>1
  <2>2. T \subseteq SUBSET (1..n) /\ T # {}
    BY <2>1
  <2> QED
    BY <1>4, <2>2
<1>6. PICK X \in T : \A Y \in T : ~(<<Y, X>> \in R)
  <2> HIDE DEF T, R
  <2> QED
    BY <1>3, <1>5, WFMin
<1>7. PICK v \in S : X = upto[v]
  OBVIOUS
<1>8. ASSUME NEW u \in S, u < v PROVE FALSE
  <2>1. upto[u] \subseteq upto[v]
    <3> SUFFICES ASSUME NEW x \in upto[u] PROVE x \in upto[v]
      OBVIOUS
    <3>1. x \in S /\ x <= u
      BY <1>2 DEF upto
    <3>2. x \in Int /\ u \in Int /\ v \in Int
      BY <1>0, <3>1
    <3>3. x <= v
      BY <1>8, <3>1, <3>2
    <3> QED
      BY <1>2, <3>1, <3>3
  <2>2. v \in upto[v] /\ v \notin upto[u]
    BY <1>0, <1>2, <1>8
  <2>3. <<upto[u], upto[v]>> \in R
    BY <1>1, <2>1, <2>2 DEF StrictSubsetOrdering
  <2> QED
    BY <1>6, <1>7, <2>3
<1> QED
  BY <1>0, <1>8

-----------------------------------------------------------------------------
\* What the statements of the store leave behind.

LEMMA WriteSettingsKeeps ==
  ASSUME Tables, NEW s \in SettingsRow, CanWriteSettings(s), WriteSettings(s),
         s.setup => s.active # None
  PROVE  Tables' /\ \A w \in Workspaces : Live(w) => Live(w)'
<1>1. CASE s.active = None
  BY <1>1, Records DEF Tables, WriteSettings, Mirrored, Live
<1>2. CASE s.active # None
  <2>1. s.active \in Workspaces /\ ws[s.active].at = "live"
    BY <1>2 DEF CanWriteSettings, Live, SettingsRow
  <2> DEFINE r == [ws[s.active] EXCEPT !.started = s.started, !.queued = s.queued,
                                       !.last = s.last]
  <2>2. ws' = [ws EXCEPT ![s.active] = r]
    BY <1>2, <2>1 DEF Tables, WriteSettings
  <2>3. r \in Row /\ r.started = s.started /\ r.queued = s.queued /\ r.last = s.last
        /\ r.at = "live"
    <3>1. ws[s.active] \in Row
      BY <2>1 DEF Tables
    <3> QED
      BY <2>1, <3>1 DEF Row, SettingsRow
  <2> HIDE DEF r
  <2>4. Mirrored'
    <3>1. ws'[s.active] = r
      BY <2>1, <2>2 DEF Tables
    <3> QED
      BY <1>2, <2>3, <3>1 DEF WriteSettings, Mirrored
  <2> QED
    BY <2>1, <2>2, <2>3, <2>4 DEF Tables, WriteSettings, Live
<1> QED
  BY <1>1, <1>2

LEMMA WriteRowKeeps ==
  ASSUME Tables, NEW w \in Workspaces, NEW r \in Row, r.at = "live", WriteRow(w, r)
  PROVE  Tables' /\ \A v \in Workspaces : Live(v) => Live(v)'
<1>1. ws' \in [Workspaces -> Row] /\ settings' \in SettingsRow
  BY DEF Tables, WriteRow, SettingsRow, Row
<1>2. settings'.active = settings.active /\ settings'.setup = settings.setup
  BY DEF Tables, WriteRow, SettingsRow
<1>3. Mirrored'
  BY <1>2, Records DEF Tables, WriteRow, Mirrored, SettingsRow, Row
<1> QED
  BY <1>1, <1>3 DEF Tables, WriteRow, Live

LEMMA QueueKeeps ==
  ASSUME Tables, NEW w \in Workspaces, NEW b \in BOOLEAN, Queue(w, b)
  PROVE  Tables' /\ \A v \in Workspaces : Live(v) => Live(v)'
<1>1. ws' \in [Workspaces -> Row] /\ settings' \in SettingsRow
  BY DEF Tables, Queue, SettingsRow, Row
<1>2. settings'.active = settings.active /\ settings'.setup = settings.setup
  BY DEF Tables, Queue, SettingsRow
<1>3. Mirrored'
  BY <1>2, Records DEF Tables, Queue, Mirrored, SettingsRow, Row
<1> QED
  BY <1>1, <1>3 DEF Tables, Queue, Live, Row

LEMMA RequestForKeeps ==
  ASSUME Tables, NEW w \in Workspaces \cup {None}, RequestFor(w),
         w = None => settings.active = None
  PROVE  Tables' /\ \A v \in Workspaces : Live(v) => Live(v)'
<1>1. CASE w = None
  BY <1>1, Records DEF Tables, RequestFor, Mirrored, SettingsRow, Live
<1>2. CASE w # None /\ Live(w)
  <2>1. Queue(w, TRUE)
    BY <1>2 DEF RequestFor
  <2> QED
    BY <1>2, <2>1, QueueKeeps
<1>3. CASE w # None /\ ~Live(w)
  BY <1>3 DEF Tables, RequestFor, Mirrored, Live
<1> QED
  BY <1>1, <1>2, <1>3

LEMMA SelectingKeeps ==
  ASSUME Tables, NEW w \in Workspaces, Live(w), settings' = Selecting(w), UNCHANGED ws
  PROVE  Tables'
<1>1. settings' \in SettingsRow /\ settings'.active = w
  BY DEF Tables, Selecting, SettingsRow, Row
<1>2. Mirrored'
  BY <1>1, Records DEF Tables, Selecting, Mirrored, SettingsRow, Row, Live
<1> QED
  BY <1>1, <1>2 DEF Tables

LEMMA InsertKeeps ==
  ASSUME Tables, NEW w \in Workspaces, NEW b \in BOOLEAN, ws[w].at = "none", Insert(w, b)
  PROVE  Tables' /\ \A v \in Workspaces : Live(v) => Live(v)'
<1>1. ws' \in [Workspaces -> Row] /\ settings' \in SettingsRow
  BY DEF Tables, Insert, SettingsRow, Row, NoRow
<1>2. settings.active # w
  BY Records DEF Tables, Mirrored
<1>3. Mirrored'
  BY <1>2, Records DEF Tables, Insert, Mirrored, SettingsRow, Row, NoRow
<1> QED
  BY <1>1, <1>3 DEF Tables, Insert, Live

LEMMA CompleteActiveKeeps ==
  ASSUME Tables, CompleteActive
  PROVE  Tables' /\ \A v \in Workspaces : Live(v) => Live(v)'
<1>1. ws' \in [Workspaces -> Row] /\ settings' \in SettingsRow
  <2>1. CASE settings.active = None
    BY <2>1 DEF Tables, CompleteActive, SettingsRow
  <2>2. CASE settings.active # None
    <3>1. settings.active \in Workspaces
      BY <2>2 DEF Tables, SettingsRow
    <3> DEFINE r == [ws[settings.active] EXCEPT !.queued = FALSE, !.last = TRUE]
    <3>2. ws' = [ws EXCEPT ![settings.active] = r]
      BY <2>2, <3>1 DEF Tables, CompleteActive
    <3>3. r \in Row
      BY <3>1 DEF Tables, Row
    <3> HIDE DEF r
    <3> QED
      BY <3>1, <3>2, <3>3 DEF Tables, CompleteActive, SettingsRow
  <2> QED
    BY <2>1, <2>2
<1>2. settings'.active = settings.active /\ settings'.setup = settings.setup
  BY DEF Tables, CompleteActive, SettingsRow
<1>3. Mirrored'
  BY <1>2, Records DEF Tables, CompleteActive, Mirrored, SettingsRow, Row
<1> QED
  BY <1>1, <1>3 DEF Tables, CompleteActive, Live, Row

LEMMA DeletionKeeps ==
  ASSUME Tables, NEW w \in Workspaces, Live(w), settings' = AfterDeletion(w),
         ws' = [ws EXCEPT ![w] = [NoRow EXCEPT !.at = "gone"]]
  PROVE  Tables'
<1> DEFINE rest == LiveOnes \ {w}
           oldest == CHOOSE v \in rest : \A u \in rest : v <= u
<1>1. ws' \in [Workspaces -> Row] /\ \A v \in Workspaces : v # w => ws'[v] = ws[v]
  BY DEF Tables, Row, NoRow
<1>2. CASE settings.active # w
  BY <1>1, <1>2, Records DEF Tables, AfterDeletion, Mirrored, SettingsRow
<1>3. CASE settings.active = w /\ rest # {}
  <2>1. rest \in SUBSET (1..Count) /\ Count \in Nat
    BY CountIsPositive DEF LiveOnes, Workspaces
  <2>2. oldest \in rest
    BY <1>3, <2>1, LeastMember
  <2>3. oldest \in Workspaces /\ ws[oldest].at = "live" /\ oldest # w
    BY <2>2 DEF LiveOnes, Live
  <2>4. settings' = Selecting(oldest)
    BY <1>3 DEF AfterDeletion
  <2> HIDE DEF oldest
  <2>5. settings' \in SettingsRow /\ settings'.active = oldest
    BY <2>3, <2>4 DEF Tables, Selecting, SettingsRow, Row
  <2>6. ws'[oldest] = ws[oldest]
    BY <1>1, <2>3
  <2>7. Mirrored'
    BY <2>3, <2>4, <2>5, <2>6, Records DEF Tables, Selecting, Mirrored, SettingsRow, Row
  <2> QED
    BY <1>1, <2>5, <2>7 DEF Tables
<1>4. CASE settings.active = w /\ rest = {}
  BY <1>1, <1>4, Records DEF Tables, AfterDeletion, Mirrored, SettingsRow
<1> QED
  BY <1>2, <1>3, <1>4

-----------------------------------------------------------------------------
\* The tables: every step keeps them, and none but a deletion takes a workspace
\* away.

Kept == Tables' /\ \A w \in Workspaces : Live(w) => Live(w)'

LEMMA Unwritten == ASSUME Tables, UNCHANGED <<settings, ws>> PROVE Kept
BY DEF Kept, Tables, Mirrored, Live

LEMMA LoopKeepsTables == ASSUME Inv, Load \/ LoopStep PROVE Kept
<1> USE DEF Inv, Kept
<1>1. CASE Prompt
  <2>1. CASE Live(loop.w)
    <3> DEFINE r == [loop.r EXCEPT !.prompted = TRUE]
    <3>1. loop.w \in Workspaces /\ loop.r \in Row /\ loop.r.at = "live"
      BY <1>1, <2>1 DEF Lane, Loops, Prompt, Live
    <3>2. r \in Row /\ r.at = "live" /\ WriteRow(loop.w, r)
      BY <1>1, <2>1, <3>1 DEF Prompt, Row
    <3> HIDE DEF r
    <3> QED
      BY <3>1, <3>2, WriteRowKeeps
  <2>2. CASE ~Live(loop.w)
    BY <1>1, <2>2, Unwritten DEF Prompt
  <2> QED
    BY <2>1, <2>2
<1>2. CASE Consume
  <2>1. CASE UNCHANGED <<settings, ws>>
    BY <2>1, Unwritten
  <2>2. CASE settings.active = None /\ settings' = [settings EXCEPT !.queued = FALSE] /\ UNCHANGED ws
    BY <2>2, Records DEF Tables, Mirrored, SettingsRow, Live
  <2>3. CASE settings.active # None /\ Queue(settings.active, FALSE)
    <3>1. settings.active \in Workspaces
      BY <2>3 DEF Tables, SettingsRow
    <3> QED
      BY <2>3, <3>1, QueueKeeps
  <2> QED
    BY <1>2, <2>1, <2>2, <2>3 DEF Consume
<1>3. CASE RequestFirst \/ Retry
  <2>1. settings.active \in Workspaces \cup {None}
    BY DEF Tables, SettingsRow
  <2>2. RequestFor(settings.active) \/ UNCHANGED <<settings, ws>>
    BY <1>3 DEF RequestFirst, Retry
  <2> QED
    BY <2>1, <2>2, RequestForKeeps, Unwritten
<1>4. CASE CompleteOrientation
  BY <1>4, CompleteActiveKeeps DEF CompleteOrientation
<1>5. CASE UNCHANGED <<settings, ws>>
  BY <1>5, Unwritten
<1> QED
  BY <1>1, <1>2, <1>3, <1>4, <1>5
  DEF Load, LoopStep, Gate, Resolve, Lock, IdleCheck, Launch, Run, Fail, CreateTasks,
      CompleteIdleSteward, Clear, durable

LEMMA WorkersKeepTables == ASSUME Inv, NEW k \in Workers, WorkerStep(k) PROVE Kept
<1> USE DEF Inv
<1>1. CASE WorkerSettle(k)
  <2>1. settings.active \in Workspaces \cup {None}
    BY DEF Tables, SettingsRow
  <2>2. RequestFor(settings.active) \/ UNCHANGED <<settings, ws>>
    BY <1>1 DEF WorkerSettle
  <2> QED
    BY <2>1, <2>2, RequestForKeeps, Unwritten DEF Kept
<1>2. CASE UNCHANGED <<settings, ws>>
  BY <1>2, Unwritten
<1> QED
  BY <1>1, <1>2
  DEF WorkerStep, WorkerGate, WorkerClaim, WorkerNote, WorkerClear, durable

LEMMA OthersKeepTables ==
  ASSUME Inv, \/ \E w \in Workspaces : SendMessage(w) \/ AddTask(w)
              \/ ClaimMessage \/ FinishMessage \/ Tick \/ Crash
  PROVE  Kept
BY Unwritten DEF Inv, SendMessage, AddTask, ClaimMessage, FinishMessage, Tick, Crash, durable

LEMMA BeginKeepsTables == ASSUME Inv, NEW e \in Editors, Begin(e) PROVE Kept
<1> USE DEF Inv, Kept
<1>1. CASE \E b \in BOOLEAN : CreateWorkspace(e, b)
  <2>1. PICK b \in BOOLEAN : CreateWorkspace(e, b)
    BY <1>1
  <2>2. PICK w \in Workspaces : ws[w].at = "none" /\ Insert(w, b)
    BY <2>1 DEF CreateWorkspace
  <2> QED
    BY <2>2, InsertKeeps
<1>2. CASE UNCHANGED <<settings, ws>>
  BY <1>2, Unwritten
<1> QED
  BY <1>1, <1>2
  DEF Begin, ReadSettings, ReadActive, BeginSetup, CheckDeletion, ReadRow, DraftTask, durable

LEMMA ContinueKeepsTables ==
  ASSUME Inv, NEW e \in Editors, Continue(e), ~DeleteWorkspaceData(e)
  PROVE  Kept
<1> USE DEF Inv, Kept
<1>0. ed[e] \in Held /\ HeldOK(ed[e]) /\ settings.active \in Workspaces \cup {None}
  BY DEF Handlers, Tables, SettingsRow
<1>1. CASE UpdateSettings(e)
  <2>1. Edited(e) \in SettingsRow /\ (Edited(e).setup => Edited(e).active # None)
    BY <1>0 DEF Edited, Held, HeldOK, SettingsRow
  <2>2. \/ CanWriteSettings(Edited(e)) /\ WriteSettings(Edited(e))
        \/ UNCHANGED <<settings, ws>>
    BY <1>1 DEF UpdateSettings
  <2> QED
    BY <2>1, <2>2, WriteSettingsKeeps, Unwritten
<1>2. CASE UpdateWorkspace(e)
  <2>1. RowEdited(e) \in Row /\ RowEdited(e).at = "live" /\ ed[e].w \in Workspaces
    BY <1>0, <1>2 DEF UpdateWorkspace, RowEdited, Held, HeldOK, Row
  <2>2. WriteRow(ed[e].w, RowEdited(e)) \/ UNCHANGED <<settings, ws>>
    BY <1>2 DEF UpdateWorkspace
  <2> QED
    BY <2>1, <2>2, WriteRowKeeps, Unwritten
<1>3. CASE EnsureContextPrompt(e)
  <2> DEFINE r == [ed[e].r EXCEPT !.prompted = TRUE]
  <2>1. r \in Row /\ r.at = "live" /\ ed[e].w \in Workspaces
    BY <1>0, <1>3 DEF EnsureContextPrompt, Held, HeldOK, Row
  <2>2. WriteRow(ed[e].w, r) \/ UNCHANGED <<settings, ws>>
    BY <1>3 DEF EnsureContextPrompt
  <2> HIDE DEF r
  <2> QED
    BY <2>1, <2>2, WriteRowKeeps, Unwritten
<1>4. CASE RequestOrientation(e)
  <2> DEFINE w == IF ed[e].op \in {"start", "context"} THEN ed[e].w ELSE settings.active
  <2>1. w \in Workspaces \cup {None} /\ (w = None => settings.active = None) /\ RequestFor(w)
    BY <1>0, <1>4 DEF RequestOrientation, Held, HeldOK
  <2> HIDE DEF w
  <2> QED
    BY <2>1, RequestForKeeps
<1>5. CASE SetActiveWorkspace(e)
  <2>1. CASE Live(ed[e].w)
    <3>1. ed[e].w \in Workspaces /\ settings' = Selecting(ed[e].w) /\ UNCHANGED ws
      BY <1>0, <1>5, <2>1 DEF SetActiveWorkspace, Held, HeldOK
    <3> QED
      BY <2>1, <3>1, SelectingKeeps DEF Live
  <2>2. CASE ~Live(ed[e].w)
    BY <1>5, <2>2, Unwritten DEF SetActiveWorkspace
  <2> QED
    BY <2>1, <2>2
<1>6. CASE UNCHANGED <<settings, ws>>
  BY <1>6, Unwritten
<1> QED
  BY <1>1, <1>2, <1>3, <1>4, <1>5, <1>6 DEF Continue, Sweep, LoadActive, FinishDraft, durable

LEMMA DeleteKeepsTables ==
  ASSUME Inv, NEW e \in Editors, DeleteWorkspaceData(e)
  PROVE  Tables'
<1>1. CASE UNCHANGED <<settings, ws>>
  BY <1>1, Unwritten DEF Inv, Kept
<1>2. CASE Live(ed[e].w) /\ ~OpenWork(ed[e].w)
  <2>1. ed[e].w \in Workspaces
    BY <1>2 DEF Inv, Handlers, Held, Live
  <2> QED
    BY <1>2, <2>1, DeletionKeeps DEF Inv, DeleteWorkspaceData
<1> QED
  BY <1>1, <1>2 DEF DeleteWorkspaceData, durable

-----------------------------------------------------------------------------
\* The loop and those at work.

LEMMA AsleepOK == Asleep \in Loops /\ Asleep.at = "sleep"
BY Records DEF Asleep, Loops

LEMMA Moves ==
  ASSUME loop \in Loops
  PROVE  /\ Sleep => loop' \in Loops /\ loop'.at = "sleep"
         /\ \A at \in {"resolve", "consume", "first", "check", "launch", "failed", "tasks",
                       "retry", "done", "rest", "clear"} :
              Goto(at) => loop' \in Loops /\ loop'.at = at
BY AsleepOK DEF Sleep, Goto, Loops

\* A step of the loop that takes no lock and makes no claim.
LEMMA LaneFollows ==
  ASSUME Lane, loop' \in Loops, loop'.at \notin {"prompt", "consume"},
         UNCHANGED claimed \/ claimed' = FALSE,
         asked' \in BOOLEAN, retried' \in BOOLEAN, cool' \in 0..Cool,
         UNCHANGED <<worker, chat>>
  PROVE  Lane'
<1>1. {claimed', asked', retried'} \subseteq BOOLEAN
  BY DEF Lane
<1>2. claimed' \/ loop'.at = "consume" => \A k \in Workers : ~AtWork(k)'
  <2>1. CASE UNCHANGED claimed
    BY <2>1 DEF Lane, AtWork
  <2>2. CASE claimed' = FALSE
    BY <2>2
  <2> QED
    BY <2>1, <2>2
<1> QED
  BY <1>1, <1>2 DEF Lane

LEMMA LoopKeepsLane == ASSUME Inv, Load \/ LoopStep PROVE Lane'
<1> USE DurationsArePositive DEF Inv, Lane, AtWork
<1>0. /\ settings \in SettingsRow /\ settings.active \in Workspaces \cup {None}
      /\ ws \in [Workspaces -> Row]
      /\ loop.s \in SettingsRow /\ loop.w \in Workspaces \cup {None}
      /\ loop.s.active \in Workspaces \cup {None}
  BY DEF Tables, SettingsRow, Loops
<1>1. CASE Load
  <2>1. loop' \in Loops /\ loop'.at = "gate"
    BY <1>0, <1>1, AsleepOK DEF Load, Loops
  <2> QED
    BY <1>1, <2>1 DEF Load, others
<1>2. CASE Gate
  <2>1. \/ Sleep \/ Goto("resolve")
        \/ /\ loop.s.active # None /\ ws[loop.s.active].at = "live"
           /\ loop' = [loop EXCEPT !.at = "prompt", !.r = ws[loop.s.active], !.w = loop.s.active]
    BY <1>2 DEF Gate, Live
  <2>2. loop' \in Loops /\ loop'.at \in {"sleep", "resolve", "prompt"}
        /\ (loop'.at = "prompt" => loop'.w # None /\ loop'.r.at = "live")
    BY <1>0, <2>1, Moves DEF Loops
  <2> QED
    BY <1>2, <2>2 DEF Gate, others
<1>3. CASE Prompt
  <2>1. loop' \in Loops /\ loop'.at \in {"sleep", "resolve"}
    <3>1. Sleep \/ loop' = [loop EXCEPT !.at = "resolve", !.r = NoRow, !.w = None]
      BY <1>3 DEF Prompt
    <3>2. [loop EXCEPT !.at = "resolve", !.r = NoRow, !.w = None] \in Loops
      BY Records DEF Loops
    <3> QED
      BY <3>1, <3>2, Moves DEF Loops
  <2> QED
    BY <1>3, <2>1 DEF Prompt, others
<1>4. CASE Resolve
  <2>1. loop' \in Loops /\ loop'.at \in {"sleep", "lock"}
    BY <1>0, <1>4, Moves DEF Resolve, Loops
  <2> QED
    BY <1>4, <2>1 DEF Resolve, others
<1>5. CASE Lock
  <2>1. loop' \in Loops /\ (loop'.at = "sleep" \/ (loop'.at = "consume" /\ ~isActive))
    BY <1>5, Moves DEF Lock
  <2> QED
    BY <1>5, <2>1 DEF Lock, others, isActive
<1>6. CASE Consume
  <2>1. settings.queued \in BOOLEAN
        /\ (settings.active # None => ws[settings.active].queued \in BOOLEAN)
    BY <1>0 DEF SettingsRow, Row
  <2>2. loop' \in Loops /\ loop'.at \in {"launch", "first", "check"}
    BY <1>6, Moves DEF Consume
  <2>3. First \in BOOLEAN
    BY <1>0 DEF First
  <2>4. claimed' \in BOOLEAN /\ asked' \in BOOLEAN
    BY <1>6, <2>1, <2>3 DEF Consume
  <2>5. loop.at = "consume" /\ UNCHANGED <<retried, worker, chat, cool>>
    BY <1>6 DEF Consume
  <2> QED
    BY <2>2, <2>4, <2>5
<1>7. CASE RequestFirst \/ IdleCheck
  <2>1. loop' \in Loops /\ loop'.at \in {"sleep", "launch"}
    <3>1. Sleep \/ loop' = [loop EXCEPT !.at = "launch", !.idle = TRUE]
      BY <1>7 DEF RequestFirst, IdleCheck
    <3>2. [loop EXCEPT !.at = "launch", !.idle = TRUE] \in Loops
      BY DEF Loops
    <3> QED
      BY <3>1, <3>2, Moves DEF Loops
  <2> QED
    BY <1>7, <2>1 DEF RequestFirst, IdleCheck, others
<1>8. CASE Launch
  <2>1. Sleep \/ loop' = [loop EXCEPT !.at = "run", !.w = settings.active]
    BY <1>8 DEF Launch
  <2>2. [loop EXCEPT !.at = "run", !.w = settings.active] \in Loops
    BY <1>0 DEF Loops
  <2>3. loop' \in Loops /\ loop'.at \in {"sleep", "run"}
    BY <2>1, <2>2, Moves DEF Loops
  <2>4. UNCHANGED claimed \/ claimed' = FALSE
    BY <1>8 DEF Launch
  <2>5. UNCHANGED <<asked, retried, worker, chat, cool>>
    BY <1>8 DEF Launch
  <2> QED
    BY <2>3, <2>4, <2>5, LaneFollows
<1>9. CASE Run \/ Fail \/ Retry \/ CreateTasks \/ CompleteOrientation \/ CompleteIdleSteward \/ Clear
  <2>1. Sleep \/ \E at \in {"failed", "tasks", "retry", "done", "rest", "clear"} : Goto(at)
    BY <1>9 DEF Run, Fail, Retry, CreateTasks, CompleteOrientation, CompleteIdleSteward, Clear
  <2>2. loop' \in Loops /\ loop'.at \notin {"prompt", "consume"}
    BY <2>1, Moves
  <2>3. UNCHANGED claimed \/ claimed' = FALSE
    BY <1>9 DEF Run, Fail, Retry, CreateTasks, CompleteOrientation, CompleteIdleSteward,
       Clear, others
  <2>4. UNCHANGED <<asked, worker, chat>>
    BY <1>9 DEF Run, Fail, Retry, CreateTasks, CompleteOrientation, CompleteIdleSteward,
       Clear, others
  <2>5. cool' \in 0..Cool
    BY <1>9 DEF Run, Fail, Retry, CreateTasks, CompleteOrientation, CompleteIdleSteward,
       Clear, others
  <2>6. retried' \in BOOLEAN
    <3>1. UNCHANGED retried \/ retried' = TRUE \/ retried' = (retried /\ ~Live(loop.w))
      BY <1>9 DEF Run, Fail, Retry, CreateTasks, CompleteOrientation, CompleteIdleSteward,
         Clear, others
    <3> QED
      BY <3>1, Zenon
  <2> QED
    BY <2>2, <2>3, <2>4, <2>5, <2>6, LaneFollows
<1> QED
  BY <1>1, <1>2, <1>3, <1>4, <1>5, <1>6, <1>7, <1>8, <1>9 DEF LoopStep

\* A worker that begins holds no lock of the loop and saw no claim of it.
LEMMA WorkersKeepLane == ASSUME Inv, NEW k \in Workers, WorkerStep(k) PROVE Lane'
<1> USE DurationsArePositive DEF Inv, Lane, AtWork, lane
<1>0. settings.active \in Workspaces \cup {None}
  BY DEF Tables, SettingsRow
<1>1. CASE WorkerGate(k)
  BY <1>0, <1>1 DEF WorkerGate
<1>2. CASE WorkerClaim(k)
  BY <1>2 DEF WorkerClaim, MayClaim, queueMu
<1>3. CASE WorkerNote(k)
  BY <1>3 DEF WorkerNote
<1>4. CASE WorkerSettle(k)
  BY <1>4 DEF WorkerSettle
<1>5. CASE WorkerClear(k)
  BY <1>5 DEF WorkerClear
<1> QED
  BY <1>1, <1>2, <1>3, <1>4, <1>5 DEF WorkerStep

LEMMA OthersKeepLane ==
  ASSUME Inv, \/ \E w \in Workspaces : SendMessage(w) \/ AddTask(w)
              \/ ClaimMessage \/ FinishMessage \/ Tick \/ Crash
              \/ \E e \in Editors : Begin(e) \/ Continue(e)
  PROVE  Lane'
<1> USE DurationsArePositive DEF Inv, Lane, AtWork, lane
<1>1. CASE \E w \in Workspaces : SendMessage(w)
  BY <1>1 DEF SendMessage
<1>2. CASE ClaimMessage \/ FinishMessage
  BY <1>2 DEF ClaimMessage, FinishMessage, NoChat
<1>3. CASE Tick
  BY <1>3 DEF Tick, Down
<1>4. CASE Crash
  <2>1. loop' \in Loops /\ loop'.at = "sleep"
    BY <1>4, AsleepOK DEF Crash
  <2>2. worker' \in [Workers -> [at : {"sleep", "claim", "note", "work", "clear"},
                                w : Workspaces \cup {None}]]
    BY <1>4 DEF Crash
  <2>3. chat' \in [at : {"none", "queued", "active"}, w : Workspaces \cup {None}]
    BY <1>4 DEF Crash
  <2>4. claimed' = FALSE /\ asked' = FALSE /\ retried' = FALSE /\ cool' = 0
    BY <1>4 DEF Crash
  <2>5. {claimed', asked', retried'} \subseteq BOOLEAN
    BY <2>4
  <2>6. ~(claimed' \/ loop'.at = "consume")
    BY <2>1, <2>4
  <2> QED
    BY <2>1, <2>2, <2>3, <2>4, <2>5, <2>6
<1>5. CASE UNCHANGED <<loop, claimed, asked, retried, worker, chat>> /\ cool' \in {cool, Cool}
  BY <1>5
<1>6. ASSUME NEW e \in Editors, Begin(e)
      PROVE  UNCHANGED <<loop, claimed, asked, retried, worker, chat>> /\ cool' \in {cool, Cool}
  BY <1>6 DEF Begin, ReadSettings, ReadActive, BeginSetup, CheckDeletion, ReadRow,
              CreateWorkspace, DraftTask, still
<1>7. ASSUME NEW e \in Editors, Continue(e)
      PROVE  UNCHANGED <<loop, claimed, asked, retried, worker, chat>> /\ cool' \in {cool, Cool}
  BY <1>7 DEF Continue, UpdateSettings, Sweep, LoadActive, UpdateWorkspace, EnsureContextPrompt,
              RequestOrientation, SetActiveWorkspace, DeleteWorkspaceData, FinishDraft, still
<1>8. CASE \E w \in Workspaces : AddTask(w)
  BY <1>8 DEF AddTask, memory
<1> QED
  BY <1>1, <1>2, <1>3, <1>4, <1>5, <1>6, <1>7, <1>8

-----------------------------------------------------------------------------
\* The handlers.

LEMMA FreeOK == Free \in Held /\ HeldOK(Free)
BY Records DEF Free, Held, HeldOK

LEMMA StepsKeepHandlers ==
  ASSUME Inv, \/ Load \/ LoopStep
              \/ \E k \in Workers : WorkerStep(k)
              \/ \E w \in Workspaces : SendMessage(w) \/ AddTask(w)
              \/ ClaimMessage \/ FinishMessage \/ Tick \/ Crash
  PROVE  Handlers'
<1>1. CASE UNCHANGED ed
  BY <1>1 DEF Inv, Handlers
<1>2. CASE Crash
  BY <1>2, FreeOK DEF Handlers, Crash
<1>3. CASE Load \/ LoopStep
  BY <1>1, <1>3 DEF Load, LoopStep, Gate, Prompt, Resolve, Lock, Consume, RequestFirst,
     IdleCheck, Launch, Run, Fail, Retry, CreateTasks, CompleteOrientation,
     CompleteIdleSteward, Clear, others
<1>4. CASE \E k \in Workers : WorkerStep(k)
  BY <1>1, <1>4 DEF WorkerStep, WorkerGate, WorkerClaim, WorkerNote, WorkerSettle, WorkerClear, lane
<1> QED
  BY <1>1, <1>2, <1>3, <1>4 DEF SendMessage, AddTask, ClaimMessage, FinishMessage, Tick, lane, memory

LEMMA BeginKeepsHandlers == ASSUME Inv, NEW e \in Editors, Begin(e) PROVE Handlers'
<1> USE DEF Inv, Handlers
<1>0. /\ settings \in SettingsRow /\ settings.active \in Workspaces \cup {None}
      /\ ws \in [Workspaces -> Row] /\ (settings.setup => settings.active # None)
  BY DEF Tables, SettingsRow, Mirrored
<1> SUFFICES \E h \in Held : HeldOK(h) /\ (ed' = [ed EXCEPT ![e] = h] \/ ed' = ed)
  OBVIOUS
<1>1. ASSUME NEW op \in {"settings", "pause", "resume", "start"}, ReadSettings(e, op)
      PROVE  \E h \in Held : HeldOK(h) /\ ed' = [ed EXCEPT ![e] = h]
  <2> DEFINE h == [Free EXCEPT !.at = "settings", !.op = op, !.s = settings]
  <2>1. h \in Held /\ HeldOK(h)
    BY <1>0, Records DEF Free, Held, HeldOK
  <2> QED
    BY <1>1, <2>1 DEF ReadSettings
<1>2. ASSUME NEW op \in {"ask", "mission"}, ReadActive(e, op)
      PROVE  \E h \in Held : HeldOK(h) /\ ed' = [ed EXCEPT ![e] = h]
  <2> DEFINE h == [Free EXCEPT !.at = IF op = "ask" THEN "request" ELSE "row",
                               !.op = op, !.w = settings.active, !.r = ws[settings.active]]
  <2>1. h \in Held /\ HeldOK(h)
    BY <1>0, <1>2, Records DEF Free, Held, HeldOK, ReadActive, Live
  <2> QED
    BY <1>2, <2>1 DEF ReadActive
<1>3. ASSUME NEW w \in Workspaces, BeginSetup(e, w)
      PROVE  \E h \in Held : HeldOK(h) /\ ed' = [ed EXCEPT ![e] = h]
  <2> DEFINE h == [Free EXCEPT !.at = "select", !.op = "setup", !.s = settings, !.w = w]
  <2>1. h \in Held /\ HeldOK(h)
    BY <1>0, <1>3, Records DEF Free, Held, HeldOK
  <2> QED
    BY <1>3, <2>1 DEF BeginSetup
<1>4. ASSUME NEW w \in Workspaces, CheckDeletion(e, w)
      PROVE  \E h \in Held : HeldOK(h) /\ ed' = [ed EXCEPT ![e] = h]
  <2> DEFINE h == [Free EXCEPT !.at = "delete", !.op = "delete", !.w = w]
  <2>1. h \in Held /\ HeldOK(h)
    BY Records DEF Free, Held, HeldOK
  <2> QED
    BY <1>4, <2>1 DEF CheckDeletion
<1>5. ASSUME NEW op \in {"select", "rename", "context"}, NEW w \in Workspaces, ReadRow(e, op, w)
      PROVE  \E h \in Held : HeldOK(h) /\ ed' = [ed EXCEPT ![e] = h]
  <2> DEFINE h == [Free EXCEPT !.at = IF op = "select" THEN "select" ELSE "row",
                               !.op = op, !.w = w, !.r = ws[w]]
  <2>1. h \in Held /\ HeldOK(h)
    BY <1>0, <1>5, Records DEF Free, Held, HeldOK, ReadRow, Live
  <2> QED
    BY <1>5, <2>1 DEF ReadRow
<1>6. CASE DraftTask(e)
  <2> DEFINE h == [ed[e] EXCEPT !.at = "draft"]
  <2>1. ed[e] = Free
    BY <1>6 DEF DraftTask, Starts
  <2>2. h \in Held /\ HeldOK(h)
    BY <2>1, Records DEF Free, Held, HeldOK
  <2> QED
    BY <1>6, <2>2 DEF DraftTask, Move
<1>7. ASSUME NEW b \in BOOLEAN, CreateWorkspace(e, b) PROVE ed' = ed
  BY <1>7 DEF CreateWorkspace
<1> QED
  BY <1>1, <1>2, <1>3, <1>4, <1>5, <1>6, <1>7, FreeOK DEF Begin

LEMMA ContinueKeepsHandlers == ASSUME Inv, NEW e \in Editors, Continue(e) PROVE Handlers'
<1> USE DEF Inv, Handlers
<1>0. /\ settings.active \in Workspaces \cup {None} /\ ws \in [Workspaces -> Row]
      /\ ed[e] \in Held /\ HeldOK(ed[e])
  BY DEF Tables, SettingsRow
<1> SUFFICES \E h \in Held : HeldOK(h) /\ ed' = [ed EXCEPT ![e] = h]
  OBVIOUS
<1> DEFINE moved(at) == [ed[e] EXCEPT !.at = at]
<1>1. CASE Done(e)
  BY <1>1, FreeOK DEF Done
<1>2. CASE UpdateSettings(e)
  <2>1. \/ ed[e].op = "pause" /\ Move(e, "sweep")
        \/ ed[e].op = "start" /\ Move(e, "load")
        \/ Done(e)
    BY <1>2 DEF UpdateSettings
  <2>2. moved("sweep") \in Held /\ moved("load") \in Held
    BY <1>0 DEF Held
  <2>3. (ed[e].op = "pause" => HeldOK(moved("sweep"))) /\ HeldOK(moved("load"))
    BY <1>0 DEF Held, HeldOK
  <2> QED
    BY <1>1, <2>1, <2>2, <2>3 DEF Move
<1>3. CASE Sweep(e)
  <2>1. (Move(e, "request") \/ Done(e)) /\ ed[e].at = "sweep"
    BY <1>3 DEF Sweep
  <2> QED
    BY <1>0, <1>1, <2>1 DEF Move, Held, HeldOK
<1>4. CASE LoadActive(e)
  <2> DEFINE h == [ed[e] EXCEPT !.at = "row", !.w = settings.active, !.r = ws[settings.active]]
  <2>1. CASE Live(settings.active)
    <3>1. h \in Held /\ HeldOK(h)
      BY <1>0, <2>1 DEF Held, HeldOK, Live
    <3>2. ed' = [ed EXCEPT ![e] = h]
      BY <1>4, <2>1 DEF LoadActive
    <3> QED
      BY <3>1, <3>2
  <2>2. CASE ~Live(settings.active)
    BY <1>1, <1>4, <2>2 DEF LoadActive
  <2> QED
    BY <2>1, <2>2
<1>5. CASE UpdateWorkspace(e)
  <2> DEFINE r == RowEdited(e)
             h == [ed[e] EXCEPT !.at = "prompt", !.r = r]
  <2>1. r \in Row /\ r.at = "live" /\ ed[e].w # None
    BY <1>0, <1>5 DEF UpdateWorkspace, RowEdited, Held, HeldOK, Row
  <2> HIDE DEF r
  <2>2. Move(e, "request") \/ ed' = [ed EXCEPT ![e] = h] \/ Done(e)
    BY <1>5 DEF UpdateWorkspace, r
  <2>3. h \in Held /\ HeldOK(h)
    BY <1>0, <2>1 DEF Held, HeldOK
  <2>4. moved("request") \in Held /\ HeldOK(moved("request"))
    BY <1>0, <2>1 DEF Held, HeldOK
  <2> QED
    BY <1>1, <2>2, <2>3, <2>4 DEF Move
<1>6. CASE SetActiveWorkspace(e)
  <2>1. /\ ed[e].at = "select"
        /\ \/ ed[e].op = "setup" /\ Move(e, "settings")
           \/ ed[e].op # "setup" /\ Move(e, "prompt")
           \/ Done(e)
    BY <1>6 DEF SetActiveWorkspace
  <2>2. moved("settings") \in Held /\ HeldOK(moved("settings"))
    <3>1. moved("settings") \in Held
      BY <1>0 DEF Held
    <3>2. /\ moved("settings").at = "settings" /\ moved("settings").op = ed[e].op
          /\ moved("settings").s = ed[e].s /\ moved("settings").w = ed[e].w
      BY <1>0 DEF Held
    <3> HIDE DEF moved
    <3> QED
      BY <1>0, <3>1, <3>2 DEF HeldOK
  <2>3. ed[e].at = "select" /\ ed[e].op # "setup" =>
          moved("prompt") \in Held /\ HeldOK(moved("prompt"))
    <3>1. moved("prompt") \in Held
      BY <1>0 DEF Held
    <3>2. /\ moved("prompt").at = "prompt" /\ moved("prompt").op = ed[e].op
          /\ moved("prompt").s = ed[e].s /\ moved("prompt").w = ed[e].w
          /\ moved("prompt").r = ed[e].r
      BY <1>0 DEF Held
    <3> HIDE DEF moved
    <3> QED
      BY <1>0, <3>1, <3>2 DEF HeldOK
  <2> QED
    BY <1>1, <2>1, <2>2, <2>3 DEF Move
<1>7. CASE EnsureContextPrompt(e) \/ RequestOrientation(e) \/ DeleteWorkspaceData(e) \/ FinishDraft(e)
  BY <1>1, <1>7 DEF EnsureContextPrompt, RequestOrientation, DeleteWorkspaceData, FinishDraft
<1> QED
  BY <1>2, <1>3, <1>4, <1>5, <1>6, <1>7 DEF Continue

-----------------------------------------------------------------------------
\* The clocks.

Times == Unset \in Nat /\ MinIdle < Unset /\ Lease < Unset /\ Useful < Unset /\ NoWork < Unset
LEMMA TimesHold == Times /\ MinIdle \in Nat /\ {Lease, Useful, NoWork} \subseteq Nat
BY DurationsArePositive DEF Times, Unset

LEMMA NoIdleOK == NoIdle \in [checks : 0..1, next : 0..Unset] /\ NoIdle.checks = 0
BY TimesHold DEF NoIdle, Times

\* A step that leaves the clocks alone, or deals with one workspace's.
LEMMA ClocksStay ==
  ASSUME Clocks, Kept, UNCHANGED <<idle, owed, quiet>>
  PROVE  Clocks'
BY DEF Clocks, Kept, ClockOK

SetClock(w, i, o, q) ==
  /\ idle' = [idle EXCEPT ![w] = i]
  /\ owed' = [owed EXCEPT ![w] = o]
  /\ quiet' = [quiet EXCEPT ![w] = q]
Fits(i, o, q) ==
  /\ i \in [checks : 0..1, next : 0..Unset] /\ o \in Nat /\ q \in 0..MinIdle
  /\ i.checks # 0 => i.next # Unset /\ q + i.next >= MinIdle
  /\ o > 0 => i.checks = 0 /\ i.next # Unset /\ i.next >= o

LEMMA OneClock ==
  ASSUME Clocks, Kept, NEW w \in Workspaces, Live(w), NEW i, NEW o, NEW q,
         SetClock(w, i, o, q), Fits(i, o, q)
  PROVE  Clocks'
<1> USE DEF SetClock, Fits
<1>1. /\ idle' \in [Workspaces -> [checks : 0..1, next : 0..Unset]]
      /\ owed' \in [Workspaces -> Nat] /\ quiet' \in [Workspaces -> 0..MinIdle]
  BY DEF Clocks
<1>2. ASSUME NEW v \in Workspaces, v # w PROVE ClockOK(v)'
  BY <1>2 DEF Clocks, Kept, ClockOK
<1>3. ClockOK(w)'
  BY DEF Clocks, Kept, ClockOK
<1> QED
  BY <1>1, <1>2, <1>3 DEF Clocks

\* Noted work ends a window and no cooldown.
LEMMA ResetKeepsClocks ==
  ASSUME Clocks, Kept, NEW w \in Workspaces \cup {None}, Reset(w), UNCHANGED owed
  PROVE  Clocks'
<1>1. CASE Live(w)
  <2> DEFINE i == ResetRow(idle[w])
  <2>1. w \in Workspaces /\ idle[w] \in [checks : 0..1, next : 0..Unset] /\ ClockOK(w)
        /\ owed[w] \in Nat
    BY <1>1 DEF Live, Clocks
  <2>2. i \in [checks : 0..1, next : 0..Unset] /\ i.checks = 0
    BY <2>1, NoIdleOK DEF ResetRow
  <2>3. owed[w] > 0 => i = idle[w]
    BY <2>1 DEF ResetRow, ClockOK
  <2>4. SetClock(w, i, owed[w], 0)
    BY <1>1, <2>1 DEF Reset, Clocks, SetClock
  <2> HIDE DEF i
  <2>5. Fits(i, owed[w], 0)
    BY <2>1, <2>2, <2>3, TimesHold DEF ClockOK, Fits
  <2> QED
    BY <1>1, <2>1, <2>4, <2>5, OneClock
<1>2. CASE ~Live(w)
  BY <1>2, ClocksStay DEF Reset
<1> QED
  BY <1>1, <1>2

\* The end of a review puts a cooldown on record.
LEMMA RestedKeepsClocks ==
  ASSUME Clocks, Kept, NEW w \in Workspaces \cup {None}, NEW time \in {Lease, Useful, NoWork},
         Rested(w, time), UNCHANGED quiet
  PROVE  Clocks'
<1>1. CASE Live(w)
  <2> DEFINE i == [checks |-> 0, next |-> time]
  <2>1. w \in Workspaces /\ quiet[w] \in 0..MinIdle
    BY <1>1 DEF Live, Clocks
  <2>2. time \in Nat /\ time < Unset /\ Unset \in Nat
    BY TimesHold DEF Times
  <2>3. i \in [checks : 0..1, next : 0..Unset] /\ i.checks = 0 /\ i.next = time
    BY <2>2
  <2>4. SetClock(w, i, time, quiet[w])
    BY <1>1, <2>1 DEF Rested, Clocks, SetClock
  <2> HIDE DEF i
  <2>5. Fits(i, time, quiet[w])
    BY <2>1, <2>2, <2>3 DEF Fits
  <2> QED
    BY <1>1, <2>1, <2>4, <2>5, OneClock
<1>2. CASE ~Live(w)
  BY <1>2, ClocksStay DEF Rested
<1> QED
  BY <1>1, <1>2

\* A check opens a window that has to run its whole time, or takes a review
\* when one has; nothing is owed of a cooldown then.
LEMMA CheckKeepsClocks ==
  ASSUME Clocks, Kept, NEW w \in Workspaces, Live(w), idle' = [idle EXCEPT ![w] = Checked(idle[w])],
         UNCHANGED <<owed, quiet>>
  PROVE  Clocks'
<1> DEFINE i == Checked(idle[w])
<1>1. idle[w] \in [checks : 0..1, next : 0..Unset] /\ ClockOK(w) /\ owed[w] \in Nat
      /\ quiet[w] \in 0..MinIdle
  BY DEF Clocks
<1>2. i \in [checks : 0..1, next : 0..Unset]
  BY <1>1, TimesHold DEF Checked, Times
<1>3. i.checks # 0 => i.next # Unset /\ quiet[w] + i.next >= MinIdle
  BY <1>1, TimesHold DEF Checked, Times, ClockOK
<1>4. owed[w] > 0 => i = idle[w]
  BY <1>1, TimesHold DEF Checked, Waiting, IsDue, ClockOK
<1>5. SetClock(w, i, owed[w], quiet[w])
  BY DEF Clocks, SetClock
<1> HIDE DEF i
<1>6. Fits(i, owed[w], quiet[w])
  BY <1>1, <1>2, <1>3, <1>4 DEF ClockOK, Fits
<1> QED
  BY <1>5, <1>6, OneClock

LEMMA LoopKeepsClocks == ASSUME Inv, Load \/ LoopStep PROVE Clocks'
<1> USE DEF Inv
<1>0. /\ Kept /\ settings.active \in Workspaces \cup {None} /\ loop.w \in Workspaces \cup {None}
      /\ loop.s.active \in Workspaces \cup {None}
  BY LoopKeepsTables DEF Tables, SettingsRow, Lane, Loops
<1>1. CASE UNCHANGED <<idle, owed, quiet>>
  BY <1>0, <1>1, ClocksStay
<1>2. CASE Gate \/ Resolve \/ RequestFirst
  <2>1. UNCHANGED <<idle, owed, quiet>> \/
        (UNCHANGED owed /\ \E w \in {settings.active, loop.w, loop.s.active} : Reset(w))
    BY <1>2 DEF Gate, Resolve, RequestFirst, others
  <2> QED
    BY <1>0, <2>1, ClocksStay, ResetKeepsClocks
<1>3. CASE IdleCheck
  <2>1. CASE Live(loop.w)
    <3>1. idle' = [idle EXCEPT ![loop.w] = Checked(idle[loop.w])] /\ UNCHANGED <<owed, quiet>>
          /\ loop.w \in Workspaces
      BY <1>0, <1>3, <2>1 DEF IdleCheck, others, Live
    <3> QED
      BY <1>0, <2>1, <3>1, CheckKeepsClocks
  <2>2. CASE ~Live(loop.w)
    BY <1>0, <1>3, <2>2, ClocksStay DEF IdleCheck, others
  <2> QED
    BY <2>1, <2>2
<1>4. CASE Launch
  <2>1. \/ UNCHANGED <<idle, owed, quiet>>
        \/ UNCHANGED owed /\ Reset(loop.w)
        \/ UNCHANGED quiet /\ Rested(settings.active, Lease)
    BY <1>4 DEF Launch
  <2> QED
    BY <1>0, <2>1, ClocksStay, ResetKeepsClocks, RestedKeepsClocks
<1>5. CASE Fail \/ CompleteIdleSteward
  <2>1. UNCHANGED quiet /\ \E time \in {Lease, Useful, NoWork} : Rested(loop.w, time)
    BY <1>5 DEF Fail, CompleteIdleSteward
  <2> QED
    BY <1>0, <2>1, RestedKeepsClocks
<1> QED
  BY <1>1, <1>2, <1>3, <1>4, <1>5
  DEF Load, LoopStep, Prompt, Lock, Consume, Run, Retry, CreateTasks, CompleteOrientation,
      Clear, durable, others

LEMMA WorkersKeepClocks == ASSUME Inv, NEW k \in Workers, WorkerStep(k) PROVE Clocks'
<1> USE DEF Inv
<1>0. Kept /\ worker[k].w \in Workspaces \cup {None}
  BY WorkersKeepTables DEF Lane
<1>1. CASE WorkerNote(k)
  BY <1>0, <1>1, ResetKeepsClocks DEF WorkerNote, lane
<1>2. CASE UNCHANGED <<idle, owed, quiet>>
  BY <1>0, <1>2, ClocksStay
<1> QED
  BY <1>1, <1>2 DEF WorkerStep, WorkerGate, WorkerClaim, WorkerSettle, WorkerClear, durable, lane

\* With a tick a window runs down as the quiet grows, and a cooldown with what
\* is owed of it.
LEMMA TickKeepsClocks == ASSUME Inv, Tick PROVE Clocks'
<1>0. Clocks /\ UNCHANGED ws
  BY DEF Inv, Tick
<1>1. /\ idle' \in [Workspaces -> [checks : 0..1, next : 0..Unset]]
      /\ owed' \in [Workspaces -> Nat] /\ quiet' \in [Workspaces -> 0..MinIdle]
  <2>1. \A n \in Nat : Down(n) \in Nat /\ Down(n) <= n
    BY DEF Down
  <2>2. Unset \in Nat /\ MinIdle \in Nat
    BY TimesHold DEF Times
  <2>3. idle' \in [Workspaces -> [checks : 0..1, next : 0..Unset]]
    <3> SUFFICES ASSUME NEW w \in Workspaces
                 PROVE  (IF idle[w].next = Unset THEN idle[w]
                         ELSE [idle[w] EXCEPT !.next = Down(@)]) \in [checks : 0..1, next : 0..Unset]
      BY DEF Tick
    <3>1. idle[w] \in [checks : 0..1, next : 0..Unset]
      BY <1>0 DEF Clocks
    <3> QED
      BY <2>1, <2>2, <3>1
  <2>4. owed' \in [Workspaces -> Nat]
    BY <1>0, <2>1 DEF Tick, Clocks
  <2>5. quiet' \in [Workspaces -> 0..MinIdle]
    BY <1>0, <2>2 DEF Tick, Clocks
  <2> QED
    BY <2>3, <2>4, <2>5
<1>2. ASSUME NEW w \in Workspaces PROVE ClockOK(w)'
  <2>1. /\ idle[w] \in [checks : 0..1, next : 0..Unset] /\ owed[w] \in Nat
        /\ quiet[w] \in 0..MinIdle /\ ClockOK(w) /\ MinIdle \in Nat /\ Unset \in Nat
    BY <1>0, TimesHold DEF Clocks, Times
  <2>2. /\ idle'[w] = IF idle[w].next = Unset THEN idle[w]
                      ELSE [idle[w] EXCEPT !.next = Down(idle[w].next)]
        /\ owed'[w] = Down(owed[w])
        /\ quiet'[w] = IF Live(w) /\ quiet[w] < MinIdle THEN quiet[w] + 1 ELSE quiet[w]
    BY <1>0 DEF Tick, Clocks
  <2>3. idle'[w].checks = idle[w].checks
        /\ idle'[w].next = IF idle[w].next = Unset THEN Unset ELSE Down(idle[w].next)
    BY <2>1, <2>2
  <2> QED
    BY <1>0, <2>1, <2>2, <2>3 DEF ClockOK, Down, Live
<1> QED
  BY <1>1, <1>2 DEF Clocks

LEMMA DeletionKeepsClocks ==
  ASSUME Inv, NEW e \in Editors, DeleteWorkspaceData(e)
  PROVE  Clocks'
<1>1. CASE UNCHANGED <<durable, owed, quiet>>
  BY <1>1 DEF Inv, Clocks, ClockOK, durable, Live
<1>2. CASE Live(ed[e].w) /\ ~OpenWork(ed[e].w)
  <2> DEFINE w == ed[e].w
  <2>1. w \in Workspaces
    BY <1>2 DEF Inv, Handlers, Held, Live
  <2>2. /\ idle' = [idle EXCEPT ![w] = NoIdle] /\ owed' = [owed EXCEPT ![w] = 0]
        /\ quiet' = [quiet EXCEPT ![w] = 0] /\ \A v \in Workspaces : v # w => ws'[v] = ws[v]
    BY <1>2 DEF DeleteWorkspaceData, Inv, Tables
  <2> HIDE DEF w
  <2> QED
    BY <2>1, <2>2, NoIdleOK, TimesHold DEF Inv, Clocks, ClockOK, Live
<1> QED
  BY <1>1, <1>2 DEF DeleteWorkspaceData

LEMMA OthersKeepClocks ==
  ASSUME Inv, \/ \E w \in Workspaces : SendMessage(w) \/ AddTask(w)
              \/ ClaimMessage \/ FinishMessage \/ Tick \/ Crash
              \/ \E e \in Editors : Begin(e) \/ Continue(e)
  PROVE  Clocks'
<1>1. CASE \/ \E w \in Workspaces : SendMessage(w) \/ AddTask(w)
           \/ ClaimMessage \/ FinishMessage \/ Crash
  BY <1>1, OthersKeepTables, ClocksStay
  DEF Inv, SendMessage, AddTask, ClaimMessage, FinishMessage, Crash, durable, lane
<1>2. ASSUME NEW e \in Editors, Begin(e) PROVE Clocks'
  BY <1>2, BeginKeepsTables, ClocksStay
  DEF Inv, Begin, ReadSettings, ReadActive, BeginSetup, CheckDeletion, ReadRow,
      CreateWorkspace, DraftTask, durable
<1>3. ASSUME NEW e \in Editors, Continue(e) PROVE Clocks'
  <2>1. CASE DeleteWorkspaceData(e)
    BY <2>1, DeletionKeepsClocks
  <2>2. CASE ~DeleteWorkspaceData(e)
    BY <1>3, <2>2, ContinueKeepsTables, ClocksStay
    DEF Inv, Continue, UpdateSettings, Sweep, LoadActive, UpdateWorkspace, EnsureContextPrompt,
        RequestOrientation, SetActiveWorkspace, FinishDraft, durable
  <2> QED
    BY <2>1, <2>2
<1> QED
  BY <1>1, <1>2, <1>3, TickKeepsClocks

-----------------------------------------------------------------------------
\* The counters.

LEMMA QueuesKept == ASSUME Inv, [Next]_vars PROVE Queues'
<1> USE DEF Inv, Queues
<1>1. CASE UNCHANGED <<ready, left>>
  BY <1>1
<1>2. ASSUME NEW e \in Editors, Begin(e) PROVE Queues'
  <2>1. UNCHANGED ready /\ left.edits > 0 /\ left' = [left EXCEPT !.edits = @ - 1]
    BY <1>2 DEF Begin, ReadSettings, ReadActive, BeginSetup, CheckDeletion, ReadRow,
       CreateWorkspace, DraftTask, Starts, durable
  <2> QED
    BY <2>1
<1>3. ASSUME NEW e \in Editors, Continue(e) PROVE Queues'
  <2>1. UNCHANGED left /\ (UNCHANGED ready \/ ready' = [ready EXCEPT ![ed[e].w] = 0])
    BY <1>3 DEF Continue, UpdateSettings, Sweep, LoadActive, UpdateWorkspace, EnsureContextPrompt,
       RequestOrientation, SetActiveWorkspace, DeleteWorkspaceData, FinishDraft, durable
  <2> QED
    BY <2>1
<1>4. ASSUME NEW k \in Workers, WorkerStep(k) PROVE Queues'
  <2>1. CASE WorkerClaim(k)
    BY <2>1 DEF WorkerClaim, MayClaim
  <2>2. CASE ~WorkerClaim(k)
    BY <1>1, <1>4, <2>2 DEF WorkerStep, WorkerGate, WorkerNote, WorkerSettle, WorkerClear, durable
  <2> QED
    BY <2>1, <2>2
<1>5. CASE CreateTasks
  BY <1>5 DEF CreateTasks
<1>6. ASSUME NEW w \in Workspaces, SendMessage(w) \/ AddTask(w) PROVE Queues'
  BY <1>6 DEF SendMessage, AddTask, durable
<1>7. CASE Crash
  <2>1. ASSUME NEW w \in Workspaces
        PROVE  Cardinality({k \in Workers : Running(k) /\ worker[k].w = w}) \in Nat
    <3> DEFINE lost == {k \in Workers : Running(k) /\ worker[k].w = w}
    <3>1. lost \subseteq Workers
      OBVIOUS
    <3> HIDE DEF lost
    <3>2. IsFiniteSet(lost)
      BY <3>1, WorkersAreFinite, FS_Subset
    <3>3. Cardinality(lost) \in Nat
      BY <3>2, FS_CardinalityType
    <3> QED
      BY <3>3 DEF lost
  <2> QED
    BY <1>7, <2>1 DEF Crash
<1>8. CASE UNCHANGED vars
  BY <1>1, <1>8 DEF vars, durable
<1>9. CASE (Load \/ LoopStep) /\ ~CreateTasks
  BY <1>1, <1>9 DEF Load, LoopStep, Gate, Prompt, Resolve, Lock, Consume, RequestFirst, IdleCheck,
     Launch, Run, Fail, Retry, CompleteOrientation, CompleteIdleSteward, Clear, durable, others
<1>10. CASE ClaimMessage \/ FinishMessage \/ Tick
  BY <1>1, <1>10 DEF ClaimMessage, FinishMessage, Tick, durable
<1> QED
  BY <1>2, <1>3, <1>4, <1>5, <1>6, <1>7, <1>8, <1>9, <1>10 DEF Next

-----------------------------------------------------------------------------
\* The invariant holds.

LEMMA InitInv == Init => Inv
<1> SUFFICES ASSUME Init PROVE Inv
  OBVIOUS
<1>1. /\ idle = [w \in Workspaces |-> NoIdle] /\ ready = [w \in Workspaces |-> 0]
      /\ loop = Asleep /\ claimed = FALSE /\ asked = FALSE /\ retried = FALSE
      /\ worker = [k \in Workers |-> [at |-> "sleep", w |-> None]]
      /\ chat = NoChat /\ cool = 0 /\ ed = [e \in Editors |-> Free]
      /\ owed = [w \in Workspaces |-> 0] /\ quiet = [w \in Workspaces |-> 0]
      /\ left \in Bounds
  BY DEF Init
<1>2. Tables
  <2>1. CASE New
    BY <2>1, Records DEF New, Tables, Mirrored
  <2>2. CASE Installed
    <3>1. 1 \in Workspaces /\ None \notin Workspaces
      BY CountIsPositive DEF Workspaces, None
    <3>2. \A w \in Workspaces : ws[w] = IF w = 1 THEN Ready ELSE [NoRow EXCEPT !.at = "live", !.started = TRUE]
      BY <2>2 DEF Installed
    <3>3. ws \in [Workspaces -> Row]
      BY <2>2 DEF Installed, Ready, NoRow, Row
    <3>4. settings \in SettingsRow /\ settings.active = 1
      BY <2>2, <3>1 DEF Installed, SettingsRow
    <3>5. settings.started = TRUE /\ settings.queued = FALSE /\ settings.last = TRUE
      BY <2>2 DEF Installed
    <3>6. ws[1].at = "live" /\ ws[1].started = TRUE /\ ws[1].queued = FALSE /\ ws[1].last = TRUE
      BY <3>1, <3>2 DEF Ready, NoRow
    <3>7. /\ settings.started = ws[1].started /\ settings.queued = ws[1].queued
          /\ settings.last = ws[1].last
      BY <3>5, <3>6
    <3>8. Mirrored
      BY <3>1, <3>4, <3>6, <3>7, Zenon DEF Mirrored
    <3> QED
      BY <3>3, <3>4, <3>8 DEF Tables
  <2> QED
    BY <2>1, <2>2 DEF Init
<1>3. Lane
  <2>1. loop \in Loops /\ loop.at = "sleep" /\ {claimed, asked, retried} \subseteq BOOLEAN
    BY <1>1, AsleepOK
  <2>2. chat \in [at : {"none", "queued", "active"}, w : Workspaces \cup {None}]
    BY <1>1 DEF NoChat
  <2>3. cool \in 0..Cool
    BY <1>1, DurationsArePositive
  <2>4. worker \in [Workers -> [at : {"sleep", "claim", "note", "work", "clear"},
                                w : Workspaces \cup {None}]]
    BY <1>1
  <2> QED
    BY <1>1, <2>1, <2>2, <2>3, <2>4 DEF Lane
<1>4. Handlers
  BY <1>1, FreeOK DEF Handlers
<1>5. Clocks
  BY <1>1, NoIdleOK, TimesHold DEF Clocks, ClockOK
<1>6. Queues
  BY <1>1, BoundsAreNumbers DEF Queues
<1> QED
  BY <1>2, <1>3, <1>4, <1>5, <1>6 DEF Inv

LEMMA StepInv == ASSUME Inv, [Next]_vars PROVE Inv'
<1>1. Queues'
  BY QueuesKept
<1>2. CASE UNCHANGED vars
  BY <1>1, <1>2 DEF Inv, Tables, Mirrored, Lane, Handlers, HeldOK, Clocks, ClockOK, AtWork, Live,
     vars, durable, memory
<1>3. CASE Load \/ LoopStep
  BY <1>1, <1>3, LoopKeepsTables, LoopKeepsLane, StepsKeepHandlers, LoopKeepsClocks DEF Inv, Kept
<1>4. ASSUME NEW k \in Workers, WorkerStep(k) PROVE Inv'
  BY <1>1, <1>4, WorkersKeepTables, WorkersKeepLane, StepsKeepHandlers, WorkersKeepClocks
  DEF Inv, Kept
<1>5. ASSUME NEW e \in Editors, Begin(e) PROVE Inv'
  BY <1>1, <1>5, BeginKeepsTables, OthersKeepLane, BeginKeepsHandlers, OthersKeepClocks
  DEF Inv, Kept
<1>6. ASSUME NEW e \in Editors, Continue(e) PROVE Inv'
  BY <1>1, <1>6, ContinueKeepsTables, DeleteKeepsTables, OthersKeepLane, ContinueKeepsHandlers,
     OthersKeepClocks
  DEF Inv, Kept
<1>7. CASE \/ \E w \in Workspaces : SendMessage(w) \/ AddTask(w)
           \/ ClaimMessage \/ FinishMessage \/ Tick \/ Crash
  BY <1>1, <1>7, OthersKeepTables, OthersKeepLane, StepsKeepHandlers, OthersKeepClocks
  DEF Inv, Kept
<1> QED
  BY <1>2, <1>3, <1>4, <1>5, <1>6, <1>7 DEF Next

LEMMA Invariant == Spec => []Inv
BY InitInv, StepInv, PTL DEF Spec

\* Every row, snapshot and clock keeps its type, whatever is read, kept and
\* written back (operator.go: workOnce, product.go, store.go: UpdateSettings).
THEOREM TypeCorrect == Spec => []TypeOK
BY Invariant, InvType, PTL

\* The settings row and the active workspace agree in every state, for any
\* number of workspaces and handlers with stale snapshots (store.go:
\* UpdateSettings, UpdateWorkspace, SetActiveWorkspace, DeleteWorkspaceData).
THEOREM MirroredHolds == Spec => []Mirrored
<1>1. Inv => Mirrored
  BY DEF Inv, Tables
<1> QED
  BY <1>1, Invariant, PTL

\* No worker holds a task while a requested orientation is prepared or runs
\* (operator.go: workOnce under queueMu, claimAndBeginTask).
THEOREM OrientationAloneHolds == Spec => []OrientationAlone
<1>1. Inv => OrientationAlone
  BY DEF Inv, Lane, OrientationAlone
<1> QED
  BY <1>1, Invariant, PTL

-----------------------------------------------------------------------------
\* From the check to the start of its review.

\* Only RecordIdleCheck begins an idle review, and none of the steps that may
\* come before the review starts owes its workspace a cooldown again.
Cooled ==
  /\ loop.at \in {"sleep", "gate", "prompt", "resolve", "lock", "consume", "first", "check"} =>
       ~loop.idle
  /\ loop.at = "launch" /\ loop.idle => loop.w \in Workspaces /\ owed[loop.w] = 0

\* Where the loop checks, the workspace is live, due and without a cooldown.
LEMMA DueIsCool ==
  ASSUME Inv, IdleCheck, loop'.at = "launch"
  PROVE  loop.w \in Workspaces /\ owed[loop.w] = 0 /\ quiet[loop.w] >= MinIdle
<1>1. Live(loop.w) /\ loop.w \in Workspaces /\ IsDue(idle[loop.w])
  BY DEF IdleCheck, Inv, Lane, Loops, Live, Sleep, Asleep
<1> QED
  BY <1>1, TimesHold DEF Inv, Clocks, ClockOK, IsDue, Times

LEMMA CooledKept == ASSUME Inv, Cooled, [Next]_vars PROVE Cooled'
<1> USE DEF Goto, Sleep
<1>0. loop \in Loops /\ owed \in [Workspaces -> Nat] /\ Asleep.at = "sleep" /\ ~Asleep.idle
  BY DEF Inv, Lane, Clocks, Asleep
<1>1. CASE loop' = loop /\ owed' = owed
  BY <1>1 DEF Cooled
<1>2. CASE loop' = Asleep
  BY <1>0, <1>2 DEF Cooled
<1>3. CASE Load
  BY <1>3 DEF Load, Asleep, Cooled
<1>4. CASE Gate \/ Prompt \/ Resolve \/ Lock \/ Consume \/ RequestFirst
  <2>1. ~loop'.idle
    BY <1>0, <1>4 DEF Loops, Gate, Prompt, Resolve, Lock, Consume, RequestFirst, Cooled
  <2> QED
    BY <2>1 DEF Cooled
<1>5. CASE IdleCheck
  <2>1. CASE loop' = [loop EXCEPT !.at = "launch", !.idle = TRUE]
    <3>1. loop'.at = "launch" /\ loop'.w = loop.w
      BY <1>0, <2>1 DEF Loops
    <3>2. owed' = owed
      BY <1>5 DEF IdleCheck, others
    <3> QED
      BY <1>5, <3>1, <3>2, DueIsCool DEF Cooled
  <2> QED
    BY <1>2, <1>5, <2>1 DEF IdleCheck
<1>6. CASE Launch \/ Run \/ Fail \/ Retry \/ CreateTasks \/ CompleteOrientation
           \/ CompleteIdleSteward \/ Clear
  <2>1. loop' = Asleep \/ loop'.at \in {"run", "tasks", "failed", "clear", "retry", "done", "rest"}
    BY <1>0, <1>6 DEF Loops, Launch, Run, Fail, Retry, CreateTasks, CompleteOrientation,
       CompleteIdleSteward, Clear
  <2> QED
    BY <1>2, <2>1 DEF Cooled
<1>7. CASE Crash
  BY <1>2, <1>7 DEF Crash
<1>8. CASE Tick
  <2>1. loop' = loop /\ \A w \in Workspaces : owed'[w] = Down(owed[w])
    BY <1>8 DEF Tick
  <2> QED
    BY <2>1 DEF Cooled, Down
<1>9. CASE \E e \in Editors : DeleteWorkspaceData(e)
  <2>1. PICK e \in Editors : DeleteWorkspaceData(e)
    BY <1>9
  <2>2. loop' = loop /\ (owed' = owed \/ owed' = [owed EXCEPT ![ed[e].w] = 0])
    BY <2>1 DEF DeleteWorkspaceData, still
  <2> QED
    BY <1>0, <2>2 DEF Cooled
<1>10. CASE \E e \in Editors : Begin(e) \/ (Continue(e) /\ ~DeleteWorkspaceData(e))
  BY <1>1, <1>10 DEF Begin, Continue, ReadSettings, ReadActive, BeginSetup, CheckDeletion,
     ReadRow, CreateWorkspace, DraftTask, UpdateSettings, Sweep, LoadActive, UpdateWorkspace,
     EnsureContextPrompt, RequestOrientation, SetActiveWorkspace, FinishDraft, still
<1>11. CASE \/ \E k \in Workers : WorkerStep(k)
            \/ \E w \in Workspaces : SendMessage(w) \/ AddTask(w)
            \/ ClaimMessage \/ FinishMessage \/ UNCHANGED vars
  BY <1>1, <1>11 DEF WorkerStep, WorkerGate, WorkerClaim, WorkerNote, WorkerSettle,
     WorkerClear, SendMessage, AddTask, ClaimMessage, FinishMessage, lane, memory, vars
<1> QED
  BY <1>3, <1>4, <1>5, <1>6, <1>7, <1>8, <1>9, <1>10, <1>11 DEF Next, LoopStep

LEMMA CooledHolds == Spec => []Cooled
<1>1. Init => Cooled
  BY DEF Init, Cooled, Asleep
<1> QED
  BY <1>1, Invariant, CooledKept, PTL DEF Spec

\* Only IdleCheck takes the loop from its check to a review.
LEMMA OnlyCheckTakes == ASSUME Inv, Next, TakesReview PROVE IdleCheck
<1>1. loop.at = "check" /\ loop' # loop
  BY DEF TakesReview
<1>2. CASE Load \/ LoopStep
  BY <1>1, <1>2 DEF Load, LoopStep, Gate, Prompt, Resolve, Lock, Consume, RequestFirst,
     Launch, Run, Fail, Retry, CreateTasks, CompleteOrientation, CompleteIdleSteward, Clear,
     aiMu
<1>3. CASE Crash
  BY <1>3, AsleepOK DEF Crash, TakesReview
<1>4. CASE \E e \in Editors : Begin(e) \/ Continue(e)
  BY <1>1, <1>4 DEF Begin, Continue, ReadSettings, ReadActive, BeginSetup, CheckDeletion,
     ReadRow, CreateWorkspace, DraftTask, UpdateSettings, Sweep, LoadActive, UpdateWorkspace,
     EnsureContextPrompt, RequestOrientation, SetActiveWorkspace, DeleteWorkspaceData,
     FinishDraft, still
<1>5. CASE \/ \E k \in Workers : WorkerStep(k)
           \/ \E w \in Workspaces : SendMessage(w) \/ AddTask(w)
           \/ ClaimMessage \/ FinishMessage \/ Tick
  BY <1>1, <1>5 DEF WorkerStep, WorkerGate, WorkerClaim, WorkerNote, WorkerSettle,
     WorkerClear, SendMessage, AddTask, ClaimMessage, FinishMessage, Tick, lane, memory
<1> QED
  BY <1>2, <1>3, <1>4, <1>5 DEF Next

\* A review is taken up only after the cooldown and the quiet of the workspace
\* that is checked, and starts outside its cooldown unless another workspace
\* was selected in between (store/idle_steward.go: RecordIdleCheck,
\* ResetIdleChecks, CompleteIdleSteward; operator.go: runIdleOrientation).
THEOREM ReviewIsDueHolds == Spec => ReviewIsDue
<1>1. ASSUME Inv, Cooled, [Next]_vars
      PROVE  [/\ TakesReview => owed[loop.w] = 0 /\ quiet[loop.w] >= MinIdle
              /\ StartsReview => owed[loop'.w] = 0 \/ loop'.w # loop.w]_vars
  <2>1. ASSUME Next, TakesReview PROVE owed[loop.w] = 0 /\ quiet[loop.w] >= MinIdle
    BY <1>1, <2>1, OnlyCheckTakes, DueIsCool DEF TakesReview
  <2>2. ASSUME StartsReview PROVE owed[loop'.w] = 0 \/ loop'.w # loop.w
    BY <1>1, <2>2 DEF StartsReview, Cooled
  <2> QED
    BY <1>1, <2>1, <2>2
<1> QED
  BY <1>1, Invariant, CooledHolds, PTL DEF Spec, ReviewIsDue
=============================================================================
