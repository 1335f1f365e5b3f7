--------------------------- MODULE TaskQueueProofs ---------------------------
\* Proofs about TaskQueue, for every set of tasks, workers and editors.
EXTENDS TaskQueue, FiniteSetTheorems, TLAPS

-----------------------------------------------------------------------------
\* Type correctness.

LEMMA RestTypes ==
    /\ NoRow \in RowSet
    /\ NoEdit \in EditSet
    /\ Quiet \in CtlSet
<1>1. NoRow \in RowSet
  BY DEF NoRow, RowSet, Statuses, RunRefs, NoRun
<1>3. NoEdit \in EditSet
  BY DEF EditSet
<1>4. Quiet \in CtlSet
  BY DEF Quiet, CtlSet
<1> QED
  BY <1>1, <1>3, <1>4

LEMMA InitTypeOK == Init => TypeOK
<1> SUFFICES ASSUME Init PROVE TypeOK
  OBVIOUS
<1> USE QueueAssumption, RestTypes DEF QueueAssumption
<1>1. NoRun \in RunRefs /\ ctl \in CtlSet /\ left \in 0 .. MaxRequests /\ lastRun \in 0 .. MaxRuns
  BY DEF Init, RunRefs, NoRun
<1> QED
  BY <1>1 DEF Init, TypeOK, Statuses, RunStatuses, Outcomes, Places

\* Finish resets what the worker holds, and nothing else.
LEMMA FinishTypes ==
    ASSUME TypeOK, NEW w \in Workers, Finish(w)
    PROVE  /\ pc' \in [Workers -> Places]
           /\ task' \in [Workers -> Tasks \cup {NoTask}]
           /\ run' \in [Workers -> RunIds \cup {NoRun}]
           /\ ctx' \in [Workers -> {"live", "run", "claim"}]
           /\ outcome' \in [Workers -> Outcomes]
           /\ seen' \in [Workers -> RowSet]
           /\ claimEntry' \in [Tasks -> Workers \cup {NoWorker}]
           /\ ctl' \in CtlSet
<1>1. ASSUME NEW e \in Entries PROVE Void(e, w) \in Entries
  BY DEF Void, Entries
<1>1a. Void(NoEntry, w) \in Entries \cup {NoEntry}
  BY DEF Void, NoEntry
<1>2. ctl' \in CtlSet
  <2>1. {Void(e, w) : e \in ctl.todo} \in SUBSET Entries
    BY <1>1 DEF TypeOK, CtlSet
  <2>2. Void(ctl.cur, w) \in Entries \cup {NoEntry}
    BY <1>1, <1>1a DEF TypeOK, CtlSet
  <2> QED
    BY <2>1, <2>2 DEF TypeOK, CtlSet, Finish
<1> QED
  BY <1>2, RestTypes DEF TypeOK, Finish, Places, Outcomes

\* A worker that holds a task holds one of the tasks, and its run is a run id.
LEMMA HeldTypes ==
    ASSUME TypeOK, Holdings, NEW w \in Workers, pc[w] \notin {"idle", "gated"}
    PROVE  /\ task[w] \in Tasks
           /\ run[w] \in RunRefs
BY QueueAssumption DEF TypeOK, Holdings, PlaceSaysWhat, RunRefs, QueueAssumption

LEMMA WorkTypes ==
    ASSUME TypeOK, Holdings, NEW w \in Workers, Gate(w) \/ Work(w)
    PROVE  TypeOK'
<1> USE QueueAssumption DEF QueueAssumption, rows, ledger, setting, Aside
<1>1. CASE Gate(w) \/ Refuse(w) \/ Register(w)
  BY <1>1 DEF TypeOK, Gate, Refuse, Register, Goto, Places
<1>2. CASE Claim(w)
  BY <1>2 DEF TypeOK, Claim, WriteRow, Places, Statuses
<1>3. CASE PrepareFails(w) \/ LaunchFails(w) \/ Fail(w)
  <2>1. pc[w] \notin {"idle", "gated"}
    BY <1>3 DEF PrepareFails, LaunchFails, Fail
  <2>2. task[w] \in Tasks /\ run[w] \in RunRefs /\ NoRun \in RunRefs
    BY <2>1, HeldTypes DEF RunRefs
  <2>3. Finish(w)
    BY <1>3 DEF PrepareFails, LaunchFails, Fail
  <2> QED
    BY <1>3, <2>2, <2>3, FinishTypes
       DEF TypeOK, PrepareFails, LaunchFails, Fail, WriteRow, Disturb, Statuses
<1>4. CASE CreateRun(w)
  <2>1. lastRun + 1 \in RunIds /\ lastRun + 1 \in 0 .. MaxRuns
    BY <1>4 DEF CreateRun, TypeOK, RunIds
  <2> QED
    BY <1>4, <2>1 DEF TypeOK, CreateRun, Places, RunStatuses
<1>5. CASE StartRun(w) \/ Settle(w)
  <2>1. task[w] \in Tasks /\ run[w] \in RunRefs
    BY <1>5, HeldTypes DEF StartRun, Settle
  <2> QED
    BY <1>5, <2>1 DEF TypeOK, StartRun, Settle, Verdict, WriteRow, Disturb, Goto, Places, Statuses
<1>6. CASE StartMissing(w) \/ RecordMissing(w) \/ SettleMissing(w) \/ Abandon(w)
  <2>1. Settled(w) /\ UNCHANGED Aside
    BY <1>6 DEF StartMissing, RecordMissing, SettleMissing, Abandon
  <2> QED
    BY <2>1, FinishTypes DEF TypeOK, Settled
<1>7. CASE \E o \in Outcomes : Exit(w, o)
  BY <1>7 DEF TypeOK, Exit, Places
<1>8. CASE AskDeletion(w) \/ AskApproval(w)
  <2>1. task[w] \in Tasks
    BY <1>8, HeldTypes DEF AskDeletion, AskApproval
  <2> QED
    BY <1>8, <2>1
       DEF TypeOK, AskDeletion, AskApproval, WriteRow, Disturb, Goto, Places, Outcomes, Statuses
<1>9. CASE Record(w)
  BY <1>9 DEF TypeOK, Record, RunResult, RunStatuses, Outcomes, Places
<1>10. CASE Judge(w)
  BY <1>10, FinishTypes DEF TypeOK, Judge, Goto, Places
<1>11. CASE Load(w)
  <2>1. task[w] \in Tasks
    BY <1>11, HeldTypes DEF Load
  <2>2. Row(task[w]) \in RowSet
    BY <2>1 DEF Row, RowSet, TypeOK
  <2> QED
    BY <1>11, <2>2, FinishTypes DEF TypeOK, Load, Places
<1>12. CASE StoreResult(w)
  <2>1. task[w] \in Tasks
    BY <1>12, HeldTypes DEF StoreResult
  <2>2. seen[w].status \in Statuses /\ seen[w].run \in RunRefs
    BY DEF TypeOK, RowSet
  <2> QED
    BY <1>12, <2>1, <2>2, FinishTypes DEF TypeOK, StoreResult, WriteRow, Disturb
<1> QED
  BY <1>1, <1>2, <1>3, <1>4, <1>5, <1>6, <1>7, <1>8, <1>9, <1>10, <1>11, <1>12
     DEF Work, Attempt, Conclude

\* What an edit writes is a row.
LEMMA EditTypes ==
    ASSUME TypeOK, NEW e \in Editors, edit[e].phase = "loaded"
    PROVE  /\ edit[e].task \in Tasks
           /\ edit[e].row \in RowSet
           /\ edit[e].to \in {"same", "cancelled", "ready", "idea", "deleted"}
           /\ Edited(edit[e].row, edit[e].to).status \in Statuses
           /\ Edited(edit[e].row, edit[e].to).run \in RunRefs
<1>1. edit[e] \in EditSet /\ edit[e] # NoEdit
  BY DEF TypeOK, NoEdit
<1>2. /\ edit[e].task \in Tasks
      /\ edit[e].row \in RowSet
      /\ edit[e].to \in {"same", "cancelled", "ready", "idea", "deleted"}
  BY <1>1 DEF EditSet
<1>3. NoRun \in RunRefs
  BY DEF RunRefs
<1> QED
  BY <1>2, <1>3 DEF Edited, RowSet, Statuses

LEMMA UserTypes ==
    ASSUME TypeOK, User PROVE TypeOK'
<1> USE QueueAssumption DEF QueueAssumption, rows, ledger, setting, wrk
<1>0. NoRun \in RunRefs
  BY DEF RunRefs
<1>1. ASSUME NEW t \in Tasks, CreateTask(t) \/ RunNow(t) PROVE TypeOK'
  BY <1>0, <1>1 DEF TypeOK, CreateTask, RunNow, WriteRow, Statuses
<1>2. ASSUME NEW t \in Tasks, NEW s \in {"ready", "waiting"}, Resolve(t, s) PROVE TypeOK'
  BY <1>0, <1>2 DEF TypeOK, Resolve, WriteRow, Disturb, Statuses
<1>3. ASSUME NEW e \in Editors, LoadEdit(e) PROVE TypeOK'
  <2>1. PICK t \in Tasks : \E to \in Targets(status[t]) :
          edit' = [edit EXCEPT ![e] = [phase |-> "loaded", task |-> t, row |-> Row(t), to |-> to]]
    BY <1>3 DEF LoadEdit
  <2>1a. PICK to \in Targets(status[t]) :
          edit' = [edit EXCEPT ![e] = [phase |-> "loaded", task |-> t, row |-> Row(t), to |-> to]]
    BY <2>1
  <2>2. Row(t) \in RowSet
    BY DEF TypeOK, Row, RowSet
  <2>3. to \in {"same", "cancelled", "ready", "idea", "deleted"}
    BY DEF Targets
  <2>4. [phase |-> "loaded", task |-> t, row |-> Row(t), to |-> to] \in EditSet
    BY <2>2, <2>3 DEF EditSet
  <2>5. left' \in 0 .. MaxRequests
    BY <1>3 DEF LoadEdit, Request, TypeOK
  <2> QED
    BY <1>3, <2>1a, <2>4, <2>5 DEF TypeOK, LoadEdit
<1>4. ASSUME NEW e \in Editors, CommitEdit(e) PROVE TypeOK'
  <2>1. edit[e].phase = "loaded"
    BY <1>4 DEF CommitEdit
  <2>2. [edit[e] EXCEPT !.phase = "cancelling"] \in EditSet
    <3>1. edit[e] \in EditSet /\ edit[e] # NoEdit
      BY <2>1 DEF TypeOK, NoEdit
    <3> QED
      BY <3>1 DEF EditSet
  <2>3. edit' \in [Editors -> EditSet]
    BY <1>4, <2>2, RestTypes DEF CommitEdit, TypeOK
  <2> QED
    BY <1>4, <2>1, <2>3, EditTypes DEF TypeOK, CommitEdit, WriteRow, Disturb
<1>5. ASSUME NEW e \in Editors, CancelTask(e) PROVE TypeOK'
  <2>1. edit[e].task \in Tasks
    <3>1. edit[e] \in EditSet /\ edit[e] # NoEdit
      BY <1>5 DEF TypeOK, CancelTask, NoEdit
    <3> QED
      BY <3>1 DEF EditSet
  <2>2. edit' \in [Editors -> EditSet]
    BY <1>5, RestTypes DEF CancelTask, TypeOK
  <2>3. ctx' \in [Workers -> {"live", "run", "claim"}]
    BY <1>5 DEF CancelTask, TypeOK, Cancelled
  <2> QED
    BY <1>5, <2>1, <2>2, <2>3 DEF TypeOK, CancelTask, Disturb
<1>6. CASE SetLimit \/ ChatSetPaused
  <2>1. left' \in 0 .. MaxRequests
    BY <1>6 DEF SetLimit, ChatSetPaused, Request, TypeOK
  <2> QED
    BY <1>6, <2>1 DEF TypeOK, SetLimit, ChatSetPaused
<1>7. CASE Pause \/ Resume
  <2>1. left' \in 0 .. MaxRequests
    BY <1>7 DEF Pause, Resume, Request, TypeOK
  <2>2. ctl' \in CtlSet
    BY <1>7 DEF TypeOK, Pause, Resume, CtlSet
  <2> QED
    BY <1>7, <2>1, <2>2 DEF TypeOK, Pause, Resume
<1> QED
  BY <1>1, <1>2, <1>3, <1>4, <1>5, <1>6, <1>7 DEF User

LEMMA ServerTypes ==
    ASSUME TypeOK, Holdings, Server PROVE TypeOK'
<1> USE QueueAssumption DEF QueueAssumption, rows, ledger, setting, wrk
<1>0. NoRun \in RunRefs /\ ClaimKey \in RunRefs
  BY DEF RunRefs
<1>1. CASE CopyActive
  <2>1. ActiveRuns \in SUBSET Entries
    <3>1. ASSUME NEW t \in {u \in Tasks : claimEntry[u] # NoWorker}
          PROVE  [task |-> t, key |-> ClaimKey, worker |-> claimEntry[t]] \in Entries
      BY <1>0 DEF TypeOK, Entries
    <3>2. ASSUME NEW w \in {v \in Workers : pc[v] \in Registered}
          PROVE  [task |-> task[w], key |-> run[w], worker |-> w] \in Entries
      BY <1>0, <3>2, HeldTypes DEF Entries, Registered
    <3> QED
      BY <3>1, <3>2 DEF ActiveRuns
  <2>2. ctl' \in CtlSet
    BY <1>1, <2>1, RestTypes DEF CopyActive, CtlSet
  <2> QED
    BY <1>1, <2>2 DEF TypeOK, CopyActive
<1>2. CASE PauseWrite
  <2>1. PICK e \in ctl.todo :
          /\ ctl' = [phase |-> "cancelling", todo |-> ctl.todo \ {e}, cur |-> e]
          /\ IF Exists(status[e.task])
             THEN /\ WriteRow(e.task, "waiting", e.key)
                  /\ disturbed' \in {disturbed, disturbed \cup {e.task}}
             ELSE UNCHANGED <<rows, disturbed>>
    BY <1>2 DEF PauseWrite, Disturb
  <2>2. e \in Entries /\ ctl.todo \in SUBSET Entries
    BY DEF TypeOK, CtlSet
  <2>3. ctl' \in CtlSet
    BY <2>1, <2>2 DEF CtlSet
  <2>4. e.task \in Tasks /\ e.key \in RunRefs
    BY <2>2 DEF Entries
  <2> QED
    BY <1>2, <2>1, <2>3, <2>4 DEF TypeOK, PauseWrite, WriteRow, Statuses
<1>3. CASE PauseCancel
  <2>1. ctl' \in CtlSet
    BY <1>3, RestTypes DEF PauseCancel, TypeOK, CtlSet
  <2>2. ctx' \in [Workers -> {"live", "run", "claim"}]
    BY <1>3 DEF PauseCancel, TypeOK, Cancelled
  <2> QED
    BY <1>3, <2>1, <2>2 DEF TypeOK, PauseCancel
<1>4. CASE ListWaiting
  <2> DEFINE stopped == {[task |-> t, key |-> runId[t], worker |-> NoWorker] :
                            t \in {u \in Tasks : status[u] = "waiting" /\ runId[u] # NoRun}}
  <2>1. stopped \in SUBSET Entries
    BY DEF TypeOK, Entries
  <2>2. ctl' \in CtlSet
    BY <1>4, <2>1, RestTypes DEF ListWaiting, CtlSet
  <2> QED
    BY <1>4, <2>2 DEF TypeOK, ListWaiting
<1>5. CASE ResumeWrite
  <2>1. PICK e \in ctl.todo :
          IF Exists(status[e.task])
          THEN /\ WriteRow(e.task, "ready", NoRun)
               /\ disturbed' \in {disturbed, disturbed \cup {e.task}}
               /\ ctl' = IF ctl.todo = {e} THEN Quiet ELSE [ctl EXCEPT !.todo = @ \ {e}]
          ELSE /\ ctl' = Quiet
               /\ UNCHANGED <<rows, disturbed>>
    BY <1>5 DEF ResumeWrite, Disturb
  <2>2. e.task \in Tasks
    BY DEF TypeOK, CtlSet, Entries
  <2>3. ctl' \in CtlSet
    BY <2>1, RestTypes DEF TypeOK, CtlSet
  <2> QED
    BY <1>0, <1>5, <2>1, <2>2, <2>3 DEF TypeOK, ResumeWrite, WriteRow, Statuses
<1>6. CASE ListDue
  BY <1>6 DEF TypeOK, ListDue
<1>7. ASSUME NEW t \in Tasks, Promote(t) PROVE TypeOK'
  BY <1>0, <1>7 DEF TypeOK, Promote, WriteRow, Disturb, Statuses
<1> QED
  BY <1>1, <1>2, <1>3, <1>4, <1>5, <1>6, <1>7 DEF Server

LEMMA RestartTypes ==
    ASSUME TypeOK, Restart PROVE TypeOK'
<1> USE QueueAssumption DEF QueueAssumption, setting
<1>1. left' \in 0 .. MaxRequests
  BY DEF Restart, Request, TypeOK
<1>2. status' \in [Tasks -> Statuses]
  BY DEF Restart, TypeOK, Statuses
<1>3. runId' \in [Tasks -> RunRefs]
  BY DEF Restart, TypeOK, RunRefs
<1>4. runs' \in [RunIds -> RunStatuses]
  BY DEF Restart, TypeOK, Recovered, RunStatuses
<1> QED
  BY <1>1, <1>2, <1>3, <1>4, RestTypes DEF TypeOK, Restart, Places, Outcomes

-----------------------------------------------------------------------------
\* Bookkeeping.

LEMMA InitHoldings == Init => Holdings
BY QueueAssumption
   DEF Init, Holdings, PlaceSaysWhat, CancelsAreHeld, EntryIsHeld, EditsAreLegal, FreshRuns,
       Registered, Quiet, NoEntry, NoEdit, NoRun, RunIds

LEMMA FinishPlaces ==
    ASSUME TypeOK, PlaceSaysWhat, NEW w \in Workers, Finish(w)
    PROVE  PlaceSaysWhat'
BY DEF TypeOK, PlaceSaysWhat, Finish, Registered

\* No cancel function of w survives Finish.
LEMMA FinishCancels ==
    ASSUME TypeOK, PlaceSaysWhat, CancelsAreHeld, NEW w \in Workers, task[w] \in Tasks, Finish(w)
    PROVE  CancelsAreHeld'
<1> USE QueueAssumption DEF QueueAssumption
<1>1. \A t \in Tasks : claimEntry'[t] # NoWorker => task'[claimEntry'[t]] = t
  BY DEF TypeOK, CancelsAreHeld, Finish
<1>2. ASSUME NEW e \in Entries \cup {NoEntry}, EntryIsHeld(e)
      PROVE  EntryIsHeld(Void(e, w))'
  <2>1. CASE e.worker = w
    <3>1. Void(e, w)'.worker = NoWorker
      BY <2>1 DEF Void, Entries, NoEntry
    <3> QED
      BY <3>1 DEF EntryIsHeld
  <2>2. CASE e.worker # w
    BY <1>2, <2>2 DEF EntryIsHeld, Void, Finish, Entries, NoEntry, TypeOK
  <2> QED
    BY <2>1, <2>2
<1>3. /\ ctl'.todo = {Void(e, w) : e \in ctl.todo}
      /\ ctl'.cur = Void(ctl.cur, w)
  BY DEF Finish, TypeOK, CtlSet
<1>4. ctl.todo \in SUBSET Entries /\ ctl.cur \in Entries \cup {NoEntry}
  BY DEF TypeOK, CtlSet
<1> QED
  BY <1>1, <1>2, <1>3, <1>4 DEF CancelsAreHeld

LEMMA WorkHoldings ==
    ASSUME TypeOK, Holdings, OwnRun, NEW w \in Workers, Gate(w) \/ Work(w)
    PROVE  Holdings'
<1> USE QueueAssumption DEF QueueAssumption, ledger, Aside
<1>1. EditsAreLegal'
  BY DEF Holdings, EditsAreLegal, Gate, Work, Refuse, Attempt, Conclude, Claim, PrepareFails, CreateRun,
         StartRun, StartMissing, Register, LaunchFails, Exit, AskDeletion, Record, RecordMissing, Judge,
         Fail, Settle, AskApproval, SettleMissing, Load, StoreResult, Abandon
<1>2. FreshRuns'
  <2>1. CASE UNCHANGED ledger
    BY <2>1 DEF Holdings, FreshRuns
  <2>2. CASE CreateRun(w)
    BY <2>2 DEF Holdings, FreshRuns, CreateRun, TypeOK, RunIds
  <2>3. CASE Record(w)
    <3>1. run[w] \in RunIds /\ run[w] <= lastRun
      BY <2>3 DEF Record, OwnRun, Holdings, PlaceSaysWhat, TypeOK
    <3> QED
      BY <2>3, <3>1 DEF Holdings, FreshRuns, Record, TypeOK, RunIds
  <2> QED
    BY <2>1, <2>2, <2>3
       DEF Gate, Work, Refuse, Attempt, Conclude, Claim, PrepareFails, Settled,
         StartRun, StartMissing, Register, LaunchFails, Exit, AskDeletion, RecordMissing, Judge,
         Fail, Settle, AskApproval, SettleMissing, Load, StoreResult, Abandon
<1>3. PlaceSaysWhat'
  <2>1. CASE Finish(w)
    BY <2>1, FinishPlaces DEF Holdings
  <2>2. CASE Claim(w)
    BY <2>2 DEF Holdings, PlaceSaysWhat, Claim, TypeOK, Registered
  <2>3. CASE CreateRun(w)
    BY <2>3 DEF Holdings, PlaceSaysWhat, CreateRun, TypeOK, Registered, RunIds, NoRun
  <2>4. CASE AskDeletion(w) \/ Record(w)
    BY <2>4 DEF Holdings, PlaceSaysWhat, AskDeletion, Record, TypeOK, Registered
  <2>5. CASE Gate(w) \/ Refuse(w)
    BY <2>5 DEF Holdings, PlaceSaysWhat, Gate, Refuse, Goto, TypeOK, Registered
  <2>6. CASE StartRun(w) \/ Register(w)
    BY <2>6 DEF Holdings, PlaceSaysWhat, StartRun, Register, Goto, TypeOK, Registered
  <2>7. CASE Judge(w) \/ Settle(w) \/ AskApproval(w) \/ Load(w)
    BY <2>1, <2>7 DEF Holdings, PlaceSaysWhat, Judge, Settle, AskApproval, Load, Goto, TypeOK, Registered
  <2>8. CASE \E o \in Outcomes : Exit(w, o)
    BY <2>8 DEF Holdings, PlaceSaysWhat, Exit, TypeOK, Registered
  <2> QED
    BY <2>1, <2>2, <2>3, <2>4, <2>5, <2>6, <2>7, <2>8
       DEF Work, Attempt, Conclude, PrepareFails, StartMissing, LaunchFails, RecordMissing, Fail,
           SettleMissing, StoreResult, Abandon, Settled
<1>4. CancelsAreHeld'
  <2>1. CASE Finish(w) /\ pc[w] \notin {"idle", "gated"}
    BY <2>1, HeldTypes, FinishCancels DEF Holdings
  <2>2. CASE Claim(w)
    <3>1. task[w] = NoTask
      BY <2>2 DEF Claim, Holdings, PlaceSaysWhat
    <3>2. PICK t \in Tasks : /\ task' = [task EXCEPT ![w] = t]
                             /\ claimEntry' = [claimEntry EXCEPT ![t] = w]
      BY <2>2 DEF Claim
    <3>3. \A u \in Tasks : claimEntry'[u] # NoWorker => task'[claimEntry'[u]] = u
      BY <3>1, <3>2 DEF TypeOK, Holdings, CancelsAreHeld
    <3>4. ASSUME NEW e \in Entries \cup {NoEntry}, EntryIsHeld(e) PROVE EntryIsHeld(e)'
      BY <2>2, <3>1, <3>2, <3>4 DEF Claim, EntryIsHeld, Entries, NoEntry, TypeOK
    <3>5. ctl.todo \in SUBSET Entries /\ ctl.cur \in Entries \cup {NoEntry} /\ ctl' = ctl
      BY <2>2 DEF TypeOK, CtlSet, Claim
    <3> QED
      BY <3>3, <3>4, <3>5 DEF Holdings, CancelsAreHeld
  <2>3. CASE /\ UNCHANGED <<task, claimEntry, ctl>>
             /\ \A v \in Workers : pc[v] \in Registered => pc'[v] \in Registered
    <3>1. ASSUME NEW e \in Entries \cup {NoEntry}, EntryIsHeld(e) PROVE EntryIsHeld(e)'
      <4>1. e.worker = NoWorker \/ e.worker \in Workers
        BY DEF Entries, NoEntry
      <4>2. task' = task
        BY <2>3
      <4> QED
        BY <2>3, <3>1, <4>1, <4>2 DEF EntryIsHeld
    <3>2. ctl.todo \in SUBSET Entries /\ ctl.cur \in Entries \cup {NoEntry} /\ ctl' = ctl
      BY <2>3 DEF TypeOK, CtlSet
    <3>3. \A t \in Tasks : claimEntry'[t] # NoWorker => task'[claimEntry'[t]] = t
      BY <2>3 DEF Holdings, CancelsAreHeld
    <3> QED
      BY <3>1, <3>2, <3>3 DEF Holdings, CancelsAreHeld
  <2>4. CASE CreateRun(w) \/ AskDeletion(w) \/ Record(w) \/ (\E o \in Outcomes : Exit(w, o))
    BY <2>3, <2>4 DEF CreateRun, AskDeletion, Record, Exit, TypeOK, Registered
  <2>5. CASE Gate(w) \/ Refuse(w) \/ StartRun(w) \/ Register(w) \/ Settle(w) \/ AskApproval(w)
    BY <2>3, <2>5 DEF Gate, Refuse, StartRun, Register, Settle, AskApproval, Goto, TypeOK, Registered
  <2>6. CASE Judge(w) \/ Load(w)
    BY <2>1, <2>3, <2>6 DEF Judge, Load, Goto, TypeOK, Registered
  <2> QED
    BY <2>1, <2>2, <2>4, <2>5, <2>6
       DEF Work, Attempt, Conclude, PrepareFails, StartMissing, LaunchFails, RecordMissing, Fail,
           SettleMissing, StoreResult, Abandon, Settled
<1> QED
  BY <1>1, <1>2, <1>3, <1>4 DEF Holdings

\* Requests write rows and cancel workers; they move no worker.
LEMMA RequestsMoveNobody ==
    ASSUME User \/ Server
    PROVE  UNCHANGED <<pc, task, run, outcome, seen, claimEntry, ledger>>
BY DEF User, Server, wrk, CreateTask, RunNow, Resolve, LoadEdit, CommitEdit, CancelTask, SetLimit, Pause,
       Resume, ChatSetPaused, CopyActive, PauseWrite, PauseCancel, ListWaiting, ResumeWrite, ListDue, Promote

\* The copy that a pause takes lists workers that hold their tasks.
LEMMA ActiveRunsAreHeld ==
    ASSUME TypeOK, Holdings, NEW e \in ActiveRuns
    PROVE  EntryIsHeld(e)
<1>1. CASE e \in {[task |-> t, key |-> ClaimKey, worker |-> claimEntry[t]] :
                     t \in {u \in Tasks : claimEntry[u] # NoWorker}}
  BY <1>1 DEF EntryIsHeld, Holdings, CancelsAreHeld
<1>2. CASE e \in {[task |-> task[w], key |-> run[w], worker |-> w] :
                     w \in {v \in Workers : pc[v] \in Registered}}
  BY <1>2 DEF EntryIsHeld
<1> QED
  BY <1>1, <1>2 DEF ActiveRuns

\* A cancel function is called for a worker that holds a task.
LEMMA OnlyHoldersAreCancelled ==
    ASSUME TypeOK, Holdings, NEW w \in Workers, ctx'[w] # ctx[w],
           (\E e \in Editors : CancelTask(e)) \/ PauseCancel
    PROVE  task[w] # NoTask
<1> USE QueueAssumption DEF QueueAssumption
<1>1. ASSUME NEW e \in Editors, CancelTask(e) PROVE task[w] # NoTask
  <2>1. PICK a \in ActiveRuns : a.task = edit[e].task /\ a.worker = w
    BY <1>1 DEF CancelTask
  <2>2. edit[e].task \in Tasks
    <3>1. edit[e] \in EditSet /\ edit[e] # NoEdit
      BY <1>1 DEF TypeOK, CancelTask, NoEdit
    <3> QED
      BY <3>1 DEF EditSet
  <2> QED
    BY <2>1, <2>2, ActiveRunsAreHeld DEF EntryIsHeld
<1>2. CASE PauseCancel
  <2>1. ctl.cur.worker = w /\ w # NoWorker
    BY <1>2 DEF PauseCancel, TypeOK
  <2>2. EntryIsHeld(ctl.cur) /\ ctl.cur \in Entries
    BY <2>1 DEF Holdings, CancelsAreHeld, TypeOK, CtlSet, NoEntry
  <2> QED
    BY <2>1, <2>2 DEF EntryIsHeld, Entries
<1> QED
  BY <1>1, <1>2

\* Only a registered run can be cancelled without its claim.
LEMMA RequestPlaces ==
    ASSUME TypeOK, Holdings, User \/ Server
    PROVE  PlaceSaysWhat'
<1> USE QueueAssumption DEF QueueAssumption
<1>1. UNCHANGED <<pc, task, run, outcome>>
  BY RequestsMoveNobody
<1>2. CASE UNCHANGED ctx
  BY <1>1, <1>2 DEF Holdings, PlaceSaysWhat
<1>3. ASSUME NEW e \in Editors, CancelTask(e) PROVE PlaceSaysWhat'
  <2> DEFINE hit(w) == {a.key : a \in {b \in ActiveRuns : b.task = edit[e].task /\ b.worker = w}}
  <2>1. ASSUME NEW w \in Workers, ctx'[w] = "run" PROVE pc[w] \in Registered
    <3>1. ctx'[w] = IF ClaimKey \in hit(w) THEN "claim"
                    ELSE IF hit(w) # {} THEN Cancelled(w, NoRun) ELSE ctx[w]
      BY <1>3 DEF CancelTask
    <3>2. CASE ctx[w] = "run"
      BY <3>2 DEF Holdings, PlaceSaysWhat
    <3>3. CASE ctx[w] # "run"
      <4>1. ClaimKey \notin hit(w) /\ hit(w) # {}
        BY <2>1, <3>1, <3>3
      <4>2. PICK b \in ActiveRuns : b.worker = w /\ b.key # ClaimKey
        BY <4>1
      <4> QED
        BY <4>2 DEF ActiveRuns
    <3> QED
      BY <3>2, <3>3
  <2>2. ASSUME NEW w \in Workers, pc[w] \in {"idle", "gated"} PROVE ctx'[w] = ctx[w]
    BY <1>3, <2>2, OnlyHoldersAreCancelled DEF Holdings, PlaceSaysWhat
  <2> QED
    BY <1>1, <2>1, <2>2 DEF Holdings, PlaceSaysWhat
<1>4. CASE PauseCancel
  <2>1. ASSUME NEW w \in Workers, ctx'[w] = "run" PROVE pc[w] \in Registered
    <3>1. CASE ctx[w] = "run"
      BY <3>1 DEF Holdings, PlaceSaysWhat
    <3>2. CASE ctx[w] # "run"
      <4>1. ctl.cur.worker = w /\ ctl.cur.key # ClaimKey
        BY <1>4, <2>1, <3>2 DEF PauseCancel, Cancelled, TypeOK, CtlSet, Entries, NoEntry
      <4>2. EntryIsHeld(ctl.cur)
        BY DEF Holdings, CancelsAreHeld
      <4> QED
        BY <4>1, <4>2 DEF EntryIsHeld
    <3> QED
      BY <3>1, <3>2
  <2>2. ASSUME NEW w \in Workers, pc[w] \in {"idle", "gated"} PROVE ctx'[w] = ctx[w]
    BY <1>4, <2>2, OnlyHoldersAreCancelled DEF Holdings, PlaceSaysWhat
  <2> QED
    BY <1>1, <2>1, <2>2 DEF Holdings, PlaceSaysWhat
<1> QED
  BY <1>2, <1>3, <1>4
     DEF User, Server, wrk, CreateTask, RunNow, Resolve, LoadEdit, CommitEdit, SetLimit, Pause,
         Resume, ChatSetPaused, CopyActive, PauseWrite, ListWaiting, ResumeWrite, ListDue, Promote

LEMMA RequestCancels ==
    ASSUME TypeOK, Holdings, User \/ Server
    PROVE  CancelsAreHeld'
<1> USE QueueAssumption DEF QueueAssumption
<1>1. UNCHANGED <<pc, task, claimEntry>>
  BY RequestsMoveNobody
<1>2. \A e : EntryIsHeld(e)' <=> EntryIsHeld(e)
  BY <1>1 DEF EntryIsHeld
<1>3. ctl.todo \in SUBSET Entries /\ ctl.cur \in Entries \cup {NoEntry}
  BY DEF TypeOK, CtlSet
<1>4. EntryIsHeld(NoEntry)
  BY DEF EntryIsHeld, NoEntry
<1>5. \A e \in ctl'.todo \cup {ctl'.cur} : EntryIsHeld(e)
  <2>1. CASE /\ ctl'.todo \subseteq ctl.todo
             /\ ctl'.cur \in ctl.todo \cup {ctl.cur, NoEntry}
    BY <1>4, <2>1 DEF Holdings, CancelsAreHeld
  <2>2. CASE UNCHANGED ctl \/ ctl' = Quiet
    BY <2>1, <2>2 DEF Quiet
  <2>3. CASE Pause \/ Resume
    BY <2>1, <2>3 DEF Pause, Resume, TypeOK, CtlSet
  <2>4. CASE CopyActive
    BY <1>4, <2>2, <2>4, ActiveRunsAreHeld DEF CopyActive
  <2>5. CASE PauseWrite
    BY <2>1, <2>5 DEF PauseWrite
  <2>6. CASE PauseCancel
    BY <2>1, <2>2, <2>6 DEF PauseCancel
  <2>7. CASE ListWaiting
    <3>1. CASE ctl' # Quiet
      <4>1. ctl'.cur = NoEntry /\ \A e \in ctl'.todo : e.worker = NoWorker
        BY <2>7, <3>1 DEF ListWaiting
      <4> QED
        BY <1>4, <4>1 DEF EntryIsHeld
    <3> QED
      BY <2>2, <3>1
  <2>8. CASE ResumeWrite
    BY <2>1, <2>2, <2>8 DEF ResumeWrite, TypeOK, CtlSet
  <2> QED
    BY <2>2, <2>3, <2>4, <2>5, <2>6, <2>7, <2>8
       DEF User, Server, CreateTask, RunNow, Resolve, LoadEdit, CommitEdit, CancelTask, SetLimit,
           ChatSetPaused, ListDue, Promote
<1> QED
  BY <1>1, <1>2, <1>5 DEF Holdings, CancelsAreHeld

LEMMA RequestHoldings ==
    ASSUME TypeOK, Holdings, User \/ Server
    PROVE  Holdings'
<1>1. FreshRuns'
  BY RequestsMoveNobody DEF Holdings, FreshRuns, ledger
<1>2. EditsAreLegal'
  <2>1. CASE UNCHANGED edit
    BY <2>1 DEF Holdings, EditsAreLegal
  <2>2. ASSUME NEW e \in Editors, LoadEdit(e) PROVE EditsAreLegal'
    <3>1. PICK t \in Tasks : \E to \in Targets(status[t]) :
            edit' = [edit EXCEPT ![e] = [phase |-> "loaded", task |-> t, row |-> Row(t), to |-> to]]
      BY <2>2 DEF LoadEdit
    <3>2. PICK to \in Targets(status[t]) :
            edit' = [edit EXCEPT ![e] = [phase |-> "loaded", task |-> t, row |-> Row(t), to |-> to]]
      BY <3>1
    <3>3. edit'[e].to = to /\ edit'[e].row.status = status[t]
      BY <3>2 DEF Row, TypeOK
    <3>4. \A f \in Editors \ {e} : edit'[f] = edit[f]
      BY <3>2 DEF TypeOK
    <3> QED
      BY <3>3, <3>4 DEF Holdings, EditsAreLegal
  <2>3. ASSUME NEW e \in Editors, CommitEdit(e) \/ CancelTask(e) PROVE EditsAreLegal'
    <3>1. edit'[e].phase # "loaded"
      <4>1. edit[e] \in EditSet /\ NoEdit.phase = "none"
        BY DEF TypeOK, NoEdit
      <4>2. [edit[e] EXCEPT !.phase = "cancelling"].phase = "cancelling"
        BY <4>1 DEF EditSet, NoEdit
      <4> QED
        BY <2>3, <4>1, <4>2 DEF CommitEdit, CancelTask, TypeOK
    <3>2. \A f \in Editors \ {e} : edit'[f] = edit[f]
      BY <2>3 DEF CommitEdit, CancelTask, TypeOK
    <3> QED
      BY <3>1, <3>2 DEF Holdings, EditsAreLegal
  <2> QED
    BY <2>1, <2>2, <2>3
       DEF User, Server, CreateTask, RunNow, Resolve, SetLimit, Pause, Resume, ChatSetPaused,
           CopyActive, PauseWrite, PauseCancel, ListWaiting, ResumeWrite, ListDue, Promote
<1> QED
  BY <1>1, <1>2, RequestPlaces, RequestCancels DEF Holdings

LEMMA RestartHoldings ==
    ASSUME TypeOK, Holdings, Restart PROVE Holdings'
BY QueueAssumption
   DEF Restart, Holdings, PlaceSaysWhat, CancelsAreHeld, EntryIsHeld, EditsAreLegal, FreshRuns, Recovered,
       Registered, Quiet, NoEntry, NoEdit, TypeOK

-----------------------------------------------------------------------------
\* Runs.

LEMMA InitOwnRun == Init => OwnRun
BY DEF Init, OwnRun, NoRun

LEMMA WorkOwnRun ==
    ASSUME TypeOK, Holdings, OwnRun, NEW w \in Workers, Gate(w) \/ Work(w)
    PROVE  OwnRun'
<1> USE QueueAssumption DEF QueueAssumption, ledger, Aside
<1>1. CASE CreateRun(w)
  BY <1>1 DEF CreateRun, OwnRun, TypeOK, RunIds, NoRun, Holdings, PlaceSaysWhat
<1>2. CASE Record(w)
  BY <1>2 DEF Record, OwnRun, TypeOK, Holdings, PlaceSaysWhat
<1>3. CASE Finish(w) /\ UNCHANGED ledger
  BY <1>3 DEF Finish, OwnRun, TypeOK, RunIds, NoRun
<1>4. CASE /\ UNCHANGED <<run, ledger>>
           /\ \A v \in Workers : \/ pc'[v] = pc[v]
                                 \/ pc'[v] \notin {"created", "started", "executing", "exited"}
                                 \/ pc[v] \in {"created", "started", "executing", "exited"}
  BY <1>4 DEF OwnRun
<1>5. CASE \E o \in Outcomes : Exit(w, o)
  BY <1>4, <1>5 DEF Exit, TypeOK
<1>6. CASE Gate(w) \/ Refuse(w) \/ StartRun(w) \/ Register(w) \/ Settle(w) \/ AskApproval(w)
  BY <1>4, <1>6 DEF Gate, Refuse, StartRun, Register, Settle, AskApproval, Goto, TypeOK
<1>7. CASE Judge(w) \/ Load(w) \/ Claim(w) \/ AskDeletion(w)
  BY <1>3, <1>4, <1>7 DEF Judge, Load, Claim, AskDeletion, Goto, TypeOK
<1> QED
  BY <1>1, <1>2, <1>3, <1>5, <1>6, <1>7
     DEF Work, Attempt, Conclude, PrepareFails, StartMissing, LaunchFails, RecordMissing, Fail,
         SettleMissing, StoreResult, Abandon, Settled

LEMMA RequestOwnRun ==
    ASSUME OwnRun, User \/ Server PROVE OwnRun'
BY RequestsMoveNobody DEF OwnRun, ledger

LEMMA RestartOwnRun ==
    ASSUME TypeOK, Restart PROVE OwnRun'
BY QueueAssumption DEF Restart, OwnRun, TypeOK, NoRun, QueueAssumption

-----------------------------------------------------------------------------
\* Queued rows carry no run.

LEMMA WorkKeepsQueuedClean ==
    ASSUME TypeOK, Holdings, QueuedIsClean, NEW w \in Workers, Gate(w) \/ Work(w)
    PROVE  QueuedIsClean'
<1> USE QueueAssumption DEF QueueAssumption
<1>1. \A e \in Editors : CleanRow(edit[e].row)'
  BY DEF Aside, QueuedIsClean, CleanRow, Gate, Work, Refuse, Attempt, Conclude, Claim, PrepareFails, CreateRun,
         StartRun, StartMissing, Register, LaunchFails, Exit, AskDeletion, Record, RecordMissing, Judge,
         Fail, Settle, AskApproval, SettleMissing, Load, StoreResult, Abandon
<1>2. \A v \in Workers : CleanRow(seen[v])'
  <2>1. CASE UNCHANGED seen
    BY <2>1 DEF QueuedIsClean, CleanRow
  <2>2. CASE Finish(w)
    BY <2>2 DEF Finish, QueuedIsClean, CleanRow, NoRow, TypeOK
  <2>3. CASE Load(w)
    <3>1. task[w] \in Tasks
      BY <2>3, HeldTypes DEF Load
    <3> QED
      BY <2>2, <2>3, <3>1 DEF Load, QueuedIsClean, CleanRow, TypeOK
  <2> QED
    BY <2>1, <2>2, <2>3
       DEF Gate, Work, Refuse, Attempt, Conclude, Claim, PrepareFails, CreateRun, Goto, Settled,
         StartRun, StartMissing, Register, LaunchFails, Exit, AskDeletion, Record, RecordMissing, Judge,
         Fail, Settle, AskApproval, SettleMissing, StoreResult, Abandon
<1>3. \A t \in Tasks : CleanRow(Row(t))'
  <2>1. CASE UNCHANGED rows
    BY <2>1 DEF QueuedIsClean, CleanRow, Row, rows
  <2>2. CASE \E t \in Tasks, s \in Statuses \ {"idea", "ready"}, r \in RunRefs : WriteRow(t, s, r)
    BY <2>2 DEF QueuedIsClean, CleanRow, Row, WriteRow, TypeOK
  <2>3. CASE Claim(w)
    BY <2>3 DEF QueuedIsClean, CleanRow, Row, Claim, WriteRow, TypeOK
  <2>4. CASE StoreResult(w)
    <3>1. task[w] \in Tasks
      BY <2>4, HeldTypes DEF StoreResult
    <3> QED
      BY <2>1, <2>4, <3>1 DEF StoreResult, QueuedIsClean, CleanRow, Row, WriteRow, TypeOK
  <2>5. CASE PrepareFails(w) \/ StartRun(w) \/ LaunchFails(w) \/ AskDeletion(w) \/ Fail(w) \/ Settle(w)
             \/ AskApproval(w)
    <3>1. task[w] \in Tasks /\ run[w] \in RunRefs
      BY <2>5, HeldTypes DEF PrepareFails, StartRun, LaunchFails, AskDeletion, Fail, Settle, AskApproval
    <3>2. runId[task[w]] \in RunRefs /\ NoRun \in RunRefs
      BY <3>1 DEF TypeOK, RunRefs
    <3>3. pc[w] = "recorded" /\ Settle(w) => Verdict(outcome[w]) \in Statuses \ {"idea", "ready"}
      BY DEF Settle, Verdict, Statuses
    <3> QED
      BY <2>1, <2>2, <2>5, <3>1, <3>2, <3>3
         DEF PrepareFails, StartRun, LaunchFails, AskDeletion, Fail, Settle, AskApproval, Statuses, rows
  <2> QED
    BY <2>1, <2>3, <2>4, <2>5
       DEF Gate, Work, Refuse, Attempt, Conclude, CreateRun, Goto, Settled, Aside,
         StartMissing, Register, Exit, Record, RecordMissing, Judge, SettleMissing, Load, Abandon
<1> QED
  BY <1>1, <1>2, <1>3 DEF QueuedIsClean

\* An edit that writes idea started from a ready row.
LEMMA EditKeepsQueuedClean ==
    ASSUME TypeOK, QueuedIsClean, EditsAreLegal, NEW e \in Editors, edit[e].phase = "loaded"
    PROVE  CleanRow(Edited(edit[e].row, edit[e].to))
<1>1. CleanRow(edit[e].row) /\ edit[e].to \in Targets(edit[e].row.status)
  BY DEF QueuedIsClean, EditsAreLegal
<1>2. edit[e].row \in RowSet
  BY EditTypes
<1>3. CASE edit[e].to \in {"same", "ready", "deleted", "cancelled"}
  BY <1>1, <1>2, <1>3 DEF Edited, CleanRow, RowSet
<1>4. CASE edit[e].to = "idea"
  <2>1. edit[e].row.status = "ready"
    BY <1>1, <1>4 DEF Targets
  <2> QED
    BY <1>1, <1>2, <1>4, <2>1 DEF Edited, CleanRow, RowSet
<1> QED
  BY <1>3, <1>4, EditTypes

LEMMA RequestKeepsQueuedClean ==
    ASSUME TypeOK, Holdings, QueuedIsClean, User \/ Server
    PROVE  QueuedIsClean'
<1> USE QueueAssumption DEF QueueAssumption
<1>1. \A v \in Workers : CleanRow(seen[v])'
  BY RequestsMoveNobody DEF QueuedIsClean, CleanRow
<1>2. \A e \in Editors : CleanRow(edit[e].row)'
  <2>1. CASE UNCHANGED edit
    BY <2>1 DEF QueuedIsClean, CleanRow
  <2>2. ASSUME NEW e \in Editors, LoadEdit(e) PROVE \A f \in Editors : CleanRow(edit[f].row)'
    <3>1. PICK t \in Tasks : \E to \in Targets(status[t]) :
            edit' = [edit EXCEPT ![e] = [phase |-> "loaded", task |-> t, row |-> Row(t), to |-> to]]
      BY <2>2 DEF LoadEdit
    <3>2. edit'[e].row = Row(t) /\ \A f \in Editors \ {e} : edit'[f] = edit[f]
      BY <3>1 DEF TypeOK
    <3> QED
      BY <3>2 DEF QueuedIsClean, CleanRow
  <2>3. ASSUME NEW e \in Editors, CommitEdit(e) \/ CancelTask(e)
        PROVE  \A f \in Editors : CleanRow(edit[f].row)'
    <3>1. edit'[e].row \in {edit[e].row, NoRow}
      <4>1. edit[e] \in EditSet /\ NoEdit.row = NoRow
        BY DEF TypeOK, NoEdit
      <4>2. [edit[e] EXCEPT !.phase = "cancelling"].row = edit[e].row
        BY <4>1 DEF EditSet, NoEdit
      <4> QED
        BY <2>3, <4>1, <4>2 DEF CommitEdit, CancelTask, TypeOK
    <3>2. \A f \in Editors \ {e} : edit'[f] = edit[f]
      BY <2>3 DEF CommitEdit, CancelTask, TypeOK
    <3>3. CleanRow(NoRow)
      BY DEF CleanRow, NoRow
    <3> QED
      BY <3>1, <3>2, <3>3 DEF QueuedIsClean, CleanRow
  <2> QED
    BY <2>1, <2>2, <2>3
       DEF User, Server, CreateTask, RunNow, Resolve, SetLimit, Pause, Resume, ChatSetPaused,
           CopyActive, PauseWrite, PauseCancel, ListWaiting, ResumeWrite, ListDue, Promote
<1>3. \A t \in Tasks : CleanRow(Row(t))'
  <2>1. CASE UNCHANGED rows
    BY <2>1 DEF QueuedIsClean, CleanRow, Row, rows
  <2>2. ASSUME NEW u \in Tasks, NEW s, NEW r, WriteRow(u, s, r), CleanRow([status |-> s, run |-> r])
        PROVE  \A t \in Tasks : CleanRow(Row(t))'
    BY <2>2 DEF QueuedIsClean, CleanRow, Row, WriteRow, TypeOK
  <2>3. \A s : CleanRow([status |-> s, run |-> NoRun])
    BY DEF CleanRow
  <2>4. ASSUME NEW t \in Tasks, CreateTask(t) PROVE \A u \in Tasks : CleanRow(Row(u))'
    BY <2>2, <2>3, <2>4 DEF CreateTask
  <2>5. ASSUME NEW t \in Tasks, RunNow(t) PROVE \A u \in Tasks : CleanRow(Row(u))'
    <3>1. CleanRow([status |-> "ready", run |-> runId[t]])
      BY <2>5 DEF RunNow, QueuedIsClean, CleanRow, Row
    <3> QED
      BY <2>2, <2>5, <3>1 DEF RunNow
  <2>6. ASSUME NEW t \in Tasks, \E s \in {"ready", "waiting"} : Resolve(t, s)
        PROVE  \A u \in Tasks : CleanRow(Row(u))'
    BY <2>1, <2>2, <2>3, <2>6 DEF Resolve, rows
  <2>7. ASSUME NEW t \in Tasks, Promote(t) PROVE \A u \in Tasks : CleanRow(Row(u))'
    BY <2>1, <2>2, <2>3, <2>7 DEF Promote
  <2>8. ASSUME NEW e \in Editors, CommitEdit(e) PROVE \A u \in Tasks : CleanRow(Row(u))'
    <3>1. CASE UNCHANGED rows
      BY <2>1, <3>1
    <3>2. CASE WriteRow(edit[e].task, Edited(edit[e].row, edit[e].to).status,
                        Edited(edit[e].row, edit[e].to).run)
      <4>1. edit[e].phase = "loaded"
        BY <2>8 DEF CommitEdit
      <4>2. edit[e].task \in Tasks /\ CleanRow(Edited(edit[e].row, edit[e].to))
        BY <4>1, EditTypes, EditKeepsQueuedClean DEF Holdings
      <4> QED
        BY <2>2, <3>2, <4>2 DEF CleanRow
    <3> QED
      BY <2>8, <3>1, <3>2 DEF CommitEdit
  <2>9. CASE PauseWrite
    <3>1. CASE \E e \in ctl.todo : WriteRow(e.task, "waiting", e.key)
      <4>1. PICK e \in ctl.todo : WriteRow(e.task, "waiting", e.key)
        BY <3>1
      <4>2. e.task \in Tasks
        BY DEF TypeOK, CtlSet, Entries
      <4>3. CleanRow([status |-> "waiting", run |-> e.key])
        BY DEF CleanRow
      <4> QED
        BY <2>2, <4>1, <4>2, <4>3
    <3> QED
      BY <2>1, <2>9, <3>1 DEF PauseWrite
  <2>10. CASE ResumeWrite
    <3>1. CASE \E e \in ctl.todo : WriteRow(e.task, "ready", NoRun)
      <4>1. PICK e \in ctl.todo : WriteRow(e.task, "ready", NoRun)
        BY <3>1
      <4>2. e.task \in Tasks
        BY DEF TypeOK, CtlSet, Entries
      <4> QED
        BY <2>2, <2>3, <4>1, <4>2
    <3> QED
      BY <2>1, <2>10, <3>1 DEF ResumeWrite
  <2> QED
    BY <2>1, <2>4, <2>5, <2>6, <2>7, <2>8, <2>9, <2>10
       DEF User, Server, LoadEdit, CancelTask, SetLimit, Pause, Resume, ChatSetPaused,
           CopyActive, PauseCancel, ListWaiting, ListDue
<1> QED
  BY <1>1, <1>2, <1>3 DEF QueuedIsClean

LEMMA RestartKeepsQueuedClean ==
    ASSUME TypeOK, QueuedIsClean, Restart PROVE QueuedIsClean'
<1>1. \A t \in Tasks : CleanRow(Row(t))'
  BY DEF Restart, QueuedIsClean, CleanRow, Row, TypeOK
<1>2. \A w \in Workers : CleanRow(seen[w])'
  BY DEF Restart, CleanRow, NoRow
<1>3. \A e \in Editors : CleanRow(edit[e].row)'
  BY DEF Restart, CleanRow, NoRow, NoEdit
<1> QED
  BY <1>1, <1>2, <1>3 DEF QueuedIsClean

-----------------------------------------------------------------------------
\* The invariant that carries the proofs: types, what workers and cancel
\* functions hold, runs and clean queued rows.

Sound == TypeOK /\ Holdings /\ OwnRun /\ QueuedIsClean

LEMMA SoundStep ==
    ASSUME Sound, [Next]_vars PROVE Sound'
<1>1. ASSUME NEW w \in Workers, Gate(w) \/ Work(w) PROVE Sound'
  BY <1>1, WorkTypes, WorkHoldings, WorkOwnRun, WorkKeepsQueuedClean DEF Sound
<1>2. CASE User \/ Server
  BY <1>2, UserTypes, ServerTypes, RequestHoldings, RequestOwnRun, RequestKeepsQueuedClean DEF Sound
<1>3. CASE Restart
  BY <1>3, RestartTypes, RestartHoldings, RestartOwnRun, RestartKeepsQueuedClean DEF Sound
<1>4. CASE UNCHANGED vars
  BY <1>4 DEF vars, rows, ledger, setting, wrk, Sound, TypeOK, Holdings, PlaceSaysWhat, CancelsAreHeld,
              EntryIsHeld, EditsAreLegal, FreshRuns, OwnRun, QueuedIsClean, CleanRow, Row
<1> QED
  BY <1>1, <1>2, <1>3, <1>4 DEF Next

LEMMA SoundHolds == Spec => []Sound
<1>1. Init => Sound
  <2> SUFFICES ASSUME Init PROVE QueuedIsClean
    BY InitTypeOK, InitHoldings, InitOwnRun DEF Sound
  <2> QED
    BY DEF Init, QueuedIsClean, CleanRow, Row, NoRow, NoEdit
<1>2. Sound /\ [Next]_vars => Sound'
  BY SoundStep
<1> QED
  BY <1>1, <1>2, PTL DEF Spec

\* Every variable of the queue keeps its type, for any number of tasks,
\* workers and requests (the types of internal/store's task and run rows, and
\* of the operator's activeRuns).
THEOREM TypeCorrect == Spec => []TypeOK
<1>1. Sound => TypeOK
  BY DEF Sound
<1> QED
  BY <1>1, SoundHolds, PTL

\* Every attempt of a worker (runTask) records a run of its own, and its run
\* row stays open until finishTaskRun records the end of the process.
THEOREM OwnRunHolds == Spec => []OwnRun
<1>1. Sound => OwnRun
  BY DEF Sound
<1> QED
  BY <1>1, SoundHolds, PTL

\* Whatever edits, pauses, promotions and restarts do, a task in the queue
\* names no run: the next claim never inherits an old attempt.
THEOREM QueuedIsCleanHolds == Spec => []QueuedIsClean
<1>1. Sound => QueuedIsClean
  BY DEF Sound
<1> QED
  BY <1>1, SoundHolds, PTL

LEMMA StepKeepsRuns ==
    ASSUME Sound, [Next]_vars, NEW r \in RunIds, runs[r] \notin {"unused", "running"}
    PROVE  runs'[r] = runs[r]
<1> USE QueueAssumption DEF QueueAssumption
<1>1. CASE UNCHANGED ledger
  BY <1>1 DEF ledger
<1>2. ASSUME NEW w \in Workers, CreateRun(w) PROVE runs'[r] = runs[r]
  <2>1. lastRun + 1 \in RunIds /\ lastRun \in Nat
    BY <1>2 DEF CreateRun, Sound, TypeOK, RunIds
  <2>2. runs[lastRun + 1] = "unused"
    BY <2>1 DEF Sound, Holdings, FreshRuns, RunIds
  <2> QED
    BY <1>2, <2>2 DEF CreateRun, Sound, TypeOK
<1>3. ASSUME NEW w \in Workers, Record(w) PROVE runs'[r] = runs[r]
  BY <1>3 DEF Record, Sound, OwnRun, TypeOK
<1>4. CASE Restart
  BY <1>4 DEF Restart, Recovered
<1>5. CASE User \/ Server
  BY <1>1, <1>5, RequestsMoveNobody
<1>6. CASE UNCHANGED vars
  BY <1>1, <1>6 DEF vars
<1> QED
  BY <1>1, <1>2, <1>3, <1>4, <1>5, <1>6
     DEF Next, Work, Gate, Refuse, Attempt, Conclude, Claim, PrepareFails, Settled, StartRun, StartMissing,
         Register, LaunchFails, Exit, AskDeletion, RecordMissing, Judge, Fail, Settle, AskApproval,
         SettleMissing, Load, StoreResult, Abandon

\* The ledger of runs is append-only: neither a late worker (UpdateRun) nor
\* recovery (RecoverInterrupted) rewrites a run that has ended.
THEOREM RunsStayFinal == Spec => RunsAreFinal
<1>1. Sound /\ [Next]_vars => [\A r \in RunIds : runs[r] \notin {"unused", "running"} => runs'[r] = runs[r]]_vars
  BY StepKeepsRuns
<1> QED
  BY <1>1, SoundHolds, PTL DEF Spec, RunsAreFinal

\* Besides a claim, only a write from an outdated view makes a task running.
LEMMA OnlyClaimsStart ==
    ASSUME Sound, [Next]_vars, NEW t \in Tasks \ disturbed', status[t] # "running", status'[t] = "running"
    PROVE  \E w \in Workers : Claim(w) /\ Claimable(t) /\ task'[w] = t
<1> USE QueueAssumption DEF QueueAssumption
<1> SUFFICES ASSUME ~ \E w \in Workers : Claim(w) PROVE FALSE
  <2>1. ASSUME NEW w \in Workers, Claim(w) PROVE Claimable(t) /\ task'[w] = t
    BY <2>1 DEF Claim, WriteRow, Sound, TypeOK
  <2> QED
    BY <2>1
<1>1. \A u \in Tasks : \A s, r : WriteRow(u, s, r) => (u = t /\ s = "running")
  BY DEF WriteRow, Sound, TypeOK
<1>2. ~ UNCHANGED rows
  BY DEF rows
<1>3. \A o \in BOOLEAN : Disturb(t, o) => ~o
  BY DEF Disturb, Sound, TypeOK
<1>4. ASSUME NEW w \in Workers, Gate(w) \/ Work(w) PROVE FALSE
  <2>1. CASE StartRun(w)
    <3>1. task[w] \in Tasks
      BY <2>1, HeldTypes DEF StartRun, Sound
    <3>2. task[w] = t
      BY <1>1, <2>1, <3>1 DEF StartRun
    <3>3. Row(t) = [status |-> "running", run |-> NoRun]
      BY <1>3, <2>1, <3>2 DEF StartRun
    <3> QED
      BY <3>3 DEF Row
  <2>2. CASE StoreResult(w)
    <3>1. task[w] \in Tasks
      BY <2>2, HeldTypes DEF StoreResult, Sound
    <3>2. task[w] = t /\ seen[w].status = "running"
      BY <1>1, <1>2, <2>2, <3>1 DEF StoreResult
    <3>3. Row(t) = seen[w]
      BY <1>2, <1>3, <2>2, <3>2 DEF StoreResult
    <3> QED
      BY <3>2, <3>3 DEF Row
  <2>3. CASE PrepareFails(w) \/ LaunchFails(w) \/ AskDeletion(w) \/ Fail(w) \/ Settle(w) \/ AskApproval(w)
    <3>1. task[w] \in Tasks
      BY <2>3, HeldTypes DEF PrepareFails, LaunchFails, AskDeletion, Fail, Settle, AskApproval, Sound
    <3>2. Settle(w) => Verdict(outcome[w]) # "running"
      BY DEF Settle, Verdict
    <3> QED
      BY <1>1, <1>2, <2>3, <3>1, <3>2 DEF PrepareFails, LaunchFails, AskDeletion, Fail, Settle, AskApproval, rows
  <2> QED
    BY <1>2, <1>4, <2>1, <2>2, <2>3
       DEF Work, Gate, Refuse, Attempt, Conclude, CreateRun, Settled, StartMissing, Aside,
           Register, Exit, Record, RecordMissing, Judge, SettleMissing, Load, Abandon
<1>5. ASSUME NEW e \in Editors, CommitEdit(e) PROVE FALSE
  <2>1. edit[e].phase = "loaded"
    BY <1>5 DEF CommitEdit
  <2>2. edit[e].task = t /\ Edited(edit[e].row, edit[e].to).status = "running"
    BY <1>1, <1>2, <1>5, <2>1, EditTypes DEF CommitEdit, rows, Sound
  <2>3. Row(t) = edit[e].row
    <3> DEFINE outdated == Row(t) # edit[e].row \/ (edit[e].to = "ready" /\ Owned(t))
    <3>1. Disturb(t, outdated)
      BY <1>2, <1>5, <2>2 DEF CommitEdit, rows
    <3> QED
      BY <3>1 DEF Disturb, Sound, TypeOK
  <2>4. edit[e].row.status = "running"
    BY <2>1, <2>2, EditTypes DEF Edited, RowSet, Sound
  <2> QED
    BY <2>3, <2>4 DEF Row
<1>6. CASE User \/ Server
  <2>1. CASE PauseWrite \/ ResumeWrite
    <3>1. \A e \in ctl.todo : e.task \in Tasks
      BY DEF Sound, TypeOK, CtlSet, Entries
    <3>2. PICK e \in ctl.todo : WriteRow(e.task, "waiting", e.key) \/ WriteRow(e.task, "ready", NoRun)
      BY <1>2, <2>1 DEF PauseWrite, ResumeWrite
    <3> QED
      BY <1>1, <3>1, <3>2
  <2>2. ASSUME NEW u \in Tasks,
               CreateTask(u) \/ RunNow(u) \/ Promote(u) \/ \E s \in {"ready", "waiting"} : Resolve(u, s)
        PROVE  FALSE
    BY <1>1, <1>2, <2>2 DEF CreateTask, RunNow, Promote, Resolve, rows
  <2> QED
    BY <1>2, <1>5, <1>6, <2>1, <2>2
       DEF User, Server, LoadEdit, CancelTask, SetLimit, Pause, Resume, ChatSetPaused,
           CopyActive, PauseCancel, ListWaiting, ListDue
<1>7. CASE Restart
  BY <1>7 DEF Restart
<1>8. CASE UNCHANGED vars
  BY <1>2, <1>8 DEF vars
<1> QED
  BY <1>4, <1>6, <1>7, <1>8 DEF Next

\* Dependencies: whatever step makes a task running, its prerequisites are
\* completed, cancelled or deleted in that state.
THEOREM StartsStayInOrder == Spec => StartsInOrder
<1>1. Sound /\ [Next]_vars =>
        [\A t \in Tasks \ disturbed' : (status[t] # "running" /\ status'[t] = "running") =>
            \A p \in Prereq[t] : status[p] \in Resolved]_vars
  BY OnlyClaimsStart DEF Claimable
<1> QED
  BY <1>1, SoundHolds, PTL DEF Spec, StartsInOrder

\* A claim makes one task running, and counts before it does.
LEMMA GrowthByClaim ==
    ASSUME Sound, [Next]_vars, disturbed' = {}, RunningCount' > RunningCount
    PROVE  RunningCount' <= limit
<1> DEFINE before == {t \in Tasks : status[t] = "running"}
           after  == {t \in Tasks : status'[t] = "running"}
<1>1. /\ IsFiniteSet(before) /\ IsFiniteSet(after)
      /\ Cardinality(before) \in Nat /\ Cardinality(after) \in Nat
  BY TasksAreFinite, FS_Subset, FS_CardinalityType
<1>2. RunningCount = Cardinality(before) /\ RunningCount' = Cardinality(after)
  BY DEF RunningCount
<1>3. PICK t \in after : t \notin before
  <2>1. CASE after \subseteq before
    <3>1. Cardinality(after) <= Cardinality(before)
      BY <1>1, <2>1, FS_Subset
    <3> QED
      BY <1>1, <1>2, <3>1
  <2> QED
    BY <2>1
<1>4. PICK w \in Workers : Claim(w) /\ Claimable(t) /\ task'[w] = t
  BY <1>3, OnlyClaimsStart
<1>5. PICK u \in Tasks : WriteRow(u, "running", runId[u]) /\ task' = [task EXCEPT ![w] = u]
  BY <1>4 DEF Claim
<1>6. u = t
  BY <1>4, <1>5 DEF Sound, TypeOK
<1>7. after = before \cup {t}
  BY <1>3, <1>5, <1>6 DEF WriteRow, Sound, TypeOK
<1>8. Cardinality(after) = Cardinality(before) + 1
  BY <1>1, <1>3, <1>7, FS_AddElement
<1>9. RunningCount < limit /\ limit \in Nat
  BY <1>4, QueueAssumption DEF Claimable, Sound, TypeOK, QueueAssumption
<1> QED
  BY <1>1, <1>2, <1>8, <1>9

\* The limit: no step of workers, edits, pauses or restarts raises the number of
\* running tasks above it, for any number of tasks and workers (ClaimNextReadyTask).
THEOREM GrowthStaysWithinLimit == Spec => GrowthWithinLimit
<1>1. Sound /\ [Next]_vars =>
        [disturbed' = {} /\ RunningCount' > RunningCount => RunningCount' <= limit]_vars
  BY GrowthByClaim
<1> QED
  BY <1>1, SoundHolds, PTL DEF Spec, GrowthWithinLimit

-----------------------------------------------------------------------------
\* Ownership.

\* Ownership, said of one task.
OwnedWell(t) ==
    /\ \A v, w \in Workers : Owns(v, t) /\ Owns(w, t) => v = w
    /\ status[t] = "running" => Owned(t)
    /\ \A w \in Workers : Owns(w, t) =>
        /\ status[t] \in {"running", "needs_approval"} =>
             runId[t] = IF pc[w] \in {"claimed", "created"} THEN NoRun ELSE run[w]
        /\ \/ status[t] \in {"running", "waiting", "cancelled", "deleted"}
           \/ status[t] = "needs_approval" /\ outcome[w] \in {"deletes", "invalid"}

LEMMA OwnershipByTask == Ownership <=> \A t \in Tasks \ disturbed : OwnedWell(t)
BY DEF Ownership, ExclusiveOwner, RunningIsOwned, OwnerIsNamed, OwnedIsUnsettled, OwnedWell

LEMMA OwnershipByTaskNext == Ownership' <=> \A t \in Tasks \ disturbed' : OwnedWell(t)'
BY DEF Ownership, ExclusiveOwner, RunningIsOwned, OwnerIsNamed, OwnedIsUnsettled, OwnedWell

\* A step that changes neither the row nor its owners.
LEMMA SameOwners ==
    ASSUME NEW t \in Tasks, OwnedWell(t), status'[t] = status[t], runId'[t] = runId[t],
           \A w \in Workers : Owns(w, t)' <=> Owns(w, t),
           \A w \in Workers : Owns(w, t) =>
                /\ run'[w] = run[w] \/ pc[w] \in {"claimed", "created"}
                /\ outcome[w] \in {"deletes", "invalid"} => outcome'[w] \in {"deletes", "invalid"}
                /\ pc'[w] \in {"claimed", "created"} <=> pc[w] \in {"claimed", "created"}
    PROVE  OwnedWell(t)'
BY DEF OwnedWell, Owned

\* A task that nobody owns any more, and that is not running.
LEMMA NobodyOwns ==
    ASSUME NEW t \in Tasks, \A w \in Workers : ~Owns(w, t)', status'[t] # "running"
    PROVE  OwnedWell(t)'
BY DEF OwnedWell

\* A request rewrote the row of a task: its owner, if any, notices later.
LEMMA RequestWrote ==
    ASSUME NEW t \in Tasks, OwnedWell(t), UNCHANGED wrk, status'[t] # "running",
           \/ status'[t] \in {"waiting", "cancelled", "deleted"}
           \/ ~Owned(t)
    PROVE  OwnedWell(t)'
<1>1. \A w \in Workers : Owns(w, t)' <=> Owns(w, t)
  BY DEF Owns, wrk
<1> QED
  BY <1>1 DEF OwnedWell, Owned

\* The row names one run, and one worker carries it.
LEMMA NamedOwner ==
    ASSUME Sound, NEW w \in Workers, NEW t \in Tasks, OwnedWell(t), run[w] # NoRun, runId[t] = run[w],
           status[t] \in {"running", "needs_approval"}, NEW v \in Workers, Owns(v, t)
    PROVE  v = w
<1>1. run[v] = run[w]
  BY DEF OwnedWell, Sound, Holdings, PlaceSaysWhat
<1> QED
  BY <1>1 DEF Sound, OwnRun

\* A step of w leaves the tasks alone that w does not hold.
LEMMA OthersStay ==
    ASSUME Sound, NEW w \in Workers, Gate(w) \/ Work(w), ~Claim(w), NEW t \in Tasks, t # task[w]
    PROVE  /\ status'[t] = status[t] /\ runId'[t] = runId[t]
           /\ \A v \in Workers \ {w} : /\ pc'[v] = pc[v] /\ task'[v] = task[v] /\ run'[v] = run[v]
                                       /\ ctx'[v] = ctx[v] /\ outcome'[v] = outcome[v]
           /\ \A v \in Workers : Owns(v, t)' <=> Owns(v, t)
           /\ ~Owns(w, t)
           /\ t \in disturbed' <=> t \in disturbed
<1> USE QueueAssumption DEF QueueAssumption
<1>1. /\ \A v \in Workers \ {w} :
          pc'[v] = pc[v] /\ task'[v] = task[v] /\ run'[v] = run[v] /\ ctx'[v] = ctx[v] /\ outcome'[v] = outcome[v]
      /\ task'[w] \in {task[w], NoTask}
  BY DEF Sound, TypeOK, Gate, Work, Refuse, Attempt, Conclude, PrepareFails, CreateRun, Goto, Finish, Settled,
         StartRun, StartMissing, Register, LaunchFails, Exit, AskDeletion, Record, RecordMissing, Judge,
         Fail, Settle, AskApproval, SettleMissing, Load, StoreResult, Abandon
<1>2. status'[t] = status[t] /\ runId'[t] = runId[t]
  BY DEF Sound, TypeOK, rows, WriteRow, Aside, Gate, Work, Refuse, Attempt, Conclude, PrepareFails, CreateRun,
         StartRun, StartMissing, Register, LaunchFails, Exit, AskDeletion, Record, RecordMissing, Judge, Settled,
         Fail, Settle, AskApproval, SettleMissing, Load, StoreResult, Abandon
<1>3. ~Owns(w, t) /\ ~Owns(w, t)'
  BY <1>1 DEF Owns
<1>4. t \in disturbed' <=> t \in disturbed
  BY DEF Disturb, Gate, Work, Refuse, Attempt, Conclude, PrepareFails, CreateRun, Settled,
         StartRun, StartMissing, Register, LaunchFails, Exit, AskDeletion, Record, RecordMissing, Judge,
         Fail, Settle, AskApproval, SettleMissing, Load, StoreResult, Abandon
<1> QED
  BY <1>1, <1>2, <1>3, <1>4 DEF Owns

LEMMA OtherTasks ==
    ASSUME Sound, NEW w \in Workers, Gate(w) \/ Work(w), ~Claim(w), NEW t \in Tasks, t # task[w], OwnedWell(t)
    PROVE  OwnedWell(t)'
<1>1. \A v \in Workers : Owns(v, t) => v # w
  BY OthersStay
<1> QED
  BY <1>1, OthersStay, SameOwners

\* w gives the task up and leaves the row as it is.
LEMMA Leaves ==
    ASSUME TypeOK, NEW w \in Workers, NEW t \in Tasks, OwnedWell(t), Finish(w) \/ ~Owns(w, t)',
           status'[t] = status[t], runId'[t] = runId[t],
           \A v \in Workers \ {w} : /\ pc'[v] = pc[v] /\ task'[v] = task[v] /\ run'[v] = run[v]
                                    /\ ctx'[v] = ctx[v] /\ outcome'[v] = outcome[v],
           Owns(w, t) => status[t] # "running"
    PROVE  OwnedWell(t)'
<1>1. ~Owns(w, t)'
  BY DEF Finish, Owns, Owning, TypeOK
<1>2. \A v \in Workers \ {w} : Owns(v, t)' <=> Owns(v, t)
  BY DEF Owns
<1> QED
  BY <1>1, <1>2 DEF OwnedWell, Owned

\* What w's own step does to the task it holds.
LEMMA OwnTask ==
    ASSUME Sound, NEW w \in Workers, Work(w), pc[w] \notin {"idle", "gated"},
           NEW t \in Tasks, task[w] = t, t \notin disturbed', OwnedWell(t)
    PROVE  OwnedWell(t)'
<1> USE QueueAssumption DEF QueueAssumption
<1>1. run[w] \in RunRefs
  BY HeldTypes DEF Sound
<1>2. \A outdated \in BOOLEAN : Disturb(t, outdated) => ~outdated
  BY <1>1 DEF Disturb, Sound, TypeOK
<1>3. \A v \in Workers \ {w} : /\ pc'[v] = pc[v] /\ task'[v] = task[v] /\ run'[v] = run[v]
                                /\ ctx'[v] = ctx[v] /\ outcome'[v] = outcome[v]
  BY DEF Sound, TypeOK, Gate, Work, Refuse, Attempt, Conclude, PrepareFails, CreateRun, Goto, Finish, Settled,
         StartRun, StartMissing, Register, LaunchFails, Exit, AskDeletion, Record, RecordMissing, Judge,
         Fail, Settle, AskApproval, SettleMissing, Load, StoreResult, Abandon, Claim
<1>4. Finish(w) => ~Owns(w, t)'
  BY DEF Finish, Owns, Owning, Sound, TypeOK
<1>5. ASSUME NEW v \in Workers \ {w} PROVE Owns(v, t)' <=> Owns(v, t)
  BY <1>3 DEF Owns
<1>6. \A s, r : WriteRow(t, s, r) => status'[t] = s /\ runId'[t] = r
  BY <1>1 DEF WriteRow, Sound, TypeOK
\* Steps that leave the row and keep the task.
<1>7. CASE CreateRun(w)
  <2>1. Owns(w, t) /\ Owns(w, t)' /\ UNCHANGED rows
    BY <1>7 DEF CreateRun, Owns, Owning, Sound, TypeOK
  <2>2. pc'[w] = "created" /\ pc[w] = "claimed" /\ outcome' = outcome
    BY <1>7 DEF CreateRun, Sound, TypeOK
  <2> QED
    BY <1>1, <1>3, <1>5, <2>1, <2>2, SameOwners DEF rows
<1>8. CASE Register(w) \/ (\E o \in Outcomes : Exit(w, o)) \/ Record(w)
           \/ (AskDeletion(w) /\ UNCHANGED rows) \/ (Judge(w) /\ ~Finish(w))
  <2>1. UNCHANGED <<rows, task, run, ctx>>
    BY <1>8 DEF Register, Exit, Record, AskDeletion, Judge, Goto
  <2>2. pc[w] \in Owning \ {"claimed", "created"} /\ pc'[w] \in Owning \ {"claimed", "created"}
    BY <1>8 DEF Register, Exit, Record, AskDeletion, Judge, Goto, Owning, Sound, TypeOK
  <2>3. outcome[w] \in {"deletes", "invalid"} => outcome'[w] \in {"deletes", "invalid"}
    BY <1>8 DEF Register, Exit, Record, AskDeletion, Judge, Goto, Sound, TypeOK, Holdings, PlaceSaysWhat
  <2>4. Owns(w, t)' <=> Owns(w, t)
    BY <2>1, <2>2 DEF Owns
  <2> QED
    BY <1>1, <1>3, <1>5, <2>1, <2>2, <2>3, <2>4, SameOwners DEF rows
\* Steps that write what the row should say.
<1>9. CASE StartRun(w)
  <2>1. Row(t) = [status |-> "running", run |-> NoRun] /\ status'[t] = "running" /\ runId'[t] = run[w]
    BY <1>2, <1>6, <1>9 DEF StartRun
  <2>2. ctx[w] = "live"
    BY <1>9 DEF StartRun, Sound, Holdings, PlaceSaysWhat, Registered, TypeOK
  <2>3. Owns(w, t) /\ Owns(w, t)' /\ pc'[w] = "started" /\ run' = run
    BY <1>9, <2>2 DEF StartRun, Goto, Owns, Owning, Sound, TypeOK
  <2> QED
    BY <1>1, <1>5, <2>1, <2>3 DEF OwnedWell, Owned
<1>10. CASE AskDeletion(w) /\ ~UNCHANGED rows
  <2>1. /\ Row(t) = [status |-> "running", run |-> run[w]]
        /\ status'[t] = "needs_approval" /\ runId'[t] = runId[t]
    BY <1>2, <1>6, <1>10 DEF AskDeletion
  <2>2. run[w] # NoRun /\ outcome'[w] = "deletes" /\ UNCHANGED <<pc, run>>
    BY <1>10 DEF AskDeletion, Sound, Holdings, PlaceSaysWhat, TypeOK
  <2>3. \A v \in Workers : Owns(v, t) => v = w
    BY <1>1, <2>1, <2>2, NamedOwner DEF Row
  <2>4. Owns(w, t)' => pc[w] \notin {"claimed", "created"}
    BY <1>10, <2>2 DEF AskDeletion
  <2> QED
    BY <1>1, <1>5, <2>1, <2>2, <2>3, <2>4 DEF OwnedWell, Owned, Row
<1>11. CASE PrepareFails(w) /\ Exists(status[t])
  <2>1. Owns(w, t) /\ ~Owns(w, t)' /\ status'[t] # "running"
    BY <1>4, <1>6, <1>11 DEF PrepareFails, Owns, Owning
  <2> QED
    BY <1>1, <1>5, <2>1, NobodyOwns DEF OwnedWell
<1>12. CASE (LaunchFails(w) \/ Fail(w)) /\ Exists(status[t])
  <2>1. Row(t) \in HeldRows(w) /\ status'[t] # "running" /\ ~Owns(w, t)'
    <3>1. CASE LaunchFails(w)
      <4>1. Row(t) = [status |-> "running", run |-> run[w]] /\ status'[t] = "failed"
        BY <1>2, <1>6, <1>12, <3>1 DEF LaunchFails
      <4> QED
        BY <1>4, <3>1, <4>1 DEF LaunchFails, HeldRows
    <3>2. CASE Fail(w)
      <4>1. Row(t) \in HeldRows(w) /\ status'[t] = "failed"
        BY <1>2, <1>6, <1>12, <3>2 DEF Fail
      <4> QED
        BY <1>4, <3>2, <4>1 DEF Fail
    <3> QED
      BY <1>12, <3>1, <3>2
  <2>2. run[w] # NoRun
    BY <1>12 DEF LaunchFails, Fail, Sound, Holdings, PlaceSaysWhat
  <2>3. \A v \in Workers : Owns(v, t) => v = w
    BY <1>1, <2>1, <2>2, NamedOwner DEF Row, HeldRows
  <2> QED
    BY <1>1, <1>5, <2>1, <2>3, NobodyOwns
<1>13. CASE Settle(w) \/ (AskApproval(w) /\ status[t] \notin Terminal)
  <2>1. Row(t) \in HeldRows(w) /\ status'[t] # "running"
    BY <1>2, <1>6, <1>13 DEF Settle, AskApproval, HeldRows, Verdict
  <2>2. run[w] # NoRun /\ ~Owns(w, t)'
    BY <1>13 DEF Settle, AskApproval, Goto, Owns, Owning, Sound, TypeOK, Holdings, PlaceSaysWhat
  <2>3. \A v \in Workers : Owns(v, t) => v = w
    BY <1>1, <2>1, <2>2, NamedOwner DEF Row, HeldRows
  <2> QED
    BY <1>1, <1>5, <2>1, <2>2, <2>3, NobodyOwns
\* Steps that leave the row and give the task up.
<1>14. CASE AskApproval(w) /\ status[t] \in Terminal
  <2>1. UNCHANGED rows /\ ~Owns(w, t)'
    BY <1>14 DEF AskApproval, Goto, Owns, Owning, Sound, TypeOK
  <2> QED
    BY <1>1, <1>3, <1>14, <2>1, Leaves DEF rows, Terminal, Sound
<1>15. CASE Finish(w) /\ UNCHANGED rows /\ (Owns(w, t) => status[t] # "running")
  BY <1>1, <1>3, <1>15, Leaves DEF rows, Sound
<1>16. CASE /\ StartMissing(w) \/ RecordMissing(w) \/ SettleMissing(w) \/ PrepareFails(w)
                \/ LaunchFails(w) \/ Fail(w)
            /\ ~Exists(status[t])
  BY <1>15, <1>16 DEF StartMissing, RecordMissing, SettleMissing, PrepareFails, LaunchFails, Fail, Settled,
                      Exists, rows
<1>17. CASE Judge(w) /\ Finish(w)
  <2>1. Owns(w, t) /\ status[t] = "running" => runId[t] = run[w]
    BY <1>1, <1>17 DEF OwnedWell, Judge
  <2>2. CASE StillOurs(w)
    BY <1>17, <2>2 DEF Judge, Goto, Finish, Sound, TypeOK
  <2>3. CASE ~StillOurs(w)
    BY <1>15, <1>17, <2>1, <2>3 DEF StillOurs, Exists, Judge
  <2> QED
    BY <2>2, <2>3
\* The task was given up before.
<1>18. CASE Load(w) \/ StoreResult(w) \/ Abandon(w)
  <2>1. ~Owns(w, t) /\ ~Owns(w, t)'
    BY <1>4, <1>18 DEF Load, StoreResult, Abandon, Settled, Owns, Owning, Sound, TypeOK
  <2>2. status'[t] = status[t] /\ runId'[t] = runId[t]
    <3>1. CASE UNCHANGED rows
      BY <3>1 DEF rows
    <3>2. CASE StoreResult(w) /\ Exists(status[t])
      <4>1. Row(t) = seen[w] /\ status'[t] = seen[w].status /\ runId'[t] = seen[w].run
        BY <1>2, <1>6, <3>2 DEF StoreResult
      <4> QED
        BY <4>1 DEF Row
    <3> QED
      BY <1>18, <3>1, <3>2 DEF Load, StoreResult, Abandon, Settled, rows
  <2> QED
    BY <1>1, <1>3, <2>1, <2>2, Leaves DEF Sound
<1> QED
  BY <1>7, <1>8, <1>9, <1>10, <1>11, <1>12, <1>13, <1>14, <1>16, <1>17, <1>18
     DEF Work, Refuse, Attempt, Conclude, Claim, StartMissing, RecordMissing, SettleMissing

\* Nobody owns a task that is ready: the claim is exclusive.
LEMMA ClaimedTask ==
    ASSUME Sound, NEW w \in Workers, Claim(w), NEW t \in Tasks, OwnedWell(t)
    PROVE  OwnedWell(t)'
<1> USE QueueAssumption DEF QueueAssumption
<1>1. PICK u \in Tasks : /\ Claimable(u)
                         /\ WriteRow(u, "running", runId[u])
                         /\ task' = [task EXCEPT ![w] = u]
  BY DEF Claim
<1>2. task[w] = NoTask /\ pc' = [pc EXCEPT ![w] = "claimed"] /\ UNCHANGED <<run, ctx, outcome>>
  BY DEF Claim, Sound, Holdings, PlaceSaysWhat
<1>3. \A v \in Workers \ {w} : Owns(v, t)' <=> Owns(v, t)
  BY <1>1, <1>2 DEF Owns, Sound, TypeOK
<1>4. ~Owns(w, t)
  BY <1>2 DEF Owns
<1>5. CASE u # t
  <2>1. ~Owns(w, t)'
    BY <1>1, <1>5 DEF Owns, Sound, TypeOK
  <2>2. status'[t] = status[t] /\ runId'[t] = runId[t]
    BY <1>1, <1>5 DEF WriteRow, Sound, TypeOK
  <2>3. \A v \in Workers : Owns(v, t) => pc'[v] = pc[v]
    BY <1>2, <1>4 DEF Sound, TypeOK
  <2> QED
    BY <1>2, <1>3, <1>4, <2>1, <2>2, <2>3, SameOwners
<1>6. CASE u = t
  <2>1. status[t] = "ready"
    BY <1>1, <1>6 DEF Claimable
  <2>2. runId[t] = NoRun
    BY <2>1 DEF Sound, QueuedIsClean, CleanRow, Row
  <2>3. \A v \in Workers : ~Owns(v, t)
    BY <2>1 DEF OwnedWell
  <2>4. status'[t] = "running" /\ runId'[t] = NoRun
    BY <1>1, <1>6, <2>2 DEF WriteRow, Sound, TypeOK
  <2>5. pc'[w] = "claimed" /\ task'[w] = t
    BY <1>1, <1>2, <1>6 DEF Sound, TypeOK
  <2>6. ctx[w] = "live"
    BY DEF Claim, Sound, Holdings, PlaceSaysWhat
  <2>7. Owns(w, t)'
    BY <1>2, <2>5, <2>6 DEF Owns, Owning
  <2> QED
    BY <1>3, <2>3, <2>4, <2>5, <2>7 DEF OwnedWell, Owned
<1> QED
  BY <1>5, <1>6

LEMMA WorkOwnership ==
    ASSUME Sound, Ownership, NEW w \in Workers, Gate(w) \/ Work(w)
    PROVE  Ownership'
<1> USE QueueAssumption DEF QueueAssumption
<1>1. disturbed \subseteq disturbed'
  BY DEF Gate, Work, Refuse, Attempt, Conclude, Claim, PrepareFails, CreateRun, Settled, Disturb,
         StartRun, StartMissing, Register, LaunchFails, Exit, AskDeletion, Record, RecordMissing, Judge,
         Fail, Settle, AskApproval, SettleMissing, Load, StoreResult, Abandon
<1>2. ASSUME NEW t \in Tasks \ disturbed' PROVE OwnedWell(t)'
  <2>1. OwnedWell(t)
    BY <1>1, <1>2, OwnershipByTask
  <2>2. CASE Claim(w)
    BY <2>1, <2>2, ClaimedTask
  <2>3. CASE ~Claim(w) /\ t # task[w]
    BY <2>1, <2>3, OtherTasks
  <2>4. CASE t = task[w]
    <3>1. pc[w] \notin {"idle", "gated"}
      BY <2>4 DEF Sound, Holdings, PlaceSaysWhat
    <3>2. Work(w)
      BY <3>1 DEF Gate
    <3> QED
      BY <2>1, <2>4, <3>1, <3>2, OwnTask
  <2> QED
    BY <2>2, <2>3, <2>4
<1> QED
  BY <1>2, OwnershipByTaskNext

\* Cancelled workers stop owning; a task that is not running may lose its owner.
LEMMA CancelledOwners ==
    ASSUME Sound, NEW t \in Tasks, OwnedWell(t), UNCHANGED <<rows, pc, task, run, outcome>>,
           \A w \in Workers : ctx'[w] # ctx[w] => ctx'[w] # "live",
           \/ status[t] # "running"
           \/ \A w \in Workers : Owns(w, t) => ctx'[w] = ctx[w]
    PROVE  OwnedWell(t)'
<1>1. \A w \in Workers : Owns(w, t)' => Owns(w, t)
  BY DEF Owns
<1>2. status[t] = "running" => \A w \in Workers : Owns(w, t) => Owns(w, t)'
  BY DEF Owns
<1> QED
  BY <1>1, <1>2 DEF OwnedWell, Owned, rows

LEMMA CancelOwnership ==
    ASSUME Sound, Ownership, CancelIsMarked, (\E e \in Editors : CancelTask(e)) \/ PauseCancel
    PROVE  Ownership'
<1> USE QueueAssumption DEF QueueAssumption
<1>1. UNCHANGED <<rows, pc, task, run, outcome>> /\ disturbed \subseteq disturbed'
  BY DEF CancelTask, PauseCancel, Disturb
<1>2. ASSUME NEW w \in Workers, ctx'[w] # ctx[w] PROVE ctx'[w] # "live"
  BY <1>2 DEF CancelTask, PauseCancel, Cancelled, Sound, TypeOK
<1>3. ASSUME NEW t \in Tasks \ disturbed', NEW w \in Workers, Owns(w, t), ctx'[w] # ctx[w]
      PROVE  status[t] # "running"
  <2>1. ASSUME NEW e \in Editors, CancelTask(e) PROVE status[t] # "running"
    <3>1. PICK a \in ActiveRuns : a.task = edit[e].task /\ a.worker = w
      BY <1>3, <2>1 DEF CancelTask
    <3>2. edit[e].task = t
      BY <1>3, <3>1, ActiveRunsAreHeld DEF EntryIsHeld, Owns, Sound
    <3> QED
      BY <1>3, <2>1, <3>2 DEF CancelTask, Disturb
  <2>2. CASE PauseCancel
    <3>1. ctl.cur.worker = w /\ w # NoWorker
      BY <1>3, <2>2 DEF PauseCancel, Sound, TypeOK
    <3>2. ctl.cur.task = t
      BY <1>3, <3>1 DEF Sound, Holdings, CancelsAreHeld, EntryIsHeld, Owns
    <3> QED
      BY <1>1, <1>3, <3>1, <3>2 DEF CancelIsMarked
  <2> QED
    BY <2>1, <2>2
<1>4. ASSUME NEW t \in Tasks \ disturbed' PROVE OwnedWell(t)'
  <2>1. OwnedWell(t)
    BY <1>1, <1>4, OwnershipByTask
  <2> QED
    BY <1>1, <1>2, <1>3, <2>1, CancelledOwners
<1> QED
  BY <1>4, OwnershipByTaskNext

\* A row rewritten by a request.
LEMMA RewriteOwnership ==
    ASSUME Sound, Ownership, UNCHANGED wrk, disturbed \subseteq disturbed',
           NEW u \in Tasks, NEW s, NEW r, WriteRow(u, s, r),
           u \notin disturbed' => s # "running" /\ (s \in {"waiting", "cancelled", "deleted"} \/ ~Owned(u))
    PROVE  Ownership'
<1>1. ASSUME NEW t \in Tasks \ disturbed' PROVE OwnedWell(t)'
  <2>1. OwnedWell(t)
    BY <1>1, OwnershipByTask
  <2>2. CASE t = u
    <3>1. status'[t] = s
      BY <2>2 DEF WriteRow, Sound, TypeOK
    <3> QED
      BY <1>1, <2>1, <2>2, <3>1, RequestWrote
  <2>3. CASE t # u
    <3>1. status'[t] = status[t] /\ runId'[t] = runId[t]
      BY <2>3 DEF WriteRow, Sound, TypeOK
    <3>2. \A w \in Workers : Owns(w, t)' <=> Owns(w, t)
      BY DEF Owns, wrk
    <3> QED
      BY <2>1, <3>1, <3>2, SameOwners DEF wrk
  <2> QED
    BY <2>2, <2>3
<1> QED
  BY <1>1, OwnershipByTaskNext

LEMMA IdleOwnership ==
    ASSUME Sound, Ownership, UNCHANGED <<rows, wrk>>, disturbed \subseteq disturbed'
    PROVE  Ownership'
BY DEF Ownership, ExclusiveOwner, RunningIsOwned, OwnerIsNamed, OwnedIsUnsettled, Owned, Owns, rows, wrk

LEMMA UnownedRows ==
    ASSUME Ownership, NEW t \in Tasks \ disturbed, status[t] \in {"absent", "idea", "ready"}
    PROVE  ~Owned(t)
BY DEF Ownership, OwnedIsUnsettled, Owned

LEMMA EditOwnership ==
    ASSUME Sound, Ownership, NEW e \in Editors, CommitEdit(e)
    PROVE  Ownership'
<1> DEFINE t == edit[e].task
           new == Edited(edit[e].row, edit[e].to)
           outdated == Row(t) # edit[e].row \/ (edit[e].to = "ready" /\ Owned(t))
<1>1. edit[e].phase = "loaded" /\ UNCHANGED wrk /\ disturbed \subseteq disturbed'
  BY DEF CommitEdit, Disturb
<1>2. t \in Tasks /\ edit[e].to \in Targets(edit[e].row.status) /\ edit[e].row \in RowSet
  BY <1>1, EditTypes DEF Sound, Holdings, EditsAreLegal
<1>3. CASE UNCHANGED rows
  BY <1>1, <1>3, IdleOwnership
<1>4. CASE WriteRow(t, new.status, new.run) /\ Disturb(t, outdated)
  <2>1. CASE t \in disturbed'
    BY <1>1, <1>2, <1>4, <2>1, RewriteOwnership
  <2>2. CASE t \notin disturbed'
    <3>1. Row(t) = edit[e].row /\ (edit[e].to = "ready" => ~Owned(t)) /\ t \notin disturbed
      BY <1>1, <1>4, <2>2 DEF Disturb
    <3>2. CASE edit[e].to = "same"
      <4>1. UNCHANGED rows
        BY <1>2, <1>4, <3>1, <3>2 DEF Edited, Row, WriteRow, rows, Sound, TypeOK
      <4> QED
        BY <1>1, <4>1, IdleOwnership
    <3>3. CASE edit[e].to \in {"cancelled", "deleted", "ready"}
      <4>1. new.status = edit[e].to
        BY <1>2, <3>3 DEF Edited, RowSet
      <4> QED
        BY <1>1, <1>2, <1>4, <3>1, <3>3, <4>1, RewriteOwnership
    <3>4. CASE edit[e].to = "idea"
      <4>1. status[t] = "ready" /\ new.status = "idea"
        BY <1>2, <3>1, <3>4 DEF Targets, Row, Edited, RowSet
      <4>2. ~Owned(t)
        BY <1>2, <3>1, <4>1, UnownedRows
      <4> QED
        BY <1>1, <1>2, <1>4, <4>1, <4>2, RewriteOwnership
    <3> QED
      BY <1>1, EditTypes, <3>2, <3>3, <3>4 DEF Sound
  <2> QED
    BY <2>1, <2>2
<1> QED
  BY <1>3, <1>4 DEF CommitEdit

LEMMA PauseOwnership ==
    ASSUME Sound, Ownership, PauseWrite \/ ResumeWrite
    PROVE  Ownership'
<1>1. UNCHANGED wrk /\ disturbed \subseteq disturbed'
  BY DEF PauseWrite, ResumeWrite, Disturb
<1>2. CASE UNCHANGED rows
  BY <1>1, <1>2, IdleOwnership
<1>3. \A e \in ctl.todo : e.task \in Tasks
  BY DEF Sound, TypeOK, CtlSet, Entries
<1>4. CASE PauseWrite /\ ~UNCHANGED rows
  <2>1. PICK e \in ctl.todo : WriteRow(e.task, "waiting", e.key)
    BY <1>4 DEF PauseWrite
  <2> QED
    BY <1>1, <1>3, <2>1, RewriteOwnership
<1>5. CASE ResumeWrite /\ ~UNCHANGED rows
  <2> DEFINE outdated(e) == Row(e.task) # [status |-> "waiting", run |-> e.key] \/ Owned(e.task)
  <2>1. PICK e \in ctl.todo : WriteRow(e.task, "ready", NoRun) /\ Disturb(e.task, outdated(e))
    BY <1>5 DEF ResumeWrite, rows
  <2>2. e.task \notin disturbed' => ~Owned(e.task)
    BY <2>1 DEF Disturb
  <2> QED
    BY <1>1, <1>3, <2>1, <2>2, RewriteOwnership
<1> QED
  BY <1>2, <1>4, <1>5

LEMMA RequestOwnership ==
    ASSUME Sound, Ownership, CancelIsMarked, User \/ Server
    PROVE  Ownership'
<1>1. ASSUME NEW t \in Tasks, CreateTask(t) \/ RunNow(t) PROVE Ownership'
  <2>1. UNCHANGED <<wrk, disturbed>> /\ status[t] \in {"absent", "idea", "ready"}
    BY <1>1 DEF CreateTask, RunNow
  <2>2. PICK s \in {"ready", "idea"} : \E r : WriteRow(t, s, r)
    BY <1>1 DEF CreateTask, RunNow
  <2> QED
    BY <2>1, <2>2, UnownedRows, RewriteOwnership
<1>2. ASSUME NEW t \in Tasks, NEW s \in {"ready", "waiting"}, Resolve(t, s) PROVE Ownership'
  <2>1. UNCHANGED wrk /\ disturbed \subseteq disturbed'
    BY <1>2 DEF Resolve, Disturb
  <2>2. CASE UNCHANGED rows
    BY <2>1, <2>2, IdleOwnership
  <2>3. CASE WriteRow(t, s, NoRun) /\ Disturb(t, Owned(t))
    <3>1. t \notin disturbed' => ~Owned(t)
      BY <2>3 DEF Disturb
    <3> QED
      BY <2>1, <2>3, <3>1, RewriteOwnership
  <2> QED
    BY <1>2, <2>2, <2>3 DEF Resolve
<1>3. ASSUME NEW t \in Tasks, Promote(t) PROVE Ownership'
  <2> DEFINE outdated == Row(t) # [status |-> "idea", run |-> NoRun]
  <2>1. UNCHANGED wrk /\ disturbed \subseteq disturbed'
    BY <1>3 DEF Promote, Disturb, wrk
  <2>2. CASE UNCHANGED rows
    BY <2>1, <2>2, IdleOwnership
  <2>3. CASE WriteRow(t, "ready", NoRun) /\ Disturb(t, outdated)
    <3>1. t \notin disturbed' => t \notin disturbed /\ status[t] = "idea"
      BY <2>3 DEF Disturb, Row
    <3>2. t \notin disturbed' => ~Owned(t)
      BY <3>1, UnownedRows
    <3> QED
      BY <2>1, <2>3, <3>2, RewriteOwnership
  <2> QED
    BY <1>3, <2>2, <2>3 DEF Promote
<1>4. CASE UNCHANGED <<rows, wrk, disturbed>>
  BY <1>4, IdleOwnership
<1>5. ASSUME NEW e \in Editors, LoadEdit(e) PROVE Ownership'
  BY <1>4, <1>5 DEF LoadEdit
<1>6. CASE SetLimit \/ Pause \/ Resume \/ ChatSetPaused \/ CopyActive \/ ListWaiting \/ ListDue
  BY <1>4, <1>6 DEF SetLimit, Pause, Resume, ChatSetPaused, CopyActive, ListWaiting, ListDue
<1> QED
  BY <1>1, <1>2, <1>3, <1>5, <1>6, EditOwnership, PauseOwnership, CancelOwnership DEF User, Server

LEMMA RestartOwnership ==
    ASSUME TypeOK, Restart PROVE Ownership'
<1>1. \A w \in Workers, t \in Tasks : ~Owns(w, t)'
  BY DEF Restart, Owns, Owning
<1>2. \A t \in Tasks : status'[t] # "running"
  BY DEF Restart
<1> QED
  BY <1>1, <1>2, OwnershipByTaskNext, NobodyOwns

\* Nobody starts to own a task except by a claim.
LEMMA OnlyClaimsOwn ==
    ASSUME Sound, Next, NEW w \in Workers, NEW t \in Tasks, Owns(w, t)', ~Owns(w, t)
    PROVE  Claim(w)
<1> USE QueueAssumption DEF QueueAssumption
<1>1. ASSUME NEW v \in Workers, Gate(v) \/ Work(v), ~Claim(v) PROVE FALSE
  <2>1. /\ task'[w] \in {task[w], NoTask}
        /\ ctx'[w] = ctx[w] \/ pc'[w] = "idle"
    BY <1>1 DEF Sound, TypeOK, Gate, Work, Refuse, Attempt, Conclude, PrepareFails, CreateRun, Goto, Finish, Settled,
         StartRun, StartMissing, Register, LaunchFails, Exit, AskDeletion, Record, RecordMissing, Judge,
         Fail, Settle, AskApproval, SettleMissing, Load, StoreResult, Abandon
  <2>2. pc'[w] \in Owning => pc[w] \in Owning
    BY <1>1 DEF Sound, TypeOK, Gate, Work, Refuse, Attempt, Conclude, PrepareFails, CreateRun, Goto, Finish, Settled,
         StartRun, StartMissing, Register, LaunchFails, Exit, AskDeletion, Record, RecordMissing, Judge,
         Fail, Settle, AskApproval, SettleMissing, Load, StoreResult, Abandon, Owning
  <2> QED
    BY <2>1, <2>2 DEF Owns, Owning
<1>2. ASSUME NEW v \in Workers, Claim(v) PROVE v = w
  BY <1>2 DEF Claim, Owns, Sound, TypeOK
<1>3. CASE User \/ Server
  <2>1. UNCHANGED <<pc, task>>
    BY <1>3, RequestsMoveNobody
  <2>2. ctx'[w] # ctx[w] => ctx'[w] # "live"
    BY <1>3 DEF User, Server, wrk, CreateTask, RunNow, Resolve, LoadEdit, CommitEdit, CancelTask, SetLimit,
           Pause, Resume, ChatSetPaused, CopyActive, PauseWrite, PauseCancel, ListWaiting, ResumeWrite,
           ListDue, Promote, Cancelled, Sound, TypeOK
  <2> QED
    BY <2>1, <2>2 DEF Owns
<1>4. CASE Restart
  BY <1>4 DEF Restart, Owns, Owning
<1> QED
  BY <1>1, <1>2, <1>3, <1>4 DEF Next

\* A pause marked the row before it cancels, and no claim comes in between.
LEMMA CancelStaysMarked ==
    ASSUME Sound, Ownership, CancelIsMarked, Next, ~Restart, Ownership'
    PROVE  CancelIsMarked'
<1> USE QueueAssumption DEF QueueAssumption
<1> DEFINE c == ctl.cur
<1>1. ctl'.cur = c \/ ctl'.cur.worker = NoWorker \/ PauseWrite
  <2>1. ASSUME NEW w \in Workers, Gate(w) \/ Work(w) PROVE ctl' = ctl \/ Finish(w)
    BY <2>1 DEF Aside, Gate, Work, Refuse, Attempt, Conclude, Claim, PrepareFails, CreateRun, Goto, Settled,
         StartRun, StartMissing, Register, LaunchFails, Exit, AskDeletion, Record, RecordMissing, Judge,
         Fail, Settle, AskApproval, SettleMissing, Load, StoreResult, Abandon
  <2>2. ASSUME NEW w \in Workers, Finish(w) PROVE ctl'.cur = c \/ ctl'.cur.worker = NoWorker
    <3>1. ctl'.cur = Void(c, w)
      BY <2>2 DEF Finish, Sound, TypeOK, CtlSet
    <3> QED
      BY <3>1 DEF Void, Sound, TypeOK, CtlSet, Entries, NoEntry
  <2>3. CASE Pause \/ Resume
    BY <2>3 DEF Pause, Resume, Sound, TypeOK, CtlSet
  <2>4. CASE ctl' = Quiet \/ ctl' = ctl
    BY <2>4 DEF Quiet, NoEntry
  <2>5. CASE CopyActive \/ PauseCancel \/ ListWaiting
    BY <2>4, <2>5 DEF CopyActive, PauseCancel, ListWaiting, NoEntry
  <2>6. CASE ResumeWrite
    BY <2>4, <2>6 DEF ResumeWrite, Sound, TypeOK, CtlSet
  <2> QED
    BY <2>1, <2>2, <2>3, <2>4, <2>5, <2>6
       DEF Next, User, Server, CreateTask, RunNow, Resolve, LoadEdit, CommitEdit, CancelTask, SetLimit,
           ChatSetPaused, ListDue, Promote
<1>2. disturbed \subseteq disturbed'
  BY DEF Next, Gate, Work, Refuse, Attempt, Conclude, Claim, PrepareFails, CreateRun, Settled, Disturb,
         StartRun, StartMissing, Register, LaunchFails, Exit, AskDeletion, Record, RecordMissing, Judge,
         Fail, Settle, AskApproval, SettleMissing, Load, StoreResult, Abandon,
         User, Server, CreateTask, RunNow, Resolve, LoadEdit, CommitEdit, CancelTask, SetLimit,
         Pause, Resume, ChatSetPaused, CopyActive, PauseWrite, PauseCancel, ListWaiting, ResumeWrite,
         ListDue, Promote
<1>3. CASE PauseWrite
  <2>1. PICK e \in ctl.todo :
          /\ ctl'.cur = e
          /\ WriteRow(e.task, "waiting", e.key) \/ (UNCHANGED rows /\ ~Exists(status[e.task]))
    BY <1>3 DEF PauseWrite, rows
  <2>2. e.task \in Tasks
    BY DEF Sound, TypeOK, CtlSet, Entries
  <2>3. status'[e.task] # "running"
    BY <2>1, <2>2 DEF WriteRow, rows, Exists, Sound, TypeOK
  <2> QED
    BY <2>1, <2>3 DEF CancelIsMarked
<1>4. ASSUME ctl'.cur = c, c.worker # NoWorker, c.task \notin disturbed', Owns(c.worker, c.task)',
             status'[c.task] = "running"
      PROVE  FALSE
  <2>1. c.worker \in Workers /\ c.task \in Tasks /\ task[c.worker] = c.task
    BY <1>4 DEF Sound, TypeOK, CtlSet, Entries, NoEntry, Holdings, CancelsAreHeld, EntryIsHeld
  <2>2. ~Claim(c.worker)
    BY <2>1 DEF Claim, Sound, Holdings, PlaceSaysWhat
  <2>3. Owns(c.worker, c.task)
    BY <1>4, <2>1, <2>2, OnlyClaimsOwn
  <2>4. status[c.task] # "running"
    BY <1>2, <1>4, <2>3 DEF CancelIsMarked
  <2>5. PICK v \in Workers : Claim(v) /\ Claimable(c.task)
    BY <1>4, <2>1, <2>4, OnlyClaimsStart
  <2>6. ~Owned(c.task)
    BY <1>2, <1>4, <2>1, <2>5, UnownedRows DEF Claimable
  <2> QED
    BY <2>1, <2>3, <2>6 DEF Owned
<1> QED
  BY <1>1, <1>3, <1>4 DEF CancelIsMarked

-----------------------------------------------------------------------------
\* Approvals.

\* A step that takes no approval away and moves no task into needs_approval.
LEMMA SameApprovals ==
    ASSUME ApprovalIsPending, disturbed \subseteq disturbed',
           \A t \in Tasks \ disturbed' : status'[t] = "needs_approval" =>
                status[t] = "needs_approval" /\ (asks[t] > 0 => asks'[t] > 0)
    PROVE  ApprovalIsPending'
BY DEF ApprovalIsPending

LEMMA WorkKeepsApprovals ==
    ASSUME Sound, ApprovalIsPending, NEW w \in Workers, Gate(w) \/ Work(w)
    PROVE  ApprovalIsPending'
<1> USE QueueAssumption DEF QueueAssumption
<1>1. disturbed \subseteq disturbed'
  BY DEF Gate, Work, Refuse, Attempt, Conclude, Claim, PrepareFails, CreateRun, Settled, Disturb,
         StartRun, StartMissing, Register, LaunchFails, Exit, AskDeletion, Record, RecordMissing, Judge,
         Fail, Settle, AskApproval, SettleMissing, Load, StoreResult, Abandon
<1>2. CASE AskDeletion(w) \/ AskApproval(w)
  <2>1. task[w] \in Tasks
    BY <1>2, HeldTypes DEF AskDeletion, AskApproval, Sound
  <2>2. asks' = [asks EXCEPT ![task[w]] = @ + 1]
    BY <1>2 DEF AskDeletion, AskApproval
  <2>3. \A t \in Tasks \ {task[w]} : status'[t] = status[t] /\ asks'[t] = asks[t]
    BY <1>2, <2>1, <2>2 DEF AskDeletion, AskApproval, WriteRow, rows, Sound, TypeOK
  <2>4. asks'[task[w]] > 0
    BY <2>1, <2>2 DEF Sound, TypeOK
  <2> QED
    BY <1>1, <2>3, <2>4 DEF ApprovalIsPending
<1>3. CASE asks' = asks /\ UNCHANGED rows
  BY <1>1, <1>3, SameApprovals DEF rows
<1>4. CASE StoreResult(w) /\ Exists(status[task[w]])
  <2>1. task[w] \in Tasks /\ asks' = asks
    BY <1>4, HeldTypes DEF StoreResult, Sound, Aside
  <2>2. \A t \in Tasks \ {task[w]} : status'[t] = status[t]
    BY <1>4, <2>1 DEF StoreResult, WriteRow, Sound, TypeOK
  <2>3. task[w] \notin disturbed' => status'[task[w]] = status[task[w]]
    <3> DEFINE outdated == Row(task[w]) # seen[w]
    <3>1. Disturb(task[w], outdated) /\ status'[task[w]] = seen[w].status
      BY <1>4, <2>1 DEF StoreResult, WriteRow, Sound, TypeOK
    <3> QED
      BY <3>1 DEF Disturb, Row
  <2> QED
    BY <1>1, <2>1, <2>2, <2>3, SameApprovals
<1>5. CASE /\ PrepareFails(w) \/ StartRun(w) \/ LaunchFails(w) \/ Fail(w) \/ Settle(w)
           /\ Exists(status[task[w]])
  <2>1. task[w] \in Tasks /\ asks' = asks
    BY <1>5, HeldTypes DEF PrepareFails, StartRun, LaunchFails, Fail, Settle, Sound, Aside
  <2>2. \A t \in Tasks \ {task[w]} : status'[t] = status[t]
    BY <1>5, <2>1 DEF PrepareFails, StartRun, LaunchFails, Fail, Settle, WriteRow, Sound, TypeOK
  <2>3. status'[task[w]] # "needs_approval"
    BY <1>5, <2>1
       DEF PrepareFails, StartRun, LaunchFails, Fail, Settle, Verdict, WriteRow, Sound, TypeOK
  <2> QED
    BY <1>1, <2>1, <2>2, <2>3, SameApprovals
<1>6. CASE Claim(w)
  <2>1. \A t \in Tasks : status'[t] = "needs_approval" => status[t] = "needs_approval"
    BY <1>6 DEF Claim, WriteRow, Sound, TypeOK
  <2> QED
    BY <1>1, <1>6, <2>1, SameApprovals DEF Claim, Aside
<1> QED
  BY <1>2, <1>3, <1>4, <1>5, <1>6
     DEF Aside, rows, Gate, Work, Refuse, Attempt, Conclude, PrepareFails, CreateRun, Settled,
         StartRun, StartMissing, Register, LaunchFails, Exit, Record, RecordMissing, Judge,
         Fail, Settle, SettleMissing, Load, StoreResult, Abandon

LEMMA RequestKeepsApprovals ==
    ASSUME Sound, ApprovalIsPending, User \/ Server
    PROVE  ApprovalIsPending'
<1> USE QueueAssumption DEF QueueAssumption
<1>1. disturbed \subseteq disturbed'
  BY DEF User, Server, CreateTask, RunNow, Resolve, LoadEdit, CommitEdit, CancelTask, SetLimit, Disturb,
         Pause, Resume, ChatSetPaused, CopyActive, PauseWrite, PauseCancel, ListWaiting, ResumeWrite,
         ListDue, Promote
<1>2. CASE asks' = asks /\ UNCHANGED rows
  BY <1>1, <1>2, SameApprovals DEF rows
<1>3. ASSUME NEW u \in Tasks, NEW s, NEW r, WriteRow(u, s, r), s # "needs_approval",
             \A t \in Tasks \ {u} : asks'[t] = asks[t]
      PROVE  ApprovalIsPending'
  <2>1. status'[u] = s /\ \A t \in Tasks \ {u} : status'[t] = status[t]
    BY <1>3 DEF WriteRow, Sound, TypeOK
  <2> QED
    BY <1>1, <1>3, <2>1, SameApprovals
<1>4. ASSUME NEW t \in Tasks, CreateTask(t) \/ RunNow(t) PROVE ApprovalIsPending'
  <2>1. PICK s \in {"ready", "idea"} : \E r : WriteRow(t, s, r)
    BY <1>4 DEF CreateTask, RunNow
  <2> QED
    BY <1>3, <1>4, <2>1 DEF CreateTask, RunNow
<1>5. ASSUME NEW t \in Tasks, NEW s \in {"ready", "waiting"}, Resolve(t, s) PROVE ApprovalIsPending'
  <2>1. \A u \in Tasks \ {t} : asks'[u] = asks[u]
    BY <1>5 DEF Resolve, Sound, TypeOK
  <2>2. CASE status[t] = "needs_approval"
    BY <1>3, <1>5, <2>1, <2>2 DEF Resolve
  <2>3. CASE status[t] # "needs_approval"
    BY <1>1, <1>5, <2>1, <2>3, SameApprovals DEF Resolve, rows
  <2> QED
    BY <2>2, <2>3
<1>6. ASSUME NEW t \in Tasks, Promote(t) PROVE ApprovalIsPending'
  BY <1>2, <1>3, <1>6 DEF Promote
<1>7. CASE PauseWrite \/ ResumeWrite
  <2>1. asks' = asks
    BY <1>7 DEF PauseWrite, ResumeWrite
  <2>2. CASE ~UNCHANGED rows
    <3>1. PICK e \in ctl.todo : \E s \in {"waiting", "ready"} : \E r : WriteRow(e.task, s, r)
      BY <1>7, <2>2 DEF PauseWrite, ResumeWrite, rows
    <3>2. e.task \in Tasks
      BY DEF Sound, TypeOK, CtlSet, Entries
    <3> QED
      BY <1>3, <2>1, <3>1, <3>2
  <2> QED
    BY <1>2, <2>1, <2>2
<1>8. ASSUME NEW e \in Editors, CommitEdit(e) PROVE ApprovalIsPending'
  <2> DEFINE t == edit[e].task
             new == Edited(edit[e].row, edit[e].to)
             outdated == Row(t) # edit[e].row \/ (edit[e].to = "ready" /\ Owned(t))
  <2>1. edit[e].phase = "loaded"
    BY <1>8 DEF CommitEdit
  <2>2. t \in Tasks /\ edit[e].row \in RowSet
        /\ edit[e].to \in {"same", "cancelled", "ready", "idea", "deleted"}
    BY <2>1, EditTypes DEF Sound
  <2>3. CASE Exists(status[t])
    <3>1. WriteRow(t, new.status, new.run) /\ Disturb(t, outdated)
      BY <1>8, <2>3 DEF CommitEdit
    <3>2. asks' = IF edit[e].to = "deleted" THEN [asks EXCEPT ![t] = 0] ELSE asks
      BY <1>8, <2>3 DEF CommitEdit
    <3>3. \A u \in Tasks \ {t} : asks'[u] = asks[u]
      BY <3>2 DEF Sound, TypeOK
    <3>4. CASE edit[e].to # "same"
      <4>1. new.status = edit[e].to
        BY <2>2, <3>4 DEF Edited, RowSet
      <4>2. new.status # "needs_approval"
        BY <2>2, <3>4, <4>1
      <4> QED
        BY <1>3, <2>2, <3>1, <3>3, <4>2
    <3>5. CASE edit[e].to = "same"
      <4>1. new = edit[e].row /\ asks' = asks
        BY <3>2, <3>5 DEF Edited
      <4>2. \A u \in Tasks \ {t} : status'[u] = status[u]
        BY <2>2, <3>1 DEF WriteRow, Sound, TypeOK
      <4>3. t \notin disturbed' => status'[t] = status[t]
        BY <2>2, <3>1, <4>1 DEF Disturb, Row, WriteRow, Sound, TypeOK
      <4> QED
        BY <1>1, <4>1, <4>2, <4>3, SameApprovals
    <3> QED
      BY <3>4, <3>5
  <2>4. CASE ~Exists(status[t])
    BY <1>2, <1>8, <2>4 DEF CommitEdit, rows
  <2> QED
    BY <2>3, <2>4
<1> QED
  BY <1>2, <1>4, <1>5, <1>6, <1>7, <1>8
     DEF User, Server, LoadEdit, CancelTask, SetLimit, Pause, Resume, ChatSetPaused,
         CopyActive, PauseCancel, ListWaiting, ListDue

\* A restart keeps the tasks that need approval, and what is known of them.
LEMMA RestartKeepsApprovals ==
    ASSUME ApprovalIsPending, Restart PROVE ApprovalIsPending'
BY DEF Restart, ApprovalIsPending

-----------------------------------------------------------------------------
\* Completed rows.

\* A worker about to settle a task as completed has recorded its run as completed.
RecordedIsDone ==
    \A w \in Workers : pc[w] = "recorded" /\ outcome[w] \in {"completed", "deletes"} =>
        run[w] \in RunIds /\ runs[run[w]] = "completed"

DoneRowAfter(r) == r.status = "completed" => r.run \in RunIds /\ runs'[r.run] = "completed"

\* A row that was right stays right, since a recorded run is never rewritten.
LEMMA DoneRowsStay ==
    ASSUME Sound, [Next]_vars, NEW r, DoneRow(r)
    PROVE  DoneRowAfter(r)
BY StepKeepsRuns DEF DoneRow, DoneRowAfter

LEMMA RecordedStaysDone ==
    ASSUME Sound, RecordedIsDone, [Next]_vars
    PROVE  RecordedIsDone'
<1> USE QueueAssumption DEF QueueAssumption
<1> SUFFICES ASSUME NEW w \in Workers, pc'[w] = "recorded", outcome'[w] \in {"completed", "deletes"}
             PROVE  run'[w] \in RunIds /\ runs'[run'[w]] = "completed"
  BY DEF RecordedIsDone
<1>1. CASE pc'[w] = pc[w] /\ outcome'[w] = outcome[w] /\ run'[w] = run[w]
  BY <1>1, StepKeepsRuns DEF RecordedIsDone
<1>2. CASE Record(w)
  <2>1. run[w] \in RunIds
    BY <1>2 DEF Record, Sound, TypeOK, Holdings, PlaceSaysWhat
  <2>2. outcome[w] \in {"completed", "deletes"} /\ runs' = [runs EXCEPT ![run[w]] = RunResult(outcome[w])]
    BY <1>2 DEF Record, Sound, TypeOK
  <2> QED
    BY <1>2, <2>1, <2>2 DEF Record, RunResult, Sound, TypeOK
<1>3. ASSUME NEW v \in Workers, Gate(v) \/ Work(v), ~Record(w)
      PROVE  pc'[w] = pc[w] /\ outcome'[w] = outcome[w] /\ run'[w] = run[w]
  BY <1>3 DEF Sound, TypeOK, Gate, Work, Refuse, Attempt, Conclude, Claim, PrepareFails, CreateRun, Goto, Finish,
         Settled, StartRun, StartMissing, Register, LaunchFails, Exit, AskDeletion, Record, RecordMissing, Judge,
         Fail, Settle, AskApproval, SettleMissing, Load, StoreResult, Abandon
<1>4. CASE User \/ Server
  BY <1>1, <1>4, RequestsMoveNobody
<1>5. CASE Restart
  BY <1>5 DEF Restart
<1>6. CASE UNCHANGED vars
  BY <1>1, <1>6 DEF vars, wrk
<1> QED
  BY <1>1, <1>2, <1>3, <1>4, <1>5, <1>6 DEF Next

\* Every snapshot is a row that was there before, or none.
LEMMA SnapshotsAreRows ==
    ASSUME Sound, [Next]_vars
    PROVE  /\ \A w \in Workers : seen'[w] \in {seen[w], NoRow} \cup {Row(t) : t \in Tasks}
           /\ \A e \in Editors : edit'[e].row \in {edit[e].row, NoRow} \cup {Row(t) : t \in Tasks}
<1> USE QueueAssumption DEF QueueAssumption
<1>1. CASE UNCHANGED <<seen, edit>>
  BY <1>1
<1>2. ASSUME NEW v \in Workers, Gate(v) \/ Work(v)
      PROVE  UNCHANGED edit /\ \A w \in Workers : seen'[w] \in {seen[w], NoRow} \cup {Row(t) : t \in Tasks}
  <2>1. UNCHANGED edit
    BY <1>2 DEF Aside, Gate, Work, Refuse, Attempt, Conclude, Claim, PrepareFails, CreateRun,
         StartRun, StartMissing, Register, LaunchFails, Exit, AskDeletion, Record, RecordMissing, Judge,
         Fail, Settle, AskApproval, SettleMissing, Load, StoreResult, Abandon
  <2>2. CASE UNCHANGED seen
    BY <2>1, <2>2
  <2>3. CASE Finish(v)
    BY <2>1, <2>3 DEF Finish, Sound, TypeOK
  <2>4. CASE Load(v)
    <3>1. task[v] \in Tasks
      BY <2>4, HeldTypes DEF Load, Sound
    <3> QED
      BY <2>1, <2>3, <2>4, <3>1 DEF Load, Sound, TypeOK
  <2> QED
    BY <1>2, <2>2, <2>3, <2>4, <2>1
       DEF Gate, Work, Refuse, Attempt, Conclude, Claim, PrepareFails, CreateRun, Goto, Settled,
         StartRun, StartMissing, Register, LaunchFails, Exit, AskDeletion, Record, RecordMissing, Judge,
         Fail, Settle, AskApproval, SettleMissing, StoreResult, Abandon
<1>3. ASSUME NEW f \in Editors, LoadEdit(f)
      PROVE  UNCHANGED seen /\ \A e \in Editors : edit'[e].row \in {edit[e].row} \cup {Row(t) : t \in Tasks}
  <2>1. PICK t \in Tasks : \E to \in Targets(status[t]) :
          edit' = [edit EXCEPT ![f] = [phase |-> "loaded", task |-> t, row |-> Row(t), to |-> to]]
    BY <1>3 DEF LoadEdit
  <2>2. edit'[f].row = Row(t) /\ \A e \in Editors \ {f} : edit'[e] = edit[e]
    BY <2>1 DEF Sound, TypeOK
  <2> QED
    BY <1>3, <2>2 DEF LoadEdit, wrk
<1>4. ASSUME NEW f \in Editors, CommitEdit(f) \/ CancelTask(f)
      PROVE  UNCHANGED seen /\ \A e \in Editors : edit'[e].row \in {edit[e].row, NoRow}
  <2>1. edit[f] \in EditSet /\ NoEdit.row = NoRow
    BY DEF Sound, TypeOK, NoEdit
  <2>2. [edit[f] EXCEPT !.phase = "cancelling"].row = edit[f].row
    BY <2>1 DEF EditSet, NoEdit
  <2>3. edit'[f].row \in {edit[f].row, NoRow}
    BY <1>4, <2>1, <2>2 DEF CommitEdit, CancelTask, Sound, TypeOK
  <2>4. UNCHANGED seen /\ \A e \in Editors \ {f} : edit'[e] = edit[e]
    BY <1>4 DEF CommitEdit, CancelTask, wrk, Sound, TypeOK
  <2> QED
    BY <2>3, <2>4
<1>5. CASE User \/ Server
  BY <1>1, <1>3, <1>4, <1>5
     DEF User, Server, wrk, CreateTask, RunNow, Resolve, SetLimit, Pause, Resume, ChatSetPaused,
         CopyActive, PauseWrite, PauseCancel, ListWaiting, ResumeWrite, ListDue, Promote
<1>6. CASE Restart
  BY <1>6 DEF Restart, NoEdit
<1>7. CASE UNCHANGED vars
  BY <1>1, <1>7 DEF vars, wrk
<1> QED
  BY <1>1, <1>2, <1>5, <1>6, <1>7 DEF Next

\* A row that says completed was there before, comes from a snapshot, or from the
\* worker whose verdict it is.
LEMMA CompletedComesFrom ==
    ASSUME Sound, [Next]_vars, NEW t \in Tasks, status'[t] = "completed"
    PROVE  \/ status'[t] = status[t] /\ runId'[t] = runId[t]
           \/ \E w \in Workers : status'[t] = seen[w].status /\ runId'[t] = seen[w].run
           \/ \E e \in Editors : status'[t] = edit[e].row.status /\ runId'[t] = edit[e].row.run
           \/ \E w \in Workers : /\ pc[w] = "recorded" /\ outcome[w] \in {"completed", "deletes"}
                                 /\ runId'[t] = run[w]
<1> USE QueueAssumption DEF QueueAssumption
<1> SUFFICES ASSUME ~(status'[t] = status[t] /\ runId'[t] = runId[t])
             PROVE  \/ \E w \in Workers : status'[t] = seen[w].status /\ runId'[t] = seen[w].run
                    \/ \E e \in Editors : status'[t] = edit[e].row.status /\ runId'[t] = edit[e].row.run
                    \/ \E w \in Workers : /\ pc[w] = "recorded" /\ outcome[w] \in {"completed", "deletes"}
                                          /\ runId'[t] = run[w]
  OBVIOUS
<1>1. \A u \in Tasks : \A s, r : WriteRow(u, s, r) => (u = t /\ s = "completed" /\ r = runId'[t])
  BY DEF WriteRow, Sound, TypeOK
<1>2. ~ UNCHANGED rows
  BY DEF rows
<1>3. ASSUME NEW w \in Workers, Gate(w) \/ Work(w)
      PROVE  \/ status'[t] = seen[w].status /\ runId'[t] = seen[w].run
             \/ pc[w] = "recorded" /\ outcome[w] \in {"completed", "deletes"} /\ runId'[t] = run[w]
  <2>1. CASE StoreResult(w)
    <3>1. task[w] \in Tasks
      BY <2>1, HeldTypes DEF StoreResult, Sound
    <3> QED
      BY <1>1, <1>2, <2>1, <3>1 DEF StoreResult
  <2>2. CASE Settle(w)
    <3>1. task[w] \in Tasks
      BY <2>2, HeldTypes DEF Settle, Sound
    <3>2. Verdict(outcome[w]) = "completed" /\ runId'[t] = run[w]
      BY <1>1, <2>2, <3>1 DEF Settle
    <3> QED
      BY <2>2, <3>2 DEF Settle, Verdict
  <2>3. CASE PrepareFails(w) \/ StartRun(w) \/ LaunchFails(w) \/ AskDeletion(w) \/ Fail(w) \/ AskApproval(w)
    <3>1. task[w] \in Tasks
      BY <2>3, HeldTypes DEF PrepareFails, StartRun, LaunchFails, AskDeletion, Fail, AskApproval, Sound
    <3> QED
      BY <1>1, <1>2, <2>3, <3>1 DEF PrepareFails, StartRun, LaunchFails, AskDeletion, Fail, AskApproval, rows
  <2>4. CASE Claim(w)
    BY <1>1, <2>4 DEF Claim
  <2> QED
    BY <1>2, <1>3, <2>1, <2>2, <2>3, <2>4
       DEF Work, Gate, Refuse, Attempt, Conclude, CreateRun, Settled, StartMissing, Aside,
           Register, Exit, Record, RecordMissing, Judge, SettleMissing, Load, Abandon
<1>4. ASSUME NEW e \in Editors, CommitEdit(e)
      PROVE  status'[t] = edit[e].row.status /\ runId'[t] = edit[e].row.run
  <2>1. edit[e].phase = "loaded"
    BY <1>4 DEF CommitEdit
  <2>2. /\ Edited(edit[e].row, edit[e].to).status = "completed"
        /\ Edited(edit[e].row, edit[e].to).run = runId'[t]
    BY <1>1, <1>2, <1>4, <2>1, EditTypes DEF CommitEdit, rows, Sound
  <2>3. edit[e].to = "same"
    BY <2>1, <2>2, EditTypes DEF Edited, RowSet, Sound
  <2> QED
    BY <2>2, <2>3 DEF Edited
<1>5. CASE User \/ Server
  <2>1. CASE PauseWrite \/ ResumeWrite
    <3>1. \A e \in ctl.todo : e.task \in Tasks
      BY DEF Sound, TypeOK, CtlSet, Entries
    <3>2. PICK e \in ctl.todo : WriteRow(e.task, "waiting", e.key) \/ WriteRow(e.task, "ready", NoRun)
      BY <1>2, <2>1 DEF PauseWrite, ResumeWrite
    <3> QED
      BY <1>1, <3>1, <3>2
  <2>2. ASSUME NEW u \in Tasks,
               CreateTask(u) \/ RunNow(u) \/ Promote(u) \/ \E s \in {"ready", "waiting"} : Resolve(u, s)
        PROVE  FALSE
    BY <1>1, <1>2, <2>2 DEF CreateTask, RunNow, Promote, Resolve, rows
  <2> QED
    BY <1>2, <1>4, <1>5, <2>1, <2>2
       DEF User, Server, LoadEdit, CancelTask, SetLimit, Pause, Resume, ChatSetPaused,
           CopyActive, PauseCancel, ListWaiting, ListDue
<1>6. CASE Restart
  BY <1>6 DEF Restart, Sound, TypeOK
<1>7. CASE UNCHANGED vars
  BY <1>2, <1>7 DEF vars
<1> QED
  BY <1>3, <1>4, <1>5, <1>6, <1>7 DEF Next

LEMMA DoneStep ==
    ASSUME Sound, RecordedIsDone, DoneIsRecorded, [Next]_vars
    PROVE  RecordedIsDone' /\ DoneIsRecorded'
<1>1. DoneRowAfter(NoRow)
  BY DEF DoneRowAfter, NoRow
<1>2. \A t \in Tasks : DoneRowAfter(Row(t))
  BY DoneRowsStay DEF DoneIsRecorded
<1>3. ASSUME NEW w \in Workers PROVE DoneRowAfter(seen[w]) /\ DoneRowAfter(seen'[w])
  <2>1. DoneRowAfter(seen[w])
    BY DoneRowsStay DEF DoneIsRecorded
  <2> QED
    BY <1>1, <1>2, <2>1, SnapshotsAreRows
<1>4. ASSUME NEW e \in Editors PROVE DoneRowAfter(edit[e].row) /\ DoneRowAfter(edit'[e].row)
  <2>1. DoneRowAfter(edit[e].row)
    BY DoneRowsStay DEF DoneIsRecorded
  <2> QED
    BY <1>1, <1>2, <2>1, SnapshotsAreRows
<1>5. ASSUME NEW t \in Tasks, status'[t] = "completed" PROVE runId'[t] \in RunIds /\ runs'[runId'[t]] = "completed"
  <2>1. CASE status'[t] = status[t] /\ runId'[t] = runId[t]
    BY <1>2, <1>5, <2>1 DEF DoneRowAfter, Row
  <2>2. ASSUME NEW w \in Workers, status'[t] = seen[w].status, runId'[t] = seen[w].run
        PROVE  runId'[t] \in RunIds /\ runs'[runId'[t]] = "completed"
    BY <1>3, <1>5, <2>2 DEF DoneRowAfter
  <2>3. ASSUME NEW e \in Editors, status'[t] = edit[e].row.status, runId'[t] = edit[e].row.run
        PROVE  runId'[t] \in RunIds /\ runs'[runId'[t]] = "completed"
    BY <1>4, <1>5, <2>3 DEF DoneRowAfter
  <2>4. ASSUME NEW w \in Workers, pc[w] = "recorded", outcome[w] \in {"completed", "deletes"}, runId'[t] = run[w]
        PROVE  runId'[t] \in RunIds /\ runs'[runId'[t]] = "completed"
    BY <2>4, StepKeepsRuns DEF RecordedIsDone
  <2> QED
    BY <1>5, <2>1, <2>2, <2>3, <2>4, CompletedComesFrom
<1>6. DoneIsRecorded'
  BY <1>3, <1>4, <1>5 DEF DoneIsRecorded, DoneRow, DoneRowAfter, Row
<1> QED
  BY <1>6, RecordedStaysDone

LEMMA InitDone == Init => RecordedIsDone /\ DoneIsRecorded
BY DEF Init, RecordedIsDone, DoneIsRecorded, DoneRow, Row, NoRow, NoEdit

-----------------------------------------------------------------------------
\* The inductive invariant of the queue.
QueueInv == Sound /\ RecordedIsDone /\ DoneIsRecorded /\ Ownership /\ CancelIsMarked /\ ApprovalIsPending

LEMMA QueueInvHolds == Spec => []QueueInv
<1>1. Init => QueueInv
  <2> SUFFICES ASSUME Init PROVE QueueInv
    OBVIOUS
  <2>1. Sound
    BY InitTypeOK, InitHoldings, InitOwnRun DEF Sound, Init, QueuedIsClean, CleanRow, Row, NoRow, NoEdit
  <2>2. Ownership /\ CancelIsMarked /\ ApprovalIsPending
    BY QueueAssumption DEF QueueAssumption, Init, Ownership, ExclusiveOwner, RunningIsOwned, OwnerIsNamed,
         OwnedIsUnsettled, Owned, Owns, Owning, CancelIsMarked, ApprovalIsPending, Quiet, NoEntry
  <2> QED
    BY <2>1, <2>2, InitDone DEF QueueInv
<1>2. QueueInv /\ [Next]_vars => QueueInv'
  <2> SUFFICES ASSUME QueueInv, [Next]_vars PROVE QueueInv'
    OBVIOUS
  <2>1. Sound'
    BY SoundStep DEF QueueInv
  <2>2. Ownership'
    BY WorkOwnership, RequestOwnership, RestartOwnership, IdleOwnership
       DEF QueueInv, Next, vars, Sound
  <2>3. CancelIsMarked'
    <3>1. CASE Next /\ ~Restart
      BY <2>2, <3>1, CancelStaysMarked DEF QueueInv
    <3>2. CASE Restart
      BY <3>2 DEF Restart, CancelIsMarked, Quiet, NoEntry
    <3>3. CASE UNCHANGED vars
      BY <3>3 DEF vars, wrk, rows, QueueInv, CancelIsMarked, Owns
    <3> QED
      BY <3>1, <3>2, <3>3
  <2>4. ApprovalIsPending'
    <3>1. CASE UNCHANGED vars
      BY <3>1, SameApprovals DEF vars, rows, QueueInv
    <3> QED
      BY <3>1, WorkKeepsApprovals, RequestKeepsApprovals, RestartKeepsApprovals DEF QueueInv, Next
  <2>5. RecordedIsDone' /\ DoneIsRecorded'
    BY DoneStep DEF QueueInv
  <2> QED
    BY <2>1, <2>2, <2>3, <2>4, <2>5 DEF QueueInv
<1> QED
  BY <1>1, <1>2, PTL DEF Spec

\* Atomic claims: as long as nobody writes a task's row from an outdated view,
\* one worker owns it, the row names its run, running means owned, and the
\* task is not queued or settled behind its owner's back.  For any number of
\* tasks, workers, edits, pauses, deletions, approvals and restarts.
THEOREM OwnershipHolds == Spec => []Ownership
<1>1. QueueInv => Ownership
  BY DEF QueueInv
<1> QED
  BY <1>1, QueueInvHolds, PTL

\* A task that needs approval can be resolved: an approval of it is pending.
THEOREM ApprovalStaysPending == Spec => []ApprovalIsPending
<1>1. QueueInv => ApprovalIsPending
  BY DEF QueueInv
<1> QED
  BY <1>1, QueueInvHolds, PTL

\* What rows, workers and cancel functions hold: a queued row and every copy of it
\* is clean, and a pause never cancels a worker on behalf of another task, nor the
\* owner of a row that says running.
THEOREM BooksHold == Spec => []Books
<1>1. QueueInv => Books
  BY DEF QueueInv, Books, Sound
<1> QED
  BY <1>1, QueueInvHolds, PTL

-----------------------------------------------------------------------------
\* The queue implements TaskLife.

\* The holder of a task is its owner, if the task is not disturbed and has one.
LEMMA HolderIs ==
    ASSUME Ownership, NEW t \in Tasks
    PROVE  /\ t \in disturbed \/ ~Owned(t) => OwnerOf[t] = NoWorker
           /\ \A w \in Workers : t \notin disturbed /\ Owns(w, t) => OwnerOf[t] = w
<1>1. ASSUME NEW w \in Workers, t \notin disturbed, Owns(w, t) PROVE OwnerOf[t] = w
  <2>1. OwnerOf[t] = CHOOSE v \in Workers : Owns(v, t)
    BY <1>1 DEF OwnerOf, Owned
  <2>2. \E v \in Workers : Owns(v, t)
    BY <1>1
  <2>3. OwnerOf[t] \in Workers /\ Owns(OwnerOf[t], t)
    BY <2>1, <2>2
  <2> QED
    BY <1>1, <2>3 DEF Ownership, ExclusiveOwner
<1> QED
  BY <1>1 DEF OwnerOf

LEMMA HolderIsNext ==
    ASSUME Ownership', NEW t \in Tasks
    PROVE  /\ t \in disturbed' \/ ~Owned(t)' => OwnerOf'[t] = NoWorker
           /\ \A w \in Workers : t \notin disturbed' /\ Owns(w, t)' => OwnerOf'[t] = w
<1>1. ASSUME NEW w \in Workers, t \notin disturbed', Owns(w, t)' PROVE OwnerOf'[t] = w
  <2>1. OwnerOf'[t] = CHOOSE v \in Workers : Owns(v, t)'
    BY <1>1 DEF OwnerOf, Owned
  <2>2. \E v \in Workers : Owns(v, t)'
    BY <1>1
  <2>3. OwnerOf'[t] \in Workers /\ \E v \in Workers : v = OwnerOf'[t] /\ Owns(v, t)'
    BY <2>1, <2>2
  <2> QED
    BY <1>1, <2>3 DEF Ownership, ExclusiveOwner
<1> QED
  BY <1>1 DEF OwnerOf

\* What a step about t leaves of another task.
Untouched(u) ==
    /\ status'[u] = status[u] /\ runId'[u] = runId[u]
    /\ \A w \in Workers : Owns(w, u)' <=> Owns(w, u)
    /\ u \in disturbed' <=> u \in disturbed

LEMMA SameHolder ==
    ASSUME Ownership, Ownership', NEW u \in Tasks,
           \A w \in Workers : Owns(w, u)' <=> Owns(w, u), u \in disturbed' <=> u \in disturbed
    PROVE  OwnerOf'[u] = OwnerOf[u]
<1>1. CASE u \in disturbed \/ ~Owned(u)
  <2>1. u \in disturbed' \/ ~Owned(u)'
    BY <1>1 DEF Owned
  <2> QED
    BY <1>1, <2>1, HolderIs, HolderIsNext
<1>2. CASE u \notin disturbed /\ Owned(u)
  <2>1. PICK w \in Workers : Owns(w, u)
    BY <1>2 DEF Owned
  <2>2. u \notin disturbed' /\ Owns(w, u)'
    BY <1>2, <2>1
  <2> QED
    BY <1>2, <2>1, <2>2, HolderIs, HolderIsNext
<1> QED
  BY <1>1, <1>2

LEMMA TouchStep ==
    ASSUME Sound, Sound', Ownership, Ownership', UNCHANGED <<runs, limit>>,
           NEW t \in Tasks, \A u \in Tasks \ {t} : Untouched(u)
    PROVE  Life!Touch(t)
<1>1. \A u \in Tasks \ {t} : OwnerOf'[u] = OwnerOf[u]
  BY SameHolder DEF Untouched
<1>2. OwnerOf = [u \in Tasks |-> OwnerOf[u]] /\ OwnerOf' = [u \in Tasks |-> OwnerOf'[u]]
  BY DEF OwnerOf
<1>3. OwnerOf' = [OwnerOf EXCEPT ![t] = OwnerOf'[t]]
  BY <1>1, <1>2
<1>4. status' = [status EXCEPT ![t] = status'[t]] /\ runId' = [runId EXCEPT ![t] = runId'[t]]
  BY DEF Untouched, Sound, TypeOK
<1> QED
  BY <1>3, <1>4 DEF Life!Touch

\* A step that changes nothing of any task.
LEMMA SameTasks ==
    ASSUME Sound, Sound', Ownership, Ownership', \A u \in Tasks : Untouched(u)
    PROVE  UNCHANGED <<status, runId, OwnerOf, disturbed>>
<1>1. \A u \in Tasks : OwnerOf'[u] = OwnerOf[u]
  BY SameHolder DEF Untouched
<1>2. OwnerOf = [u \in Tasks |-> OwnerOf[u]] /\ OwnerOf' = [u \in Tasks |-> OwnerOf'[u]]
  BY DEF OwnerOf
<1>3. OwnerOf' = OwnerOf
  BY <1>1, <1>2
<1>4. UNCHANGED <<status, runId, disturbed>>
  BY DEF Untouched, Sound, TypeOK
<1> QED
  BY <1>3, <1>4

LEMMA QuietStep ==
    ASSUME Sound, Sound', Ownership, Ownership', UNCHANGED <<runs, limit>>,
           \A u \in Tasks : Untouched(u)
    PROVE  UNCHANGED Life!vars
BY SameTasks DEF Life!vars

\* What a step about t starts from.
Lives(t) ==
    /\ Sound /\ Sound' /\ Ownership /\ Ownership' /\ DoneIsRecorded'
    /\ UNCHANGED <<runs, limit>>
    /\ \A u \in Tasks \ {t} : Untouched(u)

LEMMA HonestStep ==
    ASSUME NEW t \in Tasks, Lives(t)
    PROVE  Life!Honest(t) /\ Life!Touch(t)
<1>1. status'[t] = "completed" => runId'[t] \in RunIds /\ runs[runId'[t]] = "completed"
  BY DEF Lives, DoneIsRecorded, DoneRow, Row
<1>2. Life!Touch(t)
  BY TouchStep DEF Lives
<1> QED
  BY <1>1, <1>2 DEF Life!Honest

LEMMA LoseStep ==
    ASSUME NEW t \in Tasks, Lives(t), disturbed' = disturbed \cup {t}
    PROVE  Life!Next
<1>1. OwnerOf'[t] = NoWorker
  BY HolderIsNext DEF Lives
<1> QED
  BY <1>1, HonestStep DEF Life!Lose, Life!Next

LEMMA RewriteStep ==
    ASSUME NEW t \in Tasks, Lives(t), disturbed' = disturbed, t \notin disturbed, ~Owned(t), ~Owned(t)',
           Life!Becomes(t, Life!FreeMoves)
    PROVE  Life!Next
<1>1. OwnerOf[t] = NoWorker /\ OwnerOf'[t] = NoWorker
  BY HolderIs, HolderIsNext DEF Lives
<1> QED
  BY <1>1, HonestStep DEF Life!Rewrite, Life!Next

LEMMA KeepStep ==
    ASSUME NEW t \in Tasks, Lives(t), disturbed' = disturbed, t \notin disturbed,
           NEW w \in Workers, Owns(w, t), Owns(w, t)', Life!Becomes(t, Life!KeptMoves),
           status'[t] = "running" /\ runId'[t] # runId[t] => runs[runId'[t]] = "running"
    PROVE  Life!Next
<1>1. OwnerOf[t] = w /\ OwnerOf'[t] = w /\ w # NoWorker
  BY HolderIs, HolderIsNext, QueueAssumption DEF Lives, QueueAssumption
<1> QED
  BY <1>1, HonestStep DEF Life!Keep, Life!Next

LEMMA LeaveStep ==
    ASSUME NEW t \in Tasks, Lives(t), disturbed' = disturbed, t \notin disturbed, Owned(t), ~Owned(t)',
           \/ status'[t] = status[t] /\ runId'[t] = runId[t]
           \/ status[t] \in {"running", "needs_approval"} /\ status'[t] \in Life!LastMoves[status[t]]
    PROVE  Life!Next
<1>1. PICK w \in Workers : Owns(w, t)
  BY DEF Owned
<1>2. OwnerOf[t] # NoWorker /\ OwnerOf'[t] = NoWorker
  BY <1>1, HolderIs, HolderIsNext, QueueAssumption DEF Lives, QueueAssumption
<1>3. status'[t] # "running"
  BY DEF Lives, Ownership, RunningIsOwned
<1>4. DOMAIN Life!LastMoves = {"running", "needs_approval"}
  BY DEF Life!LastMoves
<1> QED
  BY <1>2, <1>3, <1>4, HonestStep DEF Life!Leave, Life!Next

\* A step that leaves the row, and takes the owner away at most.
LEMMA SameRowStep ==
    ASSUME NEW t \in Tasks, Lives(t), disturbed' = disturbed, t \notin disturbed,
           status'[t] = status[t], runId'[t] = runId[t], \A w \in Workers : Owns(w, t)' => Owns(w, t)
    PROVE  Life!Next \/ UNCHANGED Life!vars
<1>1. CASE Owned(t) /\ ~Owned(t)'
  BY <1>1, LeaveStep
<1>2. CASE ~Owned(t) \/ Owned(t)'
  <2>1. \A w \in Workers : Owns(w, t) => Owns(w, t)'
    BY <1>2 DEF Owned, Lives, Ownership, ExclusiveOwner
  <2>2. \A u \in Tasks : Untouched(u)
    BY <2>1 DEF Lives, Untouched
  <2> QED
    BY <2>2, QuietStep DEF Lives
<1> QED
  BY <1>1, <1>2

\* A claim takes a task that nobody has.
LEMMA ClaimLives ==
    ASSUME NEW w \in Workers, Claim(w), Sound, Sound', Ownership, Ownership', DoneIsRecorded'
    PROVE  Life!Next
<1> USE QueueAssumption DEF QueueAssumption
<1>1. PICK t \in Tasks : /\ Claimable(t)
                         /\ WriteRow(t, "running", runId[t])
                         /\ task' = [task EXCEPT ![w] = t]
  BY DEF Claim
<1>2. /\ task[w] = NoTask /\ ctx[w] = "live" /\ pc' = [pc EXCEPT ![w] = "claimed"]
      /\ UNCHANGED <<run, ctx, outcome, runs, limit, disturbed>>
  BY DEF Claim, Sound, Holdings, PlaceSaysWhat, ledger, Aside, setting
<1>3. ASSUME NEW u \in Tasks \ {t} PROVE Untouched(u)
  <2>1. \A v \in Workers \ {w} : Owns(v, u)' <=> Owns(v, u)
    BY <1>1, <1>2 DEF Owns, Sound, TypeOK
  <2>2. ~Owns(w, u) /\ ~Owns(w, u)'
    BY <1>1, <1>2 DEF Owns, Sound, TypeOK
  <2> QED
    BY <1>1, <1>2, <1>3, <2>1, <2>2 DEF Untouched, WriteRow, Sound, TypeOK
<1>4. Lives(t)
  BY <1>2, <1>3 DEF Lives
<1>5. CASE t \in disturbed
  <2>1. disturbed' = disturbed \cup {t}
    BY <1>2, <1>5
  <2> QED
    BY <1>4, <2>1, LoseStep
<1>6. CASE t \notin disturbed
  <2>1. status[t] = "ready" /\ runId[t] = NoRun
    BY <1>1 DEF Claimable, Sound, QueuedIsClean, CleanRow, Row
  <2>2. status'[t] = "running" /\ runId'[t] = NoRun
    BY <1>1, <2>1 DEF WriteRow, Sound, TypeOK
  <2>3. OwnerOf[t] = NoWorker
    BY <1>6, <2>1, UnownedRows, HolderIs
  <2>4. Owns(w, t)'
    BY <1>1, <1>2 DEF Owns, Owning, Sound, TypeOK
  <2>5. OwnerOf'[t] = w
    BY <1>2, <1>6, <2>4, HolderIsNext
  <2>6. ASSUME NEW u \in Tasks PROVE OwnerOf[u] # w
    <3>1. ~Owns(w, u)
      BY <1>2 DEF Owns
    <3>2. CASE u \in disturbed \/ ~Owned(u)
      BY <3>2, HolderIs
    <3>3. CASE u \notin disturbed /\ Owned(u)
      BY <3>1, <3>3, HolderIs DEF Owned
    <3> QED
      BY <3>2, <3>3
  <2>7. RunningCount < limit /\ \A p \in Prereq[t] : status[p] \in Resolved
    BY <1>1 DEF Claimable
  <2>8. Life!Cardinality(Life!Running) < limit
    <3>1. Life!Cardinality(Life!Running) = Cardinality(Life!Running)
      BY DEF Cardinality, Life!Cardinality
    <3> QED
      BY <2>7, <3>1 DEF Life!Running, RunningCount
  <2>9. Life!Touch(t)
    BY <1>4, HonestStep
  <2>10. Life!Take(t)
    BY <1>2, <1>6, <2>1, <2>2, <2>3, <2>5, <2>6, <2>7, <2>8, <2>9 DEF Life!Take, Resolved
  <2> QED
    BY <2>10 DEF Life!Next
<1> QED
  BY <1>5, <1>6

\* A verdict or an end written by the worker that the row names.
LEMMA VerdictLives ==
    ASSUME NEW w \in Workers, NEW t \in Tasks, Lives(t), disturbed' = disturbed, t \notin disturbed,
           run[w] # NoRun, Row(t) \in HeldRows(w), ~Owns(w, t)',
           \A v \in Workers \ {w} : Owns(v, t)' <=> Owns(v, t),
           \/ status'[t] \in {"completed", "failed"}
           \/ status'[t] = "cancelled" /\ outcome[w] = "cancelled"
           \/ status[t] = "running" /\ status'[t] = "needs_approval"
    PROVE  Life!Next
<1>1. runId[t] = run[w] /\ status[t] \in {"running", "needs_approval"}
  BY DEF HeldRows, Row
<1>2. OwnedWell(t)
  BY OwnershipByTask DEF Lives
<1>3. \A v \in Workers : Owns(v, t) => v = w
  BY <1>1, <1>2, NamedOwner DEF Lives
<1>4. ~Owned(t)'
  BY <1>3 DEF Owned
<1>5. CASE Owned(t)
  <2>1. status'[t] \in Life!LastMoves[status[t]]
    <3>1. \/ status[t] = "running" /\ status'[t] \in {"completed", "failed", "cancelled", "needs_approval"}
          \/ status[t] = "needs_approval" /\ status'[t] \in {"completed", "failed"}
      <4>1. status[t] = "needs_approval" => status'[t] # "cancelled"
        BY <1>2, <1>3, <1>5 DEF OwnedWell, Owned
      <4> QED
        BY <1>1, <4>1
    <3> QED
      BY <3>1 DEF Life!LastMoves
  <2> QED
    BY <1>1, <1>4, <1>5, <2>1, LeaveStep
<1>6. CASE ~Owned(t)
  <2>1. status[t] = "needs_approval" /\ status'[t] \in {"completed", "failed", "cancelled"}
    BY <1>1, <1>2, <1>6 DEF OwnedWell
  <2>2. Life!Becomes(t, Life!FreeMoves)
    BY <2>1 DEF Life!Becomes, Life!FreeMoves
  <2> QED
    BY <1>4, <1>6, <2>2, RewriteStep
<1> QED
  BY <1>5, <1>6

\* The other steps of a worker are about the task it holds.
LEMMA WorkIsAboutOne ==
    ASSUME Sound, Sound', Ownership, Ownership', DoneIsRecorded', NEW w \in Workers, Work(w), ~Claim(w),
           UNCHANGED runs, NEW t \in Tasks, task[w] = t
    PROVE  /\ Lives(t)
           /\ disturbed' = disturbed \/ disturbed' = disturbed \cup {t}
           /\ \A v \in Workers \ {w} : Owns(v, t)' <=> Owns(v, t)
           /\ Owns(w, t)' => Owns(w, t)
<1> USE QueueAssumption DEF QueueAssumption
<1>1. \A u \in Tasks \ {t} : Untouched(u)
  BY OthersStay DEF Untouched
<1>2. UNCHANGED limit
  BY DEF Aside, setting, Work, Refuse, Attempt, Conclude, PrepareFails, CreateRun,
         StartRun, StartMissing, Register, LaunchFails, Exit, AskDeletion, Record, RecordMissing, Judge,
         Fail, Settle, AskApproval, SettleMissing, Load, StoreResult, Abandon
<1>3. disturbed' = disturbed \/ disturbed' = disturbed \cup {t}
  BY DEF Disturb, Work, Refuse, Attempt, Conclude, PrepareFails, CreateRun, Settled,
         StartRun, StartMissing, Register, LaunchFails, Exit, AskDeletion, Record, RecordMissing, Judge,
         Fail, Settle, AskApproval, SettleMissing, Load, StoreResult, Abandon
<1>4. /\ \A v \in Workers \ {w} : pc'[v] = pc[v] /\ task'[v] = task[v] /\ ctx'[v] = ctx[v]
      /\ task'[w] \in {task[w], NoTask}
      /\ task'[w] = task[w] => ctx'[w] = ctx[w] /\ (pc'[w] \in Owning => pc[w] \in Owning)
  BY DEF Sound, TypeOK, Work, Refuse, Attempt, Conclude, PrepareFails, CreateRun, Goto, Finish, Settled, Owning,
         StartRun, StartMissing, Register, LaunchFails, Exit, AskDeletion, Record, RecordMissing, Judge,
         Fail, Settle, AskApproval, SettleMissing, Load, StoreResult, Abandon
<1>5. (\A v \in Workers \ {w} : Owns(v, t)' <=> Owns(v, t)) /\ (Owns(w, t)' => Owns(w, t))
  BY <1>4 DEF Owns
<1> QED
  BY <1>1, <1>2, <1>3, <1>5 DEF Lives

\* A worker that rewrites an undisturbed row starts it, asks, gives up or decides.
LEMMA WorkWrites ==
    ASSUME Sound, Ownership, NEW w \in Workers, Work(w), ~Claim(w), pc[w] \notin {"idle", "gated"},
           NEW t \in Tasks, task[w] = t, t \notin disturbed', ~(status'[t] = status[t] /\ runId'[t] = runId[t])
    PROVE  \/ /\ StartRun(w) /\ Row(t) = [status |-> "running", run |-> NoRun]
              /\ status'[t] = "running" /\ runId'[t] = run[w]
           \/ /\ PrepareFails(w) /\ Row(t) = [status |-> "running", run |-> NoRun]
              /\ status'[t] \in {"failed", "waiting"}
           \/ /\ AskDeletion(w) /\ Row(t) = [status |-> "running", run |-> run[w]]
              /\ status'[t] = "needs_approval"
           \/ /\ LaunchFails(w) \/ Fail(w) \/ Settle(w) \/ AskApproval(w)
              /\ Row(t) \in HeldRows(w)
              /\ \/ status'[t] \in {"completed", "failed"}
                 \/ status'[t] = "cancelled" /\ outcome[w] = "cancelled"
                 \/ status[t] = "running" /\ status'[t] = "needs_approval"
<1>1. \A outdated \in BOOLEAN : Disturb(t, outdated) => ~outdated
  BY DEF Disturb, Sound, TypeOK
<1>2. \A s, r : WriteRow(t, s, r) => status'[t] = s /\ runId'[t] = r
  BY DEF WriteRow, Sound, TypeOK
<1>3. ~UNCHANGED rows
  BY DEF rows
<1>4. CASE StartRun(w)
  BY <1>1, <1>2, <1>4 DEF StartRun
<1>5. CASE PrepareFails(w)
  BY <1>1, <1>2, <1>3, <1>5 DEF PrepareFails, rows
<1>6. CASE AskDeletion(w)
  BY <1>1, <1>2, <1>3, <1>6 DEF AskDeletion
<1>7. CASE LaunchFails(w)
  BY <1>1, <1>2, <1>3, <1>7 DEF LaunchFails, HeldRows
<1>8. CASE Fail(w)
  BY <1>1, <1>2, <1>3, <1>8 DEF Fail
<1>9. CASE Settle(w)
  BY <1>1, <1>2, <1>9 DEF Settle, Verdict
<1>10. CASE AskApproval(w)
  <2>1. Row(t) = [status |-> "running", run |-> run[w]] /\ status'[t] = "needs_approval"
    BY <1>1, <1>2, <1>3, <1>10 DEF AskApproval
  <2> QED
    BY <1>10, <2>1 DEF HeldRows, Row
<1>11. CASE StoreResult(w)
  <2>1. Row(t) = seen[w] /\ status'[t] = seen[w].status /\ runId'[t] = seen[w].run
    BY <1>1, <1>2, <1>3, <1>11 DEF StoreResult
  <2> QED
    BY <2>1 DEF Row
<1> QED
  BY <1>3, <1>4, <1>5, <1>6, <1>7, <1>8, <1>9, <1>10, <1>11
     DEF Work, Refuse, Attempt, Conclude, CreateRun, Settled, StartMissing, Aside,
         Register, Exit, Record, RecordMissing, Judge, SettleMissing, Load, Abandon

LEMMA WorkLives ==
    ASSUME Sound, Sound', Ownership, Ownership', DoneIsRecorded', NEW w \in Workers, Work(w), ~Claim(w),
           UNCHANGED runs, pc[w] \notin {"idle", "gated"}
    PROVE  Life!Next \/ UNCHANGED Life!vars
<1> USE QueueAssumption DEF QueueAssumption
<1>1. PICK t \in Tasks : task[w] = t
  BY HeldTypes DEF Sound
<1>2. /\ Lives(t)
      /\ disturbed' = disturbed \/ disturbed' = disturbed \cup {t}
      /\ \A v \in Workers \ {w} : Owns(v, t)' <=> Owns(v, t)
      /\ Owns(w, t)' => Owns(w, t)
  BY <1>1, WorkIsAboutOne
<1>3. OwnedWell(t) \/ t \in disturbed
  BY <1>2, OwnershipByTask
<1>4. CASE t \in disturbed'
  <2>1. disturbed' = disturbed \cup {t}
    BY <1>2, <1>4
  <2> QED
    BY <1>2, <2>1, LoseStep
<1>5. CASE t \notin disturbed' /\ status'[t] = status[t] /\ runId'[t] = runId[t]
  BY <1>2, <1>5, SameRowStep
<1>6. CASE t \notin disturbed' /\ ~(status'[t] = status[t] /\ runId'[t] = runId[t])
  <2>1. disturbed' = disturbed /\ t \notin disturbed
    BY <1>2, <1>6
  <2>2. CASE StartRun(w) /\ Row(t) = [status |-> "running", run |-> NoRun]
             /\ status'[t] = "running" /\ runId'[t] = run[w]
    <3>1. ctx[w] = "live" /\ runs[run[w]] = "running"
      BY <2>2 DEF StartRun, Sound, OwnRun, Holdings, PlaceSaysWhat, Registered, TypeOK
    <3>2. Owns(w, t) /\ Owns(w, t)'
      BY <1>1, <2>2, <3>1 DEF StartRun, Goto, Owns, Owning, Sound, TypeOK
    <3>3. Life!Becomes(t, Life!KeptMoves)
      BY <2>2 DEF Life!Becomes, Row
    <3> QED
      BY <1>2, <2>1, <2>2, <3>1, <3>2, <3>3, KeepStep
  <2>3. CASE PrepareFails(w) /\ Row(t) = [status |-> "running", run |-> NoRun]
             /\ status'[t] \in {"failed", "waiting"}
    <3>1. Owns(w, t) /\ ~Owns(w, t)'
      BY <1>2, <1>1, <2>3 DEF PrepareFails, Finish, Owns, Owning, Sound, TypeOK
    <3>2. Owned(t) /\ ~Owned(t)'
      BY <1>2, <1>3, <2>1, <3>1 DEF OwnedWell, Owned
    <3>3. status[t] = "running" /\ status'[t] \in Life!LastMoves[status[t]]
      BY <2>3 DEF Life!LastMoves, Row
    <3> QED
      BY <1>2, <2>1, <3>2, <3>3, LeaveStep
  <2>4. CASE AskDeletion(w) /\ Row(t) = [status |-> "running", run |-> run[w]]
             /\ status'[t] = "needs_approval"
    <3>1. run[w] # NoRun /\ UNCHANGED <<pc, task, ctx>>
      BY <2>4 DEF AskDeletion, Sound, Holdings, PlaceSaysWhat
    <3>2. PICK v \in Workers : Owns(v, t)
      BY <1>3, <2>1, <2>4 DEF OwnedWell, Owned, Row
    <3>3. v = w
      BY <1>2, <1>3, <2>1, <2>4, <3>1, <3>2, NamedOwner DEF Row
    <3>4. Owns(w, t) /\ Owns(w, t)'
      BY <3>1, <3>2, <3>3 DEF Owns
    <3>5. Life!Becomes(t, Life!KeptMoves)
      BY <2>4 DEF Life!Becomes, Life!KeptMoves, Row
    <3> QED
      BY <1>2, <2>1, <2>4, <3>4, <3>5, KeepStep
  <2>5. CASE /\ LaunchFails(w) \/ Fail(w) \/ Settle(w) \/ AskApproval(w)
             /\ Row(t) \in HeldRows(w)
             /\ \/ status'[t] \in {"completed", "failed"}
                \/ status'[t] = "cancelled" /\ outcome[w] = "cancelled"
                \/ status[t] = "running" /\ status'[t] = "needs_approval"
    <3>1. run[w] # NoRun /\ ~Owns(w, t)'
      BY <1>2, <2>5 DEF LaunchFails, Fail, Settle, AskApproval, Goto, Finish, Owns, Owning, Sound, TypeOK,
                   Holdings, PlaceSaysWhat
    <3> QED
      BY <1>2, <2>1, <2>5, <3>1, VerdictLives
  <2> QED
    BY <1>2, <1>1, <1>6, <2>2, <2>3, <2>4, <2>5, WorkWrites
<1> QED
  BY <1>4, <1>5, <1>6

\* Runs are created and recorded once.
LEMMA RunLives ==
    ASSUME Sound, Sound', Ownership, Ownership', NEW w \in Workers, CreateRun(w) \/ Record(w)
    PROVE  Life!Next
<1>1. UNCHANGED <<rows, task, ctx, limit, disturbed>>
  BY DEF CreateRun, Record, Aside, setting
<1>2. /\ \A v \in Workers \ {w} : pc'[v] = pc[v]
      /\ pc[w] \in Owning /\ pc'[w] \in Owning
  BY DEF CreateRun, Record, Owning, Sound, TypeOK
<1>3. \A u \in Tasks : Untouched(u)
  <2>1. \A u \in Tasks : \A v \in Workers : Owns(v, u)' <=> Owns(v, u)
    BY <1>1, <1>2 DEF Owns
  <2> QED
    BY <1>1, <2>1 DEF Untouched, rows
<1>4. \E r \in RunIds : /\ \/ runs[r] = "unused" /\ runs'[r] = "running"
                           \/ runs[r] = "running" /\ runs'[r] \in {"completed", "failed", "cancelled"}
                        /\ runs' = [runs EXCEPT ![r] = runs'[r]]
  <2>1. CASE CreateRun(w)
    <3>1. lastRun + 1 \in RunIds /\ lastRun \in Nat
      BY <2>1, QueueAssumption DEF CreateRun, Sound, TypeOK, RunIds, QueueAssumption
    <3>2. runs[lastRun + 1] = "unused"
      BY <3>1 DEF Sound, Holdings, FreshRuns, RunIds
    <3> QED
      BY <2>1, <3>1, <3>2 DEF CreateRun, Sound, TypeOK
  <2>2. CASE Record(w)
    <3>1. run[w] \in RunIds /\ runs[run[w]] = "running"
      BY <2>2 DEF Record, Sound, TypeOK, OwnRun
    <3>2. PICK s \in {"completed", "failed", "cancelled"} : runs' = [runs EXCEPT ![run[w]] = s]
      BY <2>2 DEF Record, RunResult
    <3> QED
      BY <3>1, <3>2 DEF Sound, TypeOK
  <2> QED
    BY <2>1, <2>2
<1> QED
  BY <1>1, <1>3, <1>4, SameTasks DEF Life!Advance, Life!Next

\* A request rewrites the row of u: its owner, if it has one, keeps it.
LEMMA RequestRewrites ==
    ASSUME Sound, Sound', Ownership, Ownership', DoneIsRecorded', UNCHANGED <<wrk, runs, limit>>,
           NEW u \in Tasks, NEW s, NEW r, WriteRow(u, s, r),
           disturbed' = disturbed \/ disturbed' = disturbed \cup {u},
           u \notin disturbed' =>
              \/ /\ Owned(u) /\ (s = "running" => r = runId[u])
                 /\ s = status[u] \/ s \in Life!KeptMoves[status[u]]
              \/ /\ ~Owned(u)
                 /\ s = status[u] \/ s \in Life!FreeMoves[status[u]]
    PROVE  Life!Next
<1>1. \A t \in Tasks : \A w \in Workers : Owns(w, t)' <=> Owns(w, t)
  BY DEF Owns, wrk
<1>2. \A t \in Tasks \ {u} : Untouched(t)
  BY <1>1 DEF Untouched, WriteRow, Sound, TypeOK
<1>3. Lives(u)
  BY <1>2 DEF Lives
<1>4. status'[u] = s /\ runId'[u] = r
  BY DEF WriteRow, Sound, TypeOK
<1>5. CASE u \in disturbed'
  <2>1. disturbed' = disturbed \cup {u}
    BY <1>5
  <2> QED
    BY <1>3, <2>1, LoseStep
<1>6. CASE u \notin disturbed' /\ Owned(u)
  <2>1. PICK w \in Workers : Owns(w, u)
    BY <1>6 DEF Owned
  <2>2. disturbed' = disturbed /\ u \notin disturbed /\ Owns(w, u)'
    BY <1>1, <1>6, <2>1
  <2>3. Life!Becomes(u, Life!KeptMoves)
    BY <1>4, <1>6 DEF Life!Becomes
  <2> QED
    BY <1>3, <1>4, <1>6, <2>1, <2>2, <2>3, KeepStep
<1>7. CASE u \notin disturbed' /\ ~Owned(u)
  <2>1. disturbed' = disturbed /\ u \notin disturbed /\ ~Owned(u)'
    BY <1>1, <1>7 DEF Owned
  <2>2. Life!Becomes(u, Life!FreeMoves)
    BY <1>4, <1>7 DEF Life!Becomes
  <2> QED
    BY <1>3, <1>7, <2>1, <2>2, RewriteStep
<1> QED
  BY <1>5, <1>6, <1>7

\* A request that writes no row.
LEMMA RequestIsQuiet ==
    ASSUME Sound, Sound', Ownership, Ownership', UNCHANGED <<rows, wrk, disturbed, runs>>
    PROVE  UNCHANGED <<status, runId, OwnerOf, disturbed, runs>>
<1>1. \A t \in Tasks : Untouched(t)
  BY DEF Untouched, Owns, rows, wrk
<1> QED
  BY <1>1, SameTasks

LEMMA EditLives ==
    ASSUME Sound, Sound', Ownership, Ownership', DoneIsRecorded', NEW e \in Editors, CommitEdit(e)
    PROVE  Life!Next \/ UNCHANGED Life!vars
<1> DEFINE row == edit[e].row
           to == edit[e].to
           new == Edited(row, to)
<1>1. PICK t \in Tasks : t = edit[e].task
  BY EditTypes DEF CommitEdit, Sound
<1>2. UNCHANGED <<wrk, runs, limit>> /\ edit[e].phase = "loaded"
  BY DEF CommitEdit, ledger, setting
<1>3. to \in Targets(row.status) /\ row \in RowSet /\ to \in {"same", "cancelled", "ready", "idea", "deleted"}
  BY <1>2, EditTypes DEF Sound, Holdings, EditsAreLegal
<1>4. CASE ~Exists(status[t])
  BY <1>1, <1>2, <1>4, RequestIsQuiet DEF CommitEdit, Life!vars, rows
<1>5. CASE Exists(status[t])
  <2> DEFINE outdated == Row(t) # row \/ (to = "ready" /\ Owned(t))
  <2>1. WriteRow(t, new.status, new.run) /\ Disturb(t, outdated)
    BY <1>1, <1>5 DEF CommitEdit
  <2>2. disturbed' = disturbed \/ disturbed' = disturbed \cup {t}
    BY <2>1 DEF Disturb
  <2>3. ASSUME t \notin disturbed'
        PROVE  \/ /\ Owned(t) /\ (new.status = "running" => new.run = runId[t])
                  /\ new.status = status[t] \/ new.status \in Life!KeptMoves[status[t]]
               \/ /\ ~Owned(t)
                  /\ new.status = status[t] \/ new.status \in Life!FreeMoves[status[t]]
    <3>1. Row(t) = row /\ (to = "ready" => ~Owned(t)) /\ t \notin disturbed
      BY <2>1, <2>3 DEF Disturb
    <3>2. status[t] = row.status /\ runId[t] = row.run
      BY <3>1 DEF Row
    <3>3. CASE to = "same"
      BY <3>2, <3>3 DEF Edited
    <3>4. CASE to # "same"
      <4>1. new.status = to
        BY <1>3, <3>4 DEF Edited, RowSet
      <4>2. CASE Owned(t)
        <5>1. status[t] \in {"running", "waiting", "needs_approval", "cancelled"}
          BY <1>5, <3>1, <4>2 DEF Ownership, OwnedIsUnsettled, Owned, Exists
        <5>2. \/ to = "cancelled" /\ status[t] \in {"running", "waiting", "needs_approval"}
              \/ to = "deleted" /\ status[t] \in {"waiting", "needs_approval", "cancelled"}
          BY <1>3, <3>1, <3>2, <3>4, <4>2, <5>1 DEF Targets
        <5>3. to \in Life!KeptMoves[status[t]] /\ to # "running"
          BY <5>2 DEF Life!KeptMoves
        <5> QED
          BY <4>1, <4>2, <5>3
      <4>3. CASE ~Owned(t)
        <5>1. status[t] # "running"
          BY <3>1, <4>3 DEF Ownership, RunningIsOwned
        <5>2. status[t] \in {"idea", "ready", "waiting", "needs_approval", "failed", "cancelled", "completed"}
          BY <1>5, <5>1 DEF Exists, Sound, TypeOK, Statuses
        <5>3. to \in Life!FreeMoves[status[t]]
          BY <1>3, <3>2, <3>4, <5>2 DEF Targets, Life!FreeMoves
        <5> QED
          BY <4>1, <4>3, <5>3
      <4> QED
        BY <4>2, <4>3
    <3> QED
      BY <3>3, <3>4
  <2> HIDE DEF new
  <2> QED
    BY <1>2, <2>1, <2>2, <2>3, RequestRewrites
<1> QED
  BY <1>4, <1>5

\* Promotions, decisions, new tasks and a pause or resume that writes a row.
LEMMA RowRequestLives ==
    ASSUME Sound, Sound', Ownership, Ownership', DoneIsRecorded',
           \/ \E t \in Tasks : CreateTask(t) \/ RunNow(t) \/ Promote(t) \/ \E s \in {"ready", "waiting"} : Resolve(t, s)
           \/ PauseWrite \/ ResumeWrite
    PROVE  Life!Next \/ UNCHANGED Life!vars
<1>1. UNCHANGED <<wrk, runs, limit>>
  BY DEF CreateTask, RunNow, Promote, Resolve, PauseWrite, ResumeWrite, ledger, setting
<1>2. CASE UNCHANGED <<rows, disturbed>>
  BY <1>1, <1>2, RequestIsQuiet DEF Life!vars
<1>3. ASSUME NEW t \in Tasks, CreateTask(t) \/ RunNow(t) PROVE Life!Next
  <2>1. UNCHANGED disturbed /\ status[t] \in {"absent", "idea", "ready"}
    BY <1>3 DEF CreateTask, RunNow
  <2>2. PICK s \in {"ready", "idea"} : /\ s = status[t] \/ s \in Life!FreeMoves[status[t]]
                                       /\ \E r : WriteRow(t, s, r)
    BY <1>3 DEF CreateTask, RunNow, Life!FreeMoves
  <2> QED
    BY <1>1, <2>1, <2>2, UnownedRows, RequestRewrites
<1>4. ASSUME NEW t \in Tasks, NEW s \in {"ready", "waiting"}, Resolve(t, s), ~UNCHANGED <<rows, disturbed>>
      PROVE  Life!Next
  <2>1. status[t] = "needs_approval" /\ WriteRow(t, s, NoRun) /\ Disturb(t, Owned(t))
    BY <1>4 DEF Resolve
  <2>2. s \in Life!FreeMoves[status[t]]
    BY <2>1 DEF Life!FreeMoves
  <2> QED
    BY <1>1, <2>1, <2>2, RequestRewrites DEF Disturb
<1>5. ASSUME NEW t \in Tasks, Promote(t), ~UNCHANGED <<rows, disturbed>> PROVE Life!Next
  <2> DEFINE outdated == Row(t) # [status |-> "idea", run |-> NoRun]
  <2>1. WriteRow(t, "ready", NoRun) /\ Disturb(t, outdated)
    BY <1>5 DEF Promote
  <2>2. t \notin disturbed' => status[t] = "idea" /\ t \notin disturbed
    BY <2>1 DEF Disturb, Row
  <2>3. t \notin disturbed' => ~Owned(t) /\ "ready" \in Life!FreeMoves[status[t]]
    BY <2>2, UnownedRows DEF Life!FreeMoves
  <2>4. disturbed' = disturbed \/ disturbed' = disturbed \cup {t}
    BY <2>1 DEF Disturb
  <2> QED
    BY <1>1, <2>1, <2>3, <2>4, RequestRewrites
<1>6. CASE PauseWrite /\ ~UNCHANGED <<rows, disturbed>>
  <2> DEFINE outdated(e) == status[e.task] \notin {"running", "waiting"} \/ e.worker = NoWorker
  <2>1. PICK e \in ctl.todo : WriteRow(e.task, "waiting", e.key) /\ Disturb(e.task, outdated(e))
    BY <1>6 DEF PauseWrite
  <2>2. PICK t \in Tasks : t = e.task
    BY DEF Sound, TypeOK, CtlSet, Entries
  <2>3. t \notin disturbed' => status[t] \in {"running", "waiting"} /\ t \notin disturbed
    BY <2>1, <2>2 DEF Disturb
  <2>4. t \notin disturbed' => "waiting" = status[t] \/ (Owned(t) /\ "waiting" \in Life!KeptMoves[status[t]])
    BY <2>3 DEF Life!KeptMoves, Ownership, RunningIsOwned
  <2>5. disturbed' = disturbed \/ disturbed' = disturbed \cup {t}
    BY <2>1, <2>2 DEF Disturb
  <2> QED
    BY <1>1, <2>1, <2>2, <2>4, <2>5, RequestRewrites
<1>7. CASE ResumeWrite /\ ~UNCHANGED <<rows, disturbed>>
  <2> DEFINE outdated(e) == Row(e.task) # [status |-> "waiting", run |-> e.key] \/ Owned(e.task)
  <2>1. PICK e \in ctl.todo : WriteRow(e.task, "ready", NoRun) /\ Disturb(e.task, outdated(e))
    BY <1>7 DEF ResumeWrite
  <2>2. PICK t \in Tasks : t = e.task
    BY DEF Sound, TypeOK, CtlSet, Entries
  <2>3. t \notin disturbed' => status[t] = "waiting" /\ ~Owned(t)
    BY <2>1, <2>2 DEF Disturb, Row
  <2>4. t \notin disturbed' => "ready" \in Life!FreeMoves[status[t]]
    BY <2>3 DEF Life!FreeMoves
  <2>5. disturbed' = disturbed \/ disturbed' = disturbed \cup {t}
    BY <2>1, <2>2 DEF Disturb
  <2> QED
    BY <1>1, <2>1, <2>2, <2>3, <2>4, <2>5, RequestRewrites
<1> QED
  BY <1>2, <1>3, <1>4, <1>5, <1>6, <1>7

\* A cancel function takes a worker away from the task it was stored for.
LEMMA CancelLives ==
    ASSUME Sound, Sound', Ownership, Ownership', DoneIsRecorded',
           (\E e \in Editors : CancelTask(e)) \/ PauseCancel
    PROVE  Life!Next \/ UNCHANGED Life!vars
<1> USE QueueAssumption DEF QueueAssumption
<1>1. UNCHANGED <<rows, pc, task, runs, limit>>
  BY DEF CancelTask, PauseCancel, ledger, setting
<1>2. \A w \in Workers : ctx'[w] # ctx[w] => ctx'[w] # "live"
  BY DEF CancelTask, PauseCancel, Cancelled, Sound, TypeOK
<1>3. ASSUME NEW t \in Tasks, \A w \in Workers : ctx'[w] # ctx[w] => task[w] = t,
             disturbed' = disturbed \/ disturbed' = disturbed \cup {t}
      PROVE  Life!Next \/ UNCHANGED Life!vars
  <2>1. \A u \in Tasks \ {t} : Untouched(u)
    BY <1>1, <1>3 DEF Untouched, Owns, rows
  <2>2. Lives(t) /\ status'[t] = status[t] /\ runId'[t] = runId[t]
    BY <1>1, <2>1 DEF Lives, rows
  <2>3. \A w \in Workers : Owns(w, t)' => Owns(w, t)
    BY <1>1, <1>2 DEF Owns
  <2>4. CASE t \in disturbed'
    <3>1. disturbed' = disturbed \cup {t}
      BY <1>3, <2>4
    <3> QED
      BY <2>2, <3>1, LoseStep
  <2>5. CASE t \notin disturbed'
    <3>1. disturbed' = disturbed /\ t \notin disturbed
      BY <1>3, <2>5
    <3> QED
      BY <2>2, <2>3, <3>1, SameRowStep
  <2> QED
    BY <2>4, <2>5
<1>4. ASSUME NEW e \in Editors, CancelTask(e) PROVE Life!Next \/ UNCHANGED Life!vars
  <2>1. PICK t \in Tasks : t = edit[e].task
    <3>1. edit[e] \in EditSet /\ edit[e] # NoEdit
      BY <1>4 DEF Sound, TypeOK, CancelTask, NoEdit
    <3> QED
      BY <3>1 DEF EditSet
  <2>2. ASSUME NEW w \in Workers, ctx'[w] # ctx[w] PROVE task[w] = t
    <3>1. PICK a \in ActiveRuns : a.task = edit[e].task /\ a.worker = w
      BY <1>4, <2>2 DEF CancelTask
    <3> QED
      BY <2>1, <3>1, ActiveRunsAreHeld DEF EntryIsHeld, Sound
  <2>3. disturbed' = disturbed \/ disturbed' = disturbed \cup {t}
    BY <1>4, <2>1 DEF CancelTask, Disturb
  <2> QED
    BY <1>3, <2>2, <2>3
<1>5. CASE PauseCancel
  <2>1. UNCHANGED disturbed
    BY <1>5 DEF PauseCancel
  <2>2. CASE ctl.cur.worker = NoWorker
    <3>1. \A t \in Tasks : Untouched(t)
      BY <1>1, <1>5, <2>1, <2>2 DEF PauseCancel, Untouched, Owns, rows
    <3> QED
      BY <1>1, <3>1, QuietStep
  <2>3. CASE ctl.cur.worker # NoWorker
    <3>1. ctl.cur \in Entries /\ EntryIsHeld(ctl.cur)
      BY <2>3 DEF Sound, TypeOK, CtlSet, NoEntry, Holdings, CancelsAreHeld
    <3>2. PICK t \in Tasks : t = ctl.cur.task
      BY <3>1 DEF Entries
    <3>3. \A w \in Workers : ctx'[w] # ctx[w] => task[w] = t
      BY <1>5, <2>3, <3>1, <3>2 DEF PauseCancel, EntryIsHeld, Sound, TypeOK
    <3> QED
      BY <1>3, <2>1, <3>3
  <2> QED
    BY <2>2, <2>3
<1> QED
  BY <1>4, <1>5

LEMMA RestartLives ==
    ASSUME Sound, Sound', Ownership, Ownership', Restart
    PROVE  Life!Next
<1>1. \A w \in Workers, t \in Tasks : ~Owns(w, t)'
  BY DEF Restart, Owns, Owning
<1>2. OwnerOf' = [t \in Tasks |-> NoWorker]
  <2>1. \A t \in Tasks : OwnerOf'[t] = NoWorker
    BY <1>1, HolderIsNext DEF Owned
  <2>2. OwnerOf' = [t \in Tasks |-> OwnerOf'[t]]
    BY DEF OwnerOf
  <2> QED
    BY <2>1, <2>2
<1>3. Life!Restart
  BY <1>2 DEF Restart, Life!Restart, Recovered, setting
<1> QED
  BY <1>3 DEF Life!Next

\* Every step of the queue is one of TaskLife, or none.
LEMMA LifeStep ==
    ASSUME QueueInv, QueueInv', [Next]_vars
    PROVE  Life!Next \/ UNCHANGED Life!vars
<1>1. Sound /\ Sound' /\ Ownership /\ Ownership' /\ DoneIsRecorded'
  BY DEF QueueInv
<1>2. ASSUME NEW w \in Workers, Gate(w) \/ Work(w) PROVE Life!Next \/ UNCHANGED Life!vars
  <2>1. CASE Claim(w)
    BY <1>1, <2>1, ClaimLives
  <2>2. CASE CreateRun(w) \/ Record(w)
    BY <1>1, <2>2, RunLives
  <2>3. CASE Gate(w) \/ Refuse(w)
    <3>1. UNCHANGED <<rows, task, ctx, runs, limit, disturbed>>
      BY <2>3 DEF Gate, Refuse, Goto, ledger, Aside, setting
    <3>2. \A v \in Workers : v # w => pc'[v] = pc[v]
      BY <1>1, <2>3 DEF Gate, Refuse, Goto, Sound, TypeOK
    <3>3. pc[w] \notin Owning /\ pc'[w] \notin Owning
      BY <1>1, <2>3 DEF Gate, Refuse, Goto, Owning, Sound, TypeOK
    <3>4. \A t \in Tasks : Untouched(t)
      BY <3>1, <3>2, <3>3 DEF Untouched, Owns, rows
    <3> QED
      BY <1>1, <3>1, <3>4, QuietStep
  <2>4. CASE Work(w) /\ ~Claim(w) /\ ~CreateRun(w) /\ ~Record(w) /\ ~Refuse(w)
    <3>1. UNCHANGED runs /\ pc[w] \notin {"idle", "gated"}
      BY <1>1, <2>4
         DEF Work, Attempt, Conclude, PrepareFails, Settled, StartRun, StartMissing, Register, LaunchFails,
             Exit, AskDeletion, RecordMissing, Judge, Fail, Settle, AskApproval, SettleMissing, Load,
             StoreResult, Abandon, ledger
    <3> QED
      BY <1>1, <2>4, <3>1, WorkLives
  <2> QED
    BY <1>2, <2>1, <2>2, <2>3, <2>4
<1>3. CASE UNCHANGED <<rows, wrk, disturbed, runs, limit>>
  BY <1>1, <1>3, RequestIsQuiet DEF Life!vars
<1>4. CASE SetLimit
  <2>1. UNCHANGED <<status, runId, OwnerOf, disturbed, runs>>
    BY <1>1, <1>4, RequestIsQuiet DEF SetLimit, ledger
  <2>2. limit' \in Nat \ {0}
    BY <1>4, QueueAssumption DEF SetLimit, QueueAssumption
  <2> QED
    BY <2>1, <2>2 DEF Life!SetLimit, Life!Next
<1>5. ASSUME NEW e \in Editors, LoadEdit(e) PROVE UNCHANGED Life!vars
  BY <1>1, <1>5, RequestIsQuiet DEF LoadEdit, Life!vars, ledger, setting
<1>6. CASE Pause \/ Resume \/ ChatSetPaused \/ CopyActive \/ ListWaiting \/ ListDue
  BY <1>3, <1>6 DEF Pause, Resume, ChatSetPaused, CopyActive, ListWaiting, ListDue, ledger, setting
<1>7. CASE User \/ Server
  BY <1>1, <1>4, <1>5, <1>6, <1>7, EditLives, RowRequestLives, CancelLives DEF User, Server
<1>8. CASE Restart
  BY <1>1, <1>8, RestartLives
<1>9. CASE UNCHANGED vars
  BY <1>3, <1>9 DEF vars, ledger, setting
<1> QED
  BY <1>2, <1>7, <1>8, <1>9 DEF Next

\* Whatever workers, requests and restarts do, the life of a task is the one TaskLife
\* promises: taken from the queue by one worker, within the limit and after its
\* prerequisites, let go of with a verdict, completed on the word of a run recorded as
\* completed, never revived behind its owner's back (tasks.go, operator.go).  For any
\* number of tasks, workers, edits, pauses, approvals, deletions and restarts.
THEOREM QueueLivesAsPromised == Spec => LivesAsPromised
<1>1. Init => Life!Init
  <2> SUFFICES ASSUME Init PROVE Life!Init
    OBVIOUS
  <2>1. \A t \in Tasks : ~Owned(t)
    BY DEF Init, Owned, Owns, Owning
  <2>2. OwnerOf = [t \in Tasks |-> NoWorker]
    BY <2>1 DEF OwnerOf
  <2>3. limit \in Nat \ {0}
    BY QueueAssumption DEF Init, QueueAssumption
  <2> QED
    BY <2>2, <2>3 DEF Init, Life!Init
<1>2. QueueInv /\ QueueInv' /\ [Next]_vars => [Life!Next]_(Life!vars)
  BY LifeStep
<1> QED
  BY <1>1, <1>2, QueueInvHolds, PTL DEF Spec, LivesAsPromised, Life!Spec
\* In TaskLife only a restart, a deletion and a stale write reach a completed task.
LEMMA CompletedStep ==
    ASSUME QueueInv, QueueInv', [Next]_vars, NEW t \in Tasks \ disturbed', status[t] = "completed"
    PROVE  status'[t] \in {"completed", "deleted"}
<1>1. Life!Next \/ UNCHANGED Life!vars
  BY LifeStep
<1>2. CASE UNCHANGED Life!vars
  BY <1>2 DEF Life!vars
<1>3. ASSUME NEW u \in Tasks, u # t, Life!Touch(u) PROVE status'[t] = status[t]
  BY <1>3 DEF Life!Touch, QueueInv, Sound, TypeOK
<1>4. CASE Life!Take(t) \/ Life!Lose(t)
  BY <1>4 DEF Life!Take, Life!Lose
<1>5. CASE Life!Keep(t) \/ Life!Leave(t)
  <2>1. t \notin disturbed /\ OwnerOf[t] # NoWorker
    BY <1>5 DEF Life!Keep, Life!Leave
  <2>2. PICK w \in Workers : Owns(w, t)
    BY <2>1, HolderIs DEF QueueInv, Owned
  <2> QED
    BY <2>1, <2>2 DEF QueueInv, Ownership, OwnedIsUnsettled
<1>6. CASE Life!Rewrite(t)
  <2>1. Life!Becomes(t, Life!FreeMoves)
    BY <1>6 DEF Life!Rewrite
  <2>2. Life!FreeMoves["completed"] = {"deleted"}
    BY DEF Life!FreeMoves
  <2> QED
    BY <2>1, <2>2 DEF Life!Becomes
<1>7. ASSUME NEW u \in Tasks, Life!Take(u) \/ Life!Keep(u) \/ Life!Leave(u) \/ Life!Rewrite(u) \/ Life!Lose(u)
      PROVE  status'[t] \in {"completed", "deleted"}
  <2>1. Life!Touch(u)
    BY <1>7 DEF Life!Take, Life!Keep, Life!Leave, Life!Rewrite, Life!Lose
  <2> QED
    BY <1>3, <1>4, <1>5, <1>6, <1>7, <2>1
<1>8. CASE Life!SetLimit \/ \E r \in RunIds : Life!Advance(r)
  BY <1>8 DEF Life!SetLimit, Life!Advance
<1>9. CASE Life!Restart
  BY <1>9 DEF Life!Restart
<1> QED
  BY <1>1, <1>2, <1>7, <1>8, <1>9 DEF Life!Next

\* A completed task is never worked on again: until it is deleted it stays completed,
\* unless its row is overwritten from an outdated view (the divergence of a pause).
THEOREM CompletedTasksStay == Spec => CompletedStays
<1>1. QueueInv /\ QueueInv' /\ [Next]_vars =>
        [\A t \in Tasks \ disturbed' : status[t] = "completed" => status'[t] \in {"completed", "deleted"}]_vars
  BY CompletedStep
<1> QED
  BY <1>1, QueueInvHolds, PTL DEF Spec, CompletedStays
=============================================================================
