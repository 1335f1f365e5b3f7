--------------------------- MODULE TaskDependencies ---------------------------
(***************************************************************************)
(* The prerequisites of tasks: the table task_dependencies and every       *)
(* statement of internal/store that writes it.                             *)
(*                                                                         *)
(* Prerequisites are edited one task at a time, over days, by the user and *)
(* by Chat, while tasks are claimed, settled and deleted.  UpdateTask      *)
(* always writes a whole row: it reads a task with its prerequisites,      *)
(* changes some of the columns and writes all of them and the              *)
(* prerequisites back.  Reading and writing are two steps; validation and  *)
(* writing are one transaction.                                            *)
(*                                                                         *)
(* The limit of parallel tasks, run rows and the moments a worker's writes *)
(* are late are in TaskQueue.  "held" stands for waiting, needs_approval   *)
(* and failed.                                                             *)
(***************************************************************************)
EXTENDS Integers, FiniteSets

CONSTANTS
    Tasks,       \* task ids; an id is used once
    NoTask,      \* "edits no task"
    Workspaces,  \* workspace ids
    NoWorkspace, \* the workspace of a row that was never inserted
    Limit,       \* MaximumTaskDependencies
    Writers,     \* concurrent UpdateTask / DeleteTask requests
    MaxEdits     \* bound of the model: edits, deletions and restarts to come

ASSUME DependenciesAssumption ==
    /\ IsFiniteSet(Tasks)
    /\ NoTask \notin Tasks
    /\ NoWorkspace \notin Workspaces
    /\ Limit \in Nat
    /\ MaxEdits \in Nat

Live     == {"idea", "ready", "running", "held", "completed", "cancelled"}
Statuses == Live \cup {"absent", "deleted"}

VARIABLES
    status,     \* tasks.status
    home,       \* tasks.workspace_id, meaningful while the row exists
    deps,       \* deps[t]: prerequisite_task_id of the rows with task_id t
    open,       \* workspaces that exist
    edit,       \* the row each request has read
    left        \* requests the environment may still make

vars == <<status, home, deps, open, edit, left>>

NoEdit    == [task |-> NoTask]
Snapshots == [task : Tasks, status : Live, deps : SUBSET Tasks]

-----------------------------------------------------------------------------
\* validateTaskDependenciesTx.

Exists(t)   == status[t] \in Live
IsIn(t, w)  == Exists(t) /\ home[t] = w

\* WITH RECURSIVE prerequisites: what p depends on, directly or not, and p.
\* It is the least set that holds p and is closed under deps.
Closed(C)   == \A u \in C : deps[u] \subseteq C
Upstream(p) == {u \in Tasks : \A C \in SUBSET Tasks : p \in C /\ Closed(C) => u \in C}

\* Mutant of Accepted: only direct cycles are found.
AcceptedDirect(t, w, D) ==
    /\ Cardinality(D) <= Limit
    /\ \A p \in D : p # t /\ IsIn(p, w) /\ t \notin deps[p]

Accepted(t, w, D) ==
    /\ Cardinality(D) <= Limit
    /\ \A p \in D : p # t /\ IsIn(p, w) /\ t \notin Upstream(p)

\* ON DELETE CASCADE on both ends of a dependency.
Remove(T) ==
    /\ status' = [t \in Tasks |-> IF t \in T THEN "deleted" ELSE status[t]]
    /\ deps'   = [t \in Tasks |-> IF t \in T THEN {} ELSE deps[t] \ T]

Request == left > 0 /\ left' = left - 1

-----------------------------------------------------------------------------
\* Rows.

CreateTask(t) ==
    /\ status[t] = "absent"
    /\ \E w \in open, D \in SUBSET Tasks, s \in {"idea", "ready"} :
          /\ Accepted(t, w, D)
          /\ status' = [status EXCEPT ![t] = s]
          /\ home'   = [home EXCEPT ![t] = w]
          /\ deps'   = [deps EXCEPT ![t] = D]
    /\ UNCHANGED <<open, edit, left>>

Load(e) ==
    /\ Request
    /\ edit[e] = NoEdit
    /\ \E t \in Tasks :
          /\ Exists(t)
          /\ edit' = [edit EXCEPT ![e] =
                        [task |-> t, status |-> status[t], deps |-> deps[t]]]
    /\ UNCHANGED <<status, home, deps, open>>

\* allowedUserTransition, and what Resume, an approval or a due plan write.
Targets(s) ==
    {u \in {"cancelled", "ready", "idea"} :
        \/ u = "cancelled" /\ s \notin {"completed", "cancelled"}
        \/ u = "ready" /\ s \in {"idea", "held", "cancelled"}
        \/ u = "idea" /\ s = "ready"}

Rewrite(e, s, D) ==
    LET t == edit[e].task IN
    /\ Exists(t)
    /\ Accepted(t, home[t], D)
    /\ status' = [status EXCEPT ![t] = s]
    /\ deps'   = [deps EXCEPT ![t] = D]
    /\ edit'   = [edit EXCEPT ![e] = NoEdit]

\* The request names prerequisites, or it does not and those of the snapshot
\* are validated and written again.
CommitEdit(e) ==
    /\ edit[e] # NoEdit
    /\ \E s \in {edit[e].status} \cup Targets(edit[e].status) :
          Rewrite(e, s, edit[e].deps) \/ \E D \in SUBSET Tasks : Rewrite(e, s, D)
    /\ UNCHANGED <<home, open, left>>

\* The row is gone, the prerequisites are refused or the request is invalid.
Refuse(e) ==
    /\ edit[e] # NoEdit
    /\ edit' = [edit EXCEPT ![e] = NoEdit]
    /\ UNCHANGED <<status, home, deps, open, left>>

DeleteTask(e) ==
    /\ edit[e] # NoEdit
    /\ edit[e].status # "running"
    /\ Exists(edit[e].task)
    /\ Remove({edit[e].task})
    /\ edit' = [edit EXCEPT ![e] = NoEdit]
    /\ UNCHANGED <<home, open, left>>

\* Running work of the workspace is looked up again in the transaction.
DeleteWorkspace(w) ==
    /\ Request
    /\ w \in open
    /\ \A t \in Tasks : ~(IsIn(t, w) /\ status[t] = "running")
    /\ open' = open \ {w}
    /\ Remove({t \in Tasks : IsIn(t, w)})
    /\ UNCHANGED <<home, edit>>

-----------------------------------------------------------------------------
\* The queue.

RunNow(t) ==    \* RequestTaskRun
    /\ status[t] = "idea"
    /\ status' = [status EXCEPT ![t] = "ready"]
    /\ UNCHANGED <<home, deps, open, edit, left>>

Resolved == {"completed", "cancelled"}

\* Mutant of Claimable: closing a prerequisite does not waive it.
ClaimableCompleted(t) ==
    /\ status[t] = "ready"
    /\ ~ \E p \in deps[t] : Exists(p) /\ status[p] # "completed"

Claimable(t) ==
    /\ status[t] = "ready"
    /\ ~ \E p \in deps[t] : Exists(p) /\ status[p] \notin Resolved

Claim(t) ==
    /\ Claimable(t)
    /\ status' = [status EXCEPT ![t] = "running"]
    /\ UNCHANGED <<home, deps, open, edit, left>>

Settle(t) ==    \* finishTaskRun, a pause or a failed launch
    /\ status[t] = "running"
    /\ \E s \in {"completed", "held"} : status' = [status EXCEPT ![t] = s]
    /\ UNCHANGED <<home, deps, open, edit, left>>

Restart ==      \* RecoverInterrupted
    /\ Request
    /\ status' = [t \in Tasks |-> IF status[t] = "running" THEN "ready" ELSE status[t]]
    /\ edit' = [e \in Writers |-> NoEdit]
    /\ UNCHANGED <<home, deps, open>>

-----------------------------------------------------------------------------
Init ==
    /\ status = [t \in Tasks |-> "absent"]
    /\ home = [t \in Tasks |-> NoWorkspace]
    /\ deps = [t \in Tasks |-> {}]
    /\ open = Workspaces
    /\ edit = [e \in Writers |-> NoEdit]
    /\ left = MaxEdits

EditStep(e) == Load(e) \/ CommitEdit(e) \/ Refuse(e) \/ DeleteTask(e)
QueueStep(t) == Claim(t) \/ Settle(t)
TaskStep(t) == CreateTask(t) \/ RunNow(t) \/ QueueStep(t)

Next ==
    \/ \E t \in Tasks : TaskStep(t)
    \/ \E e \in Writers : EditStep(e)
    \/ \E w \in Workspaces : DeleteWorkspace(w)
    \/ Restart

Spec == Init /\ [][Next]_vars

\* Workers keep claiming, and every run ends: runs have a time limit.
FairSpec == Spec /\ \A t \in Tasks : WF_vars(QueueStep(t))

-----------------------------------------------------------------------------
\* Every variable has its type (tables tasks, task_dependencies, workspaces).
TypeOK ==
    /\ status \in [Tasks -> Statuses]
    /\ home \in [Tasks -> Workspaces \cup {NoWorkspace}]
    /\ deps \in [Tasks -> SUBSET Tasks]
    /\ open \subseteq Workspaces
    /\ edit \in [Writers -> Snapshots \cup {NoEdit}]
    /\ left \in 0 .. MaxEdits

\* No sequence of edits, creations and deletions closes a cycle: every set of
\* tasks has a member with no prerequisite in the set.
Acyclic == \A S \in SUBSET Tasks : S # {} => \E t \in S : deps[t] \cap S = {}

\* A dependency joins two tasks that exist, in one workspace, and a task has
\* at most MaximumTaskDependencies, whatever is deleted or written back.
WithinWorkspace ==
    /\ \A t \in Tasks : \A p \in deps[t] : Exists(t) /\ IsIn(p, home[t])
    /\ \A t \in Tasks : Cardinality(deps[t]) <= Limit

\* Both, whatever is created, edited from an outdated row, or deleted.
SoundGraph == Acyclic /\ WithinWorkspace

\* A queued task that no worker may claim waits for work that is under way or
\* for a person: following its prerequisites one comes to a task that can be
\* claimed, runs, or is held or not queued.
Moves(p) == status[p] \in {"idea", "running", "held"} \/ Claimable(p)
BlockedForAReason ==
    \A t \in Tasks : status[t] = "ready" => \E p \in Upstream(t) : Moves(p)

\* The queue drains: in the end each queued task is behind a task that is held
\* or not queued.
Drains ==
    <>[](\A t \in Tasks : status[t] = "ready" =>
            \E p \in Upstream(t) : status[p] \in {"idea", "held"})
=============================================================================
