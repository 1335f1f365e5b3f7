------------------------------- MODULE ChatLane -------------------------------
(***************************************************************************)
(* The conversation: the table messages, the one worker that answers it    *)
(* (Operator.chatLoop, chatWorkOnce, runChat) and the owner's requests.    *)
(*                                                                         *)
(* A message of the owner is queued, claimed, answered by a Codex process  *)
(* whose reply may carry effects, and settled.  The effects are applied    *)
(* before the message is marked complete and the answer is appended after  *)
(* it: these are separate writes, and the daemon may be stopped (the       *)
(* context of the run is cancelled) or killed between any two of them.     *)
(*                                                                         *)
(* What an effect does is not modelled here, only whether it was applied.  *)
(* A call that uses the context of the run fails once the daemon stops;    *)
(* a call made with context.WithoutCancel or context.Background does not.  *)
(***************************************************************************)
EXTENDS Naturals, Sequences, FiniteSets

CONSTANTS
    Workspaces,  \* workspace ids
    First,       \* the workspace made at setup
    NoWorkspace, \* no workspace is left to be selected
    MaxEffects,  \* bound of the model: effects of one reply
    MaxSends,    \* bound of the model: messages the owner sends
    MaxCrashes,  \* bound of the model: kills, forced exits included
    MaxRequests  \* bound of the model: selections, deletions, stale writes, cooldowns

ASSUME ChatAssumption ==
    /\ IsFiniteSet(Workspaces) /\ First \in Workspaces /\ NoWorkspace \notin Workspaces
    /\ MaxEffects \in Nat
    /\ MaxSends \in Nat
    /\ MaxCrashes \in Nat
    /\ MaxRequests \in Nat

Ahead    == {"queued", "processing"}
Settled  == {"complete", "failed"}
Statuses == Ahead \cup Settled \cup {"deleted"}
Replies  == {"answer", "excuse"}

(***************************************************************************)
(* A row of messages.  Its id is its place: AUTOINCREMENT never uses an id *)
(* twice, so a deleted row keeps its place.  root is thread_root_id, or 0. *)
(* says tells finishChatFailure's text from an answer.  Two fields are     *)
(* history: to, the message a reply was written for, and changed, for a    *)
(* message the attempts that applied an effect and for a reply the effects *)
(* applied by the attempt it reports on.                                   *)
(***************************************************************************)
Rows == [says    : {"user"} \cup Replies,
         root    : Nat,
         home    : Workspaces,
         status  : Statuses,
         to      : Nat,
         changed : Nat]

VARIABLES
    messages,   \* the table messages
    runs,       \* messages whose chat run row is running
    workspaces, \* open, barred (not allowed or mission not started), gone
    active,     \* settings.active_workspace_id
    cooling,    \* codexRetryAt lies ahead
    wake,       \* the token in the channel chatWake
    worker,     \* the goroutine of chatLoop
    process,    \* up, stopping (its context is cancelled) or down
    crashes,    \* history and bound: kills so far
    left,       \* bound: requests and cooldowns to come
    skipped     \* history: chatWorkOnce last returned without asking the queue

vars == <<messages, runs, workspaces, active, cooling, wake, worker, process,
          crashes, left, skipped>>

Steps == {"idle", "claim", "workspace", "packet", "launch", "codex", "repair",
          "apply", "complete", "answer", "fail", "excuse", "requeue", "finish"}

\* id: the message; todo: effects to apply; done: effects this attempt has
\* applied; app: the first effect of the reply is one on a local app (create,
\* start or stop); bound: finishChatFailure was given the context of the run.
Workers == [step : Steps, id : Nat, todo : Nat, done : Nat, app : BOOLEAN, bound : BOOLEAN]
Idle    == [step |-> "idle", id |-> 0, todo |-> 0, done |-> 0, app |-> FALSE, bound |-> FALSE]

\* The first workspace waits for StartMission; CreateScope starts the others.
Init ==
    /\ messages = << >>
    /\ runs = {}
    /\ workspaces = [w \in Workspaces |-> IF w = First THEN "barred" ELSE "open"]
    /\ active = First
    /\ cooling = FALSE
    /\ wake = TRUE
    /\ worker = Idle
    /\ process = "up"
    /\ crashes = 0
    /\ left = MaxRequests
    /\ skipped = FALSE

-----------------------------------------------------------------------------
\* The table.

Ids           == DOMAIN messages
InState(S)    == {m \in Ids : messages[m].status \in S}
Queued        == InState({"queued"})
Processing    == InState({"processing"})
Exists(m)     == m \in Ids /\ messages[m].status # "deleted"
Sends         == {m \in Ids : messages[m].says = "user"}
InThread(m)   == {k \in Ids : k = m \/ messages[k].root = m}

SetStatus(S, s) == [m \in Ids |-> IF m \in S THEN [messages[m] EXCEPT !.status = s]
                                  ELSE messages[m]]

\* AppendMessage: the thread root and the workspace must exist.
Appendable(root, w) == /\ root = 0 \/ Exists(root)
                       /\ workspaces[w] # "gone"

\* The owner may message Nabu, and the lane may work, in a selected
\* workspace whose mission is started; the lane also waits for Codex.
Started == active # NoWorkspace /\ workspaces[active] = "open"
Open    == process = "up" /\ Started /\ ~cooling

-----------------------------------------------------------------------------
\* The worker.

At(s)      == worker.step = s /\ process # "down"
Cancelled  == process = "stopping"
Mine       == messages[worker.id]
GoTo(s)    == worker' = [worker EXCEPT !.step = s]

\* finishChatFailure is entered with the context of the run, or without it.
Fails(bound) == worker' = [worker EXCEPT !.step = "fail", !.bound = bound]

\* A valid structured response with n effects; the type of the first one will
\* be the effect of the answer.
Understood(n) ==
    \E app \in IF n = 0 THEN {FALSE} ELSE BOOLEAN :
        worker' = [worker EXCEPT !.step = IF n = 0 THEN "complete" ELSE "apply",
                                 !.todo = n, !.app = app]

\* A message arrived or the ticker fired; chatWorkOnce reads the settings.
\* Once the context is cancelled that read fails and nothing else happens.
CheckQueue ==
    /\ At("idle") /\ ~Cancelled
    /\ wake' \in {FALSE, wake}
    /\ IF Open THEN GoTo("claim") /\ UNCHANGED skipped
               ELSE skipped' = TRUE /\ UNCHANGED worker
    /\ UNCHANGED <<messages, runs, workspaces, active, cooling, process, crashes, left>>

\* Mutant of Claim: the order of the queue is not asked for.
ClaimAny ==
    /\ At("claim")
    /\ skipped' = FALSE
    /\ IF Cancelled \/ Queued = {}
       THEN worker' = Idle /\ UNCHANGED messages
       ELSE \E m \in Queued :
              /\ messages' = SetStatus({m}, "processing")
              /\ worker' = [Idle EXCEPT !.step = "workspace", !.id = m]
    /\ UNCHANGED <<runs, workspaces, active, cooling, wake, process, crashes, left>>

\* ClaimNextQueuedMessage: the oldest queued message of any workspace.
Claim ==
    /\ At("claim")
    /\ skipped' = FALSE
    /\ IF Cancelled \/ Queued = {}
       THEN worker' = Idle /\ UNCHANGED messages
       ELSE \E m \in Queued :
              /\ \A k \in Queued : m <= k
              /\ messages' = SetStatus({m}, "processing")
              /\ worker' = [Idle EXCEPT !.step = "workspace", !.id = m]
    /\ UNCHANGED <<runs, workspaces, active, cooling, wake, process, crashes, left>>

\* GetWorkspace fails or the workspace is not available: chatWorkOnce marks
\* the message failed, tells nobody, and returns without endChat's signal.
FindWorkspace ==
    /\ At("workspace")
    /\ IF Cancelled \/ workspaces[Mine.home] # "open"
       THEN /\ messages' = SetStatus({worker.id}, "failed")
            /\ worker' = Idle
            /\ skipped' = TRUE
       ELSE GoTo("packet") /\ UNCHANGED <<messages, skipped>>
    /\ UNCHANGED <<runs, workspaces, active, cooling, wake, process, crashes, left>>

\* chatPacketRequest, BuildPacket and CreateRun.  They fail for reasons of
\* their own (the task to recover has moved on, a file cannot be read).
Packet ==
    /\ At("packet")
    /\ \/ Cancelled /\ GoTo("requeue") /\ UNCHANGED runs
       \/ ~Cancelled /\ Fails(TRUE) /\ UNCHANGED runs
       \/ ~Cancelled /\ GoTo("launch") /\ runs' = runs \cup {worker.id}
    /\ UNCHANGED <<messages, workspaces, active, cooling, wake, process, crashes, left, skipped>>

\* codexRunWithBrowser.
Launch ==
    /\ At("launch")
    /\ \/ Fails(TRUE)
       \/ ~Cancelled /\ GoTo("codex")
    /\ UNCHANGED <<messages, runs, workspaces, active, cooling, wake, process, crashes, left, skipped>>

\* runner.Run, recordCodexExecution and ParseResult.
Codex ==
    /\ At("codex")
    /\ \/ Cancelled /\ GoTo("requeue") /\ UNCHANGED cooling
       \/ ~Cancelled /\ Fails(FALSE) /\ cooling' \in {cooling, TRUE}
       \/ ~Cancelled /\ GoTo("repair") /\ UNCHANGED cooling
       \/ ~Cancelled /\ (\E n \in 0..MaxEffects : Understood(n)) /\ UNCHANGED cooling
    /\ UNCHANGED <<messages, runs, workspaces, active, wake, process, crashes, left, skipped>>

\* The one repair of an invalid response.  A cancellation here is a failure.
Repair ==
    /\ At("repair")
    /\ \/ Fails(FALSE) /\ cooling' \in {cooling, TRUE}
       \/ ~Cancelled /\ (\E n \in 0..MaxEffects : Understood(n)) /\ UNCHANGED cooling
    /\ UNCHANGED <<messages, runs, workspaces, active, wake, process, crashes, left, skipped>>

\* applyChatEffects goes on whether or not the daemon stops, and ends at the
\* first effect that is refused.  Effects already applied stay.
ApplyEffect ==
    /\ At("apply")
    /\ \/ /\ worker' = [worker EXCEPT !.step = IF worker.todo = 1 THEN "complete" ELSE "apply",
                                      !.todo = worker.todo - 1,
                                      !.done = worker.done + 1]
          /\ messages' = IF worker.done > 0 THEN messages
                         ELSE [messages EXCEPT ![worker.id].changed = @ + 1]
       \/ /\ worker' = [worker EXCEPT !.step = "complete", !.todo = 0]
          /\ UNCHANGED messages
    /\ UNCHANGED <<runs, workspaces, active, cooling, wake, process, crashes, left, skipped>>

\* Mutant of Complete: with the context, a cancellation requeues the message.
CompleteCancellable ==
    /\ At("complete")
    /\ \/ Cancelled /\ GoTo("requeue") /\ UNCHANGED messages
       \/ ~Cancelled /\ messages' = SetStatus({worker.id}, "complete") /\ GoTo("answer")
    /\ UNCHANGED <<runs, workspaces, active, cooling, wake, process, crashes, left, skipped>>

\* UpdateMessage(complete), without the context.
Complete ==
    /\ At("complete")
    /\ IF Exists(worker.id)
       THEN messages' = SetStatus({worker.id}, "complete") /\ GoTo("answer")
       ELSE Fails(FALSE) /\ UNCHANGED messages
    /\ UNCHANGED <<runs, workspaces, active, cooling, wake, process, crashes, left, skipped>>

Reply(says) == [says |-> says, root |-> Mine.root, home |-> Mine.home,
                status |-> "complete", to |-> worker.id, changed |-> worker.done]

\* validateMessage does not know the effects on local apps.
Recordable == ~worker.app

\* Mutant of Answer: with the context, the answer fails when the daemon stops.
AnswerCancellable ==
    /\ At("answer")
    /\ IF ~Cancelled /\ Recordable /\ Appendable(Mine.root, Mine.home)
       THEN messages' = Append(messages, Reply("answer")) /\ GoTo("finish")
       ELSE Fails(FALSE) /\ UNCHANGED messages
    /\ UNCHANGED <<runs, workspaces, active, cooling, wake, process, crashes, left, skipped>>

\* AppendMessage(assistant), without the context.
Answer ==
    /\ At("answer")
    /\ IF Recordable /\ Appendable(Mine.root, Mine.home)
       THEN messages' = Append(messages, Reply("answer")) /\ GoTo("finish")
       ELSE Fails(FALSE) /\ UNCHANGED messages
    /\ UNCHANGED <<runs, workspaces, active, cooling, wake, process, crashes, left, skipped>>

\* finishChatFailure ignores what its writes return: with the cancelled
\* context of the run it writes nothing.
Silenced == worker.bound /\ Cancelled

Fail ==
    /\ At("fail")
    /\ messages' = IF ~Silenced /\ Exists(worker.id)
                   THEN SetStatus({worker.id}, "failed") ELSE messages
    /\ GoTo("excuse")
    /\ UNCHANGED <<runs, workspaces, active, cooling, wake, process, crashes, left, skipped>>

Excuse ==
    /\ At("excuse")
    /\ messages' = IF ~Silenced /\ Appendable(Mine.root, Mine.home)
                   THEN Append(messages, Reply("excuse")) ELSE messages
    /\ GoTo("finish")
    /\ UNCHANGED <<runs, workspaces, active, cooling, wake, process, crashes, left, skipped>>

\* requeueChatMessage.
Requeue ==
    /\ At("requeue")
    /\ messages' = IF Mine.status = "processing"
                   THEN SetStatus({worker.id}, "queued") ELSE messages
    /\ GoTo("finish")
    /\ UNCHANGED <<runs, workspaces, active, cooling, wake, process, crashes, left, skipped>>

\* Mutant of Finish: endChat does not ask for the next message.
FinishSilently ==
    /\ At("finish")
    /\ runs' = IF Silenced THEN runs ELSE runs \ {worker.id}
    /\ worker' = Idle
    /\ UNCHANGED <<messages, workspaces, active, cooling, wake, process, crashes, left, skipped>>

\* finishChatRun, and endChat's signal for the next message.
Finish ==
    /\ At("finish")
    /\ runs' = IF Silenced THEN runs ELSE runs \ {worker.id}
    /\ worker' = Idle
    /\ wake' = TRUE
    /\ UNCHANGED <<messages, workspaces, active, cooling, process, crashes, left, skipped>>

-----------------------------------------------------------------------------
\* The owner, through the HTTP interface; requests in flight are still
\* served while the daemon stops.

Request == process # "down" /\ left > 0 /\ left' = left - 1

\* SendChat: a message, or a reply in the thread of an existing message.
ThreadOf(p) == IF messages[p].root = 0 THEN p ELSE messages[p].root

SendIn(root) ==
    /\ messages' = Append(messages,
                     [says |-> "user", root |-> root, home |-> active,
                      status |-> "queued", to |-> 0, changed |-> 0])
    /\ wake' = TRUE

SendChat ==
    /\ process # "down" /\ Started
    /\ Cardinality(Sends) < MaxSends
    /\ \/ SendIn(0)
       \/ \E p \in Ids : /\ Exists(p) /\ messages[p].home = active
                         /\ SendIn(ThreadOf(p))
    /\ UNCHANGED <<runs, workspaces, active, cooling, worker, process, crashes, left, skipped>>

\* DeleteChatMessage: never a message being answered, nor the root of its
\* thread; the replies of a root go with it.
Deletable(m) == InThread(m) \cap Processing = {}

DeleteChatMessage ==
    /\ Request
    /\ \E m \in Ids : /\ Exists(m) /\ messages[m].home = active
                      /\ Deletable(m)
                      /\ messages' = SetStatus(InThread(m), "deleted")
    /\ UNCHANGED <<runs, workspaces, active, cooling, wake, worker, process, crashes, skipped>>

SelectWorkspace ==
    /\ Request
    /\ active' \in {w \in Workspaces : workspaces[w] # "gone"}
    /\ UNCHANGED <<messages, runs, workspaces, cooling, wake, worker, process, crashes, skipped>>

\* UpdateSettings writes a whole snapshot: one taken before StartMission
\* takes the mission of the first workspace back, and selects it.
StaleSettings ==
    /\ Request /\ workspaces[First] = "open"
    /\ workspaces' = [workspaces EXCEPT ![First] = "barred"]
    /\ active' = First
    /\ UNCHANGED <<messages, runs, cooling, wake, worker, process, crashes, skipped>>

StartMission ==
    /\ process # "down" /\ active # NoWorkspace /\ workspaces[active] = "barred"
    /\ workspaces' = [workspaces EXCEPT ![active] = "open"]
    /\ UNCHANGED <<messages, runs, active, cooling, wake, worker, process, crashes, left, skipped>>

\* DeleteScope: not while a message of the workspace is queued or processing.
DeleteWorkspace(w) ==
    /\ Request /\ workspaces[w] # "gone"
    /\ \A m \in InState(Ahead) : messages[m].home # w
    /\ workspaces' = [workspaces EXCEPT ![w] = "gone"]
    /\ messages' = SetStatus({m \in Ids : messages[m].home = w}, "deleted")
    /\ runs' = {m \in runs : messages[m].home # w}
    /\ LET rest == {v \in Workspaces \ {w} : workspaces[v] # "gone"}
       IN  active' \in IF active # w THEN {active}
                       ELSE IF rest = {} THEN {NoWorkspace} ELSE rest
    /\ UNCHANGED <<cooling, wake, worker, process, crashes, skipped>>

-----------------------------------------------------------------------------
\* Codex and the daemon.

\* A task's run found Codex unavailable; the time to retry has come.
CodexCools == /\ Request /\ cooling' = TRUE
              /\ UNCHANGED <<messages, runs, workspaces, active, wake, worker, process, crashes, skipped>>

CodexReady == /\ process # "down" /\ cooling /\ cooling' = FALSE
              /\ UNCHANGED <<messages, runs, workspaces, active, wake, worker, process, crashes, left, skipped>>

Stop == /\ process = "up" /\ process' = "stopping"
        /\ UNCHANGED <<messages, runs, workspaces, active, cooling, wake, worker, crashes, left, skipped>>

\* The lane has left its loop; or the daemon is killed, or its ten seconds
\* to stop have passed.
Down == /\ process' = "down"
        /\ worker' = Idle
        /\ wake' = FALSE
        /\ cooling' = FALSE
        /\ skipped' = FALSE
        /\ UNCHANGED <<messages, runs, workspaces, active, left>>

Exit  == At("idle") /\ Cancelled /\ Down /\ UNCHANGED crashes
Crash == process # "down" /\ crashes < MaxCrashes /\ Down /\ crashes' = crashes + 1

\* Mutant of Restart: the chat queue is not recovered.
RestartForgetful ==
    /\ process = "down"
    /\ runs' = {}
    /\ process' = "up"
    /\ wake' = TRUE
    /\ UNCHANGED <<messages, workspaces, active, cooling, worker, crashes, left, skipped>>

\* RecoverInterrupted, then Operator.Start.
Restart ==
    /\ process = "down"
    /\ messages' = SetStatus(Processing, "queued")
    /\ runs' = {}
    /\ process' = "up"
    /\ wake' = TRUE
    /\ UNCHANGED <<workspaces, active, cooling, worker, crashes, left, skipped>>

Lane == \/ CheckQueue \/ Claim \/ FindWorkspace \/ Packet \/ Launch \/ Codex \/ Repair
        \/ ApplyEffect \/ Complete \/ Answer \/ Fail \/ Excuse \/ Requeue \/ Finish

Owner == \/ SendChat \/ DeleteChatMessage \/ SelectWorkspace \/ StaleSettings
         \/ StartMission \/ \E w \in Workspaces : DeleteWorkspace(w)

Next == Lane \/ Owner \/ CodexCools \/ CodexReady \/ Stop \/ Exit \/ Crash \/ Restart

Spec == Init /\ [][Next]_vars

\* The goroutine of the lane is scheduled, every Codex process ends (at the
\* latest by the runner's time limit) and the ticker fires.
FairSpec == Spec /\ WF_vars(Lane)

-----------------------------------------------------------------------------
\* Properties.

\* Every variable has its type (the columns of messages and the fields of
\* Operator behind chatLoop); a thread is one level deep, below an older row.
TypeOK ==
    /\ messages \in Seq(Rows)
    /\ \A m \in Ids : messages[m].root # 0 =>
          messages[m].root < m /\ messages[messages[m].root].root = 0
    /\ runs \subseteq Ids
    /\ workspaces \in [Workspaces -> {"open", "barred", "gone"}]
    /\ active \in Workspaces \cup {NoWorkspace}
    /\ cooling \in BOOLEAN
    /\ wake \in BOOLEAN
    /\ worker \in Workers
    /\ process \in {"up", "stopping", "down"}
    /\ crashes \in Nat
    /\ left \in Nat
    /\ skipped \in BOOLEAN

\* Steps of the worker at which its message is still to be settled.
Holding == {"workspace", "packet", "launch", "codex", "repair", "apply", "complete", "requeue"}

\* While the daemon runs, the messages marked processing and the open chat
\* runs are those the worker has in its hands, and the message it works on
\* stays marked: no deletion, claim or failure leaves one behind
\* (ClaimNextQueuedMessage, DeleteMessage, RequeueMessage, RecoverInterrupted).
InHand ==
    /\ process = "up" => Processing \subseteq {worker.id} /\ runs \subseteq {worker.id}
    /\ worker.step \in Holding => worker.id \in Processing

\* "conversation stays ordered": a message is settled only when no older one
\* is still to be settled, across failures, stops, kills and restarts
\* (ClaimNextQueuedMessage, RequeueMessage, RecoverInterrupted).
InOrder ==
    [][\A m \in InState(Ahead) :
         messages'[m].status \in Settled =>
            \A k \in 1..(m - 1) : messages[k].status \notin Ahead]_vars

\* A message has at most one reply, and the reply tells what became of it: an
\* answer that it is complete, an excuse that it failed; a message that has
\* its reply is never answered again (runChat, finishChatFailure).
ReplyMatchesOutcome ==
    \A r \in Ids : messages[r].says \in Replies =>
        LET m == messages[r].to IN
        /\ m \in Sends
        /\ messages[m].status \in {IF messages[r].says = "answer" THEN "complete" ELSE "failed",
                                   "deleted"}
        /\ \A q \in Ids : messages[q].says \in Replies /\ messages[q].to = m => q = r

\* An excuse is written after effects only when the reply began with an effect
\* on a local app, whatever stops, deletions and failures come between the
\* effects, the status and the answer: nothing else that runChat does after
\* applyChatEffects ends in an excuse.
DeniesOnlyApps ==
    [][\A r \in Ids' \ Ids :
         messages'[r].says = "excuse" => worker.done = 0 \/ worker.app]_vars

\* What the owner reads is what happened: no reply contradicts the status of
\* its message, and none denies effects but the excuse for the answer that
\* validateMessage refuses (runChat, finishChatFailure).
RepliesAreTrue == []ReplyMatchesOutcome /\ DeniesOnlyApps

\* What finishChatFailure tells the owner, "No changes were made", is so: the
\* attempt it reports on applied no effect.  It is not so after an effect on a
\* local app.
TruthfulExcuse ==
    \A r \in Ids : messages[r].says = "excuse" => messages[r].changed = 0

\* Only a kill repeats effects: cancelling, requeueing and answering again
\* never apply the effects of a message a second time (runChat,
\* applyChatEffects, requeueChatMessage).
EffectsOnce ==
    \A m \in Sends : messages[m].changed <= 1 + crashes

\* The lane never sleeps on a queued message without a signal waiting for it,
\* unless chatWorkOnce turned back before it asked the queue: "polling only
\* recovers work left queued across an unusual missed signal" (SendChat,
\* endChat, signalChat, Start).
NoMissedSignal ==
    process = "up" /\ worker.step = "idle" /\ Queued # {} /\ ~wake => skipped

\* No message is left lying: one that is marked is in the worker's hands, and
\* one that is queued will be noticed.
Attended == InHand /\ NoMissedSignal

\* The owner having sent a last message, every message is settled or deleted
\* in the end, provided the daemon comes to stay up, in a started workspace,
\* with Codex available (chatLoop's ticker and signals, RecoverInterrupted).
Drains == <>[]Open => <>[](InState(Ahead) = {})
=============================================================================
