---------------------------- MODULE ChatLaneProofs ----------------------------
\* Proofs about ChatLane, for every set of workspaces and all bounds.
EXTENDS ChatLane, SequenceTheorems, TLAPS

-----------------------------------------------------------------------------
\* The inductive invariant.

\* What the step of the worker says about its own fields.
Shape ==
    /\ process = "down" => worker.step = "idle"
    /\ worker.step \in {"idle", "claim"} => worker.id = 0 /\ worker.done = 0
    /\ worker.step \notin {"idle", "claim"} => worker.id \in Sends
    /\ worker.step = "apply" => worker.todo > 0
    /\ worker.step \in {"workspace", "packet", "launch", "codex", "repair", "requeue"} =>
          worker.done = 0
    /\ worker.bound => worker.done = 0 /\ worker.step \in {"fail", "excuse", "finish"}

\* What it says about the status of its message.
Marked ==
    /\ worker.step \in Holding => Mine.status = "processing"
    /\ worker.step = "answer" => Mine.status \in {"complete", "deleted"}
    /\ worker.step = "fail" =>
          /\ Mine.status \in {"processing", "complete", "deleted"}
          /\ worker.done > 0 => Mine.status # "processing"
    /\ worker.step = "excuse" => Mine.status \in {"failed", "deleted"} \/ Silenced
    /\ worker.step = "finish" =>
          /\ worker.done > 0 => Mine.status \notin Ahead
          /\ process = "up" => Mine.status # "processing"

\* While the daemon runs nothing else is marked, and no other run is open.
Alone ==
    process = "up" =>
        /\ \A m \in Ids : messages[m].status = "processing" => m = worker.id
        /\ \A m \in runs : m = worker.id /\ worker.step # "workspace"

\* The worker's message is the oldest that is still to be settled.
Oldest ==
    worker.step \notin {"idle", "claim"} =>
        \A k \in Ids : k < worker.id => messages[k].status \notin Ahead

\* No reply is written before the worker writes it.
Unreplied ==
    worker.step \in {"answer", "fail", "excuse"} =>
        \A r \in Ids : messages[r].says \in Replies => messages[r].to # worker.id

\* A failure after effects has nowhere to put its excuse, unless its answer was
\* refused for the effect it began with.
Muted ==
    worker.step \in {"fail", "excuse"} =>
        worker.done = 0 \/ worker.app \/ ~Appendable(Mine.root, Mine.home)

\* A message still to be settled has changed something in at most as many
\* attempts as the daemon was killed, the present attempt aside.
Counted ==
    \A m \in Sends :
        /\ messages[m].changed <= crashes + 1
        /\ messages[m].status \in Ahead /\ ~(worker.id = m /\ worker.done > 0) =>
              messages[m].changed <= crashes

\* Only the owner's messages wait for an answer.
Asked == InState(Ahead) \subseteq Sends

LaneInv == /\ TypeOK /\ Asked /\ Shape /\ Marked /\ Alone /\ Oldest
           /\ ReplyMatchesOutcome /\ Unreplied /\ Muted /\ Counted

-----------------------------------------------------------------------------
\* What the writes of the table do to its rows.

LEMMA FunctionIsSeq ==
    ASSUME NEW S, NEW n \in Nat, NEW f \in [1..n -> S]
    PROVE  f \in Seq(S)
OBVIOUS

\* The fields no write of a status touches.
SameRow(m) == /\ messages'[m].says = messages[m].says
              /\ messages'[m].root = messages[m].root
              /\ messages'[m].home = messages[m].home
              /\ messages'[m].to = messages[m].to

LEMMA StatusWritten ==
    ASSUME messages \in Seq(Rows), NEW S, NEW s \in Statuses, messages' = SetStatus(S, s)
    PROVE  /\ messages' \in Seq(Rows)
           /\ Ids' = Ids
           /\ \A m \in Ids : /\ SameRow(m)
                             /\ messages'[m].changed = messages[m].changed
                             /\ messages'[m].status = IF m \in S THEN s ELSE messages[m].status
<1>1. PICK n \in Nat : messages \in [1..n -> Rows]
  BY LenProperties
<1>2. /\ Ids' = Ids
      /\ \A m \in Ids : messages'[m] =
            IF m \in S THEN [messages[m] EXCEPT !.status = s] ELSE messages[m]
  BY DEF SetStatus, Ids
<1>3. \A m \in Ids : messages[m] \in Rows
  BY <1>1 DEF Ids
<1>4. \A m \in Ids : messages'[m] \in Rows
  BY <1>2, <1>3 DEF Rows
<1>5. messages' \in [1..n -> Rows]
  BY <1>1, <1>4 DEF SetStatus, Ids
<1> QED
  BY <1>2, <1>3, <1>5, FunctionIsSeq DEF Rows, SameRow

LEMMA OneWritten ==
    ASSUME messages \in Seq(Rows), NEW i, NEW s \in Statuses, messages' = SetStatus({i}, s)
    PROVE  /\ messages' \in Seq(Rows) /\ Ids' = Ids /\ Sends' = Sends
           /\ \A m \in Ids : /\ SameRow(m) /\ messages'[m].changed = messages[m].changed
                             /\ messages'[m].status = IF m = i THEN s ELSE messages[m].status
<1>1. PICK S : S = {i}
  OBVIOUS
<1>2. messages' = SetStatus(S, s) /\ s \in Statuses
  BY <1>1
<1>3. /\ messages' \in Seq(Rows) /\ Ids' = Ids
      /\ \A m \in Ids : /\ SameRow(m) /\ messages'[m].changed = messages[m].changed
                        /\ messages'[m].status = IF m \in S THEN s ELSE messages[m].status
  BY ONLY messages \in Seq(Rows), <1>2, StatusWritten, ZenonT(30)
<1>4. \A m \in Ids : messages'[m].status = IF m = i THEN s ELSE messages[m].status
  BY <1>1, <1>3
<1>5. Sends' = Sends
  BY <1>3 DEF Sends, SameRow
<1> QED
  BY <1>3, <1>4, <1>5

LEMMA RowAdded ==
    ASSUME messages \in Seq(Rows), NEW row \in Rows, messages' = Append(messages, row)
    PROVE  /\ messages' \in Seq(Rows)
           /\ \A m \in Ids : messages'[m] = messages[m]
           /\ \E n \in Nat : /\ n \notin Ids /\ Ids' = Ids \cup {n} /\ messages'[n] = row
                             /\ n > 0
                             /\ \A m \in Ids : m < n
BY DEF Ids

LEMMA ChangeCounted ==
    ASSUME messages \in Seq(Rows), NEW i \in Ids,
           messages' = [messages EXCEPT ![i].changed = @ + 1]
    PROVE  /\ messages' \in Seq(Rows)
           /\ Ids' = Ids
           /\ \A m \in Ids : /\ SameRow(m)
                             /\ messages'[m].status = messages[m].status
                             /\ messages'[m].changed = IF m = i THEN messages[m].changed + 1
                                                       ELSE messages[m].changed
<1>1. PICK n \in Nat : messages \in [1..n -> Rows]
  BY LenProperties
<1>2. \A m \in Ids : messages[m] \in Rows
  BY <1>1 DEF Ids
<1>3. messages[i].changed + 1 \in Nat
  BY <1>2 DEF Rows
<1> DEFINE row == [messages[i] EXCEPT !.changed = @ + 1]
<1>4. /\ row \in Rows
      /\ row.changed = messages[i].changed + 1
      /\ row.status = messages[i].status
      /\ row.says = messages[i].says /\ row.root = messages[i].root
      /\ row.home = messages[i].home /\ row.to = messages[i].to
  BY <1>2, <1>3 DEF Rows
<1>5. /\ Ids' = Ids
      /\ \A m \in Ids : messages'[m] = IF m = i THEN row ELSE messages[m]
  BY <1>1 DEF Ids
<1> HIDE DEF row
<1>6. \A m \in Ids : messages'[m] \in Rows
  BY <1>2, <1>4, <1>5
<1>7. messages' \in [1..n -> Rows]
  BY <1>1, <1>6 DEF Ids
<1> QED
  BY <1>4, <1>5, <1>7, FunctionIsSeq DEF SameRow

\* Ids are positive, and the fields of a row have their types.
LEMMA RowTypes ==
    ASSUME messages \in Seq(Rows)
    PROVE  /\ 0 \notin Ids /\ Ids \subseteq Nat
           /\ \A m \in Ids : /\ messages[m] \in Rows
                             /\ messages[m].says \in {"user"} \cup Replies
                             /\ messages[m].root \in Nat
                             /\ messages[m].home \in Workspaces
                             /\ messages[m].status \in Statuses
                             /\ messages[m].to \in Nat
                             /\ messages[m].changed \in Nat
<1>1. \A m \in Ids : messages[m] \in Rows
  BY LenProperties DEF Ids
<1>2. 0 \notin Ids /\ Ids \subseteq Nat
  BY LenProperties DEF Ids
<1> QED
  BY <1>1, <1>2 DEF Rows

-----------------------------------------------------------------------------
\* The lane: what the worker holds.

LEMMA WorkerGoes ==
    ASSUME worker \in Workers, NEW s \in Steps, GoTo(s)
    PROVE  /\ worker' \in Workers /\ worker'.step = s /\ worker'.id = worker.id
           /\ worker'.done = worker.done /\ worker'.todo = worker.todo
           /\ worker'.bound = worker.bound /\ worker'.app = worker.app
BY DEF Workers, GoTo

LEMMA WorkerFails ==
    ASSUME worker \in Workers, NEW b \in BOOLEAN, Fails(b)
    PROVE  /\ worker' \in Workers /\ worker'.step = "fail" /\ worker'.id = worker.id
           /\ worker'.done = worker.done /\ worker'.bound = b /\ worker'.app = worker.app
BY DEF Workers, Fails, Steps

LEMMA WorkerUnderstands ==
    ASSUME worker \in Workers, NEW n \in Nat, Understood(n)
    PROVE  /\ worker' \in Workers /\ worker'.step \in {"complete", "apply"}
           /\ worker'.step = "apply" => worker'.todo > 0
           /\ worker'.id = worker.id /\ worker'.done = worker.done
           /\ worker'.bound = worker.bound
<1>1. PICK app \in BOOLEAN :
         worker' = [worker EXCEPT !.step = IF n = 0 THEN "complete" ELSE "apply",
                                  !.todo = n, !.app = app]
  BY DEF Understood
<1>2. CASE n = 0
  BY <1>1, <1>2 DEF Workers, Steps
<1>3. CASE n # 0
  <2>1. worker' = [worker EXCEPT !.step = "apply", !.todo = n, !.app = app]
    BY <1>1, <1>3
  <2>2. worker'.step = "apply" /\ worker'.todo = n
    BY <2>1 DEF Workers
  <2>3. /\ worker' \in Workers /\ worker'.id = worker.id /\ worker'.done = worker.done
        /\ worker'.bound = worker.bound
    BY <2>1 DEF Workers, Steps
  <2> QED
    BY <1>3, <2>2, <2>3
<1> QED
  BY <1>2, <1>3

LEMMA IdleIsWorker ==
    Idle \in Workers /\ Idle.step = "idle" /\ Idle.id = 0 /\ Idle.done = 0 /\ Idle.bound = FALSE
BY DEF Idle, Workers, Steps

\* The worker goes on to another step with the same message, and writes
\* nothing but a run row.
Working == {"packet", "launch", "codex", "repair", "apply"}
Onward  == {"launch", "codex", "repair", "apply", "complete", "requeue", "fail"}

QuietMove ==
    /\ UNCHANGED <<messages, process, crashes, workspaces>>
    /\ worker' \in Workers /\ worker'.id = worker.id /\ worker'.done = worker.done
    /\ worker.step \in Working /\ worker'.step \in Onward
    /\ worker.step = "apply" => worker'.step = "complete"
    /\ worker'.step = "apply" => worker'.todo > 0
    /\ worker'.bound => worker'.step = "fail"
    /\ runs' \subseteq runs \cup {worker.id}

LEMMA QuietMoveKeeps ==
    ASSUME LaneInv, QuietMove, TypeOK'
    PROVE  LaneInv'
<1> USE DEF QuietMove, Working, Onward
<1>1. /\ Ids' = Ids /\ Sends' = Sends /\ messages' = messages
      /\ process' = process /\ crashes' = crashes /\ workspaces' = workspaces
  BY DEF Ids, Sends
<1>2. /\ Mine' = Mine /\ Mine.status = "processing" /\ worker.id \in Sends
      /\ process # "down"
      /\ worker.step # "apply" => worker.done = 0
  BY <1>1 DEF LaneInv, Marked, Shape, Holding, Mine
<1>3. Shape'
  BY <1>1, <1>2 DEF Shape
<1>4. Marked'
  <2>1. worker'.done > 0 => worker'.step = "complete"
    BY <1>2 DEF LaneInv, TypeOK, Workers
  <2> QED
    BY <1>1, <1>2, <2>1 DEF Marked, Holding
<1>5. Alone'
  BY <1>1 DEF LaneInv, Alone
<1>6. Oldest'
  BY <1>1 DEF LaneInv, Oldest
<1>7. ReplyMatchesOutcome'
  BY <1>1 DEF LaneInv, ReplyMatchesOutcome
<1>8. Unreplied'
  BY <1>1, <1>2 DEF LaneInv, ReplyMatchesOutcome, Unreplied, Mine
<1>9. Muted'
  BY <1>1, <1>2 DEF Muted
<1>10. Counted' /\ Asked'
  BY <1>1 DEF LaneInv, Counted, Asked, InState
<1> QED
  BY <1>3, <1>4, <1>5, <1>6, <1>7, <1>8, <1>9, <1>10 DEF LaneInv


\* What TypeOK says, for a step that changes no row.
LEMMA SameRowsTyped ==
    ASSUME TypeOK, UNCHANGED <<messages, workspaces, active>>,
           runs' \subseteq Ids, cooling' \in BOOLEAN, wake' \in BOOLEAN, worker' \in Workers,
           process' \in {"up", "stopping", "down"}, crashes' \in Nat, left' \in Nat,
           skipped' \in BOOLEAN
    PROVE  TypeOK'
BY DEF TypeOK, Ids

LEMMA PacketKeeps ==
    ASSUME LaneInv, Packet
    PROVE  LaneInv'
<1>1. /\ TypeOK /\ worker \in Workers /\ worker.step = "packet" /\ worker.id \in Ids
      /\ ~worker.bound
  BY DEF LaneInv, TypeOK, Shape, Sends, Packet, At
<1>2. /\ worker' \in Workers /\ worker'.id = worker.id /\ worker'.done = worker.done
      /\ worker'.step \in {"requeue", "fail", "launch"}
      /\ worker'.bound => worker'.step = "fail"
  BY <1>1, WorkerGoes, WorkerFails DEF Packet, Steps
<1>3. runs' \subseteq runs \cup {worker.id}
  BY DEF Packet
<1>4. TypeOK'
  BY <1>1, <1>2, <1>3, SameRowsTyped DEF Packet, TypeOK
<1> QED
  BY <1>1, <1>2, <1>3, <1>4, QuietMoveKeeps DEF Packet, QuietMove, Working, Onward

LEMMA LaunchKeeps ==
    ASSUME LaneInv, Launch
    PROVE  LaneInv'
<1>1. TypeOK /\ worker \in Workers /\ worker.step = "launch" /\ ~worker.bound
  BY DEF LaneInv, TypeOK, Shape, Launch, At
<1>2. /\ worker' \in Workers /\ worker'.id = worker.id /\ worker'.done = worker.done
      /\ worker'.step \in {"fail", "codex"} /\ (worker'.bound => worker'.step = "fail")
  BY <1>1, WorkerGoes, WorkerFails DEF Launch, Steps
<1>3. TypeOK'
  BY <1>1, <1>2, SameRowsTyped DEF Launch, TypeOK
<1> QED
  BY <1>1, <1>2, <1>3, QuietMoveKeeps DEF Launch, QuietMove, Working, Onward

LEMMA CodexKeeps ==
    ASSUME LaneInv, Codex
    PROVE  LaneInv'
<1>1. TypeOK /\ worker \in Workers /\ worker.step = "codex" /\ ~worker.bound
  BY DEF LaneInv, TypeOK, Shape, Codex, At
<1>2. 0..MaxEffects \subseteq Nat
  BY ChatAssumption
<1>3. /\ worker' \in Workers /\ worker'.id = worker.id /\ worker'.done = worker.done
      /\ worker'.step \in {"requeue", "fail", "repair", "complete", "apply"}
      /\ worker'.step = "apply" => worker'.todo > 0
      /\ worker'.bound => worker'.step = "fail"
  <2>1. CASE GoTo("requeue") \/ GoTo("repair")
    BY <1>1, <2>1, WorkerGoes DEF Steps
  <2>2. CASE Fails(FALSE)
    BY <1>1, <2>2, WorkerFails
  <2>3. CASE \E n \in 0..MaxEffects : Understood(n)
    BY <1>1, <1>2, <2>3, WorkerUnderstands
  <2> QED
    BY <2>1, <2>2, <2>3 DEF Codex
<1>4. TypeOK'
  BY <1>1, <1>3, SameRowsTyped DEF Codex, TypeOK
<1> QED
  BY <1>1, <1>3, <1>4, QuietMoveKeeps DEF Codex, QuietMove, Working, Onward

LEMMA RepairKeeps ==
    ASSUME LaneInv, Repair
    PROVE  LaneInv'
<1>1. TypeOK /\ worker \in Workers /\ worker.step = "repair" /\ ~worker.bound
  BY DEF LaneInv, TypeOK, Shape, Repair, At
<1>2. 0..MaxEffects \subseteq Nat
  BY ChatAssumption
<1>3. /\ worker' \in Workers /\ worker'.id = worker.id /\ worker'.done = worker.done
      /\ worker'.step \in {"fail", "complete", "apply"}
      /\ worker'.step = "apply" => worker'.todo > 0
      /\ worker'.bound => worker'.step = "fail"
  <2>1. CASE Fails(FALSE)
    BY <1>1, <2>1, WorkerFails
  <2>2. CASE \E n \in 0..MaxEffects : Understood(n)
    BY <1>1, <1>2, <2>2, WorkerUnderstands
  <2> QED
    BY <2>1, <2>2 DEF Repair
<1>4. TypeOK'
  BY <1>1, <1>3, SameRowsTyped DEF Repair, TypeOK
<1> QED
  BY <1>1, <1>3, <1>4, QuietMoveKeeps DEF Repair, QuietMove, Working, Onward

\* An effect that is refused ends the list.
LEMMA RefusedKeeps ==
    ASSUME LaneInv, ApplyEffect, worker' = [worker EXCEPT !.step = "complete", !.todo = 0],
           UNCHANGED messages
    PROVE  LaneInv'
<1>1. TypeOK /\ worker \in Workers /\ worker.step = "apply" /\ ~worker.bound
  BY DEF LaneInv, TypeOK, Shape, ApplyEffect, At
<1>2. /\ worker' \in Workers /\ worker'.id = worker.id /\ worker'.done = worker.done
      /\ worker'.step = "complete" /\ ~worker'.bound
  BY <1>1 DEF Workers, Steps
<1>3. TypeOK'
  BY <1>1, <1>2, SameRowsTyped DEF ApplyEffect, TypeOK
<1> QED
  BY <1>1, <1>2, <1>3, QuietMoveKeeps DEF ApplyEffect, QuietMove, Working, Onward

-----------------------------------------------------------------------------
\* The requests and events that leave the worker alone.

\* Rows may be deleted, unless they are marked, and a workspace may go.
Bystander ==
    /\ messages' \in Seq(Rows) /\ Ids' = Ids
    /\ \A m \in Ids :
          /\ SameRow(m) /\ messages'[m].changed = messages[m].changed
          /\ \/ messages'[m].status = messages[m].status
             \/ messages'[m].status = "deleted" /\ messages[m].status # "processing"
    /\ UNCHANGED <<worker, crashes>>
    /\ runs' \subseteq runs
    /\ process' = process \/ (process = "up" /\ process' = "stopping")
    /\ \A w \in Workspaces : workspaces[w] = "gone" => workspaces'[w] = "gone"

LEMMA BystanderKeeps ==
    ASSUME LaneInv, Bystander, TypeOK'
    PROVE  LaneInv'
<1> USE DEF Bystander, SameRow
<1>1. /\ TypeOK /\ Asked /\ Shape /\ Marked /\ Alone /\ Oldest
      /\ ReplyMatchesOutcome /\ Unreplied /\ Muted /\ Counted
  BY DEF LaneInv
<1>2. /\ messages \in Seq(Rows) /\ worker' = worker
      /\ Sends' = Sends
      /\ process' = "up" => process = "up"
      /\ process' = "down" <=> process = "down"
  BY <1>1 DEF TypeOK, Sends
<1>3. Asked'
  BY <1>1, <1>2 DEF Asked, InState, Ahead
<1>4. Shape'
  BY <1>1, <1>2 DEF Shape
<1>5. worker.step \notin {"idle", "claim"} => worker.id \in Ids
  BY <1>1 DEF Shape, Sends
<1>6. Marked'
  <2>1. worker.step \notin {"idle", "claim"} =>
          \/ Mine'.status = Mine.status
          \/ Mine'.status = "deleted" /\ Mine.status # "processing"
    BY <1>2, <1>5 DEF Mine
  <2>2. Silenced => Silenced'
    BY <1>2 DEF Silenced, Cancelled
  <2> QED
    BY <1>1, <1>2, <2>1, <2>2 DEF Marked, Holding, Ahead
<1>7. Alone'
  BY <1>1, <1>2 DEF Alone
<1>8. Oldest'
  BY <1>1, <1>2 DEF Oldest, Ahead
<1>9. ReplyMatchesOutcome'
  BY <1>1, <1>2 DEF ReplyMatchesOutcome, Sends
<1>10. Unreplied'
  BY <1>1, <1>2 DEF Unreplied
<1>11. Muted'
  <2>1. SUFFICES ASSUME worker.step \in {"fail", "excuse"}, worker.done # 0, ~worker.app,
                        Appendable(Mine.root, Mine.home)'
                 PROVE  FALSE
    BY <1>2 DEF Muted
  <2>2. worker.id \in Ids /\ Mine'.root = Mine.root /\ Mine'.home = Mine.home
        /\ Mine.home \in Workspaces
    BY <1>2, <1>5, <2>1, RowTypes DEF Mine
  <2>3. Appendable(Mine.root, Mine.home)
    BY <2>1, <2>2 DEF Appendable, Exists
  <2> QED
    BY <1>1, <2>1, <2>3 DEF Muted
<1>12. Counted'
  BY <1>1, <1>2 DEF Counted, Ahead, Sends
<1> QED
  BY <1>3, <1>4, <1>6, <1>7, <1>8, <1>9, <1>10, <1>11, <1>12 DEF LaneInv

LEMMA UnseenKeeps ==
    ASSUME LaneInv, TypeOK', UNCHANGED <<messages, runs, worker, crashes>>,
           process' = process \/ (process = "up" /\ process' = "stopping"),
           \A w \in Workspaces : workspaces[w] = "gone" => workspaces'[w] = "gone"
    PROVE  LaneInv'
<1>1. messages \in Seq(Rows) /\ Ids' = Ids
  BY DEF LaneInv, TypeOK, Ids
<1> QED
  BY <1>1, BystanderKeeps DEF Bystander, SameRow

\* A request of the owner leaves a natural number of them.
LEMMA RequestCounted ==
    ASSUME TypeOK, Request
    PROVE  left' \in Nat
BY DEF TypeOK, Request

LEMMA SettingsKeep ==
    ASSUME LaneInv,
           SelectWorkspace \/ StaleSettings \/ StartMission \/ CodexCools \/ CodexReady \/ Stop
    PROVE  LaneInv'
<1>1. TypeOK
  BY DEF LaneInv
<1>2. First \in Workspaces
  BY ChatAssumption
<1>3. CASE SelectWorkspace
  <2>1. TypeOK'
    BY <1>1, <1>3, RequestCounted DEF TypeOK, SelectWorkspace, Ids
  <2> QED
    BY <1>3, <2>1, UnseenKeeps DEF SelectWorkspace
<1>4. CASE StaleSettings
  <2>1. TypeOK'
    BY <1>1, <1>2, <1>4, RequestCounted DEF TypeOK, StaleSettings, Ids
  <2>2. \A w \in Workspaces : workspaces[w] = "gone" => workspaces'[w] = "gone"
    BY <1>1, <1>4 DEF TypeOK, StaleSettings
  <2> QED
    BY <1>4, <2>1, <2>2, UnseenKeeps DEF StaleSettings
<1>5. CASE StartMission
  <2>1. TypeOK'
    BY <1>1, <1>5 DEF TypeOK, StartMission, Ids
  <2>2. \A w \in Workspaces : workspaces[w] = "gone" => workspaces'[w] = "gone"
    BY <1>1, <1>5 DEF TypeOK, StartMission
  <2> QED
    BY <1>5, <2>1, <2>2, UnseenKeeps DEF StartMission
<1>6. CASE CodexCools
  <2>1. TypeOK'
    BY <1>1, <1>6, RequestCounted DEF TypeOK, CodexCools, Ids
  <2> QED
    BY <1>6, <2>1, UnseenKeeps DEF CodexCools
<1>7. CASE CodexReady
  <2>1. TypeOK'
    BY <1>1, <1>7 DEF TypeOK, CodexReady, Ids
  <2> QED
    BY <1>7, <2>1, UnseenKeeps DEF CodexReady
<1>8. CASE Stop
  <2>1. TypeOK'
    BY <1>1, <1>8 DEF TypeOK, Stop, Ids
  <2> QED
    BY <1>8, <2>1, UnseenKeeps DEF Stop
<1> QED
  BY <1>3, <1>4, <1>5, <1>6, <1>7, <1>8

\* The rows keep their threads when their roots stay as they are.
LEMMA ThreadsKept ==
    ASSUME TypeOK, Ids' = Ids, \A m \in Ids : SameRow(m)
    PROVE  (\A m \in Ids : messages[m].root # 0 =>
               messages[m].root < m /\ messages[messages[m].root].root = 0)'
<1>1. \A m \in Ids : messages[m].root # 0 => messages[m].root \in Ids
  <2>1. messages \in Seq(Rows)
    BY DEF TypeOK
  <2>2. PICK n \in Nat : Ids = 1..n
    BY <2>1, LenProperties DEF Ids
  <2> QED
    BY <2>1, <2>2, RowTypes DEF TypeOK
<1> QED
  BY <1>1 DEF TypeOK, SameRow

\* Deletions of rows that are not marked.
LEMMA DeletionKeeps ==
    ASSUME LaneInv, NEW S, S \cap Processing = {}, messages' = SetStatus(S, "deleted"),
           runs' \subseteq runs,
           active' \in Workspaces \cup {NoWorkspace}, left' \in Nat,
           workspaces' \in [Workspaces -> {"open", "barred", "gone"}],
           \A w \in Workspaces : workspaces[w] = "gone" => workspaces'[w] = "gone",
           UNCHANGED <<cooling, wake, worker, process, crashes, skipped>>
    PROVE  LaneInv'
<1>1. TypeOK /\ messages \in Seq(Rows)
  BY DEF LaneInv, TypeOK
<1>2. "deleted" \in Statuses
  BY DEF Statuses
<1>3. /\ messages' \in Seq(Rows) /\ Ids' = Ids
      /\ \A m \in Ids : /\ SameRow(m) /\ messages'[m].changed = messages[m].changed
                        /\ messages'[m].status = IF m \in S THEN "deleted" ELSE messages[m].status
  BY <1>1, <1>2, StatusWritten
<1>4. TypeOK'
  BY <1>1, <1>3, ThreadsKept DEF TypeOK
<1>5. \A m \in S \cap Ids : messages[m].status # "processing"
  BY DEF Processing, InState
<1> QED
  BY <1>3, <1>4, <1>5, BystanderKeeps DEF Bystander

LEMMA DeleteChatMessageKeeps ==
    ASSUME LaneInv, DeleteChatMessage
    PROVE  LaneInv'
<1>1. PICK m \in Ids : Deletable(m) /\ messages' = SetStatus(InThread(m), "deleted")
  BY DEF DeleteChatMessage
<1> QED
  BY <1>1, DeletionKeeps, RequestCounted DEF DeleteChatMessage, Deletable, LaneInv, TypeOK

LEMMA DeleteWorkspaceKeeps ==
    ASSUME LaneInv, NEW w \in Workspaces, DeleteWorkspace(w)
    PROVE  LaneInv'
<1> DEFINE S == {m \in Ids : messages[m].home = w}
<1>1. S \cap Processing = {}
  BY DEF DeleteWorkspace, Processing, InState, Ahead
<1>2. /\ workspaces' \in [Workspaces -> {"open", "barred", "gone"}]
      /\ \A v \in Workspaces : workspaces[v] = "gone" => workspaces'[v] = "gone"
  BY DEF DeleteWorkspace, LaneInv, TypeOK
<1>3. active' \in Workspaces \cup {NoWorkspace}
  BY DEF DeleteWorkspace, LaneInv, TypeOK
<1>4. left' \in Nat
  BY RequestCounted DEF DeleteWorkspace, LaneInv
<1>5. messages' = SetStatus(S, "deleted") /\ runs' \subseteq runs
  BY DEF DeleteWorkspace
<1> HIDE DEF S
<1> QED
  BY <1>1, <1>2, <1>3, <1>4, <1>5, DeletionKeeps DEF DeleteWorkspace

-----------------------------------------------------------------------------
\* The worker is done with its message, or gone.

LEMMA IdleKeeps ==
    ASSUME LaneInv, TypeOK', UNCHANGED messages, worker' = Idle,
           runs' \subseteq runs, crashes' \in Nat, crashes' >= crashes,
           process' = "up" =>
               runs' = {} /\ \A m \in Ids : messages[m].status # "processing",
           \A m \in Sends : messages[m].status \in Ahead => messages[m].changed <= crashes'
    PROVE  LaneInv'
<1> USE IdleIsWorker
<1>1. /\ TypeOK /\ Asked /\ ReplyMatchesOutcome /\ Counted
      /\ Ids' = Ids /\ Sends' = Sends /\ messages' = messages
  BY DEF LaneInv, Ids, Sends
<1>2. Asked' /\ ReplyMatchesOutcome'
  BY <1>1 DEF Asked, InState, ReplyMatchesOutcome
<1>3. Shape' /\ Marked' /\ Alone' /\ Oldest'
  BY <1>1 DEF Shape, Marked, Alone, Oldest, Holding
<1>4. Unreplied' /\ Muted'
  BY DEF Unreplied, Muted
<1>5. Counted'
  <2>1. crashes \in Nat /\ \A m \in Sends : messages[m].changed \in Nat
    BY <1>1, RowTypes DEF TypeOK, Sends
  <2> QED
    BY <1>1, <2>1 DEF Counted
<1> QED
  BY <1>2, <1>3, <1>4, <1>5 DEF LaneInv

LEMMA FinishKeeps ==
    ASSUME LaneInv, Finish
    PROVE  LaneInv'
<1>1. /\ TypeOK /\ Shape /\ Marked /\ Alone /\ Counted /\ worker.step = "finish"
      /\ messages' = messages /\ worker' = Idle /\ crashes' = crashes /\ runs' \subseteq runs
      /\ process' = process
  BY DEF LaneInv, Finish, At
<1>2. TypeOK'
  BY <1>1, IdleIsWorker, SameRowsTyped DEF Finish, TypeOK
<1>3. process' = "up" => runs' = {} /\ \A m \in Ids : messages[m].status # "processing"
  BY <1>1 DEF Finish, Silenced, Cancelled, Alone, Marked, Mine
<1>4. \A m \in Sends : messages[m].status \in Ahead => messages[m].changed <= crashes'
  BY <1>1 DEF Counted, Marked, Mine
<1> QED
  BY <1>1, <1>2, <1>3, <1>4, IdleKeeps DEF TypeOK

LEMMA DownKeeps ==
    ASSUME LaneInv, Exit \/ Crash
    PROVE  LaneInv'
<1>1. TypeOK /\ Shape /\ Counted /\ process' = "down" /\ runs' = runs
  BY DEF LaneInv, Exit, Crash, Down
<1>2. crashes' \in Nat /\ crashes' >= crashes
  BY <1>1 DEF TypeOK, Exit, Crash
<1>3. TypeOK'
  BY <1>1, <1>2, IdleIsWorker, SameRowsTyped DEF Exit, Crash, Down, TypeOK
<1>4. \A m \in Sends : messages[m].status \in Ahead => messages[m].changed <= crashes'
  <2>1. CASE Exit
    BY <1>1, <2>1 DEF Exit, At, Counted, Shape
  <2>2. CASE Crash
    BY <1>1, <2>2 DEF Crash, Counted
  <2> QED
    BY <2>1, <2>2
<1> QED
  BY <1>1, <1>2, <1>3, <1>4, IdleKeeps DEF Exit, Crash, Down

LEMMA CheckQueueKeeps ==
    ASSUME LaneInv, CheckQueue
    PROVE  LaneInv'
<1>1. /\ TypeOK /\ Asked /\ Shape /\ Marked /\ Alone /\ Oldest
      /\ ReplyMatchesOutcome /\ Unreplied /\ Muted /\ Counted
      /\ worker.step = "idle" /\ process # "down"
  BY DEF LaneInv, CheckQueue, At
<1>2. /\ Ids' = Ids /\ Sends' = Sends /\ messages' = messages /\ runs' = runs
      /\ process' = process /\ crashes' = crashes
  BY DEF Ids, Sends, CheckQueue
<1>3. /\ worker' \in Workers /\ worker'.step \in {"idle", "claim"}
      /\ worker'.id = 0 /\ worker'.done = 0 /\ ~worker'.bound
  BY <1>1, WorkerGoes DEF CheckQueue, TypeOK, Shape, Steps
<1>4. TypeOK'
  BY <1>1, <1>3, SameRowsTyped DEF CheckQueue, TypeOK
<1>5. Asked' /\ ReplyMatchesOutcome'
  BY <1>1, <1>2 DEF Asked, InState, ReplyMatchesOutcome
<1>6. Shape' /\ Marked' /\ Alone' /\ Oldest'
  BY <1>1, <1>2, <1>3 DEF Shape, Marked, Alone, Oldest, Holding
<1>7. Unreplied' /\ Muted' /\ Counted'
  BY <1>1, <1>2, <1>3 DEF Unreplied, Muted, Counted, Shape
<1> QED
  BY <1>4, <1>5, <1>6, <1>7 DEF LaneInv

\* The replies keep telling the truth while only messages without a reply
\* change their status.
LEMMA RepliesKept ==
    ASSUME TypeOK, ReplyMatchesOutcome, Ids' = Ids, \A m \in Ids : SameRow(m),
           \A m \in Ids :
              \/ messages'[m].status \in {messages[m].status, "deleted"}
              \/ \A r \in Ids : messages[r].says \in Replies => messages[r].to # m
    PROVE  ReplyMatchesOutcome'
<1>1. SUFFICES ASSUME NEW r \in Ids, messages[r].says \in Replies
               PROVE  /\ messages[r].to \in Sends'
                      /\ messages'[messages[r].to].status \in
                            {IF messages[r].says = "answer" THEN "complete" ELSE "failed", "deleted"}
                      /\ \A q \in Ids : messages[q].says \in Replies
                                        /\ messages[q].to = messages[r].to => q = r
  BY DEF ReplyMatchesOutcome, SameRow
<1>2. messages[r].to \in Sends /\ messages[r].to \in Ids
  BY <1>1 DEF ReplyMatchesOutcome, Sends
<1>3. messages[r].to \in Sends'
  BY <1>2 DEF Sends, SameRow
<1>4. messages'[messages[r].to].status \in {messages[messages[r].to].status, "deleted"}
  BY <1>1, <1>2
<1> QED
  BY <1>1, <1>3, <1>4 DEF ReplyMatchesOutcome

\* A message that waits has no reply.
LEMMA WaitingUnreplied ==
    ASSUME ReplyMatchesOutcome, NEW m \in Ids, messages[m].status \in Ahead
    PROVE  \A r \in Ids : messages[r].says \in Replies => messages[r].to # m
BY DEF ReplyMatchesOutcome, Ahead

LEMMA RestartKeeps ==
    ASSUME LaneInv, Restart
    PROVE  LaneInv'
<1>1. /\ TypeOK /\ Asked /\ Shape /\ Marked /\ Alone /\ Oldest
      /\ ReplyMatchesOutcome /\ Unreplied /\ Muted /\ Counted
      /\ worker.step = "idle" /\ messages \in Seq(Rows)
  BY DEF LaneInv, Restart, Shape, TypeOK
<1>2. worker' = worker /\ crashes' = crashes /\ runs' = {} /\ process' = "up"
  BY DEF Restart
<1>3. /\ messages' \in Seq(Rows) /\ Ids' = Ids
      /\ \A m \in Ids : /\ SameRow(m) /\ messages'[m].changed = messages[m].changed
                        /\ messages'[m].status = IF m \in Processing THEN "queued"
                                                 ELSE messages[m].status
  BY <1>1, StatusWritten DEF Restart, Statuses, Ahead
<1>4. TypeOK'
  BY <1>1, <1>3, ThreadsKept DEF TypeOK, Restart
<1>5. Sends' = Sends
  BY <1>3 DEF Sends, SameRow
<1>6. \A m \in Ids : /\ messages'[m].status # "processing"
                     /\ messages'[m].status \in Ahead => messages[m].status \in Ahead
                     /\ messages[m].status \notin Ahead => messages'[m].status = messages[m].status
  BY <1>3 DEF Processing, InState, Ahead
<1>7. Asked'
  BY <1>1, <1>3, <1>5, <1>6 DEF Asked, InState
<1>8. ReplyMatchesOutcome'
  BY <1>1, <1>3, <1>6, RepliesKept, WaitingUnreplied
<1>9. Shape' /\ Marked' /\ Oldest' /\ Unreplied' /\ Muted'
  BY <1>1, <1>2 DEF Shape, Marked, Oldest, Unreplied, Muted, Holding
<1>11. Alone'
  BY <1>2, <1>3, <1>6 DEF Alone
<1>10. Counted'
  BY <1>1, <1>2, <1>3, <1>5, <1>6 DEF Counted, Shape, Sends
<1> QED
  BY <1>4, <1>7, <1>8, <1>9, <1>10, <1>11 DEF LaneInv

-----------------------------------------------------------------------------
\* The steps of the worker that write.

LEMMA ClaimKeeps ==
    ASSUME LaneInv, Claim
    PROVE  LaneInv'
<1>1. /\ TypeOK /\ Asked /\ Shape /\ Marked /\ Alone /\ Oldest
      /\ ReplyMatchesOutcome /\ Unreplied /\ Muted /\ Counted
      /\ messages \in Seq(Rows) /\ runs' = runs /\ process' = process /\ crashes' = crashes
      /\ worker.step = "claim" /\ worker.id = 0 /\ worker.done = 0 /\ process # "down"
  BY DEF LaneInv, Claim, At, Shape, TypeOK
<1>2. process = "up" => runs = {} /\ \A m \in Ids : messages[m].status # "processing"
  BY <1>1, RowTypes DEF Alone, TypeOK
<1>3. CASE worker' = Idle /\ UNCHANGED messages
  <2>1. TypeOK'
    BY <1>1, <1>3, IdleIsWorker, SameRowsTyped DEF Claim, TypeOK
  <2>2. \A m \in Sends : messages[m].status \in Ahead => messages[m].changed <= crashes'
    BY <1>1, RowTypes DEF Counted, Sends
  <2> QED
    BY <1>1, <1>2, <1>3, <2>1, <2>2, IdleKeeps DEF TypeOK
<1>4. CASE ~Cancelled /\ Queued # {}
  <2>1. PICK m \in Queued : /\ \A k \in Queued : m <= k
                            /\ messages' = SetStatus({m}, "processing")
                            /\ worker' = [Idle EXCEPT !.step = "workspace", !.id = m]
    BY <1>4 DEF Claim
  <2>2. m \in Ids /\ messages[m].status = "queued" /\ m \in Nat /\ m \in Sends /\ m # 0
    BY <1>1, RowTypes DEF Queued, InState, Asked, Ahead
  <2>3. /\ worker' \in Workers /\ worker'.step = "workspace" /\ worker'.id = m
        /\ worker'.done = 0 /\ ~worker'.bound /\ process = "up"
    BY <1>1, <1>4, <2>1, <2>2 DEF Idle, Workers, Steps, Cancelled, TypeOK
  <2>4. /\ messages' \in Seq(Rows) /\ Ids' = Ids
        /\ \A k \in Ids : /\ SameRow(k) /\ messages'[k].changed = messages[k].changed
                          /\ messages'[k].status = IF k = m THEN "processing"
                                                   ELSE messages[k].status
    <3>1. "processing" \in Statuses
      BY DEF Statuses, Ahead
    <3> QED
      BY <1>1, <2>1, <3>1, OneWritten
  <2>5. TypeOK'
    BY <1>1, <2>3, <2>4, ThreadsKept DEF TypeOK, Claim
  <2>6. Sends' = Sends
    BY <2>4 DEF Sends, SameRow
  <2>7. Asked'
    BY <1>1, <2>2, <2>4, <2>6 DEF Asked, InState, Ahead
  <2>8. Shape' /\ Unreplied' /\ Muted'
    BY <1>1, <2>2, <2>3, <2>6 DEF Shape, Unreplied, Muted
  <2>9. Marked'
    BY <2>2, <2>3, <2>4 DEF Marked, Mine, Holding
  <2>10. Alone'
    BY <1>1, <1>2, <2>3, <2>4 DEF Alone
  <2>11. Oldest'
    <3>1. SUFFICES ASSUME NEW k \in Ids, k < m
                   PROVE  messages'[k].status \notin Ahead
      BY <2>3, <2>4 DEF Oldest
    <3>2. k \notin Queued
      <4>1. k \in Nat
        BY <1>1, <3>1, RowTypes
      <4> QED
        BY <2>1, <2>2, <3>1, <4>1
    <3>3. messages'[k].status = messages[k].status
      BY <2>2, <2>4, <3>1
    <3> QED
      BY <1>2, <2>3, <3>2, <3>3 DEF Queued, InState, Ahead
  <2>12. ReplyMatchesOutcome'
    BY <1>1, <2>2, <2>4, RepliesKept, WaitingUnreplied DEF Ahead
  <2>13. Counted'
    BY <1>1, <2>2, <2>3, <2>4, <2>6 DEF Counted, Ahead, Sends
  <2> QED
    BY <2>5, <2>7, <2>8, <2>9, <2>10, <2>11, <2>12, <2>13 DEF LaneInv
<1> QED
  BY <1>3, <1>4 DEF Claim

\* A step of the worker that writes the status of its message, or nothing.
Settling ==
    /\ worker.step \in Steps \ {"idle", "claim"}
    /\ messages' \in Seq(Rows) /\ Ids' = Ids
    /\ \A m \in Ids : /\ SameRow(m) /\ messages'[m].changed = messages[m].changed
                      /\ m # worker.id => messages'[m].status = messages[m].status
    /\ Mine.status \in Ahead \/ Mine'.status \notin Ahead
    /\ \/ messages'[worker.id].status \in {Mine.status, "deleted"}
       \/ \A r \in Ids : messages[r].says \in Replies => messages[r].to # worker.id
    /\ worker' \in Workers /\ worker'.id = worker.id /\ worker'.done = worker.done
    /\ UNCHANGED <<runs, process, crashes, workspaces>>

LEMMA SettlingKeeps ==
    ASSUME LaneInv, Settling
    PROVE  Asked' /\ Oldest' /\ ReplyMatchesOutcome' /\ Counted'
<1> USE DEF Settling
<1>1. /\ TypeOK /\ Asked /\ Shape /\ Oldest /\ messages \in Seq(Rows)
      /\ ReplyMatchesOutcome /\ Counted
      /\ worker.id \in Ids /\ worker.id \in Sends
  BY DEF LaneInv, TypeOK, Shape, Sends
<1>2. Sends' = Sends
  BY DEF Sends, SameRow
<1>3. Asked'
  BY <1>1, <1>2 DEF Asked, InState
<1>4. Oldest'
  <2>1. \A k \in Ids : k < worker.id => k # worker.id
    BY <1>1, RowTypes
  <2> QED
    BY <1>1, <2>1 DEF Oldest
<1>5. ReplyMatchesOutcome'
  BY <1>1, RepliesKept DEF Mine
<1>6. Counted'
  BY <1>1, <1>2 DEF Counted, Mine, Sends
<1> QED
  BY <1>3, <1>4, <1>5, <1>6

LEMMA FindWorkspaceKeeps ==
    ASSUME LaneInv, FindWorkspace
    PROVE  LaneInv'
<1>1. /\ TypeOK /\ Shape /\ Marked /\ Alone /\ messages \in Seq(Rows)
      /\ ReplyMatchesOutcome /\ worker \in Workers /\ worker.step = "workspace"
      /\ worker.done = 0 /\ ~worker.bound /\ worker.id \in Ids /\ worker.id \in Sends
      /\ Mine.status = "processing" /\ process # "down"
  BY DEF LaneInv, TypeOK, FindWorkspace, At, Shape, Sends, Marked, Holding
<1>2. "failed" \in Statuses
  BY DEF Statuses, Settled
<1>3. CASE messages' = SetStatus({worker.id}, "failed") /\ worker' = Idle
  <2>1. /\ messages' \in Seq(Rows) /\ Ids' = Ids
        /\ \A k \in Ids : /\ SameRow(k) /\ messages'[k].changed = messages[k].changed
                          /\ messages'[k].status = IF k = worker.id THEN "failed"
                                                   ELSE messages[k].status
    BY <1>1, <1>2, <1>3, OneWritten
  <2>2. /\ worker' \in Workers /\ worker'.step = "idle" /\ worker'.id = 0 /\ worker'.done = 0
        /\ ~worker'.bound
        /\ runs' = runs /\ process' = process /\ crashes' = crashes
    BY <1>3, IdleIsWorker DEF FindWorkspace
  <2>3. TypeOK'
    BY <1>1, <2>1, <2>2, ThreadsKept DEF TypeOK, FindWorkspace
  <2>4. Sends' = Sends
    BY <2>1 DEF Sends, SameRow
  <2>5. Asked'
    BY <2>1, <2>4 DEF LaneInv, Asked, InState, Ahead
  <2>6. Shape' /\ Marked' /\ Oldest' /\ Unreplied' /\ Muted'
    BY <2>2 DEF Shape, Marked, Oldest, Unreplied, Muted, Holding
  <2>7. Alone'
    BY <1>1, <2>1, <2>2 DEF Alone
  <2>8. ReplyMatchesOutcome'
    BY <1>1, <2>1, RepliesKept, WaitingUnreplied DEF LaneInv, Ahead, Mine
  <2>9. Counted'
    BY <1>1, <2>1, <2>2, <2>4 DEF LaneInv, Counted, Ahead, Sends
  <2> QED
    BY <2>3, <2>5, <2>6, <2>7, <2>8, <2>9 DEF LaneInv
<1>4. CASE GoTo("packet") /\ UNCHANGED messages
  <2>1. /\ worker' \in Workers /\ worker'.step = "packet" /\ worker'.id = worker.id
        /\ worker'.done = 0 /\ ~worker'.bound
    BY <1>1, <1>4, WorkerGoes DEF Steps
  <2>2. TypeOK'
    BY <1>1, <1>4, <2>1, SameRowsTyped DEF FindWorkspace, TypeOK
  <2>3. Settling
    BY <1>1, <1>4, <2>1 DEF Settling, SameRow, Steps, FindWorkspace, Ids, Mine, Ahead
  <2>4. Shape' /\ Unreplied' /\ Muted' /\ Marked'
    BY <1>1, <1>4, <2>1 DEF Shape, Unreplied, Muted, Marked, Mine, Holding, Sends, Ids, FindWorkspace
  <2>5. Alone'
    BY <1>1, <1>4, <2>1 DEF Alone, Ids, FindWorkspace
  <2> QED
    BY <2>2, <2>3, <2>4, <2>5, SettlingKeeps DEF LaneInv
<1> QED
  BY <1>3, <1>4 DEF FindWorkspace

LEMMA CompleteKeeps ==
    ASSUME LaneInv, Complete
    PROVE  LaneInv'
<1>1. /\ TypeOK /\ Shape /\ Marked /\ Alone /\ messages \in Seq(Rows)
      /\ ReplyMatchesOutcome /\ worker \in Workers /\ worker.step = "complete"
      /\ worker.id \in Ids /\ worker.id \in Sends /\ ~worker.bound
      /\ Mine.status = "processing" /\ process # "down"
  BY DEF LaneInv, TypeOK, Complete, At, Shape, Sends, Marked, Holding
<1>2. messages' = SetStatus({worker.id}, "complete") /\ GoTo("answer")
  BY <1>1 DEF Complete, Exists, Mine
<1>3. "complete" \in Statuses
  BY DEF Statuses, Settled
<1>4. /\ messages' \in Seq(Rows) /\ Ids' = Ids /\ Sends' = Sends
      /\ \A k \in Ids : /\ SameRow(k) /\ messages'[k].changed = messages[k].changed
                        /\ messages'[k].status = IF k = worker.id THEN "complete"
                                                 ELSE messages[k].status
  BY <1>1, <1>2, <1>3, OneWritten
<1>5. /\ worker' \in Workers /\ worker'.step = "answer" /\ worker'.id = worker.id
      /\ worker'.done = worker.done /\ ~worker'.bound
  BY <1>1, <1>2, WorkerGoes DEF Steps
<1>6. TypeOK'
  BY <1>1, <1>4, <1>5, ThreadsKept DEF TypeOK, Complete
<1>7. \A r \in Ids : messages[r].says \in Replies => messages[r].to # worker.id
  BY <1>1, WaitingUnreplied DEF Mine, Ahead
<1>8. Settling
  BY <1>1, <1>4, <1>5, <1>7 DEF Settling, Steps, Mine, Ahead, Complete
<1>9. Shape' /\ Marked' /\ Muted'
  BY <1>1, <1>4, <1>5 DEF Shape, Marked, Mine, Muted, Holding, Complete
<1>10. Unreplied'
  BY <1>4, <1>5, <1>7 DEF Unreplied, SameRow
<1>11. Alone'
  BY <1>1, <1>4, <1>5 DEF Alone, Complete
<1> QED
  BY <1>6, <1>8, <1>9, <1>10, <1>11, SettlingKeeps DEF LaneInv

LEMMA RequeueKeeps ==
    ASSUME LaneInv, Requeue
    PROVE  LaneInv'
<1>1. /\ TypeOK /\ Shape /\ Marked /\ Alone /\ messages \in Seq(Rows)
      /\ ReplyMatchesOutcome /\ worker \in Workers /\ worker.step = "requeue"
      /\ worker.id \in Ids /\ worker.id \in Sends /\ worker.done = 0 /\ ~worker.bound
      /\ Mine.status = "processing" /\ process # "down"
  BY DEF LaneInv, TypeOK, Requeue, At, Shape, Sends, Marked, Holding
<1>2. messages' = SetStatus({worker.id}, "queued") /\ GoTo("finish")
  BY <1>1 DEF Requeue
<1>3. "queued" \in Statuses
  BY DEF Statuses, Ahead
<1>4. /\ messages' \in Seq(Rows) /\ Ids' = Ids /\ Sends' = Sends
      /\ \A k \in Ids : /\ SameRow(k) /\ messages'[k].changed = messages[k].changed
                        /\ messages'[k].status = IF k = worker.id THEN "queued"
                                                 ELSE messages[k].status
  BY <1>1, <1>2, <1>3, OneWritten
<1>5. /\ worker' \in Workers /\ worker'.step = "finish" /\ worker'.id = worker.id
      /\ worker'.done = 0 /\ ~worker'.bound
  BY <1>1, <1>2, WorkerGoes DEF Steps
<1>6. TypeOK'
  BY <1>1, <1>4, <1>5, ThreadsKept DEF TypeOK, Requeue
<1>7. \A r \in Ids : messages[r].says \in Replies => messages[r].to # worker.id
  BY <1>1, WaitingUnreplied DEF Mine, Ahead
<1>8. Settling
  BY <1>1, <1>4, <1>5, <1>7 DEF Settling, Steps, Mine, Ahead, Requeue
<1>9. Shape' /\ Muted' /\ Unreplied'
  BY <1>1, <1>4, <1>5 DEF Shape, Muted, Unreplied, Requeue
<1>11. Marked'
  <2>1. Mine'.status = "queued"
    BY <1>1, <1>4, <1>5 DEF Mine
  <2> QED
    BY <1>5, <2>1 DEF Marked, Holding
<1>10. Alone'
  BY <1>1, <1>4, <1>5 DEF Alone, Requeue
<1> QED
  BY <1>6, <1>8, <1>9, <1>10, <1>11, SettlingKeeps DEF LaneInv

LEMMA FailKeeps ==
    ASSUME LaneInv, Fail
    PROVE  LaneInv'
<1>1. /\ TypeOK /\ Shape /\ Marked /\ Alone /\ messages \in Seq(Rows) /\ Muted
      /\ Unreplied /\ worker \in Workers /\ worker.step = "fail"
      /\ worker.id \in Ids /\ worker.id \in Sends /\ process # "down"
      /\ Mine.status \in {"processing", "complete", "deleted"}
  BY DEF LaneInv, TypeOK, Fail, At, Shape, Sends, Marked
<1>2. /\ worker' \in Workers /\ worker'.step = "excuse" /\ worker'.id = worker.id
      /\ worker'.done = worker.done /\ worker'.bound = worker.bound
      /\ worker'.app = worker.app
      /\ process' = process /\ runs' = runs /\ crashes' = crashes /\ workspaces' = workspaces
  BY <1>1, WorkerGoes DEF Fail, Steps
<1>3. "failed" \in Statuses
  BY DEF Statuses, Settled
<1>4. /\ messages' \in Seq(Rows) /\ Ids' = Ids /\ Sends' = Sends
      /\ \A k \in Ids : /\ SameRow(k) /\ messages'[k].changed = messages[k].changed
                        /\ k # worker.id => messages'[k].status = messages[k].status
      /\ \/ Mine'.status = "failed" /\ Mine.status # "deleted"
         \/ Mine'.status = Mine.status /\ (Silenced \/ Mine.status = "deleted")
  <2>1. CASE ~Silenced /\ Exists(worker.id)
    <3>1. messages' = SetStatus({worker.id}, "failed")
      BY <2>1 DEF Fail
    <3> QED
      BY <1>1, <1>2, <1>3, <2>1, <3>1, OneWritten DEF Exists, Mine
  <2>2. CASE ~(~Silenced /\ Exists(worker.id))
    <3>1. messages' = messages
      BY <2>2 DEF Fail
    <3> QED
      BY <1>1, <1>2, <2>2, <3>1 DEF Exists, Mine, SameRow, Ids, Sends
  <2> QED
    BY <2>1, <2>2
<1>5. TypeOK'
  BY <1>1, <1>2, <1>4, ThreadsKept DEF TypeOK, Fail
<1>6. \A r \in Ids : messages[r].says \in Replies => messages[r].to # worker.id
  BY <1>1 DEF Unreplied
<1>7. Settling
  BY <1>1, <1>2, <1>4, <1>6 DEF Settling, Steps, Ahead
<1>8. Shape'
  BY <1>1, <1>2, <1>4 DEF Shape
<1>9. Marked'
  BY <1>1, <1>2, <1>4 DEF Marked, Holding, Silenced, Cancelled
<1>10. Unreplied'
  BY <1>2, <1>4, <1>6 DEF Unreplied, SameRow
<1>11. Alone'
  BY <1>1, <1>2, <1>4 DEF Alone, Mine
<1>12. Muted'
  <2>1. Mine'.root = Mine.root /\ Mine'.home = Mine.home
    BY <1>1, <1>2, <1>4 DEF Mine, SameRow
  <2>2. \A k \in Ids : Exists(k)' => Exists(k)
    BY <1>1, <1>2, <1>4 DEF Exists, Mine
  <2>3. Appendable(Mine.root, Mine.home)' => Appendable(Mine.root, Mine.home)
    BY <1>2, <1>4, <2>1, <2>2 DEF Appendable, Exists
  <2> QED
    BY <1>1, <1>2, <2>3 DEF Muted
<1> QED
  BY <1>5, <1>7, <1>8, <1>9, <1>10, <1>11, <1>12, SettlingKeeps DEF LaneInv

\* The worker after an effect was applied.
LEMMA WorkerApplies ==
    ASSUME worker \in Workers, worker.todo > 0,
           worker' = [worker EXCEPT !.step = IF worker.todo = 1 THEN "complete" ELSE "apply",
                                    !.todo = worker.todo - 1,
                                    !.done = worker.done + 1]
    PROVE  /\ worker' \in Workers /\ worker'.step \in {"complete", "apply"}
           /\ worker'.step = "apply" => worker'.todo > 0
           /\ worker'.id = worker.id /\ worker'.done = worker.done + 1
           /\ worker'.bound = worker.bound
<1>1. worker.todo \in Nat /\ worker.done \in Nat
  BY DEF Workers
<1>2. PICK s \in {"complete", "apply"} :
         /\ s = IF worker.todo = 1 THEN "complete" ELSE "apply"
         /\ worker' = [worker EXCEPT !.step = s, !.todo = worker.todo - 1,
                                     !.done = worker.done + 1]
  OBVIOUS
<1>3. worker.todo - 1 \in Nat /\ worker.done + 1 \in Nat /\ (worker.todo # 1 => worker.todo - 1 > 0)
  BY <1>1
<1>4. /\ worker' \in Workers /\ worker'.step = s /\ worker'.todo = worker.todo - 1
      /\ worker'.id = worker.id /\ worker'.done = worker.done + 1
      /\ worker'.bound = worker.bound
  BY <1>2, <1>3 DEF Workers, Steps
<1> QED
  BY <1>2, <1>3, <1>4

LEMMA AppliedKeeps ==
    ASSUME LaneInv, ApplyEffect,
           worker' = [worker EXCEPT !.step = IF worker.todo = 1 THEN "complete" ELSE "apply",
                                    !.todo = worker.todo - 1,
                                    !.done = worker.done + 1],
           messages' = IF worker.done > 0 THEN messages
                       ELSE [messages EXCEPT ![worker.id].changed = @ + 1]
    PROVE  LaneInv'
<1>1. /\ TypeOK /\ Asked /\ Shape /\ Marked /\ Alone /\ Oldest /\ messages \in Seq(Rows)
      /\ ReplyMatchesOutcome /\ Counted /\ crashes \in Nat
      /\ worker \in Workers /\ worker.step = "apply" /\ worker.todo > 0 /\ process # "down"
      /\ worker.id \in Ids /\ worker.id \in Sends /\ Mine.status = "processing"
      /\ ~worker.bound
  BY DEF LaneInv, TypeOK, ApplyEffect, At, Shape, Marked, Holding, Sends
<1>2. /\ worker' \in Workers /\ worker'.step \in {"complete", "apply"}
      /\ worker'.step = "apply" => worker'.todo > 0
      /\ worker'.id = worker.id /\ worker'.done = worker.done + 1 /\ worker'.done > 0
      /\ worker.done \in Nat /\ ~worker'.bound
  BY <1>1, WorkerApplies DEF Workers
<1>3. /\ messages' \in Seq(Rows) /\ Ids' = Ids
      /\ \A m \in Ids : /\ SameRow(m) /\ messages'[m].status = messages[m].status
                        /\ messages'[m].changed = IF m = worker.id /\ worker.done = 0
                                                  THEN messages[m].changed + 1
                                                  ELSE messages[m].changed
  <2>1. CASE worker.done > 0
    BY <1>1, <1>2, <2>1 DEF SameRow, Ids
  <2>2. CASE worker.done = 0
    <3>1. messages' = [messages EXCEPT ![worker.id].changed = @ + 1]
      BY <2>2
    <3> QED
      BY <1>1, <2>2, <3>1, ChangeCounted
  <2> QED
    BY <1>2, <2>1, <2>2
<1>4. TypeOK'
  BY <1>1, <1>2, <1>3, ThreadsKept DEF TypeOK, ApplyEffect
<1>5. Sends' = Sends /\ process' = process /\ crashes' = crashes /\ runs' = runs
  BY <1>3 DEF Sends, SameRow, ApplyEffect
<1>6. Asked' /\ Oldest'
  BY <1>1, <1>2, <1>3, <1>5 DEF Asked, InState, Oldest
<1>7. Shape' /\ Unreplied' /\ Muted'
  BY <1>1, <1>2, <1>5 DEF Shape, Unreplied, Muted
<1>8. Marked'
  BY <1>1, <1>2, <1>3 DEF Marked, Mine, Holding
<1>9. Alone'
  BY <1>1, <1>2, <1>3, <1>5 DEF Alone
<1>10. ReplyMatchesOutcome'
  BY <1>1, <1>3, RepliesKept
<1>12. Counted'
  <2>1. SUFFICES ASSUME NEW m \in Sends
                 PROVE  /\ messages'[m].changed <= crashes + 1
                        /\ messages[m].status \in Ahead /\ m # worker.id =>
                              messages'[m].changed <= crashes
    BY <1>2, <1>3, <1>5 DEF Counted, Sends
  <2>2. m \in Ids /\ messages[m].changed \in Nat
    BY <1>1, RowTypes DEF Sends
  <2>3. CASE m = worker.id /\ worker.done = 0
    <3>1. messages[m].changed <= crashes
      BY <1>1, <2>3 DEF Counted, Mine, Ahead
    <3> QED
      BY <1>1, <1>3, <2>2, <2>3, <3>1
  <2>4. CASE ~(m = worker.id /\ worker.done = 0)
    <3>1. messages'[m].changed = messages[m].changed
      BY <1>3, <2>2, <2>4
    <3>2. messages[m].changed <= crashes + 1
      BY <1>1 DEF Counted
    <3>3. messages[m].status \in Ahead /\ m # worker.id => messages[m].changed <= crashes
      BY <1>1 DEF Counted
    <3> QED
      BY <3>1, <3>2, <3>3
  <2> QED
    BY <2>3, <2>4
<1> QED
  BY <1>4, <1>6, <1>7, <1>8, <1>9, <1>10, <1>12 DEF LaneInv

\* A thread stays one level deep when a row is put below an older root.
LEMMA ThreadGrows ==
    ASSUME TypeOK, NEW row \in Rows, messages' = Append(messages, row),
           row.root # 0 => row.root \in Ids /\ messages[row.root].root = 0
    PROVE  /\ messages' \in Seq(Rows)
           /\ Ids \subseteq Ids' /\ \A m \in Ids : messages'[m] = messages[m]
           /\ \E n \in Nat : /\ n \notin Ids /\ Ids' = Ids \cup {n} /\ messages'[n] = row
                             /\ n > 0 /\ \A m \in Ids : m < n
           /\ (\A m \in Ids : messages[m].root # 0 =>
                  messages[m].root < m /\ messages[messages[m].root].root = 0)'
           /\ \A m \in Ids : LET r == messages[m].root IN
                 r = 0 \/ (r \in Ids /\ Exists(r)' = Exists(r))
<1>1. messages \in Seq(Rows)
  BY DEF TypeOK
<1>2. PICK n \in Nat : /\ n \notin Ids /\ Ids' = Ids \cup {n} /\ messages'[n] = row
                       /\ n > 0 /\ \A m \in Ids : m < n
  BY <1>1, RowAdded
<1>3. messages' \in Seq(Rows) /\ \A m \in Ids : messages'[m] = messages[m]
  BY <1>1, RowAdded
<1>4. \A m \in Ids : messages[m].root # 0 => messages[m].root \in Ids
  <2>1. PICK k \in Nat : Ids = 1..k
    BY <1>1, LenProperties DEF Ids
  <2> QED
    BY <1>1, <2>1, RowTypes DEF TypeOK
<1>5. (\A m \in Ids : messages[m].root # 0 =>
          messages[m].root < m /\ messages[messages[m].root].root = 0)'
  <2>1. \A m \in Ids : messages'[m].root # 0 =>
          messages'[m].root < m /\ messages'[messages'[m].root].root = 0
    <3>1. SUFFICES ASSUME NEW m \in Ids, messages[m].root # 0
                   PROVE  messages[m].root < m /\ messages'[messages[m].root].root = 0
      BY <1>3
    <3>2. messages'[messages[m].root] = messages[messages[m].root]
      BY <1>3, <1>4, <3>1
    <3> QED
      BY <3>1, <3>2 DEF TypeOK
  <2>2. messages'[n].root # 0 =>
          messages'[n].root < n /\ messages'[messages'[n].root].root = 0
    BY <1>2, <1>3
  <2> QED
    BY <1>2, <2>1, <2>2
<1>6. \A m \in Ids : LET r == messages[m].root IN
         r = 0 \/ (r \in Ids /\ Exists(r)' = Exists(r))
  BY <1>2, <1>3, <1>4 DEF Exists
<1> QED
  BY <1>2, <1>3, <1>5, <1>6

\* A reply of the worker: written at most once, for the message in hand.
LEMMA ReplyKeeps ==
    ASSUME LaneInv, NEW says \in Replies,
           messages' = Append(messages, Reply(says)),
           worker.step \in {"answer", "excuse"}, GoTo("finish"),
           says = "answer" => Mine.status \in {"complete", "deleted"},
           says = "excuse" => Mine.status \in {"failed", "deleted"},
           UNCHANGED <<runs, workspaces, active, cooling, wake, process, crashes, left, skipped>>
    PROVE  LaneInv'
<1>1. /\ TypeOK /\ Asked /\ Shape /\ Marked /\ Alone /\ Oldest /\ messages \in Seq(Rows)
      /\ ReplyMatchesOutcome /\ Counted /\ Unreplied
      /\ worker \in Workers /\ process # "down"
      /\ worker.id \in Ids /\ worker.id \in Sends /\ worker.id \in Nat
  BY DEF LaneInv, TypeOK, Shape, Sends, Workers
<1>2. /\ worker' \in Workers /\ worker'.step = "finish" /\ worker'.id = worker.id
      /\ worker'.done = worker.done /\ worker'.bound = worker.bound
  BY <1>1, WorkerGoes DEF Steps
<1> DEFINE row == Reply(says)
<1>3. /\ row \in Rows /\ row.says = says /\ row.root = Mine.root /\ row.status = "complete"
      /\ row.to = worker.id /\ row.changed = worker.done
  <2>1. Mine.root \in Nat /\ Mine.home \in Workspaces /\ worker.done \in Nat
    BY <1>1, RowTypes DEF Mine, Workers
  <2> QED
    BY <1>1, <2>1 DEF Reply, Rows, Statuses, Settled
<1>4. row.root # 0 => row.root \in Ids /\ messages[row.root].root = 0
  <2>1. PICK k \in Nat : Ids = 1..k
    BY <1>1, LenProperties DEF Ids
  <2> QED
    BY <1>1, <1>3, <2>1, RowTypes DEF TypeOK, Mine
<1>5. messages' = Append(messages, row)
  OBVIOUS
<1> HIDE DEF row
<1>6. /\ messages' \in Seq(Rows)
      /\ \A m \in Ids : messages'[m] = messages[m]
      /\ (\A m \in Ids : messages[m].root # 0 =>
             messages[m].root < m /\ messages[messages[m].root].root = 0)'
  BY <1>1, <1>3, <1>4, <1>5, ThreadGrows
<1>7. PICK n \in Nat : /\ n \notin Ids /\ Ids' = Ids \cup {n} /\ messages'[n] = row
                       /\ \A m \in Ids : m < n
  BY <1>1, <1>3, <1>4, <1>5, ThreadGrows
<1>8. TypeOK'
  BY <1>1, <1>2, <1>6, <1>7 DEF TypeOK
<1>9. Sends' = Sends /\ Mine' = Mine
  BY <1>1, <1>2, <1>3, <1>6, <1>7 DEF Sends, Mine, Replies
<1>10. Asked' /\ Oldest'
  BY <1>1, <1>2, <1>3, <1>6, <1>7, <1>9 DEF Asked, InState, Ahead, Oldest
<1>11. Shape'
  BY <1>1, <1>2, <1>9 DEF Shape
<1>12. Marked'
  <2>1. Mine'.status \in {"complete", "failed", "deleted"}
    BY <1>9 DEF Replies
  <2> QED
    BY <1>2, <2>1 DEF Marked, Ahead, Holding
<1>13. Alone'
  BY <1>1, <1>2, <1>3, <1>6, <1>7 DEF Alone
<1>14. Unreplied' /\ Muted'
  BY <1>2 DEF Unreplied, Muted
<1>15. \A r \in Ids : messages[r].says \in Replies => messages[r].to # worker.id
  BY <1>1 DEF Unreplied
<1>16. ReplyMatchesOutcome'
  <2>1. SUFFICES ASSUME NEW r \in Ids', messages'[r].says \in Replies
                 PROVE  /\ messages'[r].to \in Sends
                        /\ messages'[messages'[r].to].status \in
                              {IF messages'[r].says = "answer" THEN "complete" ELSE "failed",
                               "deleted"}
                        /\ \A q \in Ids' : messages'[q].says \in Replies
                                           /\ messages'[q].to = messages'[r].to => q = r
    BY <1>9 DEF ReplyMatchesOutcome
  <2>2. CASE r = n
    <3>1. messages'[r].to = worker.id /\ messages'[worker.id] = Mine /\ messages'[r].says = says
      BY <1>1, <1>3, <1>6, <1>7, <2>2 DEF Mine
    <3>2. \A q \in Ids' : messages'[q].says \in Replies /\ messages'[q].to = worker.id => q = r
      BY <1>6, <1>7, <1>15, <2>2
    <3> QED
      BY <1>1, <3>1, <3>2 DEF Replies
  <2>3. CASE r \in Ids
    <3>1. messages'[r] = messages[r]
      BY <1>6, <2>3
    <3>2. /\ messages[r].to \in Sends
          /\ messages[messages[r].to].status \in
                {IF messages[r].says = "answer" THEN "complete" ELSE "failed", "deleted"}
          /\ \A q \in Ids : messages[q].says \in Replies /\ messages[q].to = messages[r].to
                            => q = r
      BY <1>1, <2>1, <2>3, <3>1 DEF ReplyMatchesOutcome
    <3>3. messages'[messages[r].to] = messages[messages[r].to]
      BY <1>6, <3>2 DEF Sends
    <3>4. messages[r].to # worker.id
      BY <1>15, <2>1, <2>3, <3>1
    <3>5. \A q \in Ids' : messages'[q].says \in Replies /\ messages'[q].to = messages[r].to
                          => q = r
      BY <1>3, <1>6, <1>7, <3>2, <3>4
    <3> QED
      BY <3>1, <3>2, <3>3, <3>5
  <2> QED
    BY <1>7, <2>2, <2>3
<1>18. Counted'
  BY <1>1, <1>2, <1>6, <1>9 DEF Counted, Sends
<1> QED
  BY <1>8, <1>10, <1>11, <1>12, <1>13, <1>14, <1>16, <1>18 DEF LaneInv

LEMMA AnswerKeeps ==
    ASSUME LaneInv, Answer
    PROVE  LaneInv'
<1>1. /\ TypeOK /\ Shape /\ Marked /\ Alone /\ messages \in Seq(Rows) /\ Unreplied
      /\ worker \in Workers /\ worker.step = "answer" /\ ~worker.bound
      /\ worker.id \in Ids /\ worker.id \in Sends /\ process # "down"
      /\ Mine.status \in {"complete", "deleted"}
  BY DEF LaneInv, TypeOK, Answer, At, Shape, Sends, Marked
<1>2. CASE Recordable /\ Appendable(Mine.root, Mine.home)
  BY <1>1, <1>2, ReplyKeeps DEF Answer, Replies
<1>3. CASE ~(Recordable /\ Appendable(Mine.root, Mine.home))
  <2>1. /\ worker' \in Workers /\ worker'.step = "fail" /\ worker'.id = worker.id
        /\ worker'.done = worker.done /\ worker'.bound = FALSE /\ worker'.app = worker.app
    BY <1>1, <1>3, WorkerFails DEF Answer
  <2>2. /\ messages' = messages /\ Ids' = Ids /\ Sends' = Sends /\ Mine' = Mine
        /\ runs' = runs /\ process' = process /\ workspaces' = workspaces /\ crashes' = crashes
    BY <1>3, <2>1 DEF Answer, Ids, Sends, Mine
  <2>3. TypeOK'
    BY <1>1, <2>1, <2>2, SameRowsTyped DEF Answer, TypeOK
  <2>4. Settling
    BY <1>1, <2>1, <2>2 DEF Settling, SameRow, Steps, Mine
  <2>5. Shape'
    BY <1>1, <2>1, <2>2 DEF Shape
  <2>6. Marked'
    BY <1>1, <2>1, <2>2 DEF Marked, Holding
  <2>7. Alone' /\ Unreplied'
    BY <1>1, <2>1, <2>2 DEF Alone, Unreplied
  <2>8. Muted'
    BY <1>3, <2>1, <2>2 DEF Muted, Recordable, Appendable, Exists
  <2> QED
    BY <2>3, <2>4, <2>5, <2>6, <2>7, <2>8, SettlingKeeps DEF LaneInv
<1> QED
  BY <1>2, <1>3

LEMMA ExcuseKeeps ==
    ASSUME LaneInv, Excuse
    PROVE  LaneInv'
<1>1. /\ TypeOK /\ Shape /\ Marked /\ Alone /\ messages \in Seq(Rows) /\ Muted /\ Unreplied
      /\ worker \in Workers /\ worker.step = "excuse"
      /\ worker.id \in Ids /\ worker.id \in Sends /\ process # "down"
      /\ Mine.status \in {"failed", "deleted"} \/ Silenced
  BY DEF LaneInv, TypeOK, Excuse, At, Shape, Sends, Marked
<1>2. CASE ~Silenced /\ Appendable(Mine.root, Mine.home)
  <2>1. messages' = Append(messages, Reply("excuse"))
    BY <1>2 DEF Excuse
  <2> QED
    BY <1>1, <1>2, <2>1, ReplyKeeps DEF Excuse, Replies
<1>3. CASE ~(~Silenced /\ Appendable(Mine.root, Mine.home))
  <2>1. /\ worker' \in Workers /\ worker'.step = "finish" /\ worker'.id = worker.id
        /\ worker'.done = worker.done /\ worker'.bound = worker.bound
    BY <1>1, WorkerGoes DEF Excuse, Steps
  <2>2. /\ messages' = messages /\ Ids' = Ids /\ Sends' = Sends /\ Mine' = Mine
        /\ runs' = runs /\ process' = process /\ workspaces' = workspaces /\ crashes' = crashes
    BY <1>3, <2>1 DEF Excuse, Ids, Sends, Mine
  <2>3. TypeOK'
    BY <1>1, <2>1, <2>2, SameRowsTyped DEF Excuse, TypeOK
  <2>4. Settling
    BY <1>1, <2>1, <2>2 DEF Settling, SameRow, Steps, Mine
  <2>5. Shape' /\ Unreplied' /\ Muted'
    BY <1>1, <2>1, <2>2 DEF Shape, Unreplied, Muted
  <2>6. Silenced => worker.done = 0 /\ process # "up"
    BY <1>1 DEF Silenced, Cancelled, Shape
  <2>7. Marked'
    BY <1>1, <2>1, <2>2, <2>6 DEF Marked, Holding, Ahead, Workers
  <2>8. Alone'
    BY <1>1, <2>1, <2>2 DEF Alone
  <2> QED
    BY <2>3, <2>4, <2>5, <2>7, <2>8, SettlingKeeps DEF LaneInv
<1> QED
  BY <1>2, <1>3

LEMMA SendChatKeeps ==
    ASSUME LaneInv, SendChat
    PROVE  LaneInv'
<1>1. /\ TypeOK /\ Asked /\ Shape /\ Marked /\ Alone /\ Oldest /\ messages \in Seq(Rows)
      /\ ReplyMatchesOutcome /\ Counted /\ Unreplied /\ Muted
      /\ active \in Workspaces /\ crashes \in Nat
  BY DEF LaneInv, TypeOK, SendChat, Started
<1>2. /\ worker' = worker /\ runs' = runs /\ process' = process /\ crashes' = crashes
      /\ workspaces' = workspaces /\ wake' = TRUE
  BY DEF SendChat, SendIn
<1>3. PICK root : SendIn(root) /\ (root # 0 => root \in Ids /\ messages[root].root = 0)
  <2>1. CASE SendIn(0)
    BY <2>1
  <2>2. CASE \E p \in Ids : SendIn(ThreadOf(p))
    <3>1. PICK p \in Ids : SendIn(ThreadOf(p))
      BY <2>2
    <3>2. PICK k \in Nat : Ids = 1..k
      BY <1>1, LenProperties DEF Ids
    <3>3. ThreadOf(p) \in Ids /\ messages[ThreadOf(p)].root = 0
      BY <1>1, <3>2, RowTypes DEF ThreadOf, TypeOK
    <3> QED
      BY <3>1, <3>3
  <2> QED
    BY <2>1, <2>2 DEF SendChat
<1>4. root \in Nat
  BY <1>1, <1>3, RowTypes
<1> DEFINE row == [says |-> "user", root |-> root, home |-> active,
                   status |-> "queued", to |-> 0, changed |-> 0]
<1>5. /\ row \in Rows /\ row.says = "user" /\ row.root = root /\ row.status = "queued"
      /\ row.changed = 0 /\ messages' = Append(messages, row)
  BY <1>1, <1>3, <1>4 DEF SendIn, Rows, Statuses, Ahead
<1> HIDE DEF row
<1>6. /\ messages' \in Seq(Rows)
      /\ \A m \in Ids : messages'[m] = messages[m]
      /\ (\A m \in Ids : messages[m].root # 0 =>
             messages[m].root < m /\ messages[messages[m].root].root = 0)'
      /\ \A m \in Ids : LET r == messages[m].root IN
            r = 0 \/ (r \in Ids /\ Exists(r)' = Exists(r))
  BY <1>1, <1>3, <1>5, ThreadGrows
<1>7. PICK n \in Nat : /\ n \notin Ids /\ Ids' = Ids \cup {n} /\ messages'[n] = row
                       /\ n > 0 /\ \A m \in Ids : m < n
  BY <1>1, <1>3, <1>5, ThreadGrows
<1>8. TypeOK'
  BY <1>1, <1>2, <1>6, <1>7 DEF TypeOK, SendChat
<1>9. Sends' = Sends \cup {n} /\ n \notin Sends
  BY <1>5, <1>6, <1>7 DEF Sends
<1>10. worker.step \notin {"idle", "claim"} =>
         worker.id \in Ids /\ Mine' = Mine /\ worker.id < n
  BY <1>1, <1>2, <1>6, <1>7 DEF Shape, Sends, Mine
<1>11. worker.id # n
  BY <1>1, <1>7, <1>10 DEF Shape
<1>12. Asked'
  BY <1>1, <1>6, <1>7, <1>9 DEF Asked, InState
<1>13. Shape'
  BY <1>1, <1>2, <1>9 DEF Shape
<1>14. Marked'
  BY <1>1, <1>2, <1>10 DEF Marked, Holding, Silenced, Cancelled
<1>15. Alone'
  BY <1>1, <1>2, <1>5, <1>6, <1>7 DEF Alone
<1>16. Oldest'
  <2>1. SUFFICES ASSUME worker.step \notin {"idle", "claim"}, NEW k \in Ids', k < worker.id
                 PROVE  messages'[k].status \notin Ahead
    BY <1>2 DEF Oldest
  <2>2. worker.id \in Nat /\ n \in Nat
    BY <1>1 DEF TypeOK, Workers
  <2>3. k \in Ids
    BY <1>7, <1>10, <2>1, <2>2
  <2> QED
    BY <1>1, <1>6, <2>1, <2>3 DEF Oldest
<1>17. ReplyMatchesOutcome'
  <2>1. SUFFICES ASSUME NEW r \in Ids', messages'[r].says \in Replies
                 PROVE  /\ messages'[r].to \in Sends'
                        /\ messages'[messages'[r].to].status \in
                              {IF messages'[r].says = "answer" THEN "complete" ELSE "failed",
                               "deleted"}
                        /\ \A q \in Ids' : messages'[q].says \in Replies
                                           /\ messages'[q].to = messages'[r].to => q = r
    BY DEF ReplyMatchesOutcome
  <2>2. r \in Ids /\ messages'[r] = messages[r]
    BY <1>5, <1>6, <1>7, <2>1 DEF Replies
  <2>3. /\ messages[r].to \in Sends
        /\ messages[messages[r].to].status \in
              {IF messages[r].says = "answer" THEN "complete" ELSE "failed", "deleted"}
        /\ \A q \in Ids : messages[q].says \in Replies /\ messages[q].to = messages[r].to
                          => q = r
    BY <1>1, <2>1, <2>2 DEF ReplyMatchesOutcome
  <2>4. messages'[messages[r].to] = messages[messages[r].to]
    BY <1>6, <2>3 DEF Sends
  <2>5. \A q \in Ids' : messages'[q].says \in Replies /\ messages'[q].to = messages[r].to
                        => q = r
    BY <1>5, <1>6, <1>7, <2>3 DEF Replies
  <2> QED
    BY <1>9, <2>2, <2>3, <2>4, <2>5
<1>18. Unreplied'
  BY <1>1, <1>2, <1>5, <1>6, <1>7 DEF Unreplied, Replies
<1>19. Muted'
  <2>1. SUFFICES ASSUME worker.step \in {"fail", "excuse"}, worker.done # 0, ~worker.app
                 PROVE  ~Appendable(Mine.root, Mine.home)'
    BY <1>2 DEF Muted
  <2>2. worker.id \in Ids /\ Mine' = Mine /\ ~Appendable(Mine.root, Mine.home)
    BY <1>1, <1>10, <2>1 DEF Muted
  <2>3. Mine.root = 0 \/ Exists(Mine.root)' = Exists(Mine.root)
    BY <1>6, <2>2 DEF Mine
  <2> QED
    BY <1>2, <2>2, <2>3 DEF Appendable, Exists
<1>20. Counted'
  <2>1. \A m \in Sends : m # n /\ messages'[m] = messages[m]
    BY <1>6, <1>9 DEF Sends
  <2>2. messages'[n].changed <= crashes
    BY <1>1, <1>5, <1>7
  <2>3. messages'[n].changed <= crashes + 1
    BY <1>1, <1>5, <1>7
  <2> QED
    BY <1>1, <1>2, <1>9, <2>1, <2>2, <2>3 DEF Counted
<1> QED
  BY <1>8, <1>12, <1>13, <1>14, <1>15, <1>16, <1>17, <1>18, <1>19, <1>20 DEF LaneInv

-----------------------------------------------------------------------------
\* The theorems.

LEMMA InitHolds == Init => LaneInv
<1> SUFFICES ASSUME Init PROVE LaneInv
  OBVIOUS
<1>1. messages = << >> /\ Ids = {} /\ messages \in Seq(Rows)
  BY DEF Init, Ids
<1>2. workspaces \in [Workspaces -> {"open", "barred", "gone"}]
  BY DEF Init
<1>3. worker = Idle /\ crashes = 0 /\ process = "up" /\ runs = {} /\ left = MaxRequests
  BY DEF Init
<1>4. TypeOK
  <2>1. active \in Workspaces \cup {NoWorkspace} /\ left \in Nat
    BY <1>3, ChatAssumption DEF Init
  <2>2. cooling \in BOOLEAN /\ wake \in BOOLEAN /\ skipped \in BOOLEAN
    BY DEF Init
  <2> QED
    BY <1>1, <1>2, <1>3, <2>1, <2>2, IdleIsWorker DEF TypeOK
<1>5. Asked /\ ReplyMatchesOutcome /\ Counted /\ Alone
  BY <1>1, <1>3 DEF Asked, InState, ReplyMatchesOutcome, Counted, Sends, Alone
<1>6. Shape /\ Marked /\ Oldest /\ Unreplied /\ Muted
  BY <1>3, IdleIsWorker DEF Shape, Marked, Oldest, Unreplied, Muted, Holding
<1> QED
  BY <1>4, <1>5, <1>6 DEF LaneInv

LEMMA NextKeeps == LaneInv /\ [Next]_vars => LaneInv'
<1> SUFFICES ASSUME LaneInv, [Next]_vars PROVE LaneInv'
  OBVIOUS
<1>1. CASE Lane
  <2>1. CASE ApplyEffect
    BY <2>1, AppliedKeeps, RefusedKeeps DEF ApplyEffect
  <2> QED
    BY <1>1, <2>1, CheckQueueKeeps, ClaimKeeps, FindWorkspaceKeeps, PacketKeeps, LaunchKeeps,
       CodexKeeps, RepairKeeps, CompleteKeeps, AnswerKeeps, FailKeeps, ExcuseKeeps,
       RequeueKeeps, FinishKeeps DEF Lane
<1>2. CASE Owner
  BY <1>2, SendChatKeeps, DeleteChatMessageKeeps, SettingsKeep, DeleteWorkspaceKeeps DEF Owner
<1>3. CASE CodexCools \/ CodexReady \/ Stop
  BY <1>3, SettingsKeep
<1>4. CASE Exit \/ Crash \/ Restart
  BY <1>4, DownKeeps, RestartKeeps
<1>5. CASE UNCHANGED vars
  <2>1. /\ UNCHANGED <<messages, runs, worker, crashes, process, workspaces, active, cooling,
                       wake, left, skipped>>
        /\ Ids' = Ids
    BY <1>5 DEF vars, Ids
  <2>2. TypeOK'
    BY <2>1 DEF LaneInv, TypeOK
  <2> QED
    BY <2>1, <2>2, UnseenKeeps
<1> QED
  BY <1>1, <1>2, <1>3, <1>4, <1>5 DEF Next

LEMMA LaneInvHolds == Spec => []LaneInv
  BY InitHolds, NextKeeps, PTL DEF Spec

\* The variables have their types, and threads are one level deep.
THEOREM TypeCorrect == Spec => []TypeOK
<1>1. LaneInv => TypeOK
  BY DEF LaneInv
<1> QED
  BY <1>1, LaneInvHolds, PTL

\* The messages marked processing and the open chat runs are those the worker
\* has in its hands, whatever the owner deletes and whenever the daemon stops
\* or is killed (ClaimNextQueuedMessage, DeleteMessage, RecoverInterrupted).
THEOREM MessagesInHand == Spec => []InHand
<1>1. LaneInv => InHand
  <2> SUFFICES ASSUME LaneInv PROVE InHand
    OBVIOUS
  <2>1. Alone /\ Marked /\ Shape
    BY DEF LaneInv
  <2>2. process = "up" => Processing \subseteq {worker.id} /\ runs \subseteq {worker.id}
    BY <2>1 DEF Alone, Processing, InState
  <2>3. worker.step \in Holding => worker.id \in Processing
    BY <2>1 DEF Marked, Shape, Mine, Holding, Processing, InState, Sends
  <2> QED
    BY <2>2, <2>3 DEF InHand
<1> QED
  BY <1>1, LaneInvHolds, PTL

\* A message has at most one reply and the reply tells what became of it
\* (runChat, finishChatFailure).
THEOREM RepliesMatchOutcomes == Spec => []ReplyMatchesOutcome
<1>1. LaneInv => ReplyMatchesOutcome
  BY DEF LaneInv
<1> QED
  BY <1>1, LaneInvHolds, PTL

\* Only a kill repeats the effects of a message (runChat, applyChatEffects,
\* requeueChatMessage).
THEOREM KillsRepeatEffects == Spec => []EffectsOnce
<1>1. LaneInv => EffectsOnce
  <2> SUFFICES ASSUME LaneInv, NEW m \in Sends
               PROVE  messages[m].changed <= 1 + crashes
    BY DEF EffectsOnce
  <2>1. crashes \in Nat /\ messages[m].changed \in Nat
    BY RowTypes DEF LaneInv, TypeOK, Sends
  <2>2. messages[m].changed <= crashes + 1
    BY DEF LaneInv, Counted
  <2> QED
    BY <2>1, <2>2
<1> QED
  BY <1>1, LaneInvHolds, PTL

\* A step settles no message but the one in hand.
LEMMA OnlyMineSettles ==
    ASSUME LaneInv, [Next]_vars, NEW m \in InState(Ahead), messages'[m].status \in Settled
    PROVE  worker.step \notin {"idle", "claim"} /\ m = worker.id
<1>1. /\ messages \in Seq(Rows) /\ m \in Ids /\ messages[m].status \in Ahead
      /\ messages[m].status \notin Settled
  BY DEF LaneInv, TypeOK, InState, Ahead, Settled
<1>2. SUFFICES ASSUME m # worker.id \/ worker.step \in {"idle", "claim"}
               PROVE  messages'[m].status \in {messages[m].status, "deleted", "queued", "processing"}
  BY <1>1 DEF Settled
<1>3. \A s \in Statuses \ Settled : \A S : messages' = SetStatus(S, s) =>
         messages'[m].status \in {messages[m].status, "deleted", "queued", "processing"}
  BY <1>1, StatusWritten DEF Statuses, Ahead
<1>4. \A s \in Statuses : messages' = SetStatus({worker.id}, s) /\ m # worker.id =>
         messages'[m].status = messages[m].status
  <2> SUFFICES ASSUME NEW s \in Statuses, messages' = SetStatus({worker.id}, s), m # worker.id
               PROVE  messages'[m].status = messages[m].status
    OBVIOUS
  <2>1. \A k \in Ids : messages'[k].status = IF k = worker.id THEN s ELSE messages[k].status
    BY <1>1, OneWritten
  <2> QED
    BY <1>1, <2>1
<1>5. {"queued", "processing", "deleted"} \subseteq Statuses \ Settled
      /\ {"complete", "failed"} \subseteq Statuses
  BY DEF Statuses, Ahead, Settled
<1>6. CASE UNCHANGED messages
  BY <1>6
<1>7. CASE Claim \/ Requeue \/ DeleteChatMessage \/ Restart \/ \E w \in Workspaces : DeleteWorkspace(w)
  BY <1>3, <1>5, <1>6, <1>7 DEF Claim, Requeue, DeleteChatMessage, Restart, DeleteWorkspace
<1>8. CASE FindWorkspace \/ Complete \/ Fail
  <2>1. worker.step \notin {"idle", "claim"}
    BY <1>8 DEF FindWorkspace, Complete, Fail, At
  <2> QED
    BY <1>2, <1>4, <1>5, <1>6, <1>8, <2>1 DEF FindWorkspace, Complete, Fail
<1>9. CASE \E row : messages' = Append(messages, row)
  BY <1>1, <1>9 DEF Ids
<1>10. CASE ApplyEffect
  <2>1. worker.id \in Ids
    BY <1>10 DEF LaneInv, Shape, Sends, ApplyEffect, At
  <2> QED
    BY <1>1, <1>6, <1>10, <2>1, ChangeCounted DEF ApplyEffect
<1>11. CASE Answer \/ Excuse \/ SendChat
  BY <1>6, <1>9, <1>11 DEF Answer, Excuse, SendChat, SendIn
<1>12. CASE UNCHANGED vars
  BY <1>6, <1>12 DEF vars
<1>13. CASE CheckQueue \/ Packet \/ Launch \/ Codex \/ Repair \/ Finish \/ SelectWorkspace
            \/ StaleSettings \/ StartMission \/ CodexCools \/ CodexReady \/ Stop \/ Exit \/ Crash
  BY <1>6, <1>13 DEF CheckQueue, Packet, Launch, Codex, Repair, Finish, SelectWorkspace,
     StaleSettings, StartMission, CodexCools, CodexReady, Stop, Exit, Crash, Down
<1> QED
  BY <1>7, <1>8, <1>10, <1>11, <1>12, <1>13 DEF Next, Lane, Owner

\* "conversation stays ordered": a message is settled only when no older one is
\* still to be settled (ClaimNextQueuedMessage, RequeueMessage,
\* RecoverInterrupted).
THEOREM SettledInOrder == Spec => InOrder
<1>1. LaneInv /\ [Next]_vars =>
        \A m \in InState(Ahead) :
          messages'[m].status \in Settled => \A k \in 1..(m - 1) : messages[k].status \notin Ahead
  <2> SUFFICES ASSUME LaneInv, [Next]_vars, NEW m \in InState(Ahead),
                      messages'[m].status \in Settled, NEW k \in 1..(m - 1)
               PROVE  messages[k].status \notin Ahead
    OBVIOUS
  <2>1. worker.step \notin {"idle", "claim"} /\ m = worker.id
    BY OnlyMineSettles
  <2>2. PICK n \in Nat : Ids = 1..n
    BY LenProperties DEF LaneInv, TypeOK, Ids
  <2>3. k \in Ids /\ k < m
    BY <2>2 DEF InState
  <2> QED
    BY <2>1, <2>3 DEF LaneInv, Oldest
<1> QED
  BY <1>1, LaneInvHolds, PTL DEF Spec, InOrder

\* The worker does not fall asleep at these steps.
LEMMA WorkerAwake ==
    ASSUME LaneInv,
           Packet \/ Launch \/ Codex \/ Repair \/ ApplyEffect \/ Complete \/ Answer \/ Fail
           \/ Excuse \/ Requeue
    PROVE  worker'.step # "idle"
<1>1. worker \in Workers /\ 0..MaxEffects \subseteq Nat
  BY ChatAssumption DEF LaneInv, TypeOK
<1>2. (\E s \in Steps \ {"idle"} : GoTo(s)) => worker'.step # "idle"
  BY <1>1, WorkerGoes
<1>3. (\E b \in BOOLEAN : Fails(b)) => worker'.step # "idle"
  BY <1>1, WorkerFails
<1>4. (\E n \in 0..MaxEffects : Understood(n)) => worker'.step # "idle"
  BY <1>1, WorkerUnderstands
<1>5. {"requeue", "launch", "codex", "repair", "answer", "excuse", "finish"} \subseteq Steps \ {"idle"}
  BY DEF Steps
<1>6. CASE ApplyEffect
  BY <1>1, <1>6 DEF ApplyEffect, Workers
<1>7. CASE Packet \/ Launch \/ Codex \/ Repair
  BY <1>2, <1>3, <1>4, <1>5, <1>7 DEF Packet, Launch, Codex, Repair
<1>8. CASE Complete \/ Answer \/ Fail \/ Excuse \/ Requeue
  BY <1>2, <1>3, <1>5, <1>8 DEF Complete, Answer, Fail, Excuse, Requeue
<1> QED
  BY <1>6, <1>7, <1>8

LEMMA SignalKept ==
    ASSUME LaneInv, NoMissedSignal, [Next]_vars
    PROVE  NoMissedSignal'
<1>1. messages \in Seq(Rows) /\ worker \in Workers
      /\ process \in {"up", "stopping", "down"}
  BY DEF LaneInv, TypeOK
<1>2. CASE worker'.step # "idle"
  BY <1>2 DEF NoMissedSignal
<1>3. CASE wake' = TRUE \/ skipped' = TRUE \/ process' \in {"stopping", "down"}
  BY <1>3 DEF NoMissedSignal
<1>4. CASE /\ UNCHANGED <<worker, process, wake, skipped>>
           /\ Queued # {} \/ Queued' = {}
  BY <1>4 DEF NoMissedSignal
<1>6. UNCHANGED messages => Queued' = Queued
  BY DEF Queued, InState, Ids
<1>7. CASE CheckQueue
  <2>1. GoTo("claim") => worker'.step # "idle"
    BY <1>1, WorkerGoes DEF Steps
  <2> QED
    BY <1>2, <1>3, <1>7, <2>1 DEF CheckQueue
<1>8. CASE Claim
  <2>1. CASE Cancelled
    BY <1>3, <1>8, <2>1 DEF Claim, Cancelled
  <2>2. CASE ~Cancelled /\ Queued = {}
    BY <1>6, <1>8, <2>2 DEF Claim, NoMissedSignal
  <2>3. CASE ~Cancelled /\ Queued # {}
    <3>1. worker'.step = "workspace"
      BY <1>8, <2>3 DEF Claim, Idle
    <3> QED
      BY <1>2, <3>1
  <2> QED
    BY <2>1, <2>2, <2>3
<1>9. CASE FindWorkspace
  <2>1. GoTo("packet") => worker'.step # "idle"
    BY <1>1, WorkerGoes DEF Steps
  <2> QED
    BY <1>2, <1>3, <1>9, <2>1 DEF FindWorkspace
<1>10. CASE Packet \/ Launch \/ Codex \/ Repair \/ ApplyEffect \/ Complete \/ Answer \/ Fail
            \/ Excuse \/ Requeue
  BY <1>2, <1>10, WorkerAwake
<1>11. CASE Finish \/ SendChat \/ Restart \/ Stop \/ Exit \/ Crash
  BY <1>3, <1>11 DEF Finish, SendChat, SendIn, Restart, Stop, Exit, Crash, Down
<1>12. CASE DeleteChatMessage \/ \E w \in Workspaces : DeleteWorkspace(w)
  <2>1. PICK S : messages' = SetStatus(S, "deleted")
    BY <1>12 DEF DeleteChatMessage, DeleteWorkspace
  <2>2. "deleted" \in Statuses
    BY DEF Statuses
  <2>3. Ids' = Ids /\ \A m \in Ids : messages'[m].status \in {messages[m].status, "deleted"}
    BY <1>1, <2>1, <2>2, StatusWritten
  <2>4. Queued' \subseteq Queued
    BY <2>3 DEF Queued, InState
  <2> QED
    BY <1>4, <1>12, <2>4 DEF DeleteChatMessage, DeleteWorkspace
<1>13. CASE \/ SelectWorkspace \/ StaleSettings \/ StartMission \/ CodexCools \/ CodexReady
            \/ UNCHANGED vars
  BY <1>4, <1>6, <1>13 DEF SelectWorkspace, StaleSettings, StartMission, CodexCools, CodexReady, vars
<1> QED
  BY <1>7, <1>8, <1>9, <1>10, <1>11, <1>12, <1>13 DEF Next, Lane, Owner

\* While the daemon runs, the lane never sleeps on a queued message without a
\* signal, unless chatWorkOnce last turned back before it asked the queue
\* (SendChat, endChat, signalChat, Start).
THEOREM NoSignalMissed == Spec => []NoMissedSignal
<1>1. Init => NoMissedSignal
  BY DEF Init, NoMissedSignal
<1>2. LaneInv /\ NoMissedSignal /\ [Next]_vars => NoMissedSignal'
  BY SignalKept
<1> QED
  BY <1>1, <1>2, LaneInvHolds, PTL DEF Spec

\* Rows that other steps add are not excuses.
LEMMA NoOtherExcuse ==
    ASSUME LaneInv, [Next]_vars, ~Excuse, NEW r \in Ids' \ Ids
    PROVE  messages'[r].says # "excuse"
<1>1. messages \in Seq(Rows)
  BY DEF LaneInv, TypeOK
<1>2. CASE UNCHANGED messages
  BY <1>2 DEF Ids
<1>3. CASE \E S, s : messages' = SetStatus(S, s)
  BY <1>3 DEF SetStatus, Ids
<1>4. \A row : messages' = Append(messages, row) => messages'[r] = row
  BY <1>1 DEF Ids
<1>5. CASE Answer
  <2>1. PICK row : row = Reply("answer")
    OBVIOUS
  <2>2. UNCHANGED messages \/ messages' = Append(messages, row)
    BY <1>5, <2>1 DEF Answer
  <2>3. row.says # "excuse"
    BY <2>1 DEF Reply
  <2> QED
    BY <1>2, <1>4, <2>2, <2>3
<1>6. CASE SendChat
  <2>1. PICK root : SendIn(root)
    BY <1>6 DEF SendChat
  <2>2. PICK row : row = [says |-> "user", root |-> root, home |-> active,
                          status |-> "queued", to |-> 0, changed |-> 0]
    OBVIOUS
  <2>3. messages' = Append(messages, row) /\ row.says # "excuse"
    BY <2>1, <2>2 DEF SendIn
  <2> QED
    BY <1>4, <2>3
<1>7. CASE ApplyEffect
  BY <1>2, <1>7 DEF ApplyEffect, Ids
<1>8. CASE Claim \/ FindWorkspace \/ Complete \/ Fail \/ Requeue \/ DeleteChatMessage \/ Restart
           \/ \E w \in Workspaces : DeleteWorkspace(w)
  BY <1>2, <1>3, <1>8 DEF Claim, FindWorkspace, Complete, Fail, Requeue, DeleteChatMessage,
     Restart, DeleteWorkspace
<1>9. CASE CheckQueue \/ Packet \/ Launch \/ Codex \/ Repair \/ Finish \/ SelectWorkspace
           \/ StaleSettings \/ StartMission \/ CodexCools \/ CodexReady \/ Stop \/ Exit \/ Crash
           \/ UNCHANGED vars
  BY <1>2, <1>9 DEF CheckQueue, Packet, Launch, Codex, Repair, Finish, SelectWorkspace,
     StaleSettings, StartMission, CodexCools, CodexReady, Stop, Exit, Crash, Down, vars
<1> QED
  BY <1>5, <1>6, <1>7, <1>8, <1>9 DEF Next, Lane, Owner

\* An excuse written after effects is one for an answer that validateMessage
\* refused (runChat, finishChatFailure).
THEOREM OnlyAppsAreDenied == Spec => DeniesOnlyApps
<1>1. LaneInv /\ [Next]_vars =>
        \A r \in Ids' \ Ids : messages'[r].says = "excuse" => worker.done = 0 \/ worker.app
  <2> SUFFICES ASSUME LaneInv, [Next]_vars, NEW r \in Ids' \ Ids, messages'[r].says = "excuse"
               PROVE  worker.done = 0 \/ worker.app
    OBVIOUS
  <2>1. CASE Excuse
    <3>1. Muted /\ worker.step = "excuse"
      BY <2>1 DEF LaneInv, Excuse, At
    <3>2. CASE Appendable(Mine.root, Mine.home)
      BY <3>1, <3>2 DEF Muted
    <3>3. CASE ~Appendable(Mine.root, Mine.home)
      BY <2>1, <3>3 DEF Excuse, Ids
    <3> QED
      BY <3>2, <3>3
  <2>2. CASE ~Excuse
    BY <2>2, NoOtherExcuse
  <2> QED
    BY <2>1, <2>2
<1> QED
  BY <1>1, LaneInvHolds, PTL DEF Spec, DeniesOnlyApps

\* No reply contradicts the status of its message, and no excuse denies effects
\* but the one for an answer that validateMessage refused (runChat,
\* finishChatFailure).
THEOREM RepliesTrue == Spec => RepliesAreTrue
BY RepliesMatchOutcomes, OnlyAppsAreDenied, PTL DEF RepliesAreTrue

\* A marked message is in the hands of the worker, a queued one will be noticed
\* (chatLoop, endChat).
THEOREM AttendedHolds == Spec => []Attended
<1>1. InHand /\ NoMissedSignal => Attended
  BY DEF Attended
<1> QED
  BY <1>1, MessagesInHand, NoSignalMissed, PTL
=============================================================================
