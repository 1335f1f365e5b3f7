-------------------------- MODULE ScheduleClaimsProofs --------------------------
\* Proofs about ScheduleClaims, for every set of schedules and engines.
EXTENDS ScheduleClaims, TLAPS

\* A busy engine holds a token of its own for a schedule that was created and
\* an occurrence that was recorded as attempted; tokens are never reused.
Claims ==
    /\ \A s \in Schedules : token[s] \in 0 .. lastToken
    /\ \A e \in Engines : Busy(e) =>
        /\ snap[e].id \in Schedules
        /\ row[snap[e].id].status # "absent"
        /\ claim[e] \in 1 .. lastToken
        /\ Occ(e) \in tried
    /\ \A e, f \in Engines : Busy(e) /\ Busy(f) /\ claim[e] = claim[f] => e = f
    /\ edit.id # NoSchedule => edit.row.status \in {"on", "off"}

\* What a holder knows of its schedule: the lease, and the occurrence unless
\* the user rewrote it.
Known ==
    \A e \in Engines : Holds(e) =>
        /\ lease[snap[e].id] = snap[e].lease
        /\ edited[snap[e].id] \/ row[snap[e].id].next = snap[e].row.next

\* Script runs belong to one engine; a signal follows a completed script; a
\* task exists only if it was inserted.
Effects ==
    /\ \A e \in Engines : run[e] \in 0 .. lastRun
    /\ \A e, f \in Engines : run[e] # NoRun /\ run[e] = run[f] => e = f
    /\ \A e \in Engines : pc[e] \in {"pending", "running", "signal"} =>
        snap[e].row.kind = "script" /\ run[e] # NoRun
    /\ \A e \in Engines : pc[e] = "finish" /\ ~failed[e] /\ snap[e].row.kind = "script" =>
        run[e] # NoRun
    /\ \A e \in Engines : pc[e] = "signal" => ~failed[e] /\ runs[run[e]] = "completed"
    /\ \A o \in Occurrences : tasks[o] # "none" => births[o] > 0

ClaimInv == TypeOK /\ Claims /\ Known /\ ClaimKept
FullInv == ClaimInv /\ Effects /\ FinishedIsDone /\ OpenRunsAreWorked

-----------------------------------------------------------------------------
LEMMA RestTypes ==
    /\ NoRow \in Rows
    /\ [NoRow EXCEPT !.status = "deleted"] \in Rows
    /\ NoSnap \in Snaps
    /\ NoEdit \in Edits
<1>1. NoRow \in Rows
  BY DEF NoRow, Rows, Times, Never
<1>2. [NoRow EXCEPT !.status = "deleted"] \in Rows
  BY DEF NoRow, Rows, Times, Never
<1>3. NoSnap \in Snaps
  BY <1>1 DEF NoSnap, Snaps
<1>4. NoEdit \in Edits
  BY <1>1 DEF NoEdit, Edits
<1> QED
  BY <1>1, <1>2, <1>3, <1>4

LEMMA NewRowTypes ==
    ASSUME TypeOK, NEW st \in {"on", "off"}, NEW k \in Kinds, NEW c \in Cadences
    PROVE  [status |-> st, kind |-> k, cadence |-> c, next |-> NextForEdit(c)] \in Rows
<1>1. NextForEdit(c) \in Nat
  BY ScheduleAssumption DEF ScheduleAssumption, TypeOK, NextForEdit, Longer
<1> QED
  BY <1>1 DEF Rows, Times

LEMMA HeldRow ==
    ASSUME TypeOK, NEW e \in Engines
    PROVE  /\ snap[e].row \in Rows
           /\ snap[e].id \in Schedules \cup {NoSchedule}
           /\ snap[e].lease \in Nat
           /\ snap[e].row.cadence \in Nat
           /\ NextAfterRun(snap[e].row.cadence) \in Nat \cup {Never}
<1>1. snap[e] \in Snaps
  BY DEF TypeOK
<1>2. snap[e].row \in Rows /\ snap[e].id \in Schedules \cup {NoSchedule} /\ snap[e].lease \in Nat
  BY <1>1 DEF Snaps
<1>3a. snap[e].row.cadence \in Cadences \cup {0}
  BY <1>2 DEF Rows
<1>3. snap[e].row.cadence \in Nat
  BY <1>3a, ScheduleAssumption DEF ScheduleAssumption
<1>4. now \in Nat
  BY ScheduleAssumption DEF TypeOK, ScheduleAssumption
<1> QED
  BY <1>2, <1>3, <1>4 DEF NextAfterRun

LEMMA InitType == Init => TypeOK
<1> SUFFICES ASSUME Init PROVE TypeOK
  OBVIOUS
<1> USE ScheduleAssumption, RestTypes DEF ScheduleAssumption, Init
<1>1. /\ now \in 0 .. MaxTime /\ lastToken \in 0 .. MaxClaims
      /\ lastRun \in 0 .. MaxRuns /\ left \in 0 .. MaxRequests
  OBVIOUS
<1>2. /\ token \in [Schedules -> 0 .. MaxClaims] /\ lease \in [Schedules -> Nat]
      /\ claim \in [Engines -> 0 .. MaxClaims] /\ run \in [Engines -> 0 .. MaxRuns]
  BY DEF NoToken, NoRun
<1>3. /\ pc \in [Engines -> Places] /\ runs \in [1 .. MaxRuns -> ScriptRunStatuses]
      /\ births \in [Occurrences -> Nat]
  BY DEF Places, ScriptRunStatuses
<1> QED
  BY <1>1, <1>2, <1>3 DEF TypeOK

LEMMA ClaimType ==
    ASSUME TypeOK, NEW e \in Engines, Claim(e)
    PROVE  TypeOK'
<1> USE ScheduleAssumption DEF ScheduleAssumption
<1>1. PICK s \in Schedules :
        /\ Claimable(s)
        /\ token' = [token EXCEPT ![s] = lastToken + 1]
        /\ lease' = [lease EXCEPT ![s] = now + Lease]
        /\ snap' = [snap EXCEPT ![e] = [id |-> s, row |-> row[s], lease |-> now + Lease]]
        /\ tried' = tried \cup {<<s, row[s].next>>}
  BY DEF Claim
<1>2. row[s].next \in 0 .. MaxTime
  BY <1>1 DEF Claimable, Due, TypeOK, Rows, Times, Never
<1>3. lastToken + 1 \in 0 .. MaxClaims /\ now + Lease \in Nat
  BY DEF Claim, TypeOK
<1>4. tried' \subseteq Occurrences
  BY <1>1, <1>2 DEF TypeOK, Places, Occurrences
<1>5. snap' \in [Engines -> Snaps]
  <2>1. [id |-> s, row |-> row[s], lease |-> now + Lease] \in Snaps
    BY <1>3 DEF TypeOK, Snaps
  <2> QED
    BY <1>1, <2>1 DEF TypeOK
<1> QED
  BY <1>1, <1>3, <1>4, <1>5 DEF TypeOK, Places, Claim, Goto, effect, user

LEMMA IdleType ==
    ASSUME TypeOK, NEW e \in Engines, Idle(e)
    PROVE  /\ pc' \in [Engines -> Places]
           /\ snap' \in [Engines -> Snaps]
           /\ claim' \in [Engines -> 0 .. MaxClaims]
           /\ failed' \in [Engines -> BOOLEAN]
           /\ run' \in [Engines -> 0 .. MaxRuns]
BY ScheduleAssumption, RestTypes
   DEF ScheduleAssumption, TypeOK, Places, Idle, Goto, NoToken, NoRun

LEMMA WorkType ==
    ASSUME TypeOK, Claims, Effects, NEW e \in Engines, Work(e) \/ FinishFails(e)
    PROVE  TypeOK'
<1> USE ScheduleAssumption DEF ScheduleAssumption, Held, effect, user, Goto, Errs
<1>1. CASE DispatchFails(e) \/ Orient(e)
  BY <1>1 DEF TypeOK, Places, DispatchFails, Orient
<1>2. CASE CreateTask(e)
  <2>1. snap[e].row.kind \in {"task", "script"}
    BY <1>2 DEF CreateTask, Effects
  <2>2. tasks' \in [Occurrences -> {"none", "task", "script", "deleted"}]
    BY <1>2, <2>1 DEF TypeOK, Places, CreateTask
  <2>3. births' \in [Occurrences -> Nat]
    <3>1. births[Occ(e)] + 1 \in Nat \/ Occ(e) \notin Occurrences
      BY DEF TypeOK
    <3> QED
      BY <1>2, <3>1 DEF TypeOK, Places, CreateTask
  <2> QED
    BY <1>2, <2>2, <2>3 DEF TypeOK, Places, CreateTask
<1>3. CASE StartScript(e)
  <2>1. lastRun + 1 \in 0 .. MaxRuns
    BY <1>3 DEF StartScript, TypeOK
  <2> QED
    BY <1>3, <2>1 DEF TypeOK, Places, StartScript, ScriptRunStatuses
<1>4. CASE OnStart(e)
  BY <1>4 DEF TypeOK, Places, OnStart, ScriptRunStatuses
<1>5. CASE EndScript(e)
  <2>1. runs' \in [1 .. MaxRuns -> ScriptRunStatuses]
    BY <1>5 DEF TypeOK, Places, EndScript, ScriptRunStatuses
  <2>2. /\ pc' \in [Engines -> Places]
        /\ failed' \in [Engines -> BOOLEAN]
    BY <1>5 DEF TypeOK, Places, EndScript
  <2> QED
    BY <1>5, <2>1, <2>2 DEF TypeOK, Places, EndScript
<1>6. CASE Finish(e)
  <2>1. NextAfterRun(snap[e].row.cadence) \in Nat \cup {Never}
    BY HeldRow
  <2>2. ASSUME NEW s \in Schedules
        PROVE  [row EXCEPT ![s].next = NextAfterRun(snap[e].row.cadence)] \in [Schedules -> Rows]
    <3>1. [row[s] EXCEPT !.next = NextAfterRun(snap[e].row.cadence)] \in Rows
      <4>1. row[s] \in Rows
        BY DEF TypeOK
      <4> QED
        BY <2>1, <4>1 DEF Rows, Times
    <3> QED
      BY <3>1 DEF TypeOK
  <2>3. row' \in [Schedules -> Rows]
    <3>1. CASE Holds(e)
      <4>1. snap[e].id \in Schedules
        BY <3>1 DEF Holds, Claims
      <4> QED
        BY <1>6, <2>2, <3>1, <4>1 DEF Finish, Move
    <3> QED
      BY <1>6, <3>1 DEF TypeOK, Finish
  <2>4. token' \in [Schedules -> 0 .. MaxClaims] /\ lease' \in [Schedules -> Nat]
    <3>1. CASE Holds(e)
      <4>1. /\ token' = [token EXCEPT ![snap[e].id] = 0]
            /\ lease' = [lease EXCEPT ![snap[e].id] = 0]
        BY <1>6, <3>1 DEF Finish, Move, NoToken
      <4>2. 0 \in 0 .. MaxClaims
        OBVIOUS
      <4> QED
        BY <4>1, <4>2 DEF TypeOK
    <3>2. CASE ~Holds(e)
      BY <1>6, <3>2 DEF TypeOK, Finish
    <3> QED
      BY <3>1, <3>2
  <2>5. edited' \in [Schedules -> BOOLEAN]
    BY <1>6 DEF TypeOK, Places, Finish, Move
  <2> QED
    BY <1>6, <2>3, <2>4, <2>5, IdleType DEF TypeOK, Places, Finish
<1>7. CASE FinishFails(e)
  BY <1>7, IdleType DEF TypeOK, Places, FinishFails, Request
<1> QED
  BY <1>1, <1>2, <1>3, <1>4, <1>5, <1>6, <1>7 DEF Work

LEMMA UserType ==
    ASSUME TypeOK,
           \/ \E s \in Schedules : UserStep(s)
           \/ \E o \in Occurrences : DeleteTask(o)
           \/ ResetContext \/ ConfirmContext
    PROVE  TypeOK'
<1> USE ScheduleAssumption DEF ScheduleAssumption, Requested, engine, effect, Request
<1>1. ASSUME NEW s \in Schedules, NEW k \in Kinds, NEW c \in Cadences, CreateSchedule(s, k, c)
      PROVE  TypeOK'
  <2>1. [status |-> "on", kind |-> k, cadence |-> c, next |-> NextForEdit(c)] \in Rows
    BY NewRowTypes
  <2> QED
    BY <1>1, <2>1 DEF TypeOK, Places, CreateSchedule
<1>2. ASSUME NEW s \in Schedules, NEW st \in {"on", "off"}, NEW k \in Kinds, NEW c \in Cadences,
             LoadEdit(s, st, k, c)
      PROVE  TypeOK'
  <2>1. [status |-> st, kind |-> k, cadence |-> c, next |-> NextForEdit(c)] \in Rows
    BY NewRowTypes
  <2> QED
    BY <1>2, <2>1 DEF TypeOK, LoadEdit, Edits
<1>3. ASSUME NEW s \in Schedules, CommitEdit(s) PROVE TypeOK'
  <2>1. edit.row \in Rows
    BY DEF TypeOK, Edits
  <2> QED
    BY <1>3, <2>1, RestTypes DEF TypeOK, CommitEdit
<1>6. ASSUME NEW s \in Schedules, DeleteSchedule(s) PROVE TypeOK'
  <2>1. row' \in [Schedules -> Rows] /\ edited' \in [Schedules -> BOOLEAN]
    BY <1>6, RestTypes DEF TypeOK, DeleteSchedule
  <2>2. left' \in 0 .. MaxRequests
    BY <1>6 DEF TypeOK, DeleteSchedule
  <2> QED
    BY <1>6, <2>1, <2>2 DEF TypeOK, DeleteSchedule
<1>4. ASSUME NEW o \in Occurrences, DeleteTask(o) PROVE TypeOK'
  BY <1>4 DEF TypeOK, Places, DeleteTask
<1>5. ASSUME ResetContext PROVE TypeOK'
  <2>1. left' \in 0 .. MaxRequests /\ ready' = FALSE
    BY <1>5 DEF TypeOK, ResetContext
  <2> QED
    BY <1>5, <2>1 DEF TypeOK, ResetContext
<1>7. ASSUME ConfirmContext PROVE TypeOK'
  BY <1>7 DEF TypeOK, ConfirmContext
<1> QED
  BY <1>1, <1>2, <1>3, <1>4, <1>5, <1>6, <1>7 DEF UserStep

LEMMA ServerType ==
    ASSUME TypeOK, Tick \/ Stop \/ Restart
    PROVE  TypeOK'
<1> USE ScheduleAssumption DEF ScheduleAssumption, engine, effect, user, Request
<1>1. CASE Tick
  BY <1>1 DEF TypeOK, Tick
<1>3. CASE Stop
  BY <1>3 DEF TypeOK, Stop
<1>2. CASE Restart
  <2>1. \A r \in 1 .. MaxRuns : Recovered(runs[r]) \in ScriptRunStatuses
    BY DEF TypeOK, Places, Recovered, ScriptRunStatuses
  <2>2. /\ pc' \in [Engines -> Places] /\ claim' \in [Engines -> 0 .. MaxClaims]
        /\ failed' \in [Engines -> BOOLEAN] /\ run' \in [Engines -> 0 .. MaxRuns]
    BY <1>2 DEF Restart, Places, NoToken, NoRun
  <2>3. /\ token' \in [Schedules -> 0 .. MaxClaims] /\ lease' \in [Schedules -> Nat]
        /\ runs' \in [1 .. MaxRuns -> ScriptRunStatuses]
    BY <1>2, <2>1 DEF Restart, NoToken
  <2>4. snap' \in [Engines -> Snaps] /\ edit' \in Edits /\ left' \in 0 .. MaxRequests
    BY <1>2, RestTypes DEF TypeOK, Restart
  <2> QED
    BY <1>2, <2>2, <2>3, <2>4 DEF TypeOK, Restart
<1> QED
  BY <1>1, <1>2, <1>3

-----------------------------------------------------------------------------
\* Claims, and what a holder knows.

LEMMA InitClaims == Init => Claims /\ Known /\ ClaimKept
BY DEF Init, Claims, Known, ClaimKept, Busy, Holds, NoToken, NoEdit, NoRow

LEMMA ClaimClaims ==
    ASSUME ClaimInv, NEW e \in Engines, Claim(e)
    PROVE  Claims' /\ Known' /\ ClaimKept'
<1> USE ScheduleAssumption DEF ScheduleAssumption
<1>1. PICK s \in Schedules :
        /\ Claimable(s)
        /\ token' = [token EXCEPT ![s] = lastToken + 1]
        /\ lease' = [lease EXCEPT ![s] = now + Lease]
        /\ snap' = [snap EXCEPT ![e] = [id |-> s, row |-> row[s], lease |-> now + Lease]]
        /\ tried' = tried \cup {<<s, row[s].next>>}
  BY DEF Claim
<1>2. /\ lastToken' = lastToken + 1 /\ claim' = [claim EXCEPT ![e] = lastToken + 1]
      /\ pc' = [pc EXCEPT ![e] = "dispatch"] /\ pc[e] = "idle"
      /\ row' = row /\ now' = now /\ edited' = edited /\ edit' = edit
  BY DEF Claim, Goto, user
<1>3. lastToken \in Nat /\ now \in Nat
  BY DEF ClaimInv, TypeOK
<1>4. /\ snap'[e] = [id |-> s, row |-> row[s], lease |-> now + Lease]
      /\ claim'[e] = lastToken + 1 /\ token'[s] = lastToken + 1 /\ lease'[s] = now + Lease
  BY <1>1, <1>2 DEF ClaimInv, TypeOK
<1>5. ASSUME NEW f \in Engines, f # e
      PROVE  /\ snap'[f] = snap[f] /\ claim'[f] = claim[f] /\ pc'[f] = pc[f]
             /\ Busy(f)' <=> Busy(f)
             /\ Busy(f) => claim[f] \in 1 .. lastToken /\ snap[f].id \in Schedules /\ Occ(f) \in tried
  BY <1>1, <1>2, <1>5 DEF ClaimInv, Claims, TypeOK, Busy
<1>6. ASSUME NEW r \in Schedules, r # s
      PROVE  token'[r] = token[r] /\ lease'[r] = lease[r]
  BY <1>1, <1>6 DEF ClaimInv, TypeOK
<1>7. row[s].status = "on"
  BY <1>1 DEF Claimable, Due
<1>8. Claims'
  <2>1. \A r \in Schedules : token'[r] \in 0 .. lastToken'
    BY <1>2, <1>3, <1>4, <1>6 DEF ClaimInv, Claims
  <2>2. ASSUME NEW f \in Engines, Busy(f)'
        PROVE  /\ snap'[f].id \in Schedules /\ row'[snap'[f].id].status # "absent"
               /\ claim'[f] \in 1 .. lastToken' /\ Occ(f)' \in tried'
    <3>1. CASE f = e
      BY <1>1, <1>2, <1>3, <1>4, <1>7, <3>1 DEF Occ
    <3>2. CASE f # e
      BY <1>1, <1>2, <1>3, <1>5, <2>2, <3>2 DEF Occ, ClaimInv, Claims
    <3> QED
      BY <3>1, <3>2
  <2>3. ASSUME NEW f \in Engines, NEW g \in Engines, Busy(f)', Busy(g)', claim'[f] = claim'[g]
        PROVE  f = g
    BY <1>3, <1>4, <1>5, <2>3 DEF ClaimInv, Claims
  <2> QED
    BY <1>2, <2>1, <2>2, <2>3 DEF ClaimInv, Claims
<1>9. Known'
  <2> SUFFICES ASSUME NEW f \in Engines, Holds(f)'
               PROVE  /\ lease'[snap'[f].id] = snap'[f].lease
                      /\ edited'[snap'[f].id] \/ row'[snap'[f].id].next = snap'[f].row.next
    BY DEF Known
  <2>1. CASE f = e
    BY <1>2, <1>4, <2>1
  <2>2. CASE f # e
    <3>1. snap[f].id # s
      BY <1>3, <1>4, <1>5, <2>2 DEF Holds
    <3> QED
      BY <1>2, <1>5, <1>6, <2>2, <3>1 DEF ClaimInv, Known, Holds, Exists
  <2> QED
    BY <2>1, <2>2
<1>10. ClaimKept'
  <2> SUFFICES ASSUME NEW f \in Engines, Busy(f)', Exists(snap[f].id)'
               PROVE  token'[snap'[f].id] = claim'[f] \/ snap'[f].lease <= now'
    BY DEF ClaimKept, Exists
  <2>1. CASE f = e
    BY <1>4, <2>1
  <2>2. CASE f # e
    <3>1. token[snap[f].id] = claim[f] \/ snap[f].lease <= now
      BY <1>2, <1>5, <2>2 DEF ClaimInv, ClaimKept, Exists
    <3>2. CASE snap[f].id = s /\ token[s] = claim[f]
      <4>1. Holds(f) /\ lease[s] = snap[f].lease
        BY <1>2, <1>5, <2>2, <3>2 DEF Holds, ClaimInv, Known, Exists
      <4>2. token[s] # NoToken
        BY <1>5, <2>2, <3>2 DEF NoToken
      <4> QED
        BY <1>1, <1>2, <1>5, <2>2, <4>1, <4>2 DEF Claimable
    <3> QED
      BY <1>2, <1>5, <1>6, <2>2, <3>1, <3>2
  <2> QED
    BY <2>1, <2>2
<1> QED
  BY <1>8, <1>9, <1>10

\* A step of a busy engine that stays busy moves no claim.
LEMMA WorkClaims ==
    ASSUME ClaimInv, NEW e \in Engines, Work(e), ~Finish(e)
    PROVE  Claims' /\ Known' /\ ClaimKept'
<1>1. /\ UNCHANGED Held
      /\ pc[e] # "idle" /\ pc'[e] # "idle"
      /\ \A f \in Engines : f # e => pc'[f] = pc[f]
  BY DEF Work, DispatchFails, Orient, CreateTask, StartScript, OnStart, EndScript, Goto,
         ClaimInv, TypeOK
<1>2. \A f \in Engines : Busy(f)' <=> Busy(f)
  BY <1>1 DEF Busy
<1>3. /\ row' = row /\ token' = token /\ lease' = lease /\ lastToken' = lastToken /\ now' = now
      /\ snap' = snap /\ claim' = claim /\ edit' = edit /\ edited' = edited /\ tried' = tried
  BY <1>1 DEF Held, user
<1> QED
  BY <1>2, <1>3 DEF ClaimInv, Claims, Known, ClaimKept, Holds, Exists, Occ

\* An engine that goes idle: its token is left or released, and others' claims
\* are not touched.
LEMMA EndClaims ==
    ASSUME ClaimInv, NEW e \in Engines, Finish(e) \/ FinishFails(e)
    PROVE  Claims' /\ Known' /\ ClaimKept'
<1> DEFINE s == snap[e].id
<1>1. /\ pc[e] = "finish" /\ Idle(e)
      /\ now' = now /\ lastToken' = lastToken /\ tried' = tried /\ edit' = edit
  BY DEF Finish, FinishFails, user
<1>2. ~Busy(e)' /\ Busy(e)
  BY <1>1 DEF Idle, Goto, Busy, ClaimInv, TypeOK
<1>3. ASSUME NEW f \in Engines, f # e
      PROVE  /\ snap'[f] = snap[f] /\ claim'[f] = claim[f]
             /\ Busy(f)' <=> Busy(f)
             /\ Busy(f) => claim[f] # claim[e] /\ claim[f] # NoToken
  BY <1>1, <1>2, <1>3 DEF Idle, Goto, Busy, ClaimInv, Claims, TypeOK, NoToken
<1>4. s \in Schedules /\ lastToken \in Nat
  BY <1>2 DEF ClaimInv, Claims, TypeOK
<1>5. CASE UNCHANGED <<row, token, lease, edited>>
  <2>1. ASSUME NEW f \in Engines, Busy(f)' PROVE f # e
    BY <1>2, <2>1
  <2>2. row' = row /\ token' = token /\ lease' = lease /\ edited' = edited
    BY <1>5
  <2>3. Claims'
    BY <1>1, <1>3, <2>1, <2>2 DEF ClaimInv, Claims, Occ
  <2> QED
    BY <1>1, <1>3, <2>1, <2>2, <2>3 DEF ClaimInv, Known, ClaimKept, Holds, Exists
<1>6. CASE Holds(e) /\ Move(s, snap[e].row.cadence)
  <2>1. /\ token' = [token EXCEPT ![s] = NoToken] /\ token[s] = claim[e]
        /\ row' = [row EXCEPT ![s].next = NextAfterRun(snap[e].row.cadence)]
        /\ lease' = [lease EXCEPT ![s] = 0] /\ edited' = [edited EXCEPT ![s] = FALSE]
    BY <1>6 DEF Move, Holds
  <2>2. \A r \in Schedules : row'[r].status = row[r].status
    BY <2>1 DEF ClaimInv, TypeOK, Rows
  <2>3. ASSUME NEW f \in Engines, Busy(f)' PROVE f # e /\ Busy(f) /\ snap[f].id \in Schedules
    BY <1>2, <1>3, <2>3 DEF ClaimInv, Claims
  <2>4. Claims'
    <3>1. \A r \in Schedules : token'[r] \in 0 .. lastToken'
      BY <1>1, <1>4, <2>1 DEF ClaimInv, Claims, TypeOK, NoToken
    <3> QED
      BY <1>1, <1>3, <2>2, <2>3, <3>1 DEF ClaimInv, Claims, Occ
  <2>5. ASSUME NEW f \in Engines, Busy(f)', Exists(snap[f].id)', snap[f].id = s
        PROVE  /\ ~Holds(f)'
               /\ snap[f].lease <= now
    <3>1. f # e /\ Busy(f) /\ claim[f] # claim[e] /\ claim[f] # NoToken /\ snap'[f] = snap[f] /\ claim'[f] = claim[f]
      BY <1>3, <2>3, <2>5
    <3>2. token'[s] = NoToken
      BY <1>4, <2>1 DEF ClaimInv, TypeOK
    <3>3. Exists(snap[f].id)
      BY <2>2, <2>3, <2>5, <3>1 DEF Exists
    <3> QED
      BY <2>1, <2>5, <3>1, <3>2, <3>3 DEF ClaimInv, ClaimKept, Holds
  <2>6. \A r \in Schedules : r # s => /\ row'[r] = row[r] /\ token'[r] = token[r]
                                     /\ lease'[r] = lease[r] /\ edited'[r] = edited[r]
    BY <2>1 DEF ClaimInv, TypeOK
  <2>7. Known'
    <3> SUFFICES ASSUME NEW f \in Engines, Holds(f)'
                 PROVE  /\ lease'[snap'[f].id] = snap'[f].lease
                        /\ edited'[snap'[f].id] \/ row'[snap'[f].id].next = snap'[f].row.next
      BY DEF Known
    <3>1. f # e /\ Busy(f) /\ snap[f].id \in Schedules /\ snap'[f] = snap[f] /\ claim'[f] = claim[f]
      BY <1>3, <2>3 DEF Holds
    <3>2. snap[f].id # s
      BY <2>5, <3>1 DEF Holds, Exists
    <3> QED
      BY <2>6, <3>1, <3>2 DEF ClaimInv, Known, Holds, Exists
  <2>8. ClaimKept'
    <3> SUFFICES ASSUME NEW f \in Engines, Busy(f)', Exists(snap[f].id)'
                 PROVE  token'[snap'[f].id] = claim'[f] \/ snap'[f].lease <= now'
      BY DEF ClaimKept, Exists
    <3>1. f # e /\ Busy(f) /\ snap[f].id \in Schedules /\ snap'[f] = snap[f] /\ claim'[f] = claim[f]
      BY <1>3, <2>3
    <3> QED
      BY <1>1, <2>5, <2>6, <3>1 DEF ClaimInv, ClaimKept, Exists
  <2> QED
    BY <2>4, <2>7, <2>8
<1> QED
  BY <1>5, <1>6 DEF Finish, FinishFails

\* The user never touches a claim, and never revives a schedule.
LEMMA UserClaims ==
    ASSUME ClaimInv,
           \/ \E s \in Schedules : UserStep(s)
           \/ \E o \in Occurrences : DeleteTask(o)
           \/ ResetContext \/ ConfirmContext
    PROVE  Claims' /\ Known' /\ ClaimKept'
<1>1. /\ UNCHANGED Requested
      /\ token' = token
  BY DEF UserStep, CreateSchedule, LoadEdit, CommitEdit, DeleteSchedule, DeleteTask,
         ResetContext, ConfirmContext
<1>2. /\ now' = now /\ lease' = lease /\ lastToken' = lastToken /\ tried' = tried
      /\ pc' = pc /\ snap' = snap /\ claim' = claim
  BY <1>1 DEF Requested, engine
<1>3. edit'.id # NoSchedule => edit'.row.status \in {"on", "off"}
  BY DEF ClaimInv, Claims, UserStep, CreateSchedule, LoadEdit, CommitEdit, DeleteSchedule, DeleteTask,
         ResetContext, ConfirmContext, NoEdit
<1>4. ASSUME NEW r \in Schedules, row[r].status # "absent"
      PROVE  /\ row'[r].status # "absent"
             /\ Exists(r)' => Exists(r)
             /\ edited'[r] \/ (row'[r] = row[r] /\ edited'[r] = edited[r])
  <2>1. row \in [Schedules -> Rows] /\ edited \in [Schedules -> BOOLEAN]
    BY DEF ClaimInv, TypeOK
  <2>2. CASE UNCHANGED <<row, edited>>
    BY <1>4, <2>2 DEF Exists
  <2>3. ASSUME NEW s \in Schedules, NEW k \in Kinds, NEW c \in Cadences, CreateSchedule(s, k, c)
        PROVE  row'[r] = row[r] /\ edited'[r] = edited[r]
    BY <1>4, <2>1, <2>3 DEF CreateSchedule
  <2>4. ASSUME NEW s \in Schedules, CommitEdit(s)
        PROVE  \/ row'[r] = row[r] /\ edited'[r] = edited[r]
               \/ Exists(r) /\ row'[r].status \in {"on", "off"} /\ edited'[r] = TRUE
    <3>1. edit.row.status \in {"on", "off"}
      BY <2>4, ScheduleAssumption DEF CommitEdit, ClaimInv, Claims, ScheduleAssumption
    <3> QED
      BY <2>1, <2>4, <3>1 DEF CommitEdit, Exists
  <2>5. ASSUME NEW s \in Schedules, DeleteSchedule(s)
        PROVE  \/ row'[r] = row[r] /\ edited'[r] = edited[r]
               \/ row'[r].status = "deleted" /\ edited'[r] = TRUE
    BY <2>1, <2>5 DEF DeleteSchedule, NoRow
  <2>6. \/ UNCHANGED <<row, edited>>
        \/ \E s \in Schedules, k \in Kinds, c \in Cadences : CreateSchedule(s, k, c)
        \/ \E s \in Schedules : CommitEdit(s)
        \/ \E s \in Schedules : DeleteSchedule(s)
    BY DEF UserStep, LoadEdit, DeleteTask, ResetContext, ConfirmContext
  <2>7. CASE row'[r] = row[r] /\ edited'[r] = edited[r]
    BY <1>4, <2>7 DEF Exists
  <2>8. CASE Exists(r) /\ row'[r].status \in {"on", "off"} /\ edited'[r] = TRUE
    BY <2>8
  <2>9. CASE row'[r].status = "deleted" /\ edited'[r] = TRUE
    BY <2>9 DEF Exists
  <2> QED
    BY <2>2, <2>3, <2>4, <2>5, <2>6, <2>7, <2>8, <2>9
<1>5. \A f \in Engines : Busy(f)' <=> Busy(f)
  BY <1>2 DEF Busy
<1>6. Claims'
  BY <1>1, <1>2, <1>3, <1>4, <1>5 DEF ClaimInv, Claims, Occ
<1>7. ASSUME NEW f \in Engines, Busy(f), Exists(snap[f].id)'
      PROVE  snap[f].id \in Schedules /\ Exists(snap[f].id)
  BY <1>2, <1>4, <1>7 DEF ClaimInv, Claims, Exists
<1> QED
  BY <1>1, <1>2, <1>4, <1>5, <1>6, <1>7 DEF ClaimInv, Claims, Known, ClaimKept, Holds, Exists

LEMMA ServerClaims ==
    ASSUME ClaimInv, Tick \/ Stop \/ Restart
    PROVE  Claims' /\ Known' /\ ClaimKept'
<1>1. CASE Tick \/ Stop
  <2>1. /\ row' = row /\ token' = token /\ lease' = lease /\ lastToken' = lastToken /\ now <= now'
        /\ pc' = pc /\ snap' = snap /\ claim' = claim /\ edit' = edit /\ edited' = edited /\ tried' = tried
    BY <1>1 DEF Tick, Stop, engine, user, ClaimInv, TypeOK
  <2>2. now \in Int /\ now' \in Int /\ \A f \in Engines : snap[f].lease \in Int
    BY <1>1, HeldRow DEF Tick, Stop, ClaimInv, TypeOK
  <2> QED
    BY <2>1, <2>2 DEF ClaimInv, Claims, Known, ClaimKept, Busy, Holds, Exists, Occ
<1>2. CASE Restart
  <2>1. \A e \in Engines : ~Busy(e)'
    BY <1>2 DEF Restart, Busy
  <2> QED
    BY <1>2, <2>1 DEF Restart, Claims, Known, ClaimKept, Holds, NoToken, NoEdit, ClaimInv, TypeOK
<1> QED
  BY <1>1, <1>2

-----------------------------------------------------------------------------
\* Effects, finished attempts and open script runs.

Books == Effects /\ FinishedIsDone /\ OpenRunsAreWorked

LEMMA InitBooks == Init => Books
BY ScheduleAssumption
   DEF Init, Books, Effects, FinishedIsDone, OpenRunsAreWorked, NoRun, ScheduleAssumption

\* Steps that leave every engine, task and script run as they are.
LEMMA SameBooks ==
    ASSUME FullInv, UNCHANGED <<pc, snap, failed, run, tasks, births, runs, lastRun>>,
           \A s \in Schedules : row[s].status = "deleted" => row'[s].status = "deleted"
    PROVE  Books'
BY DEF FullInv, Books, Effects, FinishedIsDone, OpenRunsAreWorked, Occ

\* An attempt of a script that ended without an error has a script run.
LEMMA FinishedRuns ==
    ASSUME FullInv, NEW e \in Engines, pc[e] = "finish", ~failed[e], snap[e].row.kind = "script"
    PROVE  run[e] # NoRun
BY DEF FullInv, Effects

LEMMA ClaimBooks ==
    ASSUME FullInv, NEW e \in Engines, Claim(e)
    PROVE  Books'
<1>1. /\ pc[e] = "idle" /\ pc' = [pc EXCEPT ![e] = "dispatch"]
      /\ UNCHANGED <<row, failed, run, tasks, births, runs, lastRun>>
      /\ \A f \in Engines : f # e => snap'[f] = snap[f]
  BY DEF Claim, Goto, effect, FullInv, ClaimInv, TypeOK
<1>2. \A f \in Engines : pc'[f] = IF f = e THEN "dispatch" ELSE pc[f]
  BY <1>1 DEF FullInv, ClaimInv, TypeOK
<1>3. Effects'
  BY <1>1, <1>2 DEF FullInv, Effects
<1>4. FinishedIsDone'
  BY <1>1, <1>2 DEF FullInv, FinishedIsDone, Occ
<1>5. OpenRunsAreWorked'
  BY <1>1, <1>2 DEF FullInv, OpenRunsAreWorked
<1> QED
  BY <1>3, <1>4, <1>5 DEF Books

\* An attempt that fails, or ends in an orientation request.
LEMMA LeaveBooks ==
    ASSUME FullInv, NEW e \in Engines, DispatchFails(e) \/ Orient(e)
    PROVE  Books'
<1>1. /\ pc[e] \in {"dispatch", "signal"}
      /\ UNCHANGED <<row, snap, run, tasks, births, runs, lastRun>>
      /\ \A f \in Engines : pc'[f] = IF f = e THEN "finish" ELSE pc[f]
      /\ \A f \in Engines : f # e => failed'[f] = failed[f]
      /\ \/ failed'[e] = TRUE
         \/ failed'[e] = failed[e] /\ (pc[e] = "signal" \/ snap[e].row.kind = "orient")
  BY DEF DispatchFails, Orient, Goto, Errs, Held, effect, FullInv, ClaimInv, TypeOK
<1>2. Effects'
  BY <1>1 DEF FullInv, Effects
<1>3. FinishedIsDone'
  BY <1>1 DEF FullInv, FinishedIsDone, Effects, Occ
<1>4. OpenRunsAreWorked'
  BY <1>1 DEF FullInv, OpenRunsAreWorked
<1> QED
  BY <1>2, <1>3, <1>4 DEF Books

LEMMA TaskBooks ==
    ASSUME FullInv, NEW e \in Engines, CreateTask(e)
    PROVE  Books'
<1>1. /\ \/ pc[e] = "dispatch" /\ snap[e].row.kind = "task"
         \/ pc[e] = "signal" /\ snap[e].row.kind = "script"
      /\ UNCHANGED <<row, snap, run, runs, lastRun>>
      /\ \A f \in Engines : pc'[f] = IF f = e THEN "finish" ELSE pc[f]
      /\ \A f \in Engines : f # e => failed'[f] = failed[f]
      /\ failed'[e] \in {failed[e], TRUE}
  BY DEF CreateTask, Goto, Held, Effects, FullInv, ClaimInv, TypeOK
<1>2. \A o \in Occurrences : births[o] \in Nat
  BY DEF FullInv, ClaimInv, TypeOK
<1>3. ASSUME NEW o \in Occurrences
      PROVE  /\ births'[o] \in Nat /\ births'[o] >= births[o]
             /\ tasks'[o] # "none" => births'[o] > 0
             /\ o = Occ(e) => births'[o] > 0
  <2>1. CASE o = Occ(e)
    <3>1. births'[o] = IF tasks[o] = snap[e].row.kind THEN births[o] ELSE births[o] + 1
      BY <2>1 DEF CreateTask, FullInv, ClaimInv, TypeOK
    <3>2. tasks[o] # "none" => births[o] > 0
      BY DEF FullInv, Effects
    <3> QED
      BY <1>1, <1>2, <3>1, <3>2
  <2>2. CASE o # Occ(e)
    <3>1. births'[o] = births[o] /\ tasks'[o] = tasks[o]
      BY <2>2 DEF CreateTask, FullInv, ClaimInv, TypeOK
    <3> QED
      BY <1>2, <2>2, <3>1 DEF FullInv, Effects
  <2> QED
    BY <2>1, <2>2
<1>4. Occ(e)' = Occ(e) /\ \A f \in Engines : Occ(f)' = Occ(f)
  BY <1>1 DEF Occ
<1>5. ASSUME NEW f \in Engines, Busy(f) PROVE Occ(f) \in Occurrences
  BY <1>5 DEF FullInv, ClaimInv, Claims, TypeOK
<1>6. Effects'
  BY <1>1, <1>3 DEF FullInv, Effects
<1>7. FinishedIsDone'
  <2> SUFFICES ASSUME NEW f \in Engines, pc'[f] = "finish", ~failed'[f]
               PROVE  /\ snap'[f].row.kind = "task" => births'[Occ(f)'] > 0
                      /\ snap'[f].row.kind = "script" => runs'[run'[f]] = "completed"
    BY DEF FinishedIsDone
  <2>1. CASE f = e
    <3>1. Occ(e) \in Occurrences
      BY <1>1, <1>5 DEF Busy
    <3>2. pc[e] = "signal" => runs[run[e]] = "completed"
      BY DEF FullInv, Effects
    <3> QED
      BY <1>1, <1>3, <1>4, <2>1, <3>1, <3>2
  <2>2. CASE f # e
    <3>1. Occ(f) \in Occurrences /\ pc[f] = "finish" /\ ~failed[f]
      BY <1>1, <1>5, <2>2 DEF Busy
    <3>2. /\ snap[f].row.kind = "task" => births[Occ(f)] > 0
          /\ snap[f].row.kind = "script" => runs[run[f]] = "completed"
      BY <3>1 DEF FullInv, FinishedIsDone
    <3>3. births[Occ(f)] > 0 => births'[Occ(f)] > 0
      BY <1>2, <1>3, <3>1
    <3> QED
      BY <1>1, <1>4, <3>2, <3>3
  <2> QED
    BY <2>1, <2>2
<1>8. OpenRunsAreWorked'
  BY <1>1 DEF FullInv, OpenRunsAreWorked
<1> QED
  BY <1>6, <1>7, <1>8 DEF Books

LEMMA StartBooks ==
    ASSUME FullInv, NEW e \in Engines, StartScript(e)
    PROVE  Books'
<1>1. /\ snap[e].row.kind = "script" /\ pc[e] = "dispatch"
      /\ UNCHANGED <<row, snap, failed, tasks, births>>
      /\ lastRun' = lastRun + 1 /\ lastRun \in Nat
      /\ \A f \in Engines : pc'[f] = IF f = e THEN "pending" ELSE pc[f]
      /\ \A f \in Engines : run'[f] = IF f = e THEN lastRun + 1 ELSE run[f]
      /\ \A r \in 1 .. MaxRuns : runs'[r] = IF r = lastRun + 1 THEN "pending" ELSE runs[r]
  BY DEF StartScript, Goto, Held, FullInv, ClaimInv, TypeOK
<1>2. \A f \in Engines : run[f] \in 0 .. lastRun
  BY DEF FullInv, Effects
<1>3. \A f \in Engines : f # e /\ run[f] # NoRun => runs'[run'[f]] = runs[run[f]]
  BY <1>1, <1>2 DEF FullInv, ClaimInv, TypeOK, NoRun
<1>4. Effects'
  <2>1. \A f \in Engines : run'[f] \in 0 .. lastRun'
    BY <1>1, <1>2
  <2>2. \A f, g \in Engines : run'[f] # NoRun /\ run'[f] = run'[g] => f = g
    BY <1>1, <1>2 DEF FullInv, Effects
  <2>3. \A f \in Engines : pc'[f] \in {"pending", "running", "signal"} =>
          snap'[f].row.kind = "script" /\ run'[f] # NoRun
    BY <1>1 DEF FullInv, Effects, NoRun
  <2>4. \A f \in Engines : pc'[f] = "signal" => ~failed'[f] /\ runs'[run'[f]] = "completed"
    BY <1>1, <1>3 DEF FullInv, Effects
  <2> QED
    BY <1>1, <2>1, <2>2, <2>3, <2>4 DEF FullInv, Effects
<1>5. FinishedIsDone'
  BY <1>1, <1>3, FinishedRuns DEF FullInv, FinishedIsDone, Occ
<1>6. OpenRunsAreWorked'
  <2> SUFFICES ASSUME NEW r \in 1 .. MaxRuns, runs'[r] = "running"
               PROVE  \/ \E f \in Engines : run'[f] = r /\ pc'[f] = "running"
                      \/ \E s \in Schedules : row'[s].status = "deleted"
    BY DEF OpenRunsAreWorked
  <2> QED
    BY <1>1 DEF FullInv, OpenRunsAreWorked
<1> QED
  BY <1>4, <1>5, <1>6 DEF Books

LEMMA OnStartBooks ==
    ASSUME FullInv, NEW e \in Engines, OnStart(e)
    PROVE  Books'
<1>1. /\ pc[e] = "pending"
      /\ UNCHANGED <<row, snap, run, tasks, births, lastRun>>
      /\ \A f \in Engines : pc'[f] = IF f = e THEN "running" ELSE pc[f]
      /\ \A f \in Engines : f # e => failed'[f] = failed[f]
      /\ \A r \in 1 .. MaxRuns : r # run[e] => runs'[r] = runs[r]
  BY DEF OnStart, Goto, Errs, Held, FullInv, ClaimInv, TypeOK
<1>2. run[e] # NoRun
  BY <1>1 DEF FullInv, Effects
<1>3. \A f \in Engines : f # e /\ run[f] # NoRun => runs'[run'[f]] = runs[run[f]]
  BY <1>1, <1>2 DEF FullInv, Effects, ClaimInv, TypeOK, NoRun
<1>4. Effects'
  BY <1>1, <1>3 DEF FullInv, Effects
<1>5. FinishedIsDone'
  BY <1>1, <1>3, FinishedRuns DEF FullInv, FinishedIsDone, Occ
<1>6. OpenRunsAreWorked'
  BY <1>1 DEF FullInv, OpenRunsAreWorked
<1> QED
  BY <1>4, <1>5, <1>6 DEF Books

LEMMA EndBooks ==
    ASSUME FullInv, NEW e \in Engines, EndScript(e)
    PROVE  Books'
<1>1. /\ pc[e] \in {"pending", "running"}
      /\ UNCHANGED <<row, snap, run, tasks, births, lastRun>>
      /\ \A f \in Engines : f # e => pc'[f] = pc[f] /\ failed'[f] = failed[f]
      /\ pc'[e] \in {"signal", "finish"}
      /\ \A r \in 1 .. MaxRuns : r # run[e] => runs'[r] = runs[r]
  BY DEF EndScript, Goto, Errs, Held, FullInv, ClaimInv, TypeOK
<1>2. run[e] # NoRun /\ snap[e].row.kind = "script" /\ run[e] \in 1 .. MaxRuns
  BY <1>1 DEF FullInv, Effects, ClaimInv, TypeOK, NoRun
<1>3. \A f \in Engines : f # e /\ run[f] # NoRun => runs'[run'[f]] = runs[run[f]]
  BY <1>1, <1>2 DEF FullInv, Effects, ClaimInv, TypeOK, NoRun
<1>4. \/ failed'[e] = TRUE /\ pc'[e] = "finish"
      \/ failed'[e] = FALSE /\ runs'[run[e]] = "completed"
  BY <1>2 DEF EndScript, Goto, Errs, FullInv, ClaimInv, TypeOK
<1>5. \/ runs'[run[e]] # "running"
      \/ row[snap[e].id].status = "deleted" /\ snap[e].id \in Schedules
  <2>1. snap[e].id \in Schedules /\ row[snap[e].id].status # "absent" /\ row[snap[e].id] \in Rows
    BY <1>1 DEF FullInv, ClaimInv, Claims, TypeOK, Busy
  <2>2. CASE Exists(snap[e].id)
    BY <1>2, <2>2 DEF EndScript, FullInv, ClaimInv, TypeOK
  <2>3. CASE ~Exists(snap[e].id)
    BY <2>1, <2>3 DEF Exists, Rows
  <2> QED
    BY <2>2, <2>3
<1>6. Effects'
  <2>1. \A f \in Engines : pc'[f] = "signal" => ~failed'[f] /\ runs'[run'[f]] = "completed"
    BY <1>1, <1>3, <1>4 DEF FullInv, Effects
  <2>2. \A f \in Engines : pc'[f] \in {"pending", "running", "signal"} =>
          snap'[f].row.kind = "script" /\ run'[f] # NoRun
    BY <1>1, <1>2 DEF FullInv, Effects
  <2> QED
    BY <1>1, <2>1, <2>2 DEF FullInv, Effects
<1>7. FinishedIsDone'
  BY <1>1, <1>2, <1>3, <1>4, FinishedRuns DEF FullInv, FinishedIsDone, Occ
<1>8. OpenRunsAreWorked'
  <2> SUFFICES ASSUME NEW r \in 1 .. MaxRuns, runs'[r] = "running"
               PROVE  \/ \E f \in Engines : run'[f] = r /\ pc'[f] = "running"
                      \/ \E s \in Schedules : row'[s].status = "deleted"
    BY DEF OpenRunsAreWorked
  <2>1. CASE r = run[e]
    BY <1>1, <1>5, <2>1
  <2>2. CASE r # run[e]
    BY <1>1, <2>2 DEF FullInv, OpenRunsAreWorked
  <2> QED
    BY <2>1, <2>2
<1> QED
  BY <1>6, <1>7, <1>8 DEF Books

\* An attempt ends; its script run was settled before.
LEMMA IdleBooks ==
    ASSUME FullInv, NEW e \in Engines, Finish(e) \/ FinishFails(e)
    PROVE  Books'
<1>1. /\ pc[e] = "finish" /\ Idle(e)
      /\ UNCHANGED <<tasks, births, runs, lastRun>>
  BY DEF Finish, FinishFails, effect
<1>2. /\ pc'[e] = "idle" /\ run'[e] = NoRun /\ failed'[e] = FALSE
      /\ \A f \in Engines : f # e => /\ pc'[f] = pc[f] /\ run'[f] = run[f]
                                     /\ failed'[f] = failed[f] /\ snap'[f] = snap[f]
  BY <1>1 DEF Idle, Goto, FullInv, ClaimInv, TypeOK
<1>3. \A s \in Schedules : row'[s].status = row[s].status
  <2>1. row \in [Schedules -> Rows]
    BY DEF FullInv, ClaimInv, TypeOK
  <2>2. ASSUME NEW s \in Schedules PROVE row[s] \in Rows
    BY <2>1
  <2>3. CASE row' = row
    BY <2>3
  <2>4. CASE row' = [row EXCEPT ![snap[e].id].next = NextAfterRun(snap[e].row.cadence)]
    BY <2>1, <2>4 DEF Rows
  <2> QED
    BY <2>3, <2>4 DEF Finish, FinishFails, Move
<1>4. Effects'
  <2>1. 0 \in 0 .. lastRun
    BY DEF FullInv, ClaimInv, TypeOK
  <2> QED
    BY <1>1, <1>2, <2>1 DEF FullInv, Effects, NoRun
<1>5. FinishedIsDone'
  BY <1>1, <1>2 DEF FullInv, FinishedIsDone, Occ
<1>6. OpenRunsAreWorked'
  BY <1>1, <1>2, <1>3 DEF FullInv, OpenRunsAreWorked
<1> QED
  BY <1>4, <1>5, <1>6 DEF Books

LEMMA UserBooks ==
    ASSUME FullInv,
           \/ \E s \in Schedules : UserStep(s)
           \/ \E o \in Occurrences : DeleteTask(o)
           \/ ResetContext \/ ConfirmContext
    PROVE  Books'
<1>1. CASE \E s \in Schedules : UserStep(s)
  <2>1. UNCHANGED <<pc, snap, failed, run, tasks, births, runs, lastRun>>
    BY <1>1 DEF UserStep, CreateSchedule, LoadEdit, CommitEdit, DeleteSchedule, Requested, engine, effect
  <2>2. \A s \in Schedules : row[s].status = "deleted" => row'[s].status = "deleted"
    BY <1>1 DEF UserStep, CreateSchedule, LoadEdit, CommitEdit, DeleteSchedule, Exists, NoRow,
                FullInv, ClaimInv, TypeOK
  <2> QED
    BY <2>1, <2>2, SameBooks
<1>2. ASSUME NEW o \in Occurrences, DeleteTask(o)
      PROVE  Books'
  <2>1. /\ UNCHANGED <<pc, snap, failed, run, births, runs, lastRun, row>>
        /\ \A q \in Occurrences : tasks'[q] # "none" => tasks[q] # "none"
    BY <1>2 DEF DeleteTask, Requested, engine, FullInv, ClaimInv, TypeOK
  <2> QED
    BY <2>1 DEF FullInv, Books, Effects, FinishedIsDone, OpenRunsAreWorked, Occ
<1>3. CASE ResetContext \/ ConfirmContext
  BY <1>3, SameBooks DEF ResetContext, ConfirmContext, Requested, engine, effect
<1> QED
  BY <1>1, <1>2, <1>3

LEMMA ServerBooks ==
    ASSUME FullInv, Tick \/ Stop \/ Restart
    PROVE  Books'
<1>1. CASE Tick \/ Stop
  BY <1>1, SameBooks DEF Tick, Stop, engine, effect
<1>2. CASE Restart
  <2>1. \A f \in Engines : pc'[f] = "idle" /\ run'[f] = NoRun
    BY <1>2 DEF Restart
  <2>2. \A r \in 1 .. MaxRuns : runs'[r] # "running"
    BY <1>2 DEF Restart, Recovered
  <2>3. UNCHANGED <<tasks, births, lastRun>>
    BY <1>2 DEF Restart
  <2> QED
    BY <2>1, <2>2, <2>3 DEF FullInv, ClaimInv, TypeOK, Books, Effects, FinishedIsDone,
       OpenRunsAreWorked, NoRun
<1> QED
  BY <1>1, <1>2

-----------------------------------------------------------------------------
\* The theorems.

LEMMA FullStep ==
    ASSUME FullInv, [Next]_vars
    PROVE  FullInv'
<1>1. ASSUME NEW e \in Engines, Claim(e) PROVE FullInv'
  BY <1>1, ClaimType, ClaimClaims, ClaimBooks DEF FullInv, ClaimInv, Books
<1>2. ASSUME NEW e \in Engines, Work(e), ~Finish(e) PROVE FullInv'
  <2>1. Books'
    BY <1>2, LeaveBooks, TaskBooks, StartBooks, OnStartBooks, EndBooks DEF Work
  <2> QED
    BY <1>2, <2>1, WorkType, WorkClaims DEF FullInv, ClaimInv, Books
<1>3. ASSUME NEW e \in Engines, Finish(e) \/ FinishFails(e) PROVE FullInv'
  BY <1>3, WorkType, EndClaims, IdleBooks DEF FullInv, ClaimInv, Books, Work
<1>4. ASSUME \/ \E s \in Schedules : UserStep(s)
             \/ \E o \in Occurrences : DeleteTask(o)
             \/ ResetContext \/ ConfirmContext
      PROVE  FullInv'
  BY <1>4, UserType, UserClaims, UserBooks DEF FullInv, ClaimInv, Books
<1>5. ASSUME Tick \/ Stop \/ Restart PROVE FullInv'
  BY <1>5, ServerType, ServerClaims, ServerBooks DEF FullInv, ClaimInv, Books
<1>6. CASE UNCHANGED vars
  <2>1. TypeOK' /\ Claims' /\ Known' /\ ClaimKept'
    BY <1>6 DEF vars, engine, effect, user, FullInv, ClaimInv, TypeOK, Claims, Known, ClaimKept,
                Busy, Holds, Exists, Occ
  <2>2. Books'
    BY <1>6, SameBooks DEF vars, engine, effect
  <2> QED
    BY <2>1, <2>2 DEF FullInv, ClaimInv, Books
<1> QED
  BY <1>1, <1>2, <1>3, <1>4, <1>5, <1>6 DEF Next

LEMMA FullInvHolds == Spec => []FullInv
<1>1. Init => FullInv
  BY InitType, InitClaims, InitBooks DEF FullInv, ClaimInv, Books
<1>2. FullInv /\ [Next]_vars => FullInv'
  BY FullStep
<1> QED
  BY <1>1, <1>2, PTL DEF Spec

\* Type correctness: an occurrence that is attempted lies within the clock's
\* range, and what the engines hold are schedules, runs and tokens.
THEOREM TypeCorrect == Spec => []TypeOK
<1>1. FullInv => TypeOK
  BY DEF FullInv, ClaimInv
<1> QED
  BY <1>1, FullInvHolds, PTL

\* ClaimDueSchedule and FinishScheduleClaim: while the lease of a claim runs,
\* no edit, restart, late finisher or other engine takes the schedule away.
THEOREM ClaimKeptHolds == Spec => []ClaimKept
<1>1. FullInv => ClaimKept
  BY DEF FullInv, ClaimInv
<1> QED
  BY <1>1, FullInvHolds, PTL

\* RunDue: an attempt that ends without an error had its effect.
THEOREM FinishedIsDoneHolds == Spec => []FinishedIsDone
<1>1. FullInv => FinishedIsDone
  BY DEF FullInv
<1> QED
  BY <1>1, FullInvHolds, PTL

\* runScript and RecoverInterrupted: an open script run is being worked on,
\* or a schedule was deleted meanwhile.
THEOREM OpenRunsHold == Spec => []OpenRunsAreWorked
<1>1. FullInv => OpenRunsAreWorked
  BY DEF FullInv
<1> QED
  BY <1>1, FullInvHolds, PTL

\* createTask: whatever engines, retries and restarts do, an occurrence gets a
\* task only when it has none.
THEOREM TaskPerOccurrenceHolds == Spec => TaskPerOccurrence
<1>1. FullInv /\ [Next]_vars =>
        [\A o \in Occurrences : births'[o] > births[o] => tasks[o] \in {"none", "deleted"}]_vars
  <2> SUFFICES ASSUME FullInv, [Next]_vars, NEW o \in Occurrences, births'[o] > births[o]
               PROVE  tasks[o] \in {"none", "deleted"}
    OBVIOUS
  <2>1. births[o] \in Nat /\ births \in [Occurrences -> Nat]
    BY DEF FullInv, ClaimInv, TypeOK
  <2>2. births' # births
    BY <2>1
  <2>3. PICK e \in Engines : CreateTask(e)
    BY <2>2 DEF Next, vars, Claim, Work, DispatchFails, Orient, StartScript, OnStart, EndScript,
       Finish, FinishFails, UserStep, CreateSchedule, LoadEdit, CommitEdit, DeleteSchedule,
       DeleteTask, ResetContext, ConfirmContext, Tick, Stop, Restart, effect
  <2> QED
    BY <2>1, <2>3 DEF CreateTask
<1> QED
  BY <1>1, FullInvHolds, PTL DEF Spec, TaskPerOccurrence

-----------------------------------------------------------------------------
\* Refinement: each step of the engine is one of the abstract specification.

LEMMA NextOf ==
    ASSUME TypeOK, NEW s \in Schedules, NEW n,
           row' = [row EXCEPT ![s].next = n]
    PROVE  [r \in Schedules |-> row'[r].next] = [[r \in Schedules |-> row[r].next] EXCEPT ![s] = n]
<1>1. \A r \in Schedules : row'[r].next = IF r = s THEN n ELSE row[r].next
  BY DEF TypeOK, Rows
<1> QED
  BY <1>1

LEMMA AttemptStep ==
    ASSUME FullInv, NEW e \in Engines, Claim(e)
    PROVE  \E s \in Schedules : Abstract!Attempt(s)
<1>1. PICK s \in Schedules : Claimable(s) /\ tried' = tried \cup {<<s, row[s].next>>}
  BY DEF Claim
<1>2. UNCHANGED <<now, row, edited, births>>
  BY DEF Claim, effect
<1>3. row[s].next # Never /\ row[s].next <= now
  BY <1>1 DEF Claimable, Due
<1>4. Abstract!Attempt(s)
  BY <1>1, <1>2, <1>3 DEF Abstract!Attempt, Never, Abstract!Never
<1> QED
  BY <1>4

LEMMA EffectStep ==
    ASSUME FullInv, NEW e \in Engines, CreateTask(e)
    PROVE  \E o \in Schedules \X (0 .. MaxTime) : Abstract!Effect(o)
<1>1. UNCHANGED <<now, row, edited, tried>>
  BY DEF CreateTask, Held
<1>2. PICK o \in Occurrences : o = Occ(e) /\ o \in tried
  BY DEF CreateTask, FullInv, ClaimInv, Claims, TypeOK, Busy
<1>3. \A q \in Occurrences : births'[q] > 0 <=> births[q] > 0 \/ q = o
  BY <1>2 DEF CreateTask, FullInv, ClaimInv, TypeOK, Effects
<1>4. {q \in Occurrences : births'[q] > 0} = {q \in Occurrences : births[q] > 0} \cup {o}
  BY <1>2, <1>3
<1>5. Abstract!Effect(o)
  BY <1>1, <1>2, <1>4 DEF Abstract!Effect
<1> QED
  BY <1>5 DEF Occurrences

LEMMA AdvanceStep ==
    ASSUME FullInv, NEW e \in Engines, Finish(e), Holds(e)
    PROVE  \E s \in Schedules : Abstract!Advance(s)
<1> DEFINE n == NextAfterRun(snap[e].row.cadence)
<1>s. PICK s \in Schedules : s = snap[e].id
  BY DEF Holds, FullInv, ClaimInv, Claims
<1>1. s \in Schedules /\ Occ(e) \in tried /\ (edited[s] \/ row[s].next = snap[e].row.next)
  BY <1>s DEF Holds, FullInv, ClaimInv, Claims, Known
<1>2. /\ UNCHANGED <<now, tried, births>>
      /\ row' = [row EXCEPT ![s].next = n]
      /\ edited' = [edited EXCEPT ![s] = FALSE]
  BY <1>s DEF Finish, Move, effect
<1>3. n \in Nat \cup {Never}
  BY HeldRow DEF FullInv, ClaimInv
<1>4. n = Never \/ n > now
  <2>1. now \in Nat /\ snap[e].row.cadence \in Nat
    BY HeldRow DEF FullInv, ClaimInv, TypeOK
  <2> QED
    BY <2>1 DEF NextAfterRun
<1>5. [r \in Schedules |-> row'[r].next] = [[r \in Schedules |-> row[r].next] EXCEPT ![s] = n]
  BY <1>1, <1>2, NextOf DEF FullInv, ClaimInv
<1>6. row'[s].next = n
  BY <1>1, <1>2 DEF FullInv, ClaimInv, TypeOK, Rows
<1>7. Abstract!Advance(s)
  BY <1>s, <1>1, <1>2, <1>3, <1>4, <1>5, <1>6
     DEF Abstract!Advance, Abstract!Replan, Occ, Never, Abstract!Never
<1> QED
  BY <1>7

LEMMA RewriteStep ==
    ASSUME FullInv, NEW s \in Schedules, UserStep(s), ~UNCHANGED <<row, edited>>
    PROVE  Abstract!Rewrite(s)
<1>1. /\ UNCHANGED <<now, tried, births>>
      /\ edited' = [edited EXCEPT ![s] = TRUE]
  BY DEF UserStep, CreateSchedule, LoadEdit, CommitEdit, DeleteSchedule, Requested, effect
<1>2. PICK new \in Rows : row' = [row EXCEPT ![s] = new]
  BY NewRowTypes, RestTypes
     DEF UserStep, CreateSchedule, LoadEdit, CommitEdit, DeleteSchedule, FullInv, ClaimInv, TypeOK, Edits
<1>3. \A r \in Schedules : row'[r].next = IF r = s THEN new.next ELSE row[r].next
  BY <1>2 DEF FullInv, ClaimInv, TypeOK
<1>4. new.next \in Nat \cup {Never}
  BY DEF Rows, Times
<1>5. [r \in Schedules |-> row'[r].next]
        = [[r \in Schedules |-> row[r].next] EXCEPT ![s] = new.next]
  BY <1>3
<1> QED
  BY <1>1, <1>3, <1>4, <1>5 DEF Abstract!Rewrite, Abstract!Replan, Never, Abstract!Never

\* With all its engines, claims, leases, edits and crashes the engine does what
\* ScheduleOccurrences says: attempt what is due, have an effect only after an
\* attempt, and leave an occurrence only after one.
THEOREM EngineImplements == Spec => Implements
<1>1. Init => Abstract!Init
  <2> SUFFICES ASSUME Init PROVE Abstract!Init
    OBVIOUS
  <2>1. {o \in Occurrences : births[o] > 0} = {}
    BY DEF Init
  <2> QED
    BY <2>1 DEF Init, Abstract!Init, NoRow, Never, Abstract!Never
<1>2. FullInv /\ [Next]_vars => [Abstract!Next]_(Abstract!vars)
  <2> SUFFICES ASSUME FullInv, [Next]_vars PROVE [Abstract!Next]_(Abstract!vars)
    OBVIOUS
  <2> DEFINE next == [s \in Schedules |-> row[s].next]
             done == {o \in Occurrences : births[o] > 0}
  <2>1. CASE UNCHANGED <<now, row, edited, tried, births>>
    BY <2>1 DEF Abstract!vars
  <2>2. ASSUME NEW e \in Engines, Claim(e) PROVE Abstract!Next
    BY <2>2, AttemptStep DEF Abstract!Next
  <2>3. ASSUME NEW e \in Engines, CreateTask(e) PROVE Abstract!Next
    BY <2>3, EffectStep DEF Abstract!Next
  <2>4. ASSUME NEW e \in Engines, Finish(e), Holds(e) PROVE Abstract!Next
    BY <2>4, AdvanceStep DEF Abstract!Next
  <2>5. ASSUME NEW s \in Schedules, UserStep(s), ~UNCHANGED <<row, edited>> PROVE Abstract!Next
    BY <2>5, RewriteStep DEF Abstract!Next
  <2>6. CASE Tick
    BY <2>6 DEF Tick, effect, Abstract!Next, Abstract!Tick
  <2> QED
    <3>1. \/ UNCHANGED <<now, row, edited, tried, births>>
          \/ \E e \in Engines : Claim(e) \/ CreateTask(e) \/ (Finish(e) /\ Holds(e))
          \/ \E s \in Schedules : UserStep(s) /\ ~UNCHANGED <<row, edited>>
          \/ Tick
      BY DEF Next, vars, Work, DispatchFails, Orient, StartScript, OnStart, EndScript,
         Finish, FinishFails, UserStep, CreateSchedule, LoadEdit, CommitEdit, DeleteSchedule,
         DeleteTask, ResetContext, ConfirmContext, Stop, Restart, Held, Requested, effect
    <3> QED
      BY <2>1, <2>2, <2>3, <2>4, <2>5, <2>6, <3>1
<1> QED
  BY <1>1, <1>2, FullInvHolds, PTL DEF Spec, Implements, Abstract!Spec

\* An attempt without an error did its work, and an open script run is being
\* worked on (RunDue, RecoverInterrupted).
THEOREM WorkOnRecordHolds == Spec => []WorkOnRecord
<1>1. FinishedIsDone /\ OpenRunsAreWorked => WorkOnRecord
  BY DEF WorkOnRecord
<1> QED
  BY <1>1, FinishedIsDoneHolds, OpenRunsHold, PTL
=============================================================================
