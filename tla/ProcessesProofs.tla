--------------------------- MODULE ProcessesProofs ---------------------------
\* Proofs about the two kinds of child processes: LocalApps, for any number of
\* applications and handlers, and ProcessRuns.
EXTENDS LocalApps, ProcessRuns, TLAPS

-----------------------------------------------------------------------------
\* ProcessRuns: a run and what it has recorded of its attempts, place by place.

Attempts == [status : Final, how : Endings, given : {"none", "held", "wiped"}]
RunRecords ==
  [kind : {"codex", "script"}, max : 1..MaximumAttempts, n : 0..MaximumAttempts,
   at : {"absent", "prepare", "attempt", "start", "running", "ending", "killing",
         "settle", "decide", "delay", "returned"},
   status : Final \cup {"running", "refused"}]
RunType ==
  /\ run \in RunRecords
  /\ ctx \in {"live", "cancelled", "timed_out"}
  /\ child \in [at : {"none", "alive", "exited"}, how : Endings, sig : {"none", "term", "kill"}]
  /\ secrets \in {"none", "held", "wiped"}
  /\ attempts \in Seq(Attempts)
  /\ Len(attempts) <= run.max

Fresh == run.at \in {"absent", "prepare"}
Before == run.at \in {"attempt", "start"}
During == run.at \in {"running", "ending", "killing", "settle"}

\* The attempt k failed by itself, in a way that looks transient.
Shaky(k) == attempts[k].status = "failed" /\ attempts[k].how \in Transient

\* Credentials are there for the first attempt of Codex and for the only one of
\* a script; when the next attempt is decided on, there is nothing to wipe.
Places ==
  /\ run.kind = "script" => run.max = 1
  /\ run.n <= run.max
  /\ Fresh => secrets # "wiped"
  /\ Fresh => Len(attempts) = 0 /\ run.n = 0 /\ run.status = "running"
  /\ Before => /\ Len(attempts) = run.n - 1 /\ run.n >= 1
               /\ secrets # "wiped" /\ (secrets = "held" => run.n = 1)
               /\ \A k \in 1..Len(attempts) : Shaky(k)
  /\ During => Len(attempts) = run.n /\ run.n >= 1
  /\ run.at = "decide" =>
       /\ Codex /\ Len(attempts) = run.n /\ run.n >= 1
       /\ attempts[run.n].status = run.status /\ secrets # "held"
       /\ secrets = "wiped" => run.n = run.max
  /\ run.at = "delay" =>
       /\ Codex /\ Len(attempts) = run.n /\ run.n < run.max /\ secrets = "none"
       /\ run.n >= 1 /\ Shaky(run.n)
  /\ run.at \in {"decide", "returned"} =>
       /\ run.status = "completed" => Len(attempts) >= 1 /\ attempts[Len(attempts)].how = "ok"
       /\ run.status \in {"cancelled", "timed_out"} => ctx = run.status
  /\ run.at = "returned" => secrets # "held"
  /\ run.at \notin {"running", "ending", "killing", "settle"} => child.at = "none"
  /\ run.at = "settle" => child.at = "exited"
  /\ During /\ Codex /\ secrets # "none" => run.n = 1 /\ secrets = "held"
  /\ During /\ ~Codex => secrets # "held"
Recordings ==
  /\ \A k \in 1..Len(attempts) : attempts[k].given # "wiped"
  /\ \A k \in 1..(Len(attempts) - 1) : Shaky(k)

RunInv == RunType /\ Places /\ Recordings

LEMMA MaximumIsNatural == MaximumAttempts \in Nat /\ 1 <= MaximumAttempts /\ MaximumAttempts <= 2
BY AttemptsAreCapped

LEMMA RunInvImplies == RunInv => RunsTypeOK /\ RetryIsSafe
<1> SUFFICES ASSUME RunInv PROVE RunsTypeOK /\ RetryIsSafe
  OBVIOUS
<1>1. RunsTypeOK
  <2>1. run.max \in 1..MaximumAttempts /\ MaximumAttempts \in Nat
    BY AttemptsAreCapped DEF RunInv, RunType, RunRecords
  <2>2. Len(attempts) <= MaximumAttempts
    BY <2>1 DEF RunInv, RunType
  <2>3. \A k \in 1..Len(attempts) : attempts[k] \in Attempts
    BY DEF RunInv, RunType
  <2> QED
    BY <2>2, <2>3 DEF RunInv, RunType, RunRecords, RunsTypeOK, Attempts
<1>2. RetryIsSafe
  BY AttemptsAreCapped DEF RunInv, RunType, RunRecords, RetryIsSafe, Attempts, Places, Recordings, Shaky
<1> QED
  BY <1>1, <1>2

LEMMA RunsInitInv == RunsInit => RunInv
BY AttemptsAreCapped DEF RunsInit, RunInv, RunType, RunRecords, Places, Recordings, NoChild, Attempts,
   Endings, Final, Fresh, Before, During, Shaky, Codex


\* What stays as it is when attempts do.
LEMMA Unrecorded ==
  ASSUME RunInv, UNCHANGED attempts
  PROVE  Recordings' /\ attempts' \in Seq(Attempts) /\ \A k : Shaky(k)' <=> Shaky(k)
BY DEF RunInv, RunType, RunRecords, Recordings, Shaky

LEMMA SignalsKeep ==
  ASSUME RunInv, Expire \/ Cancel \/ ChildExits
  PROVE  RunInv'
<1>1. CASE Expire \/ Cancel
  BY <1>1 DEF Expire, Cancel, RunInv, RunType, RunRecords, Places, Recordings, Fresh, Before, During, Shaky, Codex
<1>2. CASE ChildExits
  <2>1. child' \in [at : {"none", "alive", "exited"}, how : Endings, sig : {"none", "term", "kill"}]
        /\ child'.at = "exited" /\ child.at = "alive"
    BY <1>2 DEF ChildExits, RunInv, RunType, RunRecords, Endings, Permanent
  <2>2. UNCHANGED <<run, ctx, secrets, attempts>>
    BY <1>2 DEF ChildExits
  <2> QED
    BY <2>1, <2>2 DEF RunInv, RunType, RunRecords, Places, Recordings, Fresh, Before, During, Shaky, Codex
<1> QED
  BY <1>1, <1>2

LEMMA PrepareKeeps == ASSUME RunInv, Prepare PROVE RunInv'
<1> USE DEF RunInv
<1>1. CASE run' = [run EXCEPT !.at = "attempt", !.n = 1] /\ UNCHANGED secrets
  <2>0. UNCHANGED <<ctx, child, attempts>> /\ Fresh
    BY DEF Prepare, Fresh
  <2>1. RunType' /\ run'.at = "attempt" /\ run'.n = 1 /\ run'.max = run.max /\ run'.kind = run.kind
    <3>1. run \in RunRecords /\ 1 \in 0..MaximumAttempts
      BY MaximumIsNatural DEF RunType
    <3>2. run' \in RunRecords /\ run'.at = "attempt" /\ run'.n = 1 /\ run'.max = run.max
          /\ run'.kind = run.kind
      BY <1>1, <3>1 DEF RunRecords
    <3> QED
      BY <1>1, <2>0, <3>2 DEF RunType
  <2>2. UNCHANGED secrets /\ secrets # "wiped" /\ run.max >= 1 /\ run.max \in Nat
    BY <1>1, <2>0, MaximumIsNatural DEF Places, RunType, RunRecords
  <2>3. Places'
    BY <2>0, <2>1, <2>2 DEF Places, Fresh, Before, During, RunType
  <2> QED
    BY <2>1, <2>2, <2>0, <2>3, Unrecorded
<1>2. CASE Refuse
  <2>1. /\ RunType' /\ run'.at = "returned" /\ run'.n = run.n /\ run'.max = run.max
        /\ run'.kind = run.kind /\ run'.status = "refused" /\ secrets' # "held"
    BY <1>2 DEF RunType, RunRecords, Prepare, Refuse, Wiped
  <2>2. UNCHANGED <<ctx, child, attempts>> /\ Fresh
    BY DEF Prepare, Fresh
  <2>3. Places'
    BY <2>1, <2>2 DEF Places, Fresh, Before, During, RunType
  <2> QED
    BY <2>1, <2>2, <2>3, Unrecorded
<1> QED
  BY <1>1, <1>2 DEF Prepare, Unfit

LEMMA WaitsKeep == ASSUME RunInv, Collect \/ Terminate \/ GraceEnds PROVE RunInv'
BY DEF Collect, Terminate, GraceEnds, Kill, RunInv, RunType, RunRecords, Places, Recordings,
   Fresh, Before, During, Shaky, Codex

LEMMA DecideKeeps == ASSUME RunInv, Decide PROVE RunInv'
<1> USE DEF RunInv
<1>1. /\ UNCHANGED <<ctx, child, secrets, attempts>> /\ run.at = "decide" /\ run'.n = run.n
      /\ run'.max = run.max /\ run'.kind = run.kind /\ run'.status = run.status
      /\ RunType' /\ run'.at \in {"returned", "delay"}
  BY DEF Decide, RunType, RunRecords
<1>2. /\ Codex /\ Len(attempts) = run.n /\ run.n >= 1 /\ run.n <= run.max
      /\ attempts[run.n].status = run.status /\ attempts[run.n] \in Attempts
      /\ run.n \in Nat /\ run.max \in Nat
  BY <1>1, AttemptsAreCapped DEF Places, RunType, RunRecords
<1>3. run'.at = "delay" => run.n # run.max /\ Shaky(run.n)
  <2>1. run'.at = "delay" => run.n # run.max /\ run.status # "completed"
                             /\ RetryDecider(attempts[run.n])
    BY <1>1, <1>2 DEF Decide, RunType
  <2> QED
    BY <1>2, <2>1 DEF RetryDecider, Shaky, Attempts, Final
<1>4. Recordings' /\ \A k : Shaky(k)' <=> Shaky(k)
  BY <1>1, Unrecorded
<1>5. Places'
  BY <1>1, <1>2, <1>3, <1>4 DEF Places, Fresh, Before, During, RunType, RunRecords, Codex
<1> QED
  BY <1>1, <1>4, <1>5

LEMMA DelayKeeps == ASSUME RunInv, RetryDelay PROVE RunInv'
<1> USE DEF RunInv
<1>1. /\ UNCHANGED <<ctx, child, secrets, attempts>> /\ run.at = "delay"
      /\ run'.max = run.max /\ run'.kind = run.kind
  BY DEF RetryDelay, RunType, RunRecords
<1>2. /\ Codex /\ Len(attempts) = run.n /\ run.n >= 1 /\ run.n < run.max /\ secrets = "none"
      /\ run.n \in Nat /\ run.max \in Nat /\ run.max <= 2
  BY <1>1, AttemptsAreCapped DEF Places, RunType, RunRecords
<1>3. Recordings' /\ (\A k : Shaky(k)' <=> Shaky(k)) /\ \A k \in 1..Len(attempts) : Shaky(k)
  BY <1>1, <1>2, Unrecorded DEF Places, Recordings
<1>4. CASE run' = [run EXCEPT !.at = "attempt", !.n = run.n + 1]
  <2>1. RunType' /\ run'.at = "attempt" /\ run'.n = run.n + 1
    <3>1. run \in RunRecords /\ run.n + 1 \in 0..MaximumAttempts
      BY <1>2, MaximumIsNatural DEF RunType, RunRecords
    <3>2. run' \in RunRecords /\ run'.at = "attempt" /\ run'.n = run.n + 1
      BY <1>4, <3>1 DEF RunRecords
    <3> QED
      BY <1>1, <3>2 DEF RunType
  <2>2. Places'
    BY <1>1, <1>2, <1>3, <2>1 DEF Places, Fresh, Before, During, RunType, RunRecords, Codex
  <2> QED
    BY <1>3, <2>1, <2>2
<1>5. CASE ctx # "live" /\ run' = [run EXCEPT !.at = "returned", !.status = FromContext]
  <2>1. RunType' /\ run'.at = "returned" /\ run'.n = run.n /\ run'.status = ctx'
        /\ run'.status # "completed"
    BY <1>1, <1>2, <1>5 DEF RunType, RunRecords, FromContext, Final
  <2>2. Places'
    BY <1>1, <1>2, <1>3, <2>1 DEF Places, Fresh, Before, During, RunType, RunRecords, Codex
  <2> QED
    BY <1>3, <2>1, <2>2
<1> QED
  BY <1>4, <1>5 DEF RetryDelay


\* A recorded attempt is the last one, and follows only shaky ones.
LEMMA LastRecorded ==
  ASSUME RunInv, Before, NEW status \in Final, NEW how \in Endings,
         attempts' = Recorded(status, how)
  PROVE  /\ attempts' \in Seq(Attempts) /\ Len(attempts') = run.n /\ run.n >= 1
         /\ attempts'[run.n].status = status /\ attempts'[run.n].how = how
         /\ Recordings'
<1> DEFINE new == [status |-> status, how |-> how, given |-> secrets]
<1>1. new \in Attempts /\ new.given # "wiped" /\ new.status = status /\ new.how = how
  BY DEF RunInv, RunType, Places, Attempts
<1>2. attempts \in Seq(Attempts) /\ Len(attempts) = run.n - 1 /\ run.n >= 1 /\ run.n \in Nat
  BY MaximumIsNatural DEF RunInv, RunType, RunRecords, Places
<1>3. attempts' = Append(attempts, new)
  BY DEF Recorded
<1> HIDE DEF new
<1>4. /\ attempts' \in Seq(Attempts) /\ Len(attempts') = run.n /\ attempts'[run.n] = new
      /\ \A k \in 1..(run.n - 1) : attempts'[k] = attempts[k]
  BY <1>1, <1>2, <1>3
<1>5. Recordings'
  <2>1. \A k \in 1..(run.n - 1) : Shaky(k) /\ attempts[k].given # "wiped"
    BY <1>2 DEF RunInv, Recordings, Places
  <2>2. \A k \in 1..run.n : k = run.n \/ k \in 1..(run.n - 1)
    BY <1>2
  <2>3. \A k \in 1..(run.n - 1) : Shaky(k)' /\ attempts'[k].given # "wiped"
    BY <1>4, <2>1 DEF Shaky
  <2>4. \A k \in 1..run.n : attempts'[k].given # "wiped"
    BY <1>1, <1>4, <2>2, <2>3
  <2> QED
    BY <1>4, <2>3, <2>4 DEF Recordings
<1> QED
  BY <1>1, <1>2, <1>4, <1>5

\* After the wipe the next attempt is decided on.
LEMMA WipeKeeps ==
  ASSUME RunInv, Codex, NEW s \in Final, Wipe(s), UNCHANGED ctx,
         attempts' \in Seq(Attempts), Len(attempts') = run.n, run.n >= 1, Recordings',
         attempts'[run.n].status = s, s = "completed" => attempts'[run.n].how = "ok",
         s \in {"cancelled", "timed_out"} => ctx = s,
         secrets # "none" => run.n = 1,
         child'.at = "none", child' \in [at : {"none", "alive", "exited"}, how : Endings,
                                         sig : {"none", "term", "kill"}]
  PROVE  RunInv'
<1>1. run \in RunRecords /\ run.n \in Nat /\ run.max \in Nat /\ run.n <= run.max
      /\ secrets \in {"none", "held", "wiped"} /\ ctx \in {"live", "cancelled", "timed_out"}
  BY MaximumIsNatural DEF RunInv, RunType, RunRecords, Places
<1>2. /\ run' \in RunRecords /\ run'.at = "decide" /\ run'.status = s /\ run'.n = run.n
      /\ run'.kind = run.kind /\ run'.max = IF secrets = "none" THEN run.max ELSE 1
  <2> DEFINE max == IF secrets = "none" THEN run.max ELSE 1
  <2>1. max \in 1..MaximumAttempts
    BY <1>1, MaximumIsNatural DEF RunRecords
  <2>2. run' = [run EXCEPT !.at = "decide", !.status = s, !.max = max]
    BY DEF Wipe
  <2> HIDE DEF max
  <2>3. /\ run' \in RunRecords /\ run'.at = "decide" /\ run'.status = s /\ run'.n = run.n
        /\ run'.kind = run.kind /\ run'.max = max
    BY <1>1, <2>1, <2>2 DEF RunRecords
  <2> QED
    BY <2>3 DEF max
<1>3. secrets' \in {"none", "wiped"} /\ (secrets' = "wiped" => secrets # "none")
  BY <1>1 DEF Wipe, Wiped
<1>4. RunType'
  BY <1>1, <1>2, <1>3 DEF RunType
<1>5. Places'
  BY <1>1, <1>2, <1>3 DEF Places, Fresh, Before, During, Codex
<1> QED
  BY <1>4, <1>5 DEF RunInv

LEMMA BeginKeeps == ASSUME RunInv, BeginAttempt PROVE RunInv'
<1>0. run.at = "attempt" /\ Before /\ UNCHANGED <<ctx, child>> /\ child.at = "none"
      /\ ctx \in {"live", "cancelled", "timed_out"}
  BY DEF BeginAttempt, Before, RunInv, Places, RunType
<1>1. CASE Codex /\ ctx # "live"
  <2>1. ctx \in Final /\ "wrong" \in Endings /\ ctx # "completed"
    BY <1>0, <1>1 DEF Final, Endings, Permanent
  <2>2. attempts' = Recorded(ctx, "wrong") /\ Wipe(ctx)
    BY <1>1 DEF BeginAttempt, FromContext
  <2>3. /\ attempts' \in Seq(Attempts) /\ Len(attempts') = run.n /\ run.n >= 1
        /\ attempts'[run.n].status = ctx /\ Recordings'
    BY <1>0, <2>1, <2>2, LastRecorded
  <2>4. secrets # "none" => run.n = 1
    BY <1>0 DEF RunInv, RunType, Places
  <2>5. child' \in [at : {"none", "alive", "exited"}, how : Endings, sig : {"none", "term", "kill"}]
    BY <1>0 DEF RunInv, RunType
  <2> QED
    BY <1>0, <1>1, <2>1, <2>2, <2>3, <2>4, <2>5, WipeKeeps
<1>2. CASE ~(Codex /\ ctx # "live")
  <2>1. run' = [run EXCEPT !.at = "start"] /\ UNCHANGED <<ctx, child, secrets, attempts>>
    BY <1>2 DEF BeginAttempt
  <2> QED
    BY <1>0, <2>1 DEF RunInv, RunType, RunRecords, Places, Recordings, Fresh, Before, During, Shaky,
       Codex
<1> QED
  BY <1>1, <1>2

LEMMA StartKeeps == ASSUME RunInv, Start PROVE RunInv'
<1>0. run.at = "start" /\ Before /\ UNCHANGED ctx /\ child.at = "none"
      /\ child \in [at : {"none", "alive", "exited"}, how : Endings, sig : {"none", "term", "kill"}]
      /\ run \in RunRecords /\ run.n <= run.max /\ run.n \in Nat /\ run.max \in Nat
      /\ (secrets = "held" => run.n = 1) /\ secrets \in {"none", "held"}
      /\ ctx \in {"live", "cancelled", "timed_out"} /\ (run.kind = "script" => run.max = 1)
  BY MaximumIsNatural DEF Start, Before, RunInv, Places, RunType, RunRecords
<1>1. ASSUME NEW how \in {"missing", "flaky"}, attempts' = Recorded("failed", how),
             IF Codex THEN Wipe("failed")
             ELSE /\ run' = [run EXCEPT !.at = "returned", !.status = "failed"]
                  /\ secrets' = Wiped(secrets),
             UNCHANGED child
      PROVE  RunInv'
  <2>1. "failed" \in Final /\ how \in Endings
    BY DEF Final, Endings, Transient, Permanent
  <2>2. /\ attempts' \in Seq(Attempts) /\ Len(attempts') = run.n /\ run.n >= 1
        /\ attempts'[run.n].status = "failed" /\ Recordings'
    BY <1>0, <1>1, <2>1, LastRecorded
  <2>3. CASE Codex
    BY <1>0, <1>1, <2>1, <2>2, <2>3, WipeKeeps
  <2>4. CASE ~Codex
    <3>1. /\ run' \in RunRecords /\ run'.at = "returned" /\ run'.status = "failed"
          /\ run'.n = run.n /\ run'.max = run.max /\ run'.kind = run.kind
      BY <1>0, <1>1, <2>4 DEF RunRecords, Final
    <3>2. secrets' \in {"none", "wiped"}
      BY <1>0, <1>1, <2>4 DEF Wiped
    <3>3. RunType'
      BY <1>0, <1>1, <2>2, <3>1, <3>2 DEF RunType
    <3>4. Places'
      BY <1>0, <1>1, <2>2, <3>1, <3>2 DEF Places, Fresh, Before, During
    <3> QED
      BY <2>2, <3>3, <3>4 DEF RunInv
  <2> QED
    BY <2>3, <2>4
<1>2. CASE /\ child' = [NoChild EXCEPT !.at = "alive"]
           /\ run' = [run EXCEPT !.at = "running"]
           /\ attempts' = Recorded("failed", "wrong")
           /\ secrets' = IF Codex THEN secrets ELSE Wiped(secrets)
  <2>1. "failed" \in Final /\ "wrong" \in Endings /\ "ok" \in Endings
    BY DEF Final, Endings, Permanent
  <2>2. /\ attempts' \in Seq(Attempts) /\ Len(attempts') = run.n /\ run.n >= 1 /\ Recordings'
    BY <1>0, <1>2, <2>1, LastRecorded
  <2>3. /\ run' \in RunRecords /\ run'.at = "running"
        /\ run'.n = run.n /\ run'.max = run.max /\ run'.kind = run.kind
    BY <1>0, <1>2 DEF RunRecords
  <2>4. /\ secrets' \in {"none", "held", "wiped"} /\ (~Codex => secrets' # "held")
        /\ (Codex => secrets' = secrets)
    BY <1>0, <1>2 DEF Wiped
  <2>5. child' \in [at : {"none", "alive", "exited"}, how : Endings, sig : {"none", "term", "kill"}]
    BY <1>2, <2>1 DEF NoChild
  <2>6. RunType'
    BY <1>0, <2>2, <2>3, <2>4, <2>5 DEF RunType
  <2>7. Places'
    BY <1>0, <2>2, <2>3, <2>4 DEF Places, Fresh, Before, During, Codex
  <2> QED
    BY <2>2, <2>6, <2>7 DEF RunInv
<1> QED
  BY <1>0, <1>1, <1>2 DEF Start

LEMMA SettleKeeps == ASSUME RunInv, Settle PROVE RunInv'
<1>0. /\ run.at = "settle" /\ During /\ UNCHANGED ctx /\ Len(attempts) = run.n /\ run.n >= 1
      /\ run \in RunRecords /\ run.n <= run.max /\ run.n \in Nat /\ run.max \in Nat
      /\ (Codex /\ secrets # "none" => run.n = 1) /\ (~Codex => secrets # "held")
      /\ secrets \in {"none", "held", "wiped"} /\ child.how \in Endings
      /\ ctx \in {"live", "cancelled", "timed_out"} /\ (run.kind = "script" => run.max = 1)
      /\ attempts \in Seq(Attempts) /\ Recordings
  BY MaximumIsNatural DEF Settle, During, RunInv, Places, RunType, RunRecords
<1>1. child' = NoChild /\ child'.at = "none"
      /\ child' \in [at : {"none", "alive", "exited"}, how : Endings, sig : {"none", "term", "kill"}]
  BY DEF Settle, NoChild, Endings
<1>2. PICK flaw \in Flaws :
        /\ attempts' = [attempts EXCEPT ![Len(attempts)].status = Verdict(flaw),
                                        ![Len(attempts)].how = child.how]
        /\ IF Codex THEN Wipe(Verdict(flaw))
           ELSE /\ run' = [run EXCEPT !.at = "returned", !.status = Verdict(flaw)]
                /\ UNCHANGED secrets
  BY DEF Settle
<1> DEFINE v == Verdict(flaw)
<1>3. /\ v \in Final /\ (v = "completed" => child.how = "ok")
      /\ v \in {"cancelled", "timed_out"} => ctx = v
  BY <1>0 DEF Verdict, FromContext, Final
<1> HIDE DEF v
<1>4. /\ attempts' \in Seq(Attempts) /\ Len(attempts') = run.n
      /\ attempts'[run.n].status = v /\ attempts'[run.n].how = child.how
      /\ attempts'[run.n].given = attempts[run.n].given
      /\ \A k \in 1..(run.n - 1) : attempts'[k] = attempts[k]
  <2>1. attempts' = [attempts EXCEPT ![run.n] = [attempts[run.n] EXCEPT !.status = v, !.how = child.how]]
    BY <1>0, <1>2 DEF v
  <2>2. attempts[run.n] \in Attempts
    BY <1>0
  <2> DEFINE new == [attempts[run.n] EXCEPT !.status = v, !.how = child.how]
  <2>3. new \in Attempts /\ new.status = v /\ new.how = child.how /\ new.given = attempts[run.n].given
    BY <1>0, <1>3, <2>2 DEF Attempts
  <2> HIDE DEF new
  <2>4. attempts' = [attempts EXCEPT ![run.n] = new]
    BY <2>1 DEF new
  <2> QED
    BY <1>0, <2>3, <2>4
<1>5. Recordings'
  BY <1>0, <1>4 DEF Recordings, Shaky
<1>6. CASE Codex
  <2>1. Wipe(v)
    BY <1>2, <1>6 DEF v
  <2> QED
    BY <1>0, <1>1, <1>3, <1>4, <1>5, <1>6, <2>1, WipeKeeps
<1>7. CASE ~Codex
  <2>1. /\ run' = [run EXCEPT !.at = "returned", !.status = v] /\ UNCHANGED secrets
    BY <1>2, <1>7 DEF v
  <2>2. /\ run' \in RunRecords /\ run'.at = "returned" /\ run'.status = v
        /\ run'.n = run.n /\ run'.max = run.max /\ run'.kind = run.kind
    BY <1>0, <1>3, <2>1 DEF RunRecords
  <2>3. RunType'
    BY <1>0, <1>1, <1>4, <2>1, <2>2 DEF RunType
  <2>4. Places'
    BY <1>0, <1>1, <1>3, <1>4, <1>7, <2>1, <2>2 DEF Places, Fresh, Before, During, Codex
  <2> QED
    BY <1>5, <2>3, <2>4 DEF RunInv
<1> QED
  BY <1>6, <1>7

LEMMA RunsStepInv == ASSUME RunInv, [RunsNext]_runVars PROVE RunInv'
<1>1. CASE UNCHANGED runVars
  BY <1>1 DEF runVars, RunInv, RunType, Places, Recordings, Fresh, Before, During, Shaky, Codex
<1> QED
  BY <1>1, SignalsKeep, PrepareKeeps, WaitsKeep, DecideKeeps, DelayKeeps, BeginKeeps, StartKeeps,
     SettleKeeps
  DEF RunsNext, RunStep

LEMMA RunsInvariant == RunsSpec => []RunInv
BY RunsInitInv, RunsStepInv, PTL DEF RunsSpec

\* A run's record, its context, its child and its credentials keep their types
\* (runner/supervisor.go: Run, runAttempt; scriptrunner/runner.go: Run).
THEOREM RunsTypeCorrect == RunsSpec => []RunsTypeOK
BY RunsInvariant, RunInvImplies, PTL

\* However the context's end, the child's and the signals interleave, a second
\* attempt follows only a transient failure, no child is given credentials that
\* were wiped, and a run returns with the verdict of its last child or of its
\* context and leaves no child and no credential behind.
THEOREM RetryIsSafeHolds == RunsSpec => []RetryIsSafe
BY RunsInvariant, RunInvImplies, PTL

-----------------------------------------------------------------------------
\* LocalApps: who holds which process.

Calls ==
  [at : {"idle", "look", "list", "insert", "check", "spawn", "register",
         "stop", "interrupt", "await", "late", "edit", "erase", "next"},
   op : Ops \cup {"none", "auto", "halt"}, app : Apps, p : Procs \cup {None}, todo : SUBSET Apps]
Processes == [at : {"none", "alive", "exited", "reaped", "done"}, app : Apps,
              sig : {"none", "int", "kill"}, watched : BOOLEAN, ok : BOOLEAN]

\* The manager watches the processes it has in its map, until they are done.
Mapped ==
  /\ \A a \in Apps : registered[a] # None =>
       /\ proc[registered[a]].app = a /\ proc[registered[a]].watched
       /\ proc[registered[a]].at \in {"alive", "exited", "reaped"}
  /\ \A p \in Procs :
       /\ proc[p].watched => proc[p].at = "done" \/ registered[proc[p].app] = p
       /\ proc[p].at \in {"reaped", "done"} => proc[p].watched
       /\ proc[p].at = "none" => ~proc[p].watched
  /\ \A a \in Apps : shown[a] = "running" => registered[a] # None

\* A start holds the process it has spawned until it comes back to the mutex.
Holds(i, p) == call[i].at = "register" /\ call[i].p = p
HandOK(i) ==
  /\ call[i].at = "register" =>
       /\ call[i].p # None /\ proc[call[i].p].app = call[i].app /\ ~proc[call[i].p].watched
       /\ proc[call[i].p].at \in {"alive", "exited"}
  /\ call[i].at \in {"interrupt", "await", "late"} => call[i].p # None
Held ==
  /\ \A i \in Callers : HandOK(i)
  /\ \A i, j \in Callers, p \in Procs : Holds(i, p) /\ Holds(j, p) => i = j
  /\ \A p \in Procs : Alive(p) /\ proc[p].sig # "kill" =>
       registered[proc[p].app] = p \/ \E i \in Callers : Holds(i, p)

\* The daemon's stop has not begun.
Unhalted == life = "up" => call["halt"].at = "idle"

AppsInv == AppsTypeOK /\ Mapped /\ Held /\ Unhalted

Rows == [Apps -> [at : {"none", "live", "gone"}, auto : BOOLEAN]]
Maps ==
  /\ registered \in [Apps -> Procs \cup {None}]
  /\ shown \in [Apps -> {"stopped", "failed", "running"}]
LEMMA AppsTypes ==
  AppsTypeOK <=> /\ rows \in Rows /\ Maps /\ proc \in [Procs -> Processes]
                 /\ call \in [Callers -> Calls]
                 /\ life \in {"up", "stopping", "off"} /\ calls \in 0..MaxCalls
BY DEF AppsTypeOK, Rows, Maps, Processes, Calls

LEMMA Positive == None \notin Procs
BY DEF None, Procs

LEMMA AppsInvImplies == AppsInv => Accounted
<1> SUFFICES ASSUME AppsInv PROVE Accounted
  OBVIOUS
<1>1. ASSUME NEW p \in Procs, Alive(p), proc[p].sig # "kill"
      PROVE  \/ registered[proc[p].app] = p
             \/ \E i \in Callers : call[i].at = "register" /\ call[i].p = p
  BY <1>1 DEF AppsInv, Held, Holds
<1>2. ASSUME NEW a \in Apps, Status(a) = "running"
      PROVE  registered[a] # None /\ proc[registered[a]].app = a
                                  /\ proc[registered[a]].at # "done"
  BY <1>2 DEF AppsInv, Mapped, Status
<1> QED
  BY <1>1, <1>2 DEF Accounted

LEMMA IdleOK == Idle \in Calls /\ Idle.at = "idle" /\ Idle.app \in Apps
BY AppsExist DEF Idle, Calls, Ops

LEMMA AppsInitInv == AppsInit => AppsInv
<1> SUFFICES ASSUME AppsInit PROVE AppsInv
  OBVIOUS
<1>1. /\ rows \in [Apps -> {[at |-> "none", auto |-> FALSE], [at |-> "live", auto |-> TRUE]}]
      /\ life \in {"up", "off"} /\ calls = 0
      /\ registered = [a \in Apps |-> None] /\ shown = [a \in Apps |-> "stopped"]
      /\ proc = [p \in Procs |-> [at |-> "none", app |-> Idle.app, sig |-> "none",
                                  watched |-> FALSE, ok |-> TRUE]]
  BY DEF AppsInit
<1>2. /\ call \in [Callers -> Calls]
      /\ \A i \in Callers : call[i].at \in {"idle", "list"}
  <2> DEFINE auto == [Idle EXCEPT !.op = "auto", !.at = IF life = "up" THEN "list" ELSE "idle"]
  <2>1. auto \in Calls /\ auto.at \in {"idle", "list"}
    BY IdleOK DEF Calls
  <2>2. call = [[i \in Callers |-> Idle] EXCEPT !["auto"] = auto]
    BY DEF AppsInit
  <2> HIDE DEF auto
  <2> QED
    BY <2>1, <2>2, IdleOK
<1>3. proc \in [Procs -> Processes] /\ \A p \in Procs : proc[p].at = "none" /\ ~proc[p].watched
  BY <1>1, IdleOK DEF Processes
<1>4. AppsTypeOK
  <2>1. rows \in Rows
    <3>1. [at |-> "none", auto |-> FALSE] \in [at : {"none", "live", "gone"}, auto : BOOLEAN]
      OBVIOUS
    <3>2. [at |-> "live", auto |-> TRUE] \in [at : {"none", "live", "gone"}, auto : BOOLEAN]
      OBVIOUS
    <3> QED
      BY <1>1, <3>1, <3>2 DEF Rows
  <2>2. Maps
    BY <1>1 DEF Maps
  <2>3. life \in {"up", "stopping", "off"} /\ calls \in 0..MaxCalls
    BY <1>1, CountsAreNumbers
  <2> QED
    BY <1>2, <1>3, <2>1, <2>2, <2>3, AppsTypes
<1>5. Mapped
  BY <1>1, <1>3 DEF Mapped
<1>6. Held
  BY <1>1, <1>2, <1>3 DEF Held, HandOK, Holds, Alive
<1>7. Unhalted
  BY DEF AppsInit, Unhalted, Callers, Idle
<1> QED
  BY <1>4, <1>5, <1>6, <1>7 DEF AppsInv

\* A caller's moves leave the others where they are.
Quietly(i) ==
  /\ call' \in [Callers -> Calls] /\ \A j \in Callers \ {i} : call'[j] = call[j]
  /\ call'[i].at # "register"
  /\ call'[i].at \in {"interrupt", "await", "late"} => call'[i].p # None

LEMMA Moves ==
  ASSUME AppsInv, NEW i \in Callers
  PROVE  /\ \A at \in {"check", "erase", "edit", "stop", "spawn", "next", "idle", "insert"} :
              Goes(i, at) => Quietly(i)
         /\ \A at \in {"await", "late"} : call[i].p # None /\ Goes(i, at) => Quietly(i)
         /\ Over(i) => Quietly(i)
         /\ Stopped(i) => Quietly(i)
<1>1. call \in [Callers -> Calls]
  BY AppsTypes DEF AppsInv
<1>2. \A at \in {"check", "erase", "edit", "stop", "spawn", "next", "idle", "insert"} :
        Goes(i, at) => Quietly(i)
  BY <1>1 DEF Goes, Quietly, Calls
<1>3. \A at \in {"await", "late"} : call[i].p # None /\ Goes(i, at) => Quietly(i)
  BY <1>1 DEF Goes, Quietly, Calls
<1>4. Over(i) => Quietly(i)
  <2> SUFFICES ASSUME Over(i) PROVE Quietly(i)
    OBVIOUS
  <2>1. CASE call[i].op \in {"auto", "halt"}
    <3> DEFINE c == [call[i] EXCEPT !.at = "next", !.todo = @ \ {call[i].app}, !.p = None]
    <3>1. c \in Calls /\ c.at = "next"
      BY <1>1 DEF Calls
    <3>2. call' = [call EXCEPT ![i] = c]
      BY <1>1, <2>1 DEF Over
    <3> HIDE DEF c
    <3> QED
      BY <1>1, <3>1, <3>2 DEF Quietly
  <2>2. CASE call[i].op \notin {"auto", "halt"}
    <3>1. call' = [call EXCEPT ![i] = Idle]
      BY <1>1, <2>2 DEF Over
    <3> QED
      BY <1>1, <3>1, IdleOK DEF Quietly
  <2> QED
    BY <2>1, <2>2
<1>5. Stopped(i) => Quietly(i)
  BY <1>2, <1>4 DEF Stopped
<1> QED
  BY <1>2, <1>3, <1>4, <1>5

\* A signal changes what a process was told, and a kill is not taken back.
LEMMA SignalOK ==
  ASSUME AppsInv, NEW p \in Procs, NEW s \in {"int", "kill"}, Signal(p, s)
  PROVE  /\ proc' \in [Procs -> Processes]
         /\ \A q \in Procs : /\ proc'[q].at = proc[q].at /\ proc'[q].app = proc[q].app
                             /\ (proc'[q].watched <=> proc[q].watched)
                             /\ proc[q].sig = "kill" => proc'[q].sig = "kill"
         /\ s = "kill" /\ Alive(p) => proc'[p].sig = "kill"
<1> DEFINE sig == IF ~Alive(p) \/ proc[p].sig = "kill" THEN proc[p].sig ELSE s
<1>1. proc \in [Procs -> Processes] /\ proc[p] \in Processes
  BY AppsTypes DEF AppsInv
<1>2. proc' = [proc EXCEPT ![p].sig = sig]
  BY <1>1 DEF Signal
<1>3. sig \in {"none", "int", "kill"} /\ (proc[p].sig = "kill" => sig = "kill")
      /\ (s = "kill" /\ Alive(p) => sig = "kill")
  BY <1>1 DEF Processes
<1> HIDE DEF sig
<1> QED
  BY <1>1, <1>2, <1>3 DEF Processes

\* A step that takes nothing out of the map or out of a start's hands.
LEMMA NothingLost ==
  ASSUME AppsInv, NEW i \in Callers, Quietly(i), call[i].at # "register",
         life' = "up" => life = "up" /\ i # "halt",
         UNCHANGED <<registered, shown>>, rows' \in Rows, life' \in {"up", "stopping", "off"},
         calls' \in 0..MaxCalls, proc' \in [Procs -> Processes],
         \A q \in Procs : /\ proc'[q].at = proc[q].at /\ proc'[q].app = proc[q].app
                          /\ (proc'[q].watched <=> proc[q].watched)
                          /\ proc[q].sig = "kill" => proc'[q].sig = "kill"
  PROVE  AppsInv'
<1> USE DEF AppsInv
<1>1. AppsTypeOK'
  <2>1. Maps'
    BY AppsTypes DEF Maps
  <2> QED
    BY <2>1, AppsTypes DEF Quietly, AppsTypeOK, Maps, Rows, Processes, Calls
<1>2. Mapped'
  BY DEF Mapped, AppsTypeOK
<1>3. \A j \in Callers : \A p \in Procs : Holds(j, p)' <=> Holds(j, p)
  BY DEF Holds, Quietly
<1>4. \A j \in Callers : HandOK(j)'
  <2>1. ASSUME NEW j \in Callers, j # i PROVE HandOK(j)'
    <3>1. call'[j] = call[j] /\ HandOK(j) /\ call[j].p \in Procs \cup {None}
      BY <2>1, AppsTypes DEF Quietly, Held, Calls
    <3> QED
      BY <3>1 DEF HandOK
  <2>2. HandOK(i)'
    BY DEF HandOK, Quietly
  <2> QED
    BY <2>1, <2>2
<1>5. Held'
  BY <1>3, <1>4 DEF Held, Alive
<1>6. Unhalted'
  BY DEF Unhalted, Quietly, Callers
<1> QED
  BY <1>1, <1>2, <1>5, <1>6

\* The steps of a caller that spawn and register nothing.
LEMMA CallersKeep ==
  ASSUME AppsInv, NEW i \in Callers,
         \/ Look(i) \/ UpdateLocalApp(i) \/ DeleteLocalApp(i) \/ CreateLocalApp(i) \/ Check(i)
         \/ Spawn(i) /\ UNCHANGED proc
         \/ StopFind(i) \/ Interrupt(i) \/ StopDone(i) \/ Deadline(i) \/ GiveUp(i) \/ NextApp(i)
  PROVE  AppsInv'
<1>0. /\ rows \in Rows /\ Maps /\ proc \in [Procs -> Processes] /\ call \in [Callers -> Calls]
      /\ life \in {"up", "stopping", "off"} /\ calls \in 0..MaxCalls
  BY AppsTypes DEF AppsInv
<1>1. UNCHANGED <<registered, shown, life, calls>>
  BY DEF Look, UpdateLocalApp, DeleteLocalApp, CreateLocalApp, Check, Spawn, StopFind, Interrupt,
         StopDone, Deadline, GiveUp, NextApp
<1>2. call[i].at # "register" /\ call[i].at # "idle"
  BY DEF Look, UpdateLocalApp, DeleteLocalApp, CreateLocalApp, Check, Spawn, StopFind, Interrupt,
         StopDone, Deadline, GiveUp, NextApp
<1>3. life' = "up" => life = "up" /\ i # "halt"
  BY <1>1, <1>2 DEF AppsInv, Unhalted
<1>4. rows' \in Rows
  <2>1. CASE UNCHANGED rows
    BY <1>0, <2>1
  <2>2. CASE DeleteLocalApp(i)
    BY <1>0, <2>2 DEF DeleteLocalApp, DropRow, Rows
  <2>3. CASE UpdateLocalApp(i)
    <3>1. ASSUME NEW a \in Apps, NEW auto \in BOOLEAN, WriteRow(a, auto) PROVE rows' \in Rows
      <4>1. rows[a] \in [at : {"none", "live", "gone"}, auto : BOOLEAN]
        BY <1>0 DEF Rows
      <4>2. [rows[a] EXCEPT !.auto = auto] \in [at : {"none", "live", "gone"}, auto : BOOLEAN]
        BY <4>1
      <4>3. rows' = rows \/ rows' = [rows EXCEPT ![a] = [rows[a] EXCEPT !.auto = auto]]
        BY <1>0, <3>1 DEF WriteRow, Rows
      <4> QED
        BY <1>0, <4>2, <4>3 DEF Rows
    <3>2. call[i].app \in Apps
      BY <1>0 DEF Calls
    <3> QED
      BY <1>0, <2>3, <3>1, <3>2 DEF UpdateLocalApp, Refused
  <2>4. CASE CreateLocalApp(i)
    <3>1. ASSUME NEW a \in Apps, NEW auto \in BOOLEAN, InsertRow(a, auto) PROVE rows' \in Rows
      <4>1. [at |-> "live", auto |-> auto] \in [at : {"none", "live", "gone"}, auto : BOOLEAN]
        BY <3>1
      <4> QED
        BY <1>0, <3>1, <4>1 DEF InsertRow, Rows
    <3>2. call[i].app \in Apps
      BY <1>0 DEF Calls
    <3> QED
      BY <1>0, <2>4, <3>1, <3>2 DEF CreateLocalApp, Refused
  <2> QED
    BY <2>1, <2>2, <2>3, <2>4
    DEF Look, Check, Spawn, StopFind, Interrupt, StopDone, Deadline, GiveUp, NextApp
<1>5. /\ proc' \in [Procs -> Processes]
      /\ \A q \in Procs : /\ proc'[q].at = proc[q].at /\ proc'[q].app = proc[q].app
                          /\ (proc'[q].watched <=> proc[q].watched)
                          /\ proc[q].sig = "kill" => proc'[q].sig = "kill"
  <2>1. CASE UNCHANGED proc
    BY <1>0, <2>1
  <2>2. CASE Interrupt(i) \/ Deadline(i)
    <3>1. call[i].p \in Procs
      BY <1>0, <2>2 DEF AppsInv, Held, HandOK, Interrupt, Deadline, Calls
    <3> QED
      BY <2>1, <2>2, <3>1, SignalOK DEF Interrupt, Deadline
  <2> QED
    BY <2>1, <2>2 DEF Look, UpdateLocalApp, DeleteLocalApp, CreateLocalApp, Check, StopFind,
       StopDone, GiveUp, NextApp
<1>6. Quietly(i)
  <2>1. CASE Look(i) \/ UpdateLocalApp(i) \/ DeleteLocalApp(i) \/ CreateLocalApp(i) \/ Check(i)
    BY <2>1, Moves DEF Look, UpdateLocalApp, DeleteLocalApp, CreateLocalApp, Check, Refused
  <2>2. CASE StopDone(i) \/ GiveUp(i)
    BY <2>2, Moves DEF StopDone, GiveUp
  <2>3. CASE Interrupt(i) \/ Deadline(i)
    <3>1. call[i].p # None
      BY <2>3 DEF AppsInv, Held, HandOK, Interrupt, Deadline
    <3> QED
      BY <2>3, <3>1, Moves DEF Interrupt, Deadline
  <2>4. CASE StopFind(i)
    <3>1. CASE registered[call[i].app] = None
      BY <2>4, <3>1, Moves DEF StopFind
    <3>2. CASE registered[call[i].app] # None
      <4>1. registered[call[i].app] \in Procs
        BY <1>0, <3>2 DEF Maps, Calls
      <4> QED
        BY <1>0, <2>4, <3>2, <4>1 DEF StopFind, Quietly, Calls
    <3> QED
      BY <3>1, <3>2
  <2>5. CASE Spawn(i) /\ UNCHANGED proc
    <3>1. CASE CannotRun(i)
      BY <3>1, Moves DEF CannotRun
    <3>2. CASE ~CannotRun(i)
      <4>1. PICK p \in Procs :
              /\ proc[p].at = "none"
              /\ proc' = [proc EXCEPT ![p] = [proc[p] EXCEPT !.at = "alive", !.app = call[i].app]]
        BY <2>5, <3>2 DEF Spawn
      <4>2. proc'[p].at = "alive"
        BY <1>0, <4>1 DEF Processes
      <4> QED
        BY <2>5, <4>1, <4>2
    <3> QED
      BY <3>1, <3>2
  <2>6. CASE NextApp(i)
    <3>1. CASE call[i].todo = {}
      BY <2>6, <3>1, Moves DEF NextApp
    <3>2. CASE call[i].todo # {}
      <4>1. PICK a \in call[i].todo :
              call' = [call EXCEPT ![i] =
                IF i = "auto" /\ ~(LiveRow(a) /\ life = "up")
                THEN [call[i] EXCEPT !.todo = @ \ {a}]
                ELSE [call[i] EXCEPT !.app = a, !.at = IF i = "halt" THEN "stop" ELSE "check"]]
        BY <1>0, <2>6, <3>2 DEF NextApp
      <4>2. call[i] \in Calls /\ a \in Apps /\ call[i].at = "next"
        BY <1>0, <2>6, <4>1 DEF Calls, NextApp
      <4> DEFINE c == IF i = "auto" /\ ~(LiveRow(a) /\ life = "up")
                      THEN [call[i] EXCEPT !.todo = @ \ {a}]
                      ELSE [call[i] EXCEPT !.app = a, !.at = IF i = "halt" THEN "stop" ELSE "check"]
      <4>3. c \in Calls /\ c.at \in {"next", "stop", "check"}
        BY <4>2 DEF Calls
      <4>4. call' = [call EXCEPT ![i] = c]
        BY <4>1
      <4> HIDE DEF c
      <4> QED
        BY <1>0, <4>3, <4>4 DEF Quietly
    <3> QED
      BY <3>1, <3>2
  <2> QED
    BY <2>1, <2>2, <2>3, <2>4, <2>5, <2>6
<1> QED
  BY <1>0, <1>1, <1>2, <1>3, <1>4, <1>5, <1>6, NothingLost

\* Requests, and the beginnings of the automatic start and of the daemon's stop.
LEMMA BeginningsKeep ==
  ASSUME AppsInv, \/ \E i \in Handlers, op \in Ops, a \in Apps : Request(i, op, a)
                  \/ ListAuto \/ Halt
  PROVE  AppsInv'
<1>0. /\ rows \in Rows /\ Maps /\ proc \in [Procs -> Processes] /\ call \in [Callers -> Calls]
      /\ life \in {"up", "stopping", "off"} /\ calls \in 0..MaxCalls /\ MaxCalls \in Nat
  BY AppsTypes, CountsAreNumbers DEF AppsInv
<1>1. UNCHANGED <<rows, registered, shown, proc>>
  BY DEF Request, ListAuto, Halt
<1>2. ASSUME NEW i \in Handlers, NEW op \in Ops, NEW a \in Apps, Request(i, op, a)
      PROVE  AppsInv'
  <2>1. i \in Callers /\ i # "halt" /\ call[i].at = "idle" /\ UNCHANGED life
        /\ calls' \in 0..MaxCalls
    <3>1. i \in Callers /\ i # "halt"
      BY NamesApart DEF Callers
    <3>2. call[i].at = "idle" /\ UNCHANGED life /\ calls < MaxCalls /\ calls' = calls + 1
      BY <1>2 DEF Request
    <3> QED
      BY <1>0, <3>1, <3>2
  <2> DEFINE c == [Idle EXCEPT !.op = op, !.app = a,
       !.at = CASE op \in {"create", "register"} -> "insert"
                [] op = "start" -> "check"
                [] op \in {"stop", "restart"} -> "stop"
                [] OTHER -> "look"]
  <2>2. c \in Calls /\ c.at \in {"insert", "check", "stop", "look"}
    BY <1>2, IdleOK DEF Calls, Ops
  <2>3. call' = [call EXCEPT ![i] = c]
    BY <1>2 DEF Request
  <2> HIDE DEF c
  <2>4. Quietly(i)
    BY <1>0, <2>1, <2>2, <2>3 DEF Quietly
  <2> QED
    BY <1>0, <1>1, <2>1, <2>4, NothingLost
<1>3. CASE ListAuto
  <2> DEFINE todo == IF life = "up" THEN {a \in Apps : LiveRow(a) /\ rows[a].auto} ELSE {}
  <2>1. todo \in SUBSET Apps /\ "auto" \in Callers
    BY DEF Callers
  <2>2. call' = [call EXCEPT !["auto"].at = "next", !["auto"].todo = todo]
        /\ call["auto"].at = "list" /\ UNCHANGED <<life, calls>>
    BY <1>3 DEF ListAuto
  <2> HIDE DEF todo
  <2>3. Quietly("auto")
    <3>1. /\ call' \in [Callers -> Calls] /\ call'["auto"].at = "next"
          /\ \A j \in Callers \ {"auto"} : call'[j] = call[j]
      <4> DEFINE c == [call["auto"] EXCEPT !.at = "next", !.todo = todo]
      <4>1. c \in Calls /\ c.at = "next"
        BY <1>0, <2>1 DEF Calls
      <4>2. call' = [call EXCEPT !["auto"] = c]
        BY <1>0, <2>1, <2>2
      <4> HIDE DEF c
      <4> QED
        BY <1>0, <2>1, <4>1, <4>2
    <3> QED
      BY <3>1 DEF Quietly
  <2> QED
    BY <1>0, <1>1, <2>1, <2>2, <2>3, NothingLost
<1>4. CASE Halt
  <2> DEFINE todo == {a \in Apps : registered[a] # None}
             c == [Idle EXCEPT !.op = "halt", !.at = "next", !.todo = todo]
  <2>1. c \in Calls /\ c.at = "next" /\ "halt" \in Callers
    BY IdleOK DEF Callers, Calls
  <2>2. call' = [call EXCEPT !["halt"] = c] /\ life' = "stopping" /\ UNCHANGED calls
    BY <1>4 DEF Halt
  <2>3. call["halt"].at # "register"
    BY <1>4 DEF Halt, AppsInv, Unhalted
  <2> HIDE DEF c, todo
  <2>4. Quietly("halt")
    BY <1>0, <2>1, <2>2 DEF Quietly
  <2> QED
    BY <1>0, <1>1, <2>1, <2>2, <2>3, <2>4, NothingLost
<1> QED
  BY <1>2, <1>3, <1>4

\* A new process goes into the hands of the start that spawned it.
LEMMA SpawnKeeps == ASSUME AppsInv, NEW i \in Callers, Spawn(i) PROVE AppsInv'
<1>0. /\ rows \in Rows /\ Maps /\ proc \in [Procs -> Processes] /\ call \in [Callers -> Calls]
      /\ life \in {"up", "stopping", "off"} /\ calls \in 0..MaxCalls
  BY AppsTypes DEF AppsInv
<1>1. CASE UNCHANGED proc
  BY <1>1, CallersKeep
<1>2. CASE ~UNCHANGED proc
  <2>1. PICK p \in Procs :
          /\ proc[p].at = "none"
          /\ proc' = [proc EXCEPT ![p] = [proc[p] EXCEPT !.at = "alive", !.app = call[i].app]]
          /\ call' = [call EXCEPT ![i].at = "register", ![i].p = p]
    BY <1>2 DEF Spawn, CannotRun
  <2>2. /\ UNCHANGED <<rows, registered, shown, life, calls>> /\ call[i].at = "spawn"
        /\ call[i].app \in Apps /\ ~proc[p].watched
    BY <1>0, <2>1 DEF Spawn, Calls, AppsInv, Mapped
  <2>3. /\ proc' \in [Procs -> Processes] /\ proc'[p].at = "alive" /\ proc'[p].app = call[i].app
        /\ ~proc'[p].watched /\ \A q \in Procs \ {p} : proc'[q] = proc[q]
    BY <1>0, <2>1, <2>2 DEF Processes
  <2>4. /\ call' \in [Callers -> Calls] /\ call'[i].at = "register" /\ call'[i].p = p
        /\ call'[i].app = call[i].app /\ \A j \in Callers \ {i} : call'[j] = call[j]
    BY <1>0, <2>1 DEF Calls
  <2>5. AppsTypeOK'
    <3>1. Maps' /\ rows' \in Rows
      BY <1>0, <2>2 DEF Maps
    <3> QED
      BY <1>0, <2>2, <2>3, <2>4, <3>1 DEF AppsTypeOK, Maps, Rows, Processes, Calls
  <2>6. \A j \in Callers : ~Holds(j, p)
    BY <2>1 DEF AppsInv, Held, HandOK, Holds
  <2>7. Mapped'
    BY <1>0, <2>1, <2>2, <2>3 DEF AppsInv, Mapped, Maps
  <2>8. \A j \in Callers, q \in Procs : Holds(j, q)' <=> IF j = i THEN q = p ELSE Holds(j, q)
    BY <2>4 DEF Holds
  <2>9. \A j \in Callers : HandOK(j)'
    <3>1. HandOK(i)'
      BY <2>3, <2>4, Positive DEF HandOK
    <3>2. ASSUME NEW j \in Callers \ {i} PROVE HandOK(j)'
      <4>1. call'[j] = call[j] /\ HandOK(j) /\ call[j].p \in Procs \cup {None}
            /\ (call[j].at = "register" => call[j].p # p)
        BY <1>0, <2>4, <2>6 DEF AppsInv, Held, Calls, Holds
      <4> QED
        BY <2>3, <4>1 DEF HandOK
    <3> QED
      BY <3>1, <3>2
  <2>10. Held'
    <3>1. \A j, k \in Callers, q \in Procs : Holds(j, q)' /\ Holds(k, q)' => j = k
      BY <2>6, <2>8 DEF AppsInv, Held
    <3>2. ASSUME NEW q \in Procs, Alive(q)', proc'[q].sig # "kill"
          PROVE  registered'[proc'[q].app] = q \/ \E j \in Callers : Holds(j, q)'
      <4>1. CASE q = p
        BY <2>8, <4>1
      <4>2. CASE q # p
        <5>1. proc'[q] = proc[q] /\ Alive(q)
          BY <2>3, <3>2, <4>2 DEF Alive
        <5>2. registered[proc[q].app] = q \/ \E j \in Callers : Holds(j, q)
          BY <3>2, <5>1 DEF AppsInv, Held
        <5>3. ~Holds(i, q)
          BY <2>2 DEF Holds
        <5> QED
          BY <2>2, <2>8, <5>1, <5>2, <5>3
      <4> QED
        BY <4>1, <4>2
    <3> QED
      BY <2>9, <3>1, <3>2 DEF Held
  <2>11. Unhalted'
    BY <2>2, <2>4 DEF AppsInv, Unhalted, Callers
  <2> QED
    BY <2>5, <2>7, <2>10, <2>11 DEF AppsInv
<1> QED
  BY <1>1, <1>2

\* The first start to come back registers its process, another one kills its own.
LEMMA RegisterKeeps == ASSUME AppsInv, NEW i \in Callers, Register(i) PROVE AppsInv'
<1> DEFINE p == call[i].p
           a == call[i].app
<1>0. /\ rows \in Rows /\ Maps /\ proc \in [Procs -> Processes] /\ call \in [Callers -> Calls]
      /\ life \in {"up", "stopping", "off"} /\ calls \in 0..MaxCalls
      /\ UNCHANGED <<rows, life, calls>>
  BY AppsTypes DEF AppsInv, Register
<1>1. /\ p \in Procs /\ a \in Apps /\ proc[p].app = a /\ ~proc[p].watched
      /\ proc[p].at \in {"alive", "exited"} /\ Holds(i, p)
  BY <1>0 DEF AppsInv, Held, HandOK, Register, Calls, Holds
<1>2. Quietly(i)
  BY Moves DEF Register
<1>3. \A j \in Callers, q \in Procs : Holds(j, q)' <=> j # i /\ Holds(j, q)
  BY <1>2 DEF Holds, Quietly
<1>4. \A j \in Callers : Holds(j, p) => j = i
  BY <1>1 DEF AppsInv, Held
<1>5. Unhalted'
  BY <1>0, <1>2 DEF AppsInv, Unhalted, Quietly, Callers, Register
<1>6. CASE Taken(i)
  <2>1. Signal(p, "kill") /\ UNCHANGED <<registered, shown>>
    BY <1>6 DEF Register
  <2>2. /\ proc' \in [Procs -> Processes]
        /\ \A q \in Procs : /\ proc'[q].at = proc[q].at /\ proc'[q].app = proc[q].app
                            /\ (proc'[q].watched <=> proc[q].watched)
                            /\ proc[q].sig = "kill" => proc'[q].sig = "kill"
        /\ Alive(p) => proc'[p].sig = "kill"
    BY <1>1, <2>1, SignalOK
  <2>3. AppsTypeOK'
    <3>1. Maps' /\ rows' \in Rows
      BY <1>0, <2>1 DEF Maps
    <3> QED
      BY <1>0, <1>2, <2>2, <3>1 DEF Quietly, AppsTypeOK, Maps, Rows, Processes, Calls
  <2>4. Mapped'
    BY <1>0, <2>1, <2>2 DEF AppsInv, Mapped, Maps
  <2>5. \A j \in Callers : HandOK(j)'
    <3>1. HandOK(i)'
      BY <1>2 DEF HandOK, Quietly
    <3>2. ASSUME NEW j \in Callers \ {i} PROVE HandOK(j)'
      <4>1. call'[j] = call[j] /\ HandOK(j) /\ call[j].p \in Procs \cup {None}
        BY <1>0, <1>2 DEF AppsInv, Held, Calls, Quietly
      <4> QED
        BY <2>2, <4>1 DEF HandOK
    <3> QED
      BY <3>1, <3>2
  <2>6. ASSUME NEW q \in Procs, Alive(q)', proc'[q].sig # "kill"
        PROVE  registered'[proc'[q].app] = q \/ \E j \in Callers : Holds(j, q)'
    <3>1. q # p /\ Alive(q) /\ proc[q].sig # "kill"
      BY <2>2, <2>6 DEF Alive
    <3>2. registered[proc[q].app] = q \/ \E j \in Callers : Holds(j, q)
      BY <3>1 DEF AppsInv, Held
    <3>3. ~Holds(i, q)
      BY <3>1 DEF Holds
    <3> QED
      BY <1>3, <2>1, <2>2, <3>2, <3>3
  <2>7. Held'
    <3>1. \A j, k \in Callers, q \in Procs : Holds(j, q)' /\ Holds(k, q)' => j = k
      BY <1>3 DEF AppsInv, Held
    <3> QED
      BY <2>5, <2>6, <3>1 DEF Held
  <2> QED
    BY <1>5, <2>3, <2>4, <2>7 DEF AppsInv
<1>7. CASE ~Taken(i)
  <2>1. /\ registered[a] = None /\ registered' = [registered EXCEPT ![a] = p]
        /\ shown' = [shown EXCEPT ![a] = "running"]
        /\ proc' = [proc EXCEPT ![p].watched = TRUE]
    BY <1>7 DEF Register, Taken
  <2>2. /\ proc' \in [Procs -> Processes]
        /\ proc'[p].watched /\ proc'[p].at = proc[p].at /\ proc'[p].app = a
        /\ \A q \in Procs \ {p} : proc'[q] = proc[q]
    BY <1>0, <1>1, <2>1 DEF Processes
  <2>3. /\ Maps' /\ registered'[a] = p
        /\ \A b \in Apps \ {a} : registered'[b] = registered[b] /\ shown'[b] = shown[b]
    BY <1>0, <1>1, <2>1 DEF Maps
  <2>4. AppsTypeOK'
    <3>1. rows' \in Rows
      BY <1>0
    <3> QED
      BY <1>0, <1>2, <2>2, <2>3, <3>1 DEF Quietly, AppsTypeOK, Maps, Rows, Processes, Calls
  <2>5. \A q \in Procs : proc[q].app \in Apps
    BY <1>0 DEF Processes
  <2>6. Mapped'
    <3>1. ASSUME NEW b \in Apps, registered'[b] # None
          PROVE  /\ proc'[registered'[b]].app = b /\ proc'[registered'[b]].watched
                 /\ proc'[registered'[b]].at \in {"alive", "exited", "reaped"}
      <4>1. CASE b = a
        BY <1>1, <2>2, <2>3, <4>1
      <4>2. CASE b # a
        <5>1. /\ registered'[b] = registered[b] /\ registered[b] \in Procs
              /\ proc[registered[b]].app = b /\ proc[registered[b]].watched
              /\ proc[registered[b]].at \in {"alive", "exited", "reaped"}
          BY <1>0, <2>3, <3>1, <4>2 DEF AppsInv, Mapped, Maps
        <5> QED
          BY <1>1, <2>2, <4>2, <5>1
      <4> QED
        BY <4>1, <4>2
    <3>2. ASSUME NEW q \in Procs
          PROVE  /\ proc'[q].watched => proc'[q].at = "done" \/ registered'[proc'[q].app] = q
                 /\ proc'[q].at \in {"reaped", "done"} => proc'[q].watched
                 /\ proc'[q].at = "none" => ~proc'[q].watched
      <4>1. CASE q = p
        BY <1>1, <2>2, <2>3, <4>1
      <4>2. CASE q # p
        <5>1. /\ proc'[q] = proc[q] /\ proc[q].app \in Apps
              /\ proc[q].watched => proc[q].at = "done" \/ registered[proc[q].app] = q
              /\ proc[q].at \in {"reaped", "done"} => proc[q].watched
              /\ proc[q].at = "none" => ~proc[q].watched
          BY <2>2, <2>5, <4>2 DEF AppsInv, Mapped
        <5>2. registered[proc[q].app] = q => proc[q].app # a
          BY <2>1, Positive
        <5> QED
          BY <2>3, <5>1, <5>2
      <4> QED
        BY <4>1, <4>2
    <3>3. \A b \in Apps : shown'[b] = "running" => registered'[b] # None
      BY <1>1, <2>3, Positive DEF AppsInv, Mapped
    <3> QED
      BY <3>1, <3>2, <3>3 DEF Mapped
  <2>7. \A j \in Callers : HandOK(j)'
    <3>1. HandOK(i)'
      BY <1>2 DEF HandOK, Quietly
    <3>2. ASSUME NEW j \in Callers \ {i} PROVE HandOK(j)'
      <4>1. call'[j] = call[j] /\ HandOK(j) /\ call[j].p \in Procs \cup {None}
            /\ (call[j].at = "register" => call[j].p # p)
        BY <1>0, <1>2, <1>4 DEF AppsInv, Held, Calls, Quietly, Holds
      <4> QED
        BY <2>2, <4>1 DEF HandOK
    <3> QED
      BY <3>1, <3>2
  <2>8. ASSUME NEW q \in Procs, Alive(q)', proc'[q].sig # "kill"
        PROVE  registered'[proc'[q].app] = q \/ \E j \in Callers : Holds(j, q)'
    <3>1. CASE q = p
      BY <2>2, <2>3, <3>1
    <3>2. CASE q # p
      <4>1. proc'[q] = proc[q] /\ Alive(q) /\ ~Holds(i, q)
        BY <2>2, <2>8, <3>2 DEF Alive, Holds
      <4>2. registered[proc[q].app] = q \/ \E j \in Callers : Holds(j, q)
        BY <2>8, <4>1 DEF AppsInv, Held
      <4>3. registered[proc[q].app] = q => proc[q].app # a
        BY <2>1, Positive
      <4> QED
        BY <1>3, <2>3, <2>5, <4>1, <4>2, <4>3
    <3> QED
      BY <3>1, <3>2
  <2>9. Held'
    <3>1. \A j, k \in Callers, q \in Procs : Holds(j, q)' /\ Holds(k, q)' => j = k
      BY <1>3 DEF AppsInv, Held
    <3> QED
      BY <2>7, <2>8, <3>1 DEF Held
  <2> QED
    BY <1>5, <2>4, <2>6, <2>9 DEF AppsInv
<1> QED
  BY <1>6, <1>7

\* A process exits, is waited for and leaves the map.
LEMMA ExitKeeps ==
  ASSUME AppsInv, NEW p \in Procs, Exit(p) \/ Reap(p) \/ Unregister(p)
  PROVE  AppsInv'
<1>0. /\ rows \in Rows /\ Maps /\ proc \in [Procs -> Processes] /\ call \in [Callers -> Calls]
      /\ life \in {"up", "stopping", "off"} /\ calls \in 0..MaxCalls
      /\ UNCHANGED <<rows, call, life, calls>> /\ proc[p].app \in Apps
  BY AppsTypes DEF AppsInv, Exit, Reap, Unregister, Processes
<1>1. /\ proc' \in [Procs -> Processes] /\ \A q \in Procs \ {p} : proc'[q] = proc[q]
      /\ proc'[p].app = proc[p].app /\ (proc'[p].watched <=> proc[p].watched)
      /\ proc'[p].at # "alive" /\ proc'[p].at # "none" /\ proc[p].at # "none"
  <2>1. CASE Exit(p)
    <3>1. PICK ok \in BOOLEAN : proc' = [proc EXCEPT ![p].at = "exited", ![p].ok = ok]
      BY <2>1 DEF Exit
    <3> DEFINE new == [proc[p] EXCEPT !.at = "exited", !.ok = ok]
    <3>2. new \in Processes /\ new.app = proc[p].app /\ new.watched = proc[p].watched
          /\ new.at = "exited"
      BY <1>0 DEF Processes
    <3>3. proc' = [proc EXCEPT ![p] = new]
      BY <1>0, <3>1
    <3> HIDE DEF new
    <3> QED
      BY <1>0, <2>1, <3>2, <3>3 DEF Exit, Alive
  <2>2. CASE Reap(p) \/ Unregister(p)
    BY <1>0, <2>2 DEF Reap, Unregister, Processes
  <2> QED
    BY <2>1, <2>2
<1>2. /\ Exit(p) => proc[p].at = "alive" /\ proc'[p].at = "exited"
      /\ Reap(p) => proc[p].watched /\ proc[p].at = "exited" /\ proc'[p].at = "reaped"
      /\ Unregister(p) => proc[p].at = "reaped" /\ proc[p].watched /\ proc'[p].at = "done"
                          /\ registered[proc[p].app] = p
  <2>1. proc[p].at = "reaped" => proc[p].watched /\ registered[proc[p].app] = p
    BY DEF AppsInv, Mapped
  <2>2. CASE Exit(p)
    <3>1. PICK ok \in BOOLEAN : proc' = [proc EXCEPT ![p].at = "exited", ![p].ok = ok]
      BY <2>2 DEF Exit
    <3> DEFINE new == [proc[p] EXCEPT !.at = "exited", !.ok = ok]
    <3>2. new.at = "exited" /\ proc' = [proc EXCEPT ![p] = new]
      BY <1>0, <3>1 DEF Processes
    <3> HIDE DEF new
    <3>3. proc[p].at = "alive" /\ proc'[p].at = "exited"
      BY <1>0, <2>2, <3>2 DEF Exit, Alive
    <3> QED
      BY <3>3 DEF Reap, Unregister
  <2>3. CASE Reap(p)
    BY <1>0, <2>3 DEF Exit, Reap, Unregister, Alive
  <2>4. CASE Unregister(p)
    BY <1>0, <2>1, <2>4 DEF Exit, Reap, Unregister, Alive
  <2> QED
    BY <2>2, <2>3, <2>4
<1>3. CASE Exit(p) \/ Reap(p)
  <2>0. UNCHANGED <<registered, shown>>
    BY <1>3 DEF Exit, Reap
  <2>1. AppsTypeOK'
    <3>1. Maps' /\ rows' \in Rows
      BY <1>0, <2>0 DEF Maps
    <3> QED
      BY <1>0, <1>1, <3>1 DEF AppsTypeOK, Maps, Rows, Processes, Calls
  <2>2. Mapped'
    BY <1>0, <1>1, <1>2, <1>3, <2>0 DEF AppsInv, Mapped, Maps
  <2>3. ASSUME NEW j \in Callers PROVE HandOK(j)'
    <3>1. call'[j] = call[j] /\ HandOK(j) /\ call[j].p \in Procs \cup {None}
      BY <1>0 DEF AppsInv, Held, Calls
    <3> QED
      BY <1>1, <1>2, <1>3, <3>1 DEF HandOK
  <2>4. Held'
    BY <1>0, <1>1, <2>0, <2>3 DEF AppsInv, Held, Holds, Alive
  <2>5. Unhalted'
    BY <1>0 DEF AppsInv, Unhalted
  <2> QED
    BY <2>1, <2>2, <2>4, <2>5 DEF AppsInv
<1>4. CASE Unregister(p)
  <2> DEFINE a == proc[p].app
  <2>1. /\ registered' = [registered EXCEPT ![a] = None]
        /\ shown' = [shown EXCEPT ![a] = IF proc[p].ok THEN "stopped" ELSE "failed"]
    BY <1>2, <1>4 DEF Unregister, Forgotten
  <2>2. /\ Maps' /\ registered'[a] = None /\ shown'[a] # "running"
        /\ \A b \in Apps \ {a} : registered'[b] = registered[b] /\ shown'[b] = shown[b]
    BY <1>0, <2>1 DEF Maps
  <2>3. AppsTypeOK'
    <3>1. rows' \in Rows
      BY <1>0
    <3> QED
      BY <1>0, <1>1, <2>2, <3>1 DEF AppsTypeOK, Maps, Rows, Processes, Calls
  <2>4. \A q \in Procs : proc[q].app \in Apps
    BY <1>0 DEF Processes
  <2>5. Mapped'
    <3>1. ASSUME NEW b \in Apps, registered'[b] # None
          PROVE  /\ proc'[registered'[b]].app = b /\ proc'[registered'[b]].watched
                 /\ proc'[registered'[b]].at \in {"alive", "exited", "reaped"}
      <4>1. b # a /\ registered'[b] = registered[b] /\ registered[b] \in Procs
        BY <1>0, <2>2, <3>1 DEF Maps
      <4>2. /\ proc[registered[b]].app = b /\ proc[registered[b]].watched
            /\ proc[registered[b]].at \in {"alive", "exited", "reaped"}
        BY <3>1, <4>1 DEF AppsInv, Mapped
      <4> QED
        BY <1>1, <4>1, <4>2
    <3>2. ASSUME NEW q \in Procs
          PROVE  /\ proc'[q].watched => proc'[q].at = "done" \/ registered'[proc'[q].app] = q
                 /\ proc'[q].at \in {"reaped", "done"} => proc'[q].watched
                 /\ proc'[q].at = "none" => ~proc'[q].watched
      <4>1. CASE q = p
        BY <1>1, <1>2, <1>4, <4>1
      <4>2. CASE q # p
        <5>1. /\ proc'[q] = proc[q] /\ proc[q].app \in Apps
              /\ proc[q].watched => proc[q].at = "done" \/ registered[proc[q].app] = q
              /\ proc[q].at \in {"reaped", "done"} => proc[q].watched
              /\ proc[q].at = "none" => ~proc[q].watched
          BY <1>1, <2>4, <4>2 DEF AppsInv, Mapped
        <5>2. registered[proc[q].app] = q => proc[q].app # a
          BY <1>2, <1>4, <4>2
        <5> QED
          BY <2>2, <5>1, <5>2
      <4> QED
        BY <4>1, <4>2
    <3>3. \A b \in Apps : shown'[b] = "running" => registered'[b] # None
      BY <2>2 DEF AppsInv, Mapped
    <3> QED
      BY <3>1, <3>2, <3>3 DEF Mapped
  <2>6. ASSUME NEW j \in Callers PROVE HandOK(j)'
    <3>1. call'[j] = call[j] /\ HandOK(j) /\ call[j].p \in Procs \cup {None}
      BY <1>0 DEF AppsInv, Held, Calls
    <3> QED
      BY <1>1, <1>2, <1>4, <3>1 DEF HandOK
  <2>7. ASSUME NEW q \in Procs, Alive(q)', proc'[q].sig # "kill"
        PROVE  registered'[proc'[q].app] = q \/ \E j \in Callers : Holds(j, q)'
    <3>1. q # p /\ proc'[q] = proc[q] /\ Alive(q) /\ proc[q].sig # "kill"
      BY <1>1, <2>7 DEF Alive
    <3>2. registered[proc[q].app] = q \/ \E j \in Callers : Holds(j, q)
      BY <3>1 DEF AppsInv, Held
    <3>3. registered[proc[q].app] = q => proc[q].app # a
      BY <1>2, <1>4, <3>1
    <3> QED
      BY <1>0, <2>2, <2>4, <3>1, <3>2, <3>3 DEF Holds
  <2>8. Held'
    BY <1>0, <2>6, <2>7 DEF AppsInv, Held, Holds
  <2>9. Unhalted'
    BY <1>0 DEF AppsInv, Unhalted
  <2> QED
    BY <2>3, <2>5, <2>8, <2>9 DEF AppsInv
<1> QED
  BY <1>3, <1>4

LEMMA AppsStepInv == ASSUME AppsInv, [AppsNext]_appVars PROVE AppsInv'
<1>1. CASE UNCHANGED appVars
  BY <1>1 DEF appVars, AppsInv, AppsTypeOK, Mapped, Held, HandOK, Holds, Alive, Unhalted
<1>2. ASSUME NEW i \in Callers, Step(i) PROVE AppsInv'
  BY <1>2, CallersKeep, SpawnKeeps, RegisterKeeps DEF Step
<1> QED
  BY <1>1, <1>2, BeginningsKeep, ExitKeeps DEF AppsNext

LEMMA AppsInvariant == AppsSpec => []AppsInv
BY AppsInitInv, AppsStepInv, PTL DEF AppsSpec

\* Rows, maps, processes and callers keep their types (appruntime/manager.go).
THEOREM AppsTypeCorrect == AppsSpec => []AppsTypeOK
<1>1. AppsInv => AppsTypeOK
  BY DEF AppsInv
<1> QED
  BY <1>1, AppsInvariant, PTL

\* However many starts, stops, deletions, exits and shutdowns race, no process
\* lives on unknown to the manager, and no application is shown as running
\* without one (appruntime/manager.go: Start, Stop, wait).
THEOREM AccountedHolds == AppsSpec => []Accounted
BY AppsInvariant, AppsInvImplies, PTL

=============================================================================
