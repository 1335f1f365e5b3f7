---------------------------- MODULE ProcessRuns ----------------------------
(* One supervised run of a child process: Codex (runner/supervisor.go, Run   *)
(* and runAttempt) or a registered script (scriptrunner/runner.go, Run).     *)
(*                                                                           *)
(* The deadline and the caller's cancellation are one context over all the   *)
(* attempts of a run; it ends at any moment, also between the supervisor's   *)
(* looks at it. The child exits when it likes, or not at all: an interrupted *)
(* one may ignore SIGTERM. What a child printed matters only as far as the   *)
(* retry decision reads it.                                                  *)
EXTENDS Naturals, Sequences

CONSTANT MaximumAttempts   \* maximumAttempts; a request may ask for fewer
ASSUME AttemptsAreCapped == MaximumAttempts \in 1..2

VARIABLES
  run,      \* the run: its kind, its place in the code, its attempts
  ctx,      \* the run's context
  child,    \* the child process of the current attempt
  secrets,  \* the credential buffers of the request
  attempts  \* ExecutionResult.Attempts, with what each child was given

runVars == <<run, ctx, child, secrets, attempts>>

\* How a child ends: the exit codes, signals and markers that
\* DefaultRetryDecider tells apart.
Transient == {"unavailable", "crashed", "flaky"}
Permanent == {"missing", "refused", "wrong", "terminated"}
Endings == {"ok"} \cup Transient \cup Permanent
Final == {"completed", "failed", "cancelled", "timed_out"}
NoChild == [at |-> "none", how |-> "ok", sig |-> "none"]

RunsTypeOK ==
  /\ run \in [kind : {"codex", "script"}, max : 1..MaximumAttempts, n : 0..MaximumAttempts,
              at : {"absent", "prepare", "attempt", "start", "running", "ending", "killing",
                    "settle", "decide", "delay", "returned"},
              status : Final \cup {"running", "refused"}]
  /\ ctx \in {"live", "cancelled", "timed_out"}
  /\ child \in [at : {"none", "alive", "exited"}, how : Endings, sig : {"none", "term", "kill"}]
  /\ secrets \in {"none", "held", "wiped"}
  /\ Len(attempts) <= MaximumAttempts
  /\ \A k \in 1..Len(attempts) :
       attempts[k] \in [status : Final, how : Endings, given : {"none", "held", "wiped"}]

Wiped(s) == IF s = "none" THEN s ELSE "wiped"
Codex == run.kind = "codex"

\* statusFromContext.
FromContext == ctx

------------------------------------------------------------------------------
(* The context: its timeout, and the caller that cancels it.                 *)

Expire ==
  /\ run.at \notin {"absent", "prepare", "returned"} /\ ctx = "live"
  /\ ctx' = "timed_out"
  /\ UNCHANGED <<run, child, secrets, attempts>>

Cancel ==
  /\ run.at \notin {"absent", "returned"} /\ ctx = "live"
  /\ ctx' = "cancelled"
  /\ UNCHANGED <<run, child, secrets, attempts>>

------------------------------------------------------------------------------
(* An attempt.                                                               *)

\* Folder, script path and command are checked before anything starts; the
\* deferred destroy wipes the buffers.
Refuse ==
  /\ run' = [run EXCEPT !.at = "returned", !.status = "refused"]
  /\ secrets' = Wiped(secrets)

\* The name of a credential is reserved or used twice, its value is unfit.
Unfit == secrets = "held" /\ Refuse

Prepare ==
  /\ run.at = "prepare"
  /\ \/ run' = [run EXCEPT !.at = "attempt", !.n = 1] /\ UNCHANGED secrets
     \/ Refuse \/ Unfit
  /\ UNCHANGED <<ctx, child, attempts>>

Recorded(status, how) == Append(attempts, [status |-> status, how |-> how, given |-> secrets])

\* (mutant) The buffers are wiped, the attempts stay.
WipeOnly(s) ==
  /\ secrets' = Wiped(secrets)
  /\ run' = [run EXCEPT !.at = "decide", !.status = s]

\* After an attempt of Codex the buffers are gone, so there is no other one.
Wipe(s) ==
  /\ secrets' = Wiped(secrets)
  /\ run' = [run EXCEPT !.at = "decide", !.status = s, !.max = IF secrets = "none" THEN @ ELSE 1]

\* runAttempt looks at the context first; the script runner does not.
BeginAttempt ==
  /\ run.at = "attempt"
  /\ IF Codex /\ ctx # "live"
     THEN /\ attempts' = Recorded(FromContext, "wrong")
          /\ Wipe(FromContext)
     ELSE /\ run' = [run EXCEPT !.at = "start"]
          /\ UNCHANGED <<secrets, attempts>>
  /\ UNCHANGED <<ctx, child>>

\* command.Start fails, for good ("missing") or for a moment ("flaky"), or the
\* child runs. The script runner drops the secrets at once.
Start ==
  /\ run.at = "start"
  /\ \/ \E how \in {"missing", "flaky"} :
          /\ attempts' = Recorded("failed", how)
          /\ IF Codex THEN Wipe("failed")
             ELSE /\ run' = [run EXCEPT !.at = "returned", !.status = "failed"]
                  /\ secrets' = Wiped(secrets)
          /\ UNCHANGED child
     \/ /\ child' = [NoChild EXCEPT !.at = "alive"]
        /\ run' = [run EXCEPT !.at = "running"]
        /\ attempts' = Recorded("failed", "wrong")
        /\ secrets' = IF Codex THEN secrets ELSE Wiped(secrets)
  /\ UNCHANGED ctx

\* The child, and command.Wait that hands its end to `done`.
ChildExits ==
  /\ child.at = "alive"
  /\ \E how \in CASE child.sig = "kill" -> {"terminated"}
                  [] child.sig = "term" -> {"terminated", "ok", "wrong"}
                  [] OTHER -> Endings \ {"missing"} :
       child' = [child EXCEPT !.at = "exited", !.how = how]
  /\ UNCHANGED <<run, ctx, secrets, attempts>>

Kill(s) == child' = [child EXCEPT !.sig = IF child.at = "alive" THEN s ELSE @]

\* The select: `done`, or the context; both may be ready.
Collect ==
  /\ run.at \in {"running", "killing"} \/ (run.at = "ending" /\ Codex)
  /\ child.at = "exited"
  /\ run' = [run EXCEPT !.at = "settle"]
  /\ UNCHANGED <<ctx, child, secrets, attempts>>

\* terminateProcessGroup: SIGTERM to the group, unless `done` is there already.
Terminate ==
  /\ run.at = "running" /\ ctx # "live"
  /\ run' = [run EXCEPT !.at = IF Codex /\ child.at = "exited" THEN "settle" ELSE "ending"]
  /\ Kill("term")
  /\ UNCHANGED <<ctx, secrets, attempts>>

\* The grace is over: SIGKILL. A script gets it after 100 ms in any case.
GraceEnds ==
  /\ run.at = "ending"
  /\ run' = [run EXCEPT !.at = "killing"]
  /\ Kill("kill")
  /\ UNCHANGED <<ctx, secrets, attempts>>

\* What can be wrong with a script that ended: its logs cannot be written, or
\* its structured result is unsupported.
Flaws == IF Codex THEN {"none"} ELSE {"none", "logs", "result"}

\* The verdict: a script's logs first, then the context, then the exit, then, for
\* a script, its structured result.
Verdict(flaw) ==
  IF flaw = "logs" THEN "failed"
  ELSE IF ctx # "live" THEN FromContext
  ELSE IF child.how # "ok" \/ flaw = "result" THEN "failed" ELSE "completed"

Settle ==
  /\ run.at = "settle"
  /\ \E flaw \in Flaws :
       /\ attempts' = [attempts EXCEPT ![Len(attempts)].status = Verdict(flaw),
                                       ![Len(attempts)].how = child.how]
       /\ IF Codex THEN Wipe(Verdict(flaw))
          ELSE /\ run' = [run EXCEPT !.at = "returned", !.status = Verdict(flaw)]
               /\ UNCHANGED secrets
  /\ child' = NoChild
  /\ UNCHANGED ctx

------------------------------------------------------------------------------
(* The retry.                                                                *)

\* DefaultRetryDecider.
RetryDecider(attempt) ==
  attempt.status \notin {"cancelled", "timed_out"} /\ attempt.how \in Transient

Decide ==
  /\ run.at = "decide"
  /\ run' = [run EXCEPT !.at =
       IF \/ run.status = "completed" \/ run.n = run.max \/ ctx # "live"
          \/ ~RetryDecider(attempts[Len(attempts)])
       THEN "returned" ELSE "delay"]
  /\ UNCHANGED <<ctx, child, secrets, attempts>>

\* waitForRetry: the timer or the context.
RetryDelay ==
  /\ run.at = "delay"
  /\ \/ run' = [run EXCEPT !.at = "attempt", !.n = @ + 1]
     \/ ctx # "live" /\ run' = [run EXCEPT !.at = "returned", !.status = FromContext]
  /\ UNCHANGED <<ctx, child, secrets, attempts>>

------------------------------------------------------------------------------
RunsInit ==
  /\ run \in [kind : {"codex", "script"}, max : 1..MaximumAttempts, n : {0},
              at : {"absent", "prepare"}, status : {"running"}]
  /\ run.kind = "script" => run.max = 1
  /\ ctx = "live"
  /\ child = NoChild
  /\ secrets \in {"none", "held"}
  /\ attempts = << >>

RunStep ==
  \/ Prepare \/ BeginAttempt \/ Start \/ Collect \/ Terminate \/ GraceEnds \/ Settle
  \/ Decide \/ RetryDelay

RunsNext == RunStep \/ ChildExits \/ Expire \/ Cancel

\* The supervisor runs on, its timers fire, and a killed child dies. The owner
\* need not cancel, and the child need not end.
RunsFairness ==
  /\ WF_runVars(RunStep)
  /\ WF_runVars(Expire)
  /\ WF_runVars(child.sig = "kill" /\ ChildExits)

RunsSpec == RunsInit /\ [][RunsNext]_runVars /\ RunsFairness

------------------------------------------------------------------------------
(* "The supervisor always caps execution at two attempts and never retries   *)
(* cancellation or timeout": the context may end at any point of the first   *)
(* attempt, the decision and the delay. A second child follows only a first  *)
(* that failed by itself, in a way that looks transient; no child is started *)
(* with credentials that were wiped; and a run returns with the verdict of   *)
(* its last child, or its context, and leaves no child behind.               *)
RetryIsSafe ==
  /\ Len(attempts) <= 2
  /\ \A k \in 1..Len(attempts) : attempts[k].given # "wiped"
  /\ \A k \in 1..(Len(attempts) - 1) :
       attempts[k].status = "failed" /\ attempts[k].how \in Transient
  /\ run.at = "returned" =>
       /\ child.at = "none" /\ secrets # "held"
       /\ run.status = "completed" => attempts[Len(attempts)].how = "ok"
       /\ run.status \in {"cancelled", "timed_out"} => ctx = run.status

\* A run ends, whether or not its child does, and however late the child takes
\* notice of the signals.
RunsEnd == <>(run.at \in {"absent", "returned"})
=============================================================================
