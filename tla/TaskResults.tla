----------------------------- MODULE TaskResults -----------------------------
(* When a task of Nabu's own counts as done (runner/results.go, operator/    *)
(* script_context.go, finishTaskRun in operator/operator.go). The report is  *)
(* searched in what Codex printed; a browser check that the task calls for   *)
(* is left to a verifier of the owner, whose word is printed behind Codex's  *)
(* and found like a report; a verdict is passed on the evidence, the writes  *)
(* of the report are applied, the definition of done is marked, and files    *)
(* that are reports to the owner are promoted (operator/reports.go); what a  *)
(* crash left out is promoted by the next start.                             *)
(*                                                                           *)
(* One attempt at a time, and Mark reads and writes the row in one step:     *)
(* what two owners and outdated copies of a row do is TaskQueue, how writes  *)
(* are applied Datasets and LocalApps. A text is its normalized form.        *)
EXTENDS Naturals, Sequences, FiniteSets, SequencesExt

CONSTANTS
  Texts,          \* items of a definition of done
  BrowserTexts,   \* those that browserVerificationText recognizes
  RowTexts,       \* those that taskRequiresDatasetRows recognizes
  Definitions,    \* definitions a task may have: sequences of texts
  Inventories,    \* sequences of enabled scripts of the workspace
  Outputs,        \* what Codex prints: sequences of reports
  Files,          \* files of the workspace that are reports to the owner
  MaxWrites,      \* MaxRunDatasetWrites
  MaxAttempts, MaxEdits, MaxStarts

ASSUME TextsAreKnown ==
  /\ BrowserTexts \cup RowTexts \subseteq Texts /\ Definitions \subseteq Seq(Texts)
  /\ {MaxWrites, MaxAttempts, MaxEdits, MaxStarts} \subseteq Nat

VARIABLES
  row,       \* the row: status, items of its definition
  plan,      \* taskScriptPlan, and the row as it was claimed
  printed,   \* the reports in the run's output, in order
  place,     \* idle, codex, verify, judge, apply, settle, mark, promote
  verdict,   \* the status and the report it was passed on
  witness,   \* what became of this attempt's browser check (history)
  attached,  \* SetAutomation has been called
  artifacts, \* of the task, of all its attempts: the paths of reports
  readable,  \* files that are there
  reports,   \* how many reports of the task have a file's path
  steady,    \* no file came or went since reports were promoted (history)
  deleted,   \* files whose report the owner deleted since (history)
  attempts, edits, starts

attemptVars == <<plan, printed, verdict, witness, attempts>>
outputVars == <<artifacts, readable, reports, steady, deleted>>
resultVars == <<row, place, attached, edits, starts, attemptVars, outputVars>>

NoScript == "no script"
Unmarked(text) == [text |-> text, completed |-> FALSE, failed |-> FALSE]
Items(d) == [k \in DOMAIN d |-> Unmarked(d[k])]
NoPlan == [browser |-> FALSE, rows |-> FALSE, mcp |-> FALSE, verifier |-> NoScript]
NoVerdict == [status |-> "none", report |-> << >>]

ResultTypeOK ==
  /\ row.status \in {"ready", "running", "completed", "failed", "cancelled", "needs_approval"}
  /\ \A k \in DOMAIN row.items :
       row.items[k] \in [text : Texts, completed : BOOLEAN, failed : BOOLEAN]
  /\ DOMAIN plan = DOMAIN NoPlan
  /\ place \in {"idle", "codex", "verify", "judge", "apply", "settle", "mark", "promote"}
  /\ verdict.status \in {"none", "completed", "failed", "cancelled", "needs_approval"}
  /\ witness \in {"none", "deferred", "unattended", "passed", "failed"}
  /\ attempts \in 0..MaxAttempts /\ edits \in 0..MaxEdits /\ starts \in 0..MaxStarts
  /\ \A k \in DOMAIN artifacts : artifacts[k] \in [file : Files, plain : BOOLEAN]
  /\ {readable, deleted} \subseteq SUBSET Files /\ reports \in [Files -> Nat]
  /\ {attached, steady} \subseteq BOOLEAN

------------------------------------------------------------------------------
(* Reports: a status, whether there is a summary, checks (about something    *)
(* other than the browser, or mentioning it, or in words that count as a     *)
(* browser check; told if name and details are given), outcomes of the       *)
(* definition, whether an approval is asked for, whether files were changed, *)
(* artifacts that are reports (a path is plain if it is the file's own in    *)
(* the workspace, not an absolute one or one through a link), dataset        *)
(* writes, applications, and rows among the writes that read like a report.  *)

\* normalizeDatasetWrite: what a write has to bring and may not bring.
WellFormedWrite(w) ==
  CASE w.operation = "create_dataset" ->
         "dataset" \in w.has /\ "dataset_id" \notin w.has /\ ~({"rows", "rows_file"} \subseteq w.has)
    [] w.operation = "upsert_rows" ->
         /\ "dataset_id" \in w.has /\ "dataset" \notin w.has
         /\ "rows" \in w.has <=> "rows_file" \notin w.has
    [] w.operation = "update_row" ->
         /\ {"dataset_id", "row_id", "values"} \subseteq w.has
         /\ {"dataset", "rows", "rows_file"} \cap w.has = {}
    [] w.operation = "delete_row" -> w.has = {"dataset_id", "row_id"}
    [] OTHER -> FALSE

\* normalizeLocalAppRegistration
WellFormedApp(a) == a.directory = "repos" /\ a.command = "program" /\ a.port \in 1024..65535

\* normalizeRunResult accepts the object.
Understood(r) ==
  /\ r.status \in {"completed", "failed", "needs_approval", "cancelled"} /\ r.summary
  /\ \A k \in DOMAIN r.outcomes : r.outcomes[k].status \in {"passed", "failed", "not_run"}
  /\ Len(r.writes) <= MaxWrites
  /\ \A k \in DOMAIN r.writes : WellFormedWrite(r.writes[k])
  /\ \A k \in DOMAIN r.apps : WellFormedApp(r.apps[k])

\* extractJSONObjects, of Codex's messages: each object, then those in it, and
\* one that was seen before keeps its first place.
Places(said) == UNION {{k} \X (0..Len(said[k].rows)) : k \in DOMAIN said}
ObjectAt(said, p) == IF p[2] = 0 THEN said[p[1]] ELSE said[p[1]].rows[p[2]]
Earlier(p, q) == p[1] < q[1] \/ (p[1] = q[1] /\ p[2] < q[2])
IsFirst(said, p) == \A q \in Places(said) : Earlier(q, p) => ObjectAt(said, q) # ObjectAt(said, p)

\* ParseRunResult: the last object that is understood.
Found(said) == {p \in Places(said) : IsFirst(said, p) /\ Understood(ObjectAt(said, p))}
LastFound(said) == CHOOSE p \in Found(said) : \A q \in Found(said) : ~Earlier(p, q)
ParseRunResult(said) == ObjectAt(said, LastFound(said))

\* hasPassedBrowserVerification
BrowserPassed(r) ==
  \E c \in r.checks : c.about = "verifies" /\ c.status = "passed"

\* removeDelegatedBrowserChecks
Undelegated(r) == [r EXCEPT !.checks = {c \in @ : c.about = "other"}]

\* hasDurableNonBrowserOutcome
Durable(r) == r.kept \/ r.artifacts # << >> \/ r.writes # << >> \/ r.apps # << >>

Check(status) == [about |-> "verifies", status |-> status, told |-> TRUE]
WithCheck(r, status) == [r EXCEPT !.checks = @ \cup {Check(status)}]

\* browserVerificationDeferred, browserVerificationFailure, or the verifier has
\* passed: it may bring artifacts of its own.
Deferred(r) == WithCheck(r, "not_run")
BrowserFailed(r) == [WithCheck(r, "failed") EXCEPT !.status = "failed"]
Brought == {<< >>} \cup {<<[file |-> f, plain |-> TRUE]>> : f \in Files}
Confirmed(r, more) == [WithCheck(r, "passed") EXCEPT !.artifacts = @ \o more]

Words(r) == {Deferred(r), BrowserFailed(r)} \cup {Confirmed(r, more) : more \in Brought}

\* Of reports, checks and outcomes; any other word is "other". Objects are
\* looked at two deep.
Statuses == {"completed", "failed", "needs_approval", "cancelled", "passed", "not_run", "other"}
ReportsWith(rows) ==
  [status : Statuses, summary : BOOLEAN, asks : BOOLEAN, kept : BOOLEAN,
   checks : SUBSET [about : {"other", "mentions", "verifies"}, status : Statuses, told : BOOLEAN],
   outcomes : Seq([text : STRING, status : Statuses]),
   artifacts : Seq([file : Files, plain : BOOLEAN]),
   writes : Seq([operation : STRING, has : SUBSET STRING]),
   apps : Seq([directory : STRING, command : STRING, port : Nat]), rows : rows]
Reports == ReportsWith(Seq(ReportsWith({<< >>})))

ASSUME OutputsAreReports == Outputs \subseteq Seq(Reports)

\* What becomes of a report is in Nabu's words, with what the verifier said:
\* Codex has not printed it before.
ASSUME WordIsNew ==
  \A said \in Outputs : Found(said) # {} =>
    \A w \in Words(Undelegated(ParseRunResult(said))) :
      w = ParseRunResult(said) \/ \A p \in Places(said) : ObjectAt(said, p) # w

\* verificationPassed
VerificationPassed(checks) ==
  /\ \A c \in checks : c.told /\ c.status \in {"passed", "not_run"}
  /\ \E c \in checks : c.status = "passed"

\* resultIncludesDatasetRows
IncludesRows(r) ==
  \E k \in DOMAIN r.writes : /\ r.writes[k].operation \in {"upsert_rows", "create_dataset"}
                             /\ r.writes[k].has \cap {"rows", "rows_file"} # {}

------------------------------------------------------------------------------
(* One attempt: runTask, finishTaskRun.                                      *)

Mentions(texts) == \E k \in DOMAIN row.items : row.items[k].text \in texts

\* The only verifier, or the first one that the task names.
BrowserVerifier(scripts) ==
  LET verifiers == SelectSeq(scripts, LAMBDA s : s.access = "read" /\ s.verifier)
      fit == SelectSeq(verifiers, LAMBDA s : Len(verifiers) = 1 \/ s.named)
  IN IF fit = << >> THEN NoScript ELSE Head(fit).id

\* taskScriptContext
Claim ==
  /\ place = "idle" /\ row.status = "ready" /\ attempts < MaxAttempts
  /\ row' = [row EXCEPT !.status = "running"]
  /\ \E scripts \in Inventories, mcp \in BOOLEAN :
       plan' = [browser |-> Mentions(BrowserTexts), rows |-> Mentions(RowTexts),
                mcp |-> mcp /\ Mentions(BrowserTexts),
                verifier |-> IF Mentions(BrowserTexts) THEN BrowserVerifier(scripts) ELSE NoScript]
  /\ place' = "codex" /\ attempts' = attempts + 1
  /\ printed' = << >> /\ verdict' = NoVerdict /\ witness' = "none"
  /\ UNCHANGED <<attached, edits, starts, outputVars>>

\* The attempt ends here: the definition is left as it was.
Rejected == row' = [row EXCEPT !.status = "failed"] /\ place' = "idle"

Fail ==
  /\ place = "codex" /\ Rejected
  /\ UNCHANGED <<attached, edits, starts, attemptVars, outputVars>>

\* applyTaskBrowserVerification looks at the report, or lets it pass.
Delegated(said) ==
  /\ plan.browser /\ Found(said) # {}
  /\ ParseRunResult(said).status = "completed"
  /\ ~(plan.mcp /\ BrowserPassed(ParseRunResult(said)))

Finish ==
  /\ place = "codex"
  /\ \E said \in Outputs :
       printed' = said /\ place' = IF Delegated(said) THEN "verify" ELSE "judge"
  /\ UNCHANGED <<row, attached, edits, starts, plan, verdict, witness, attempts, outputVars>>

\* Mutant of Replaced: the verifier's word is put before Codex's.
ReplacedFirst(r) == <<r>> \o printed

\* replaceTaskResult
Replaced(r) == Append(printed, r)

Verify ==
  /\ place = "verify" /\ place' = "judge"
  /\ LET r == Undelegated(ParseRunResult(printed))
     IN \/ /\ plan.verifier = NoScript \/ ~attached
           /\ printed' = Replaced(IF Durable(r) THEN Deferred(r) ELSE BrowserFailed(r))
           /\ witness' = IF attached THEN "deferred" ELSE "unattended"
        \/ /\ plan.verifier # NoScript /\ attached
           /\ \/ /\ witness' = "passed"
                 /\ \E more \in Brought : printed' = Replaced(Confirmed(r, more))
              \/ witness' = "failed" /\ printed' = Replaced(BrowserFailed(r))
  /\ UNCHANGED <<row, attached, edits, starts, plan, verdict, attempts, outputVars>>

\* The status that finishTaskRun derives from the report.
Judged(r) ==
  CASE r.status = "needs_approval" \/ r.asks -> "needs_approval"
    [] r.status # "completed" -> r.status
    [] ~VerificationPassed(r.checks) -> "failed"
    [] plan.rows /\ ~IncludesRows(r) -> "failed"
    [] OTHER -> "completed"

\* Artifacts are stored whatever the verdict is.
Judge ==
  /\ place = "judge"
  /\ IF Found(printed) = {}
     THEN Rejected /\ UNCHANGED <<verdict, artifacts>>
     ELSE LET r == ParseRunResult(printed)
          IN /\ verdict' = [status |-> Judged(r), report |-> r]
             /\ artifacts' = artifacts \o r.artifacts
             /\ place' = IF Judged(r) = "completed" THEN "apply" ELSE "settle"
             /\ UNCHANGED row
  /\ UNCHANGED <<attached, edits, starts, plan, printed, witness, attempts,
                 readable, reports, steady, deleted>>

\* applyTaskDatasetWrites and applyTaskLocalApps: one refusal fails the task.
Apply ==
  /\ place = "apply"
  /\ \/ place' = "settle" /\ UNCHANGED row
     \/ (verdict.report.writes # << >> \/ verdict.report.apps # << >>) /\ Rejected
  /\ UNCHANGED <<attached, edits, starts, attemptVars, outputVars>>

\* UpdateTaskStatus, or CreateApproval
Settle ==
  /\ place = "settle" /\ place' = "mark"
  /\ row' = [row EXCEPT !.status = verdict.status]
  /\ UNCHANGED <<attached, edits, starts, attemptVars, outputVars>>

\* The outcome of an item: by its text (the last one), else by its place.
Outcome(k, item) ==
  LET outcomes == verdict.report.outcomes
      named == {j \in DOMAIN outcomes : outcomes[j].text = item.text}
      last == CHOOSE j \in named : \A i \in named : i <= j
  IN IF named # {} THEN outcomes[last].status
     ELSE IF k \in DOMAIN outcomes THEN outcomes[k].status ELSE "none"

\* Mutant of Marked: a failure stays when the item passes later.
MarkedForGood(k, item) ==
  [item EXCEPT !.completed = verdict.status = "completed" \/ Outcome(k, item) = "passed",
               !.failed = @ \/ Outcome(k, item) = "failed" \/ verdict.status = "failed"]

\* applyDefinitionOutcomes
Marked(k, item) ==
  LET outcome == Outcome(k, item)
      done == \/ verdict.status = "completed" \/ outcome = "passed"
              \/ item.completed /\ outcome # "failed"
  IN [item EXCEPT !.completed = done,
        !.failed = ~done /\ (outcome = "failed" \/ verdict.status = "failed")]

Mark ==
  /\ place = "mark"
  /\ place' = IF verdict.status = "completed" THEN "promote" ELSE "idle"
  /\ row' = [row EXCEPT !.items = [k \in DOMAIN @ |-> Marked(k, @[k])]]
  /\ UNCHANGED <<attached, edits, starts, attemptVars, outputVars>>

\* readReportArtifact
Readable(p) == p.file \in readable

\* Mutant of Unreported: reports that are there are not looked at.
UnreportedAnew(paths) == ToSet(paths)

\* promoteTaskReports: by path, unless a report has this very path. The path of
\* a report is its file's own.
Unreported(paths) == {p \in ToSet(paths) : ~(p.plain /\ reports[p.file] > 0)}
PromoteTaskReports(paths) ==
  LET new == {p \in Unreported(paths) : Readable(p)}
  IN /\ reports' = [f \in Files |-> reports[f] + Cardinality({p \in new : p.file = f})]
     /\ deleted' = deleted \ {p.file : p \in new}
     /\ steady' = TRUE

Promote ==
  /\ place = "promote" /\ place' = "idle"
  /\ PromoteTaskReports(verdict.report.artifacts)
  /\ UNCHANGED <<row, attached, edits, starts, attemptVars, artifacts, readable>>

------------------------------------------------------------------------------
(* The owner: tries again, approves, edits the definition at any time, and   *)
(* deletes reports; files come and go; the daemon ends and starts again.     *)

Requeue ==
  /\ place \in {"idle", "mark"} /\ row.status \in {"failed", "cancelled", "needs_approval"}
  /\ row' = [row EXCEPT !.status = "ready"]
  /\ UNCHANGED <<place, attached, edits, starts, attemptVars, outputVars>>

EditDefinition ==
  /\ edits < MaxEdits /\ edits' = edits + 1
  /\ \E d \in Definitions : row' = [row EXCEPT !.items = Items(d)]
  /\ UNCHANGED <<place, attached, starts, attemptVars, outputVars>>

DeleteReport ==
  /\ edits < MaxEdits /\ edits' = edits + 1
  /\ \E f \in Files : /\ reports[f] > 0
                      /\ reports' = [reports EXCEPT ![f] = @ - 1]
                      /\ deleted' = deleted \cup {f}
  /\ UNCHANGED <<row, place, attached, starts, attemptVars, artifacts, readable, steady>>

FilesChange ==
  /\ edits < MaxEdits /\ edits' = edits + 1
  /\ \E f \in Files :
       readable' = IF f \in readable THEN readable \ {f} ELSE readable \cup {f}
  /\ steady' = FALSE
  /\ UNCHANGED <<row, place, attached, starts, attemptVars, artifacts, reports, deleted>>

\* RecoverInterrupted and ReconcileReports run before the workers, which start
\* before the engine that runs scripts is attached.
Restart ==
  /\ starts < MaxStarts /\ starts' = starts + 1
  /\ place' = "idle" /\ attached' = FALSE
  /\ IF row.status = "running"
     THEN row' = [row EXCEPT !.status = "ready"] /\ UNCHANGED <<reports, deleted, steady>>
     ELSE /\ UNCHANGED row
          /\ IF row.status = "completed" THEN PromoteTaskReports(artifacts)
             ELSE UNCHANGED <<reports, deleted, steady>>
  /\ UNCHANGED <<edits, attemptVars, artifacts, readable>>

SetAutomation ==
  /\ ~attached /\ attached' = TRUE
  /\ UNCHANGED <<row, place, edits, starts, attemptVars, outputVars>>

ResultInit ==
  /\ \E d \in Definitions : row = [status |-> "ready", items |-> Items(d)]
  /\ plan = NoPlan /\ printed = << >> /\ place = "idle" /\ verdict = NoVerdict
  /\ witness = "none" /\ attached = FALSE /\ attempts = 0 /\ edits = 0 /\ starts = 0
  /\ artifacts = << >> /\ readable = Files /\ reports = [f \in Files |-> 0]
  /\ steady = TRUE /\ deleted = {}

ResultNext ==
  \/ Claim \/ Fail \/ Finish \/ Verify \/ Judge \/ Apply \/ Settle \/ Mark \/ Promote
  \/ Requeue \/ EditDefinition \/ DeleteReport \/ FilesChange \/ Restart \/ SetAutomation

ResultSpec == ResultInit /\ [][ResultNext]_resultVars

------------------------------------------------------------------------------
(* Properties.                                                               *)

\* What Codex itself printed.
Own == IF witness = "none" THEN printed ELSE Front(printed)

Good(checks) == \A c \in checks : c.told /\ c.status # "failed"
Passes(checks) == \E c \in checks : c.status = "passed"

\* The report of Codex bears a completed task out, with what became of the
\* browser check.
Earned(r) ==
  LET checks == IF witness = "none" THEN r.checks ELSE Undelegated(r).checks
  IN /\ Understood(r) /\ r.status = "completed" /\ ~r.asks
     /\ plan.rows => IncludesRows(r)
     /\ Good(checks)
     /\ CASE witness = "none" -> Passes(checks) /\ (plan.browser => plan.mcp /\ BrowserPassed(r))
          [] witness = "deferred" -> plan.verifier = NoScript /\ Passes(checks) /\ Durable(r)
          [] witness = "unattended" -> Passes(checks) /\ Durable(r)
          [] witness = "passed" -> plan.verifier # NoScript
          [] witness = "failed" -> FALSE

\* A task is completed on evidence of this very attempt: Codex printed a report
\* that says so, asks for nothing, has the rows the task calls for and no check
\* that failed; and a browser check that the task calls for was seen to pass by
\* Codex's browser or by the owner's verifier, after Codex was done. Only where
\* no verifier could run something else that lasts and passed will do.
VerdictIsEarned ==
  /\ ResultTypeOK
  /\ row.status = "completed" => \E p \in Places(Own) : Earned(ObjectAt(Own, p))

\* What is told of an item, by its text or by its place.
Told(k, item) ==
  LET outcomes == verdict.report.outcomes
  IN {outcomes[j].status : j \in {i \in DOMAIN outcomes : i = k \/ outcomes[i].text = item.text}}

ItemAgrees(k, old, new) ==
  /\ ~(new.completed /\ new.failed)
  /\ verdict.status = "completed" => new.completed
  /\ verdict.status = "failed" => new.completed \/ new.failed
  /\ new.failed => verdict.status = "failed" \/ "failed" \in Told(k, old)
  /\ new.completed =>
       \/ verdict.status = "completed" \/ "passed" \in Told(k, old)
       \/ old.completed /\ Told(k, old) # {"failed"}

\* What a verdict leaves of the definition, through attempts and edits of it:
\* nothing is open under a completed task, a failed one says of each item
\* whether it stands or failed, and what stands or failed under a verdict that
\* does not settle it was reported so, or stood before and was not reported
\* failed.
MarksAgree ==
  [][place = "mark" /\ place' # "mark" /\ starts' = starts =>
       \A k \in DOMAIN row.items : ItemAgrees(k, row.items[k], row'.items[k])]_resultVars

\* A completed task has a report of every report file that it produced and that
\* is there, wherever a crash hit the end of its run, and it has one only,
\* however often it was tried, its reports were deleted and the daemon started,
\* as long as nobody calls the file by another path.
ReportsKept ==
  /\ place = "idle" /\ row.status = "completed" /\ steady =>
       \A p \in ToSet(verdict.report.artifacts) :
         p.file \in readable \ deleted => reports[p.file] > 0
  /\ \A f \in Files : (\A p \in ToSet(artifacts) : p.file = f => p.plain) => reports[f] <= 1
=============================================================================
