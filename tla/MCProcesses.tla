---------------------------- MODULE MCProcesses ----------------------------
\* Two kinds of child processes that have nothing in common but the operating
\* system: local applications, or one supervised run. A behaviour is about one.
EXTENDS LocalApps, ProcessRuns

all == <<appVars, runVars>>

MCInit ==
  /\ AppsInit /\ RunsInit
  /\ run.at = "absent" <=> life = "up"
  /\ run.at = "absent" => run.kind = "codex" /\ run.max = 1 /\ secrets = "none"
  /\ life = "off" => rows = [a \in Apps |-> [at |-> "none", auto |-> FALSE]]
MCNext == (AppsNext /\ UNCHANGED runVars) \/ (RunsNext /\ UNCHANGED appVars)
MCSpec == MCInit /\ [][MCNext]_all /\ AppsFairness /\ RunsFairness

\* A stop, a deletion or a shutdown of applications comes to its end, and so
\* does a supervised run, whatever the child processes do.
ProcessesEnd == StopsEnd /\ RunsEnd
=============================================================================
