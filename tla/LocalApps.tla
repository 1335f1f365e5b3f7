----------------------------- MODULE LocalApps -----------------------------
(* The local applications an owner registers, and the processes Nabu runs    *)
(* for them: the manager of appruntime/manager.go with its two maps under    *)
(* one mutex, the rows of store/local_apps.go, and the handlers of           *)
(* operator/local_apps.go and task_local_apps.go that move both.             *)
(*                                                                           *)
(* The manager lets go of its mutex between looking at the map and filling   *)
(* it, and a process takes its own time to exit and to be waited for; every  *)
(* such gap is a step here. A caller is one HTTP handler, chat effect or     *)
(* task worker; "auto" is the goroutine that starts the auto-start apps with *)
(* the daemon, "halt" the daemon's own stop.                                 *)
EXTENDS Naturals, FiniteSets

CONSTANTS
  Apps,        \* identifiers of registrations; a deleted one is not used again
  Handlers,    \* concurrent handlers
  MaxProcs,    \* processes ever spawned
  MaxCalls     \* requests a behaviour makes

ASSUME AppsExist == Apps # {}
ASSUME NamesApart == {"auto", "halt"} \cap Handlers = {}
ASSUME CountsAreNumbers == {MaxProcs, MaxCalls} \subseteq Nat

VARIABLES
  rows,        \* the local_apps table
  registered,  \* Manager.processes
  shown,       \* Manager.last: the status of an application that is not in the map
  proc,        \* the operating system's processes
  call,        \* what each caller is doing
  life,        \* whether the daemon takes requests; "off" without a manager
  calls        \* requests made so far

appVars == <<rows, registered, shown, proc, call, life, calls>>

None == 0
Procs == 1..MaxProcs
Callers == Handlers \cup {"auto", "halt"}
Ops == {"create", "register", "update", "delete", "start", "stop", "restart"}
Idle == [at |-> "idle", op |-> "none", app |-> CHOOSE a \in Apps : TRUE, p |-> None, todo |-> {}]

LiveRow(a) == rows[a].at = "live"
Alive(p) == proc[p].at = "alive"
Status(a) == IF registered[a] # None THEN "running" ELSE shown[a]

AppsTypeOK ==
  /\ rows \in [Apps -> [at : {"none", "live", "gone"}, auto : BOOLEAN]]
  /\ registered \in [Apps -> Procs \cup {None}]
  /\ shown \in [Apps -> {"stopped", "failed", "running"}]
  /\ proc \in [Procs -> [at : {"none", "alive", "exited", "reaped", "done"}, app : Apps,
                         sig : {"none", "int", "kill"}, watched : BOOLEAN, ok : BOOLEAN]]
  /\ call \in [Callers ->
       [at : {"idle", "look", "list", "insert", "check", "spawn", "register",
              "stop", "interrupt", "await", "late", "edit", "erase", "next"},
        op : Ops \cup {"none", "auto", "halt"}, app : Apps, p : Procs \cup {None},
        todo : SUBSET Apps]]
  /\ life \in {"up", "stopping", "off"}
  /\ calls \in 0..MaxCalls

------------------------------------------------------------------------------
(* A caller's moves.                                                         *)

Goes(i, at) == call' = [call EXCEPT ![i].at = at]

\* A request ends; the auto starter and the halt go on to their next application.
Over(i) ==
  call' = [call EXCEPT ![i] =
    IF call[i].op \in {"auto", "halt"}
    THEN [call[i] EXCEPT !.at = "next", !.todo = @ \ {call[i].app}, !.p = None]
    ELSE Idle]

\* Stop returned without an error.
Stopped(i) ==
  CASE call[i].op = "restart" -> Goes(i, "check")
    [] call[i].op = "delete" -> Goes(i, "erase")
    [] OTHER -> Over(i)

\* (mutant) Only the first signal of a process is sent.
SignalOnce(p, s) ==
  proc' = [proc EXCEPT ![p].sig = IF ~Alive(p) \/ @ # "none" THEN @ ELSE s]

Signal(p, s) ==
  proc' = [proc EXCEPT ![p].sig =
    IF ~Alive(p) \/ @ = "kill" THEN @ ELSE s]

------------------------------------------------------------------------------
(* Requests and rows.                                                        *)

\* A request that finds no row (activeLocalApp, GetLocalAppForWorkspace) ends
\* there. applyTaskLocalApps lists the registrations: an exact replay is done,
\* whether or not the application runs, and one that differs fails.
Request(i, op, a) ==
  /\ i \in Handlers /\ call[i].at = "idle" /\ life = "up" /\ calls < MaxCalls
  /\ CASE op = "create" -> TRUE [] op = "register" -> ~LiveRow(a) [] OTHER -> LiveRow(a)
  /\ calls' = calls + 1
  /\ call' = [call EXCEPT ![i] = [Idle EXCEPT !.op = op, !.app = a,
       !.at = CASE op \in {"create", "register"} -> "insert"
                [] op = "start" -> "check"
                [] op \in {"stop", "restart"} -> "stop"
                [] OTHER -> "look"]]
  /\ UNCHANGED <<rows, registered, shown, proc, life>>

\* UpdateLocalApp refuses a running application, DeleteLocalApp stops it first.
Look(i) ==
  /\ call[i].at = "look"
  /\ IF call[i].op = "update"
     THEN IF Status(call[i].app) = "running" THEN Over(i) ELSE Goes(i, "edit")
     ELSE Goes(i, IF Status(call[i].app) = "running" THEN "stop" ELSE "erase")
  /\ UNCHANGED <<rows, registered, shown, proc, life, calls>>

\* The folder, the command or the health path is refused, or the name or port
\* is taken.
Refused(i) == Over(i) /\ UNCHANGED rows

\* What matters of a row's fields is auto_start.
WriteRow(a, auto) ==
  rows' = IF LiveRow(a) THEN [rows EXCEPT ![a].auto = auto] ELSE rows

UpdateLocalApp(i) ==
  /\ call[i].at = "edit"
  /\ \/ Refused(i)
     \/ \E auto \in BOOLEAN : WriteRow(call[i].app, auto) /\ Over(i)
  /\ UNCHANGED <<registered, shown, proc, life, calls>>

DropRow(a) == rows' = IF LiveRow(a) THEN [rows EXCEPT ![a].at = "gone"] ELSE rows

DeleteLocalApp(i) ==
  /\ call[i].at = "erase"
  /\ DropRow(call[i].app)
  /\ Over(i)
  /\ UNCHANGED <<registered, shown, proc, life, calls>>

InsertRow(a, auto) ==
  /\ rows[a].at = "none"
  /\ rows' = [rows EXCEPT ![a] = [at |-> "live", auto |-> auto]]

\* A task's new application with auto_start is started by the task, without
\* reading the row again.
CreateLocalApp(i) ==
  /\ call[i].at = "insert"
  /\ \/ Refused(i)
     \/ \E auto \in BOOLEAN :
          /\ InsertRow(call[i].app, auto)
          /\ IF call[i].op = "register" /\ auto THEN Goes(i, "check") ELSE Over(i)
  /\ UNCHANGED <<registered, shown, proc, life, calls>>

------------------------------------------------------------------------------
(* Manager.Start.                                                            *)

Check(i) ==
  /\ call[i].at = "check"
  /\ IF registered[call[i].app] # None THEN Over(i) ELSE Goes(i, "spawn")
  /\ UNCHANGED <<rows, registered, shown, proc, life, calls>>

\* The port is taken, the executable or the log is missing.
CannotRun(i) == Over(i) /\ UNCHANGED proc

Spawn(i) ==
  /\ call[i].at = "spawn"
  /\ \/ CannotRun(i)
     \/ \E p \in Procs :
          /\ proc[p].at = "none" /\ \A q \in 1..(p - 1) : proc[q].at # "none"
          /\ proc' = [proc EXCEPT ![p] = [@ EXCEPT !.at = "alive", !.app = call[i].app]]
          /\ call' = [call EXCEPT ![i].at = "register", ![i].p = p]
  /\ UNCHANGED <<rows, registered, shown, life, calls>>

\* Under the mutex again: the first to come is registered and watched, another
\* one is killed.
\* (mutant) Start does not look at the map a second time.
TakenUnseen(i) == i \notin Callers

Taken(i) == registered[call[i].app] # None

Register(i) ==
  /\ call[i].at = "register"
  /\ IF Taken(i) THEN Signal(call[i].p, "kill") /\ UNCHANGED <<registered, shown>>
     ELSE /\ registered' = [registered EXCEPT ![call[i].app] = call[i].p]
          /\ shown' = [shown EXCEPT ![call[i].app] = "running"]
          /\ proc' = [proc EXCEPT ![call[i].p].watched = TRUE]
  /\ Over(i)
  /\ UNCHANGED <<rows, life, calls>>

------------------------------------------------------------------------------
(* The process, and Manager.wait.                                            *)

Exit(p) ==
  /\ Alive(p)
  /\ \E ok \in IF proc[p].sig = "kill" THEN {FALSE} ELSE BOOLEAN :
       proc' = [proc EXCEPT ![p].at = "exited", ![p].ok = ok]
  /\ UNCHANGED <<rows, registered, shown, call, life, calls>>

\* command.Wait returns: from now on a signal finds no process.
Reap(p) ==
  /\ proc[p].at = "exited" /\ proc[p].watched
  /\ proc' = [proc EXCEPT ![p].at = "reaped"]
  /\ UNCHANGED <<rows, registered, shown, call, life, calls>>

\* The entry leaves the map with its final status; done is closed.
Forgotten(p) ==
  IF registered[proc[p].app] = p
  THEN /\ registered' = [registered EXCEPT ![proc[p].app] = None]
       /\ shown' = [shown EXCEPT ![proc[p].app] = IF proc[p].ok THEN "stopped" ELSE "failed"]
  ELSE UNCHANGED <<registered, shown>>

Unregister(p) ==
  /\ proc[p].at = "reaped"
  /\ proc' = [proc EXCEPT ![p].at = "done"]
  /\ Forgotten(p)
  /\ UNCHANGED <<rows, call, life, calls>>

------------------------------------------------------------------------------
(* Manager.Stop, with the deadline of its caller: five seconds for a         *)
(* handler, the shutdown's for the daemon.                                   *)

StopFind(i) ==
  /\ call[i].at = "stop"
  /\ IF registered[call[i].app] = None THEN Stopped(i)
     ELSE call' = [call EXCEPT ![i].at = "interrupt", ![i].p = registered[call[i].app]]
  /\ UNCHANGED <<rows, registered, shown, proc, life, calls>>

\* kill(2) on a process that was already waited for is an error, and so is Stop.
Interrupt(i) ==
  /\ call[i].at = "interrupt"
  /\ IF proc[call[i].p].at \in {"reaped", "done"} THEN Over(i) /\ UNCHANGED proc
     ELSE Signal(call[i].p, "int") /\ Goes(i, "await")
  /\ UNCHANGED <<rows, registered, shown, life, calls>>

StopDone(i) ==
  /\ call[i].at \in {"await", "late"} /\ proc[call[i].p].at = "done"
  /\ Stopped(i)
  /\ UNCHANGED <<rows, registered, shown, proc, life, calls>>

\* The process takes no notice of the interrupt until the caller's deadline.
Deadline(i) ==
  /\ call[i].at = "await" /\ proc[call[i].p].at # "done"
  /\ Signal(call[i].p, "kill")
  /\ Goes(i, "late")
  /\ UNCHANGED <<rows, registered, shown, life, calls>>

\* Two seconds after the kill the process is still not waited for: an error.
GiveUp(i) ==
  /\ call[i].at = "late" /\ proc[call[i].p].at # "done"
  /\ Over(i)
  /\ UNCHANGED <<rows, registered, shown, proc, life, calls>>

------------------------------------------------------------------------------
(* The daemon's start and stop.                                              *)

\* startAutoApps lists the applications once.
ListAuto ==
  /\ call["auto"].at = "list"
  /\ call' = [call EXCEPT !["auto"].at = "next",
       !["auto"].todo = IF life = "up" THEN {a \in Apps : LiveRow(a) /\ rows[a].auto} ELSE {}]
  /\ UNCHANGED <<rows, registered, shown, proc, life, calls>>

\* The server is shut down and the workers have left their loops, so no handler
\* is under way; nobody waits for the auto starter.
Halt ==
  /\ life = "up" /\ \A i \in Handlers : call[i].at = "idle"
  /\ life' = "stopping"
  /\ call' = [call EXCEPT !["halt"] = [Idle EXCEPT !.op = "halt", !.at = "next",
                 !.todo = {a \in Apps : registered[a] # None}]]
  /\ UNCHANGED <<rows, registered, shown, proc, calls>>

\* The auto starter reads the row of each application once more; its context
\* ends with the daemon.
NextApp(i) ==
  /\ call[i].at = "next"
  /\ IF call[i].todo = {} THEN Goes(i, "idle")
     ELSE \E a \in call[i].todo :
       call' = [call EXCEPT ![i] =
         IF i = "auto" /\ ~(LiveRow(a) /\ life = "up") THEN [call[i] EXCEPT !.todo = @ \ {a}]
         ELSE [call[i] EXCEPT !.app = a, !.at = IF i = "halt" THEN "stop" ELSE "check"]]
  /\ UNCHANGED <<rows, registered, shown, proc, life, calls>>

------------------------------------------------------------------------------
AppsInit ==
  /\ life \in {"up", "off"}
  /\ rows \in [Apps -> {[at |-> "none", auto |-> FALSE], [at |-> "live", auto |-> TRUE]}]
  /\ registered = [a \in Apps |-> None]
  /\ shown = [a \in Apps |-> "stopped"]
  /\ proc = [p \in Procs |-> [at |-> "none", app |-> Idle.app, sig |-> "none",
                              watched |-> FALSE, ok |-> TRUE]]
  /\ call = [[i \in Callers |-> Idle] EXCEPT !["auto"] =
               [Idle EXCEPT !.op = "auto", !.at = IF life = "up" THEN "list" ELSE "idle"]]
  /\ calls = 0

\* What a caller does without waiting for a process.
Step(i) ==
  \/ Look(i) \/ UpdateLocalApp(i) \/ DeleteLocalApp(i) \/ CreateLocalApp(i)
  \/ Check(i) \/ Spawn(i) \/ Register(i)
  \/ StopFind(i) \/ Interrupt(i) \/ StopDone(i) \/ Deadline(i) \/ GiveUp(i)
  \/ NextApp(i)

AppsNext ==
  \/ \E i \in Handlers, op \in Ops, a \in Apps : Request(i, op, a)
  \/ \E i \in Callers : Step(i)
  \/ \E p \in Procs : Exit(p) \/ Reap(p) \/ Unregister(p)
  \/ ListAuto \/ Halt

\* Goroutines run and deadlines pass. A process need not exit by itself, nor on
\* an interrupt; a killed one does.
AppsFairness ==
  /\ \A i \in Callers : WF_appVars(Step(i))
  /\ \A p \in Procs :
       WF_appVars((proc[p].sig = "kill" /\ Exit(p)) \/ Reap(p) \/ Unregister(p))

AppsSpec == AppsInit /\ [][AppsNext]_appVars /\ AppsFairness

------------------------------------------------------------------------------
(* Two starts of one application both see it stopped, and both spawn; stops  *)
(* and exits race them. Still every process that is not condemned is the one *)
(* registered for its application, or in the hands of the start that will    *)
(* register or kill it: no process outlives the manager's memory of it. And  *)
(* an application without a process is not shown as running.                 *)
Accounted ==
  /\ \A p \in Procs : Alive(p) /\ proc[p].sig # "kill" =>
       \/ registered[proc[p].app] = p
       \/ \E i \in Callers : call[i].at = "register" /\ call[i].p = p
  /\ \A a \in Apps : Status(a) = "running" =>
       registered[a] # None /\ proc[registered[a]].app = a
                            /\ proc[registered[a]].at # "done"

\* A process that someone set out to stop ends, one that ignores the interrupt
\* too, whatever else happens to its application meanwhile.
StopsEnd ==
  \A p \in Procs : [](proc[p].sig # "none" => <>~Alive(p))
=============================================================================
