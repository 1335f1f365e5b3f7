------------------------------- MODULE Vault -------------------------------
(* Secrets: a record in the store (store/secrets.go), the value in the       *)
(* operating system's vault (credentials), the connectors and scripts that   *)
(* name the record, and the runs that are given the value                    *)
(* (operator/secrets.go, mcp.go, mcp_runtime.go, automation/script.go).      *)
(*                                                                           *)
(* The store and the vault share no transaction, and a request reads, writes *)
(* the one and then the other. A value is modelled by the record it was      *)
(* entered for. One workspace; its deletion is part of Orientation.          *)
EXTENDS Naturals, FiniteSets

CONSTANTS
  Records,     \* identifiers of secret records; a deleted one is not used again
  Names,       \* names of secrets
  Envs,        \* environment variables of bindings
  Bindings,    \* bindings that requests ask for: partial functions, variable to record
  Servers,     \* MCP connectors
  Handlers,    \* concurrent requests
  MaxRequests  \* requests a behaviour makes

ASSUME RequestsAreCounted == MaxRequests \in Nat
ASSUME BindingsBind ==
  << >> \in Bindings /\ Bindings \subseteq UNION {[E -> Records] : E \in SUBSET Envs}

VARIABLES
  secretRow,  \* secret_records
  vault,      \* the vault: which record the value under a key was entered for
  server,     \* mcp_servers with their mcp_secret_bindings
  bound,      \* script_credential_bindings of the one script
  request,    \* the requests under way
  launch,     \* one run that is being started
  requests    \* requests made so far

vaultVars == <<secretRow, vault, server, bound, request, launch, requests>>

None == "none"
Script == "script"
ASSUME NoneIsNoRecord == None \notin Records
NoServer == [at |-> "none", enabled |-> TRUE, required |-> FALSE, bind |-> << >>]
Free == [at |-> "idle", op |-> None, name |-> None, record |-> None, filled |-> FALSE,
         server |-> None, copy |-> NoServer]
NoLaunch == [at |-> "idle", seen |-> << >>, unread |-> {}, left |-> {}, now |-> None,
             mine |-> {}, args |-> {}, given |-> {}]

VaultTypeOK ==
  /\ secretRow \in [Records -> [at : {"none", "live", "gone"}, name : Names \cup {None}]]
  /\ vault \in [Records -> Records \cup {None}]
  /\ server \in [Servers -> [at : {"none", "live", "gone"}, enabled : BOOLEAN, required : BOOLEAN, bind : Bindings]]
  /\ DOMAIN bound \subseteq Envs /\ \A e \in DOMAIN bound : bound[e] \in Records
  /\ \A i \in Handlers : request[i].at \in
       {"idle", "list", "insert", "rename", "put", "drop", "delete", "erase", "save"}
  /\ launch.at \in {"idle", "next", "get", "failed", "launched"}
  /\ requests \in 0..MaxRequests

Known(r) == secretRow[r].at = "live"

\* secretRef: a value is kept under the record's reference key, which is its
\* identifier and never changes.
Ref(r) == r

NameTaken(n, r) == \E o \in Records \ {r} : Known(o) /\ secretRow[o].name = n
RowsOf(b) == {b[e] : e \in DOMAIN b}
Restricted(r) == \E s \in Servers : server[s].at = "live" /\ r \in RowsOf(server[s].bind)

------------------------------------------------------------------------------
(* Requests.                                                                 *)

To(i, at) == request' = [request EXCEPT ![i].at = at]
Done(i) == request' = [request EXCEPT ![i] = Free]

\* Requests are alike: the next one is served by any handler that is free.
Serves(i) == request[i] = Free /\ i = CHOOSE j \in Handlers : request[j] = Free

\* CreateSecret comes with a value; Chat's card is createSecretRecordForWorkspace.
Ask(i, op) ==
  /\ requests < MaxRequests
  /\ requests' = requests + 1
  /\ \/ /\ op \in {"create", "card"}
        /\ \E n \in Names, filled \in IF op = "create" THEN BOOLEAN ELSE {FALSE} :
             request' = [request EXCEPT ![i] =
               [Free EXCEPT !.at = "list", !.op = op, !.name = n, !.filled = filled]]
     \/ /\ op = "update"   \* of the label: the name is written as it was read
        /\ \E r \in Records, n \in Names \cup {None}, filled \in BOOLEAN :
             /\ Known(r) /\ (n # None \/ filled)
             /\ request' = [request EXCEPT ![i] =
                  [Free EXCEPT !.at = IF n = None THEN "put" ELSE "rename", !.op = op,
                               !.name = n, !.record = r, !.filled = filled]]
     \/ /\ op = "delete"
        /\ \E r \in Records :
             /\ Known(r)
             /\ request' = [request EXCEPT ![i] =
                  [Free EXCEPT !.at = "delete", !.op = op, !.record = r]]
     \/ /\ op \in {"connect", "edit"}
        /\ \E s \in Servers :
             /\ server[s].at = IF op = "edit" THEN "live" ELSE "none"
             /\ request' = [request EXCEPT ![i] =
                  [Free EXCEPT !.at = "save", !.op = op, !.server = s, !.copy = server[s]]]
  /\ UNCHANGED <<secretRow, vault, server, bound, launch>>

\* A record of that name is used again, whoever made it.
Find(i) ==
  /\ request[i].at = "list"
  /\ \/ \E r \in Records :
          /\ Known(r) /\ secretRow[r].name = request[i].name
          /\ IF request[i].op = "card" THEN Done(i)
             ELSE request' = [request EXCEPT ![i].record = r,
                    ![i].at = IF request[i].filled THEN "put" ELSE "drop"]
     \/ ~NameTaken(request[i].name, None) /\ To(i, "insert")
  /\ UNCHANGED <<secretRow, vault, server, bound, launch, requests>>

CreateSecretRecord(i) ==
  /\ request[i].at = "insert"
  /\ IF NameTaken(request[i].name, None) THEN Done(i) /\ UNCHANGED secretRow
     ELSE LET r == CHOOSE x \in Records : secretRow[x].at = None
          IN /\ \E x \in Records : secretRow[x].at = None
             /\ secretRow' = [secretRow EXCEPT ![r] = [at |-> "live", name |-> request[i].name]]
             /\ IF request[i].op = "card" THEN Done(i)
                ELSE request' = [request EXCEPT ![i].record = r,
                       ![i].at = IF request[i].filled THEN "put" ELSE "drop"]
  /\ UNCHANGED <<vault, server, bound, launch, requests>>

UpdateSecretRecord(i) ==
  /\ request[i].at = "rename"
  /\ IF ~Known(request[i].record) \/ NameTaken(request[i].name, request[i].record)
     THEN Done(i) /\ UNCHANGED secretRow
     ELSE /\ secretRow' = [secretRow EXCEPT ![request[i].record].name = request[i].name]
          /\ IF request[i].filled THEN To(i, "put") ELSE Done(i)
  /\ UNCHANGED <<vault, server, bound, launch, requests>>

\* The vault may be locked, or refuse. It does not know whether the record is
\* still there.
PutValue(i) ==
  /\ request[i].at = "put"
  /\ \/ /\ vault' = [vault EXCEPT ![Ref(request[i].record)] = request[i].record]
        /\ Done(i)
     \/ /\ IF request[i].op = "create" THEN To(i, "drop") ELSE Done(i)
        /\ UNCHANGED vault
  /\ UNCHANGED <<secretRow, server, bound, launch, requests>>

\* Deleting a record takes its script bindings along (ON DELETE CASCADE) and
\* fails while a connector names it (ON DELETE RESTRICT).
\* (mutant) A connector's binding does not hold its record back.
Unrestricted(r) == Known(r)

Deletable(r) == Known(r) /\ ~Restricted(r)

DropRecord(r) ==
  /\ secretRow' = [secretRow EXCEPT ![r].at = "gone"]
  /\ bound' = [e \in {x \in DOMAIN bound : bound[x] # r} |-> bound[e]]

\* A creation that fails deletes the record it used, its own or not.
Withdraw(i) ==
  /\ request[i].at = "drop"
  /\ IF Deletable(request[i].record) THEN DropRecord(request[i].record)
     ELSE UNCHANGED <<secretRow, bound>>
  /\ Done(i)
  /\ UNCHANGED <<vault, server, launch, requests>>

DeleteSecret(i) ==
  /\ request[i].at = "delete"
  /\ IF Deletable(request[i].record) THEN DropRecord(request[i].record) /\ To(i, "erase")
     ELSE Done(i) /\ UNCHANGED <<secretRow, bound>>
  /\ UNCHANGED <<vault, server, launch, requests>>

\* A failure leaves the value behind: it is only logged.
EraseValue(i) ==
  /\ request[i].at = "erase"
  /\ \/ vault' = [vault EXCEPT ![Ref(request[i].record)] = None]
     \/ UNCHANGED vault
  /\ Done(i)
  /\ UNCHANGED <<secretRow, server, bound, launch, requests>>

\* applyMCPInput: what the request leaves out comes from the row it has read.
Applied(copy) ==
  {[copy EXCEPT !.at = "live", !.bind = b] : b \in Bindings} \cup
  {[copy EXCEPT !.at = "live", !.enabled = ~@], [copy EXCEPT !.at = "live", !.required = ~@]}

\* The bindings are looked up in the transaction that writes them.
Bindable(b) == \A r \in RowsOf(b) : Known(r)

SaveServer(i) ==
  /\ request[i].at = "save"
  /\ \/ \E e \in Applied(request[i].copy) :
          /\ Bindable(e.bind)
          /\ server[request[i].server].at = IF request[i].op = "edit" THEN "live" ELSE "none"
          /\ server' = [server EXCEPT ![request[i].server] = e]
     \/ UNCHANGED server
  /\ Done(i)
  /\ UNCHANGED <<secretRow, vault, bound, launch, requests>>

\* DeleteMCPServer; the bindings go with the server.
DeleteServer(s) ==
  /\ server[s].at = "live" /\ requests < MaxRequests
  /\ requests' = requests + 1
  /\ server' = [server EXCEPT ![s] = [NoServer EXCEPT !.at = "gone"]]
  /\ UNCHANGED <<secretRow, vault, bound, request, launch>>

\* SetScriptCredentialBindings: one transaction.
SetScriptBindings(b) ==
  /\ requests < MaxRequests /\ requests' = requests + 1
  /\ Bindable(b)
  /\ bound' = b
  /\ UNCHANGED <<secretRow, vault, server, request, launch>>

------------------------------------------------------------------------------
(* The start of a run: of Codex with the enabled connectors, or of a script. *)

Fail == launch' = [NoLaunch EXCEPT !.at = "failed"]
NowSeen == launch.seen[launch.now]

\* ListMCPServers reads the rows, then the bindings of each.
ListMCPServers ==
  /\ launch.at = "idle"
  /\ LET on == {s \in Servers : server[s].at = "live" /\ server[s].enabled}
     IN launch' = [NoLaunch EXCEPT !.at = "next", !.seen = [s \in on |-> server[s]],
                                   !.unread = on, !.left = on]
  /\ UNCHANGED <<secretRow, vault, server, bound, request, requests>>

ListBindings(s) ==
  /\ launch.at = "next" /\ s \in launch.unread
  /\ launch' = [launch EXCEPT !.seen[s].bind = server[s].bind, !.unread = @ \ {s}]
  /\ UNCHANGED <<secretRow, vault, server, bound, request, requests>>

\* loadScriptSecrets: every binding is required.
ReadScript ==
  /\ launch.at = "idle"
  /\ launch' = [NoLaunch EXCEPT !.at = "next", !.left = {Script},
       !.seen = [s \in {Script} |-> [NoServer EXCEPT !.required = TRUE, !.bind = bound]]]
  /\ UNCHANGED <<secretRow, vault, server, bound, request, requests>>

\* An optional connector that cannot be used is left out.
SkipServer(s) ==
  IF launch.seen[s].required THEN Fail ELSE launch' = [launch EXCEPT !.left = @ \ {s}]

NextServer(s) ==
  /\ launch.at = "next" /\ launch.unread = {} /\ s \in launch.left
  /\ \/ launch' = [launch EXCEPT !.at = "get", !.now = s]
     \/ s # Script /\ SkipServer(s)   \* uses OAuth, and is not signed in
  /\ UNCHANGED <<secretRow, vault, server, bound, request, requests>>

\* (mutant) A connector left out keeps the secrets gathered for it.
DropKept == [launch EXCEPT !.at = "next", !.left = @ \ {launch.now}, !.given = @ \cup launch.mine]

DropServer == [launch EXCEPT !.at = "next", !.left = @ \ {launch.now}, !.now = None, !.mine = {}]

\* An environment variable of an earlier connector ends the start.
Duplicate(e) == \E g \in launch.given : g[1] = e

GetValue(e) ==
  /\ launch.at = "get"
  /\ e \in DOMAIN NowSeen.bind /\ ~\E m \in launch.mine : m[1] = e
  /\ LET value == vault[Ref(NowSeen.bind[e])]
     IN \/ Fail                                   \* the vault is locked, or refuses
        \/ Duplicate(e) /\ Fail
        \/ /\ ~Duplicate(e) /\ value # None
           /\ launch' = [launch EXCEPT !.mine = @ \cup {<<e, value>>}]
        \/ /\ ~Duplicate(e) /\ value = None
           /\ IF NowSeen.required THEN Fail ELSE launch' = DropServer
  /\ UNCHANGED <<secretRow, vault, server, bound, request, requests>>

TakeServer ==
  /\ launch.at = "get" /\ {m[1] : m \in launch.mine} = DOMAIN NowSeen.bind
  /\ launch' = [launch EXCEPT !.at = "next", !.left = @ \ {launch.now}, !.now = None, !.mine = {},
                              !.args = @ \cup {launch.now}, !.given = @ \cup launch.mine]
  /\ UNCHANGED <<secretRow, vault, server, bound, request, requests>>

Launch ==
  /\ launch.at = "next" /\ launch.left = {}
  /\ launch' = [launch EXCEPT !.at = "launched"]
  /\ UNCHANGED <<secretRow, vault, server, bound, request, requests>>

------------------------------------------------------------------------------

VaultInit ==
  \E known, filled \in SUBSET Records, names \in [Records -> Names] :
    /\ \A r, o \in known : r # o => names[r] # names[o]
    /\ filled \subseteq known
    /\ secretRow = [r \in Records |-> IF r \in known THEN [at |-> "live", name |-> names[r]]
                                     ELSE [at |-> "none", name |-> None]]
    /\ vault = [r \in Records |-> IF r \in filled THEN r ELSE None]
    /\ \E b \in [Servers -> Bindings] :
         /\ \A s \in Servers : RowsOf(b[s]) \subseteq known
         /\ server \in [Servers -> {NoServer} \cup
              [at : {"live"}, enabled : {TRUE}, required : BOOLEAN, bind : Bindings]]
         /\ \A s \in Servers : server[s].bind = b[s]
    /\ bound \in {b \in Bindings : RowsOf(b) \subseteq known}
    /\ request = [i \in Handlers |-> Free]
    /\ launch = NoLaunch /\ requests = 0

\* The steps of CreateSecret, which ends in PutValue as UpdateSecret does.
CreateSecret(i) == Find(i) \/ CreateSecretRecord(i) \/ Withdraw(i)
UpdateSecret(i) == UpdateSecretRecord(i) \/ PutValue(i)

Requesting ==
  \/ \E i \in Handlers :
       \/ /\ Serves(i)
          /\ \E op \in {"create", "card", "update", "delete", "connect", "edit"} : Ask(i, op)
       \/ CreateSecret(i) \/ UpdateSecret(i)
       \/ DeleteSecret(i) \/ EraseValue(i) \/ SaveServer(i)
  \/ \E s \in Servers : DeleteServer(s)
  \/ \E b \in Bindings : SetScriptBindings(b)

\* mcpRuntime, from its list on.
Gather ==
  \/ \E s \in Servers : ListBindings(s)
  \/ \E s \in Servers \cup {Script} : NextServer(s)
  \/ \E e \in Envs : GetValue(e)
  \/ TakeServer

Launching == ListMCPServers \/ ReadScript \/ Gather \/ Launch

VaultNext == Requesting \/ Launching
VaultSpec == VaultInit /\ [][VaultNext]_vaultVars

------------------------------------------------------------------------------
(* Properties.                                                               *)

\* A run that has started has every required connector it saw, and exactly the
\* values bound to the connectors it has: none of one that was left out, no
\* variable twice, and under each the value entered for the bound record, over
\* renamings, deletions and new records of an old name in between.
RunHasAll ==
  launch.at = "launched" =>
    /\ \A s \in DOMAIN launch.seen : launch.seen[s].required => s \in launch.args
    /\ launch.given = UNION {{<<e, launch.seen[s].bind[e]>> : e \in DOMAIN launch.seen[s].bind} :
                             s \in launch.args}
    /\ \A g, h \in launch.given : g[1] = h[1] => g = h

\* What connectors and scripts name exists, and no two records have a name:
\* whatever a deletion, a withdrawn creation and a new binding do to one
\* another, and whoever used the record that a failed creation withdraws.
BindingsHold ==
  /\ \A s \in Servers : \A r \in RowsOf(server[s].bind) : Known(r)
  /\ \A r \in RowsOf(bound) : Known(r)
  /\ \A r, o \in Records :
       r # o /\ Known(r) /\ Known(o) => secretRow[r].name # secretRow[o].name
=============================================================================
