----------------------------- MODULE StoreProofs -----------------------------
\* Proofs about three parts of the store, for any number of records, connectors
\* and requests (Vault), of notes, decisions and editors (MemoryUpdates), of
\* tasks, workspaces, edits and prerequisites (TaskDependencies).
EXTENDS Vault, MemoryUpdates, TaskDependencies, FiniteSetTheorems, TLAPS

------------------------------------------------------------------------------
(* Vault.                                                                    *)

\* The invariant. First, what the rows, values and requests are.
Binds == UNION {[E -> Records] : E \in SUBSET Envs}
SecretRows == [at : {"none", "live", "gone"}, name : Names \cup {None}]
ServerRows == [at : {"none", "live", "gone"}, enabled : BOOLEAN, required : BOOLEAN, bind : Bindings]
Requests ==
  [at : {"idle", "list", "insert", "rename", "put", "drop", "delete", "erase", "save"},
   op : {"create", "card", "update", "delete", "connect", "edit", None},
   name : Names \cup {None}, record : Records \cup {None}, filled : BOOLEAN,
   server : Servers \cup {None}, copy : ServerRows]
Typed ==
  /\ secretRow \in [Records -> SecretRows] /\ vault \in [Records -> Records \cup {None}]
  /\ server \in [Servers -> ServerRows] /\ bound \in Binds
  /\ request \in [Handlers -> Requests] /\ requests \in 0..MaxRequests

\* A value is kept under the record it was entered for, and a request knows the
\* record or the connector it is about.
RequestOK(q) ==
  /\ q.at \in {"rename", "put", "drop", "delete", "erase"} => q.record \in Records
  /\ q.at \in {"list", "insert", "rename"} => q.name \in Names
  /\ q.at = "save" => q.server \in Servers
Placed ==
  /\ \A r \in Records : vault[r] \in {r, None}
  /\ \A i \in Handlers : RequestOK(request[i])

\* A connector that is not there names nothing.
Dropped == \A s \in Servers : server[s].at # "live" => server[s].bind = << >>

StoreInv == Typed /\ Placed /\ Dropped /\ BindingsHold

LEMMA Shapes ==
  /\ NoServer \in ServerRows /\ NoServer.at = "none" /\ NoServer.bind = << >>
  /\ Free \in Requests /\ RequestOK(Free)
  /\ Bindings \subseteq Binds /\ RowsOf(<< >>) = {}
BY BindingsBind DEF NoServer, ServerRows, Free, Requests, RequestOK, None, Binds, RowsOf

LEMMA BindsType ==
  ASSUME NEW b \in Binds
  PROVE  DOMAIN b \subseteq Envs /\ b \in [DOMAIN b -> Records] /\ RowsOf(b) \subseteq Records
BY DEF Binds, RowsOf

LEMMA InitStore == VaultInit => StoreInv
<1> SUFFICES ASSUME VaultInit PROVE StoreInv
  OBVIOUS
<1>1. PICK known \in SUBSET Records, filled \in SUBSET Records, names \in [Records -> Names] :
        /\ \A r, o \in known : r # o => names[r] # names[o]
        /\ filled \subseteq known
        /\ secretRow = [r \in Records |-> IF r \in known THEN [at |-> "live", name |-> names[r]]
                                          ELSE [at |-> "none", name |-> None]]
        /\ vault = [r \in Records |-> IF r \in filled THEN r ELSE None]
        /\ \E b \in [Servers -> Bindings] :
             /\ \A s \in Servers : RowsOf(b[s]) \subseteq known
             /\ server \in [Servers -> {NoServer} \cup
                  [at : {"live"}, enabled : {TRUE}, required : BOOLEAN, bind : Bindings]]
             /\ \A s \in Servers : server[s].bind = b[s]
        /\ bound \in {b \in Bindings : RowsOf(b) \subseteq known}
        /\ request = [i \in Handlers |-> Free]
        /\ launch = NoLaunch /\ requests = 0
  BY DEF VaultInit
<1>2. \A r \in Records : /\ secretRow[r] \in SecretRows /\ (Known(r) <=> r \in known)
                         /\ (Known(r) => secretRow[r].name = names[r])
  BY <1>1 DEF SecretRows, Known
<1>3. server \in [Servers -> ServerRows]
  BY <1>1, Shapes DEF ServerRows
<1>4. Typed
  <2>1. secretRow \in [Records -> SecretRows]
    BY <1>1, <1>2
  <2>2. vault \in [Records -> Records \cup {None}]
    BY <1>1
  <2>3. requests \in 0..MaxRequests
    BY <1>1, RequestsAreCounted
  <2>4. request \in [Handlers -> Requests]
    BY <1>1, Shapes
  <2>5. bound \in Binds
    BY <1>1, Shapes
  <2> QED
    BY <1>3, <2>1, <2>2, <2>3, <2>4, <2>5 DEF Typed
<1>5. Placed
  BY <1>1, Shapes DEF Placed
<1>6. Dropped
  BY <1>1, Shapes DEF Dropped
<1>7. BindingsHold
  <2>1. \A s \in Servers : \A r \in RowsOf(server[s].bind) : Known(r)
    BY <1>1, <1>2
  <2>2. \A r \in RowsOf(bound) : Known(r)
    BY <1>1, <1>2
  <2>3. \A r, o \in Records :
          r # o /\ Known(r) /\ Known(o) => secretRow[r].name # secretRow[o].name
    BY <1>1, <1>2
  <2> QED
    BY <2>1, <2>2, <2>3 DEF BindingsHold
<1> QED
  BY <1>4, <1>5, <1>6, <1>7 DEF StoreInv

-----------------------------------------------------------------------------
\* Requests.

\* A request goes on, with what it needs to.
Advances(i) == request' = [request EXCEPT ![i] = request'[i]]
               /\ request'[i] \in Requests /\ RequestOK(request'[i])

LEMMA Advanced ==
  ASSUME StoreInv, NEW i \in Handlers, Advances(i)
  PROVE  request' \in [Handlers -> Requests] /\ \A j \in Handlers : RequestOK(request'[j])
<1>1. \A j \in Handlers : request'[j] = IF j = i THEN request'[i] ELSE request[j]
  BY DEF Advances, StoreInv, Typed
<1> QED
  BY <1>1 DEF Advances, StoreInv, Typed, Placed

LEMMA Goes ==
  ASSUME StoreInv, NEW i \in Handlers
  PROVE  /\ Done(i) => Advances(i)
         /\ \A at \in {"put", "drop", "erase", "delete"} :
              request[i].record \in Records /\ To(i, at) => Advances(i)
         /\ request[i].name \in Names /\ To(i, "insert") => Advances(i)
<1>1. request \in [Handlers -> Requests] /\ request[i] \in Requests
  BY DEF StoreInv, Typed
<1>2. Done(i) => Advances(i)
  BY <1>1, Shapes DEF Done, Advances
<1>3. ASSUME NEW at \in {"put", "drop", "erase", "delete"}, request[i].record \in Records, To(i, at)
      PROVE  Advances(i)
  <2>1. request'[i] = [request[i] EXCEPT !.at = at] /\ request' = [request EXCEPT ![i] = request'[i]]
    BY <1>1, <1>3 DEF To
  <2>2. request'[i] \in Requests /\ RequestOK(request'[i])
    BY <1>1, <1>3, <2>1 DEF Requests, RequestOK
  <2> QED
    BY <2>1, <2>2 DEF Advances
<1>4. ASSUME request[i].name \in Names, To(i, "insert") PROVE Advances(i)
  <2>1. request'[i] = [request[i] EXCEPT !.at = "insert"]
        /\ request' = [request EXCEPT ![i] = request'[i]]
    BY <1>1, <1>4 DEF To
  <2>2. request'[i] \in Requests /\ RequestOK(request'[i])
    BY <1>1, <1>4, <2>1 DEF Requests, RequestOK
  <2> QED
    BY <2>1, <2>2 DEF Advances
<1> QED
  BY <1>2, <1>3, <1>4

\* A request that leaves the store and the values alone.
LEMMA OnlyAdvances ==
  ASSUME StoreInv, NEW i \in Handlers, Advances(i), UNCHANGED <<secretRow, vault, server, bound>>,
         requests' \in 0..MaxRequests
  PROVE  StoreInv'
BY Advanced DEF StoreInv, Typed, Placed, Dropped, BindingsHold, Known

LEMMA AskKeeps ==
  ASSUME StoreInv, NEW i \in Handlers,
         NEW op \in {"create", "card", "update", "delete", "connect", "edit"}, Ask(i, op)
  PROVE  StoreInv'
<1>0. /\ requests' \in 0..MaxRequests /\ UNCHANGED <<secretRow, vault, server, bound>>
      /\ request \in [Handlers -> Requests] /\ server \in [Servers -> ServerRows]
  <2>1. /\ requests < MaxRequests /\ requests' = requests + 1
        /\ UNCHANGED <<secretRow, vault, server, bound>>
    BY Zenon DEF Ask
  <2>2. /\ request \in [Handlers -> Requests] /\ server \in [Servers -> ServerRows]
        /\ requests \in 0..MaxRequests
    BY DEF StoreInv, Typed
  <2>3. requests' \in 0..MaxRequests
    BY <2>1, <2>2, RequestsAreCounted
  <2> QED
    BY <2>1, <2>2, <2>3
<1>1. ASSUME NEW n \in Names, NEW filled \in BOOLEAN,
             request' = [request EXCEPT ![i] =
               [Free EXCEPT !.at = "list", !.op = op, !.name = n, !.filled = filled]]
      PROVE  Advances(i)
  <2> DEFINE q == [Free EXCEPT !.at = "list", !.op = op, !.name = n, !.filled = filled]
  <2>1. q \in Requests /\ q.at = "list" /\ q.name = n
    BY <1>1, Shapes DEF Requests
  <2>2. RequestOK(q)
    BY <2>1 DEF RequestOK
  <2>3. request' = [request EXCEPT ![i] = q]
    BY <1>1
  <2> HIDE DEF q
  <2> QED
    BY <1>0, <2>1, <2>2, <2>3 DEF Advances
<1>2. ASSUME NEW r \in Records, NEW n \in Names \cup {None}, NEW filled \in BOOLEAN,
             request' = [request EXCEPT ![i] =
               [Free EXCEPT !.at = IF n = None THEN "put" ELSE "rename", !.op = op,
                            !.name = n, !.record = r, !.filled = filled]]
      PROVE  Advances(i)
  <2> DEFINE q == [Free EXCEPT !.at = IF n = None THEN "put" ELSE "rename", !.op = op,
                                !.name = n, !.record = r, !.filled = filled]
  <2>1. q \in Requests /\ q.at = (IF n = None THEN "put" ELSE "rename") /\ q.name = n /\ q.record = r
    BY <1>2, Shapes DEF Requests
  <2>2. RequestOK(q)
    BY <2>1 DEF RequestOK
  <2>3. request' = [request EXCEPT ![i] = q]
    BY <1>2
  <2> HIDE DEF q
  <2> QED
    BY <1>0, <2>1, <2>2, <2>3 DEF Advances
<1>3. ASSUME NEW r \in Records,
             request' = [request EXCEPT ![i] =
               [Free EXCEPT !.at = "delete", !.op = op, !.record = r]]
      PROVE  Advances(i)
  <2> DEFINE q == [Free EXCEPT !.at = "delete", !.op = op, !.record = r]
  <2>1. q \in Requests /\ q.at = "delete" /\ q.record = r
    BY <1>3, Shapes DEF Requests
  <2>2. RequestOK(q)
    BY <2>1 DEF RequestOK
  <2>3. request' = [request EXCEPT ![i] = q]
    BY <1>3
  <2> HIDE DEF q
  <2> QED
    BY <1>0, <2>1, <2>2, <2>3 DEF Advances
<1>4. ASSUME NEW s \in Servers,
             request' = [request EXCEPT ![i] =
               [Free EXCEPT !.at = "save", !.op = op, !.server = s, !.copy = server[s]]]
      PROVE  Advances(i)
  <2> DEFINE q == [Free EXCEPT !.at = "save", !.op = op, !.server = s, !.copy = server[s]]
  <2>0. server[s] \in ServerRows
    BY <1>0
  <2>1. q \in Requests /\ q.at = "save" /\ q.server = s
    BY <1>4, <2>0, Shapes DEF Requests
  <2>2. RequestOK(q)
    BY <2>1 DEF RequestOK
  <2>3. request' = [request EXCEPT ![i] = q]
    BY <1>4
  <2> HIDE DEF q
  <2> QED
    BY <1>0, <2>1, <2>2, <2>3 DEF Advances
<1>5. Advances(i)
  <2>1. \A filled \in IF op = "create" THEN BOOLEAN ELSE {FALSE} : filled \in BOOLEAN
    OBVIOUS
  <2> QED
    BY <1>1, <1>2, <1>3, <1>4, <2>1, Zenon DEF Ask
<1> QED
  BY <1>0, <1>5, OnlyAdvances

LEMMA FindKeeps == ASSUME StoreInv, NEW i \in Handlers, Find(i) PROVE StoreInv'
<1>0. /\ request \in [Handlers -> Requests] /\ request[i] \in Requests /\ request[i].name \in Names
      /\ UNCHANGED <<secretRow, vault, server, bound>> /\ requests' \in 0..MaxRequests
  BY DEF StoreInv, Typed, Placed, RequestOK, Find
<1>1. ASSUME NEW r \in Records,
             request' = [request EXCEPT ![i].record = r,
                                        ![i].at = IF request[i].filled THEN "put" ELSE "drop"]
      PROVE  Advances(i)
  <2> DEFINE q == [request[i] EXCEPT !.record = r, !.at = IF request[i].filled THEN "put" ELSE "drop"]
  <2>1. q \in Requests /\ RequestOK(q)
    BY <1>0 DEF Requests, RequestOK
  <2>2. request' = [request EXCEPT ![i] = q]
    BY <1>0, <1>1
  <2> HIDE DEF q
  <2> QED
    BY <1>0, <2>1, <2>2 DEF Advances
<1>2. Advances(i)
  BY <1>0, <1>1, Goes DEF Find
<1> QED
  BY <1>0, <1>2, OnlyAdvances

\* Records.

LEMMA CreateRecordKeeps ==
  ASSUME StoreInv, NEW i \in Handlers, CreateSecretRecord(i)
  PROVE  StoreInv'
<1>0. /\ request \in [Handlers -> Requests] /\ request[i] \in Requests /\ request[i].name \in Names
      /\ UNCHANGED <<vault, server, bound>> /\ requests' \in 0..MaxRequests
      /\ secretRow \in [Records -> SecretRows]
  BY DEF StoreInv, Typed, Placed, RequestOK, CreateSecretRecord
<1>1. CASE NameTaken(request[i].name, None)
  BY <1>0, <1>1, Goes, OnlyAdvances DEF CreateSecretRecord
<1>2. CASE ~NameTaken(request[i].name, None)
  <2> DEFINE r == CHOOSE x \in Records : secretRow[x].at = None
             n == request[i].name
  <2>1. \E x \in Records : secretRow[x].at = None
    BY <1>2 DEF CreateSecretRecord
  <2>2. r \in Records /\ secretRow[r].at = "none"
    BY <2>1 DEF None
  <2>3. /\ secretRow' = [secretRow EXCEPT ![r] = [at |-> "live", name |-> n]]
        /\ IF request[i].op = "card" THEN Done(i)
           ELSE request' = [request EXCEPT ![i].record = r,
                  ![i].at = IF request[i].filled THEN "put" ELSE "drop"]
    BY <1>2 DEF CreateSecretRecord
  <2> HIDE DEF r
  <2>4. Advances(i)
    <3>1. CASE request[i].op = "card"
      BY <2>3, <3>1, Goes
    <3>2. CASE request[i].op # "card"
      <4> DEFINE q == [request[i] EXCEPT !.record = r, !.at = IF request[i].filled THEN "put" ELSE "drop"]
      <4>1. q \in Requests /\ RequestOK(q)
        BY <1>0, <2>2 DEF Requests, RequestOK
      <4>2. request' = [request EXCEPT ![i] = q]
        BY <1>0, <2>3, <3>2
      <4> HIDE DEF q
      <4> QED
        BY <1>0, <4>1, <4>2 DEF Advances
    <3> QED
      BY <3>1, <3>2
  <2>5. /\ secretRow' \in [Records -> SecretRows] /\ secretRow'[r].name = n
        /\ \A o \in Records \ {r} : secretRow'[o] = secretRow[o]
        /\ \A o \in Records : Known(o)' <=> Known(o) \/ o = r
    BY <1>0, <2>2, <2>3 DEF SecretRows, Known
  <2>6. \A o \in Records : Known(o) => secretRow[o].name # n
    BY <1>2, NoneIsNoRecord DEF NameTaken
  <2>7. ~Known(r)
    BY <2>2 DEF Known
  <2>8. BindingsHold'
    <3>1. \A s \in Servers : RowsOf(server[s].bind) \subseteq Records
      BY Shapes, BindsType DEF StoreInv, Typed, ServerRows
    <3>2. RowsOf(bound) \subseteq Records
      BY BindsType DEF StoreInv, Typed
    <3>3. \A o, p \in Records :
            o # p /\ Known(o)' /\ Known(p)' => secretRow'[o].name # secretRow'[p].name
      BY <2>5, <2>6, <2>7 DEF StoreInv, BindingsHold
    <3> QED
      BY <1>0, <2>5, <3>1, <3>2, <3>3 DEF StoreInv, BindingsHold
  <2> QED
    BY <1>0, <2>4, <2>5, <2>8, Advanced DEF StoreInv, Typed, Placed, Dropped
<1> QED
  BY <1>1, <1>2

LEMMA UpdateRecordKeeps ==
  ASSUME StoreInv, NEW i \in Handlers, UpdateSecretRecord(i)
  PROVE  StoreInv'
<1> DEFINE r == request[i].record
           n == request[i].name
<1>0. /\ request \in [Handlers -> Requests] /\ n \in Names /\ r \in Records
      /\ UNCHANGED <<vault, server, bound>> /\ requests' \in 0..MaxRequests
      /\ secretRow \in [Records -> SecretRows]
  BY DEF StoreInv, Typed, Placed, RequestOK, UpdateSecretRecord
<1>1. CASE ~Known(r) \/ NameTaken(n, r)
  BY <1>0, <1>1, Goes, OnlyAdvances DEF UpdateSecretRecord
<1>2. CASE Known(r) /\ ~NameTaken(n, r)
  <2>1. secretRow' = [secretRow EXCEPT ![r].name = n] /\ Advances(i)
    BY <1>0, <1>2, Goes DEF UpdateSecretRecord
  <2>2. /\ secretRow' \in [Records -> SecretRows] /\ secretRow'[r].name = n
        /\ \A o \in Records \ {r} : secretRow'[o] = secretRow[o]
        /\ \A o \in Records : Known(o)' <=> Known(o)
    BY <1>0, <2>1 DEF SecretRows, Known
  <2>3. \A o \in Records \ {r} : Known(o) => secretRow[o].name # n
    BY <1>2 DEF NameTaken
  <2>4. BindingsHold'
    <3>1. \A s \in Servers : RowsOf(server[s].bind) \subseteq Records
      BY Shapes, BindsType DEF StoreInv, Typed, ServerRows
    <3>2. RowsOf(bound) \subseteq Records
      BY BindsType DEF StoreInv, Typed
    <3>3. \A o, p \in Records :
            o # p /\ Known(o)' /\ Known(p)' => secretRow'[o].name # secretRow'[p].name
      BY <2>2, <2>3 DEF StoreInv, BindingsHold
    <3> QED
      BY <1>0, <2>2, <3>1, <3>2, <3>3 DEF StoreInv, BindingsHold
  <2> QED
    BY <1>0, <2>1, <2>2, <2>4, Advanced DEF StoreInv, Typed, Placed, Dropped
<1> QED
  BY <1>1, <1>2

\* Values.

LEMMA ValuesKeep ==
  ASSUME StoreInv, NEW i \in Handlers, PutValue(i) \/ EraseValue(i)
  PROVE  StoreInv'
<1> DEFINE r == request[i].record
<1>0. /\ r \in Records /\ UNCHANGED <<secretRow, server, bound>> /\ requests' \in 0..MaxRequests
  BY DEF StoreInv, Typed, Placed, RequestOK, PutValue, EraseValue
<1>1. Advances(i)
  BY <1>0, Goes DEF PutValue, EraseValue
<1>2. /\ vault' \in [Records -> Records \cup {None}]
      /\ \A o \in Records : vault'[o] \in {o, None}
  BY <1>0 DEF PutValue, EraseValue, Ref, StoreInv, Typed, Placed
<1> QED
  BY <1>0, <1>1, <1>2, Advanced DEF StoreInv, Typed, Placed, Dropped, BindingsHold, Known

\* Deletions. What a live connector names is not deleted, and one that is not
\* there names nothing.

LEMMA DropKeeps ==
  ASSUME StoreInv, NEW i \in Handlers, NEW r \in Records, Deletable(r), DropRecord(r),
         Advances(i), UNCHANGED <<vault, server>>, requests' \in 0..MaxRequests
  PROVE  StoreInv'
<1>0. secretRow \in [Records -> SecretRows] /\ bound \in Binds /\ server \in [Servers -> ServerRows]
  BY DEF StoreInv, Typed
<1>1. /\ secretRow' \in [Records -> SecretRows]
      /\ \A o \in Records : /\ secretRow'[o].name = secretRow[o].name
                            /\ Known(o)' <=> Known(o) /\ o # r
  BY <1>0 DEF DropRecord, SecretRows, Known
<1>2. bound' \in Binds /\ RowsOf(bound') = RowsOf(bound) \ {r}
  <2>1. DOMAIN bound \subseteq Envs /\ bound \in [DOMAIN bound -> Records]
    BY <1>0, BindsType
  <2> DEFINE D == {x \in DOMAIN bound : bound[x] # r}
  <2>2. bound' = [e \in D |-> bound[e]] /\ D \in SUBSET Envs
    BY <2>1 DEF DropRecord
  <2>3. bound' \in [D -> Records]
    BY <2>1, <2>2
  <2>4. RowsOf(bound') = RowsOf(bound) \ {r}
    BY <2>2 DEF RowsOf
  <2> QED
    BY <2>2, <2>3, <2>4 DEF Binds
<1>3. RowsOf(bound) \subseteq Records /\ \A s \in Servers : RowsOf(server[s].bind) \subseteq Records
  BY <1>0, Shapes, BindsType DEF ServerRows
<1>4. \A s \in Servers : r \notin RowsOf(server[s].bind)
  BY Shapes DEF Deletable, Restricted, StoreInv, Dropped
<1>5. BindingsHold'
  <2>1. \A s \in Servers : \A o \in RowsOf(server[s].bind) : Known(o)'
    BY <1>1, <1>3, <1>4 DEF StoreInv, BindingsHold
  <2>2. \A o \in RowsOf(bound') : Known(o)'
    BY <1>1, <1>2, <1>3 DEF StoreInv, BindingsHold
  <2>3. \A o, p \in Records :
          o # p /\ Known(o)' /\ Known(p)' => secretRow'[o].name # secretRow'[p].name
    BY <1>1 DEF StoreInv, BindingsHold
  <2> QED
    BY <2>1, <2>2, <2>3 DEF BindingsHold
<1> QED
  BY <1>0, <1>1, <1>2, <1>5, Advanced DEF StoreInv, Typed, Placed, Dropped

LEMMA DeletionsKeep ==
  ASSUME StoreInv, NEW i \in Handlers, Withdraw(i) \/ DeleteSecret(i)
  PROVE  StoreInv'
<1> DEFINE r == request[i].record
<1>0. r \in Records /\ UNCHANGED <<vault, server>> /\ requests' \in 0..MaxRequests
  BY DEF StoreInv, Typed, Placed, RequestOK, Withdraw, DeleteSecret
<1>1. Advances(i)
  BY <1>0, Goes DEF Withdraw, DeleteSecret
<1>2. CASE Deletable(r)
  BY <1>0, <1>1, <1>2, DropKeeps DEF Withdraw, DeleteSecret
<1>3. CASE ~Deletable(r)
  BY <1>0, <1>1, <1>3, OnlyAdvances DEF Withdraw, DeleteSecret
<1> QED
  BY <1>2, <1>3

\* Connectors and scripts.

LEMMA ServerKeeps ==
  ASSUME StoreInv, NEW s \in Servers, NEW e \in ServerRows, Bindable(e.bind), e.at # "live" => e.bind = << >>,
         server' = [server EXCEPT ![s] = e], UNCHANGED <<secretRow, vault, bound>>,
         request' \in [Handlers -> Requests], \A i \in Handlers : RequestOK(request'[i]),
         requests' \in 0..MaxRequests
  PROVE  StoreInv'
<1>1. server' \in [Servers -> ServerRows] /\ server'[s] = e
      /\ \A t \in Servers \ {s} : server'[t] = server[t]
  BY DEF StoreInv, Typed
<1>2. \A r : Known(r)' <=> Known(r)
  BY DEF Known
<1>3. \A t \in Servers : \A r \in RowsOf(server'[t].bind) : Known(r)
  BY <1>1 DEF StoreInv, BindingsHold, Bindable
<1>4. BindingsHold'
  BY <1>2, <1>3 DEF StoreInv, BindingsHold
<1> QED
  BY <1>1, <1>4 DEF StoreInv, Typed, Placed, Dropped

LEMMA SaveKeeps == ASSUME StoreInv, NEW i \in Handlers, SaveServer(i) PROVE StoreInv'
<1>0. /\ request[i] \in Requests /\ request[i].server \in Servers /\ request[i].copy \in ServerRows
      /\ UNCHANGED <<secretRow, vault, bound>> /\ requests' \in 0..MaxRequests
  BY DEF StoreInv, Typed, Placed, RequestOK, SaveServer, Requests
<1>1. Advances(i)
  BY Goes DEF SaveServer
<1>2. ASSUME NEW e \in Applied(request[i].copy) PROVE e \in ServerRows /\ e.at = "live"
  <2> DEFINE on(b) == [request[i].copy EXCEPT !.at = "live", !.bind = b]
             toggled == [request[i].copy EXCEPT !.at = "live", !.enabled = ~@]
             needed == [request[i].copy EXCEPT !.at = "live", !.required = ~@]
  <2>1. \A b \in Bindings : on(b) \in ServerRows /\ on(b).at = "live"
    BY <1>0 DEF ServerRows
  <2>2. toggled \in ServerRows /\ toggled.at = "live"
    BY <1>0 DEF ServerRows
  <2>3. needed \in ServerRows /\ needed.at = "live"
    BY <1>0 DEF ServerRows
  <2>4. (\E b \in Bindings : e = on(b)) \/ e = toggled \/ e = needed
    BY <1>2, Zenon DEF Applied
  <2> HIDE DEF on, toggled, needed
  <2> QED
    BY <2>1, <2>2, <2>3, <2>4
<1>3. CASE UNCHANGED server
  BY <1>0, <1>1, <1>3, OnlyAdvances
<1>4. CASE ~UNCHANGED server
  <2>1. PICK e \in Applied(request[i].copy) :
          Bindable(e.bind) /\ server' = [server EXCEPT ![request[i].server] = e]
    BY <1>4 DEF SaveServer
  <2> QED
    BY <1>0, <1>1, <1>2, <2>1, Advanced, ServerKeeps
<1> QED
  BY <1>3, <1>4

LEMMA OthersKeep ==
  ASSUME StoreInv, \/ \E s \in Servers : DeleteServer(s)
                   \/ \E b \in Bindings : SetScriptBindings(b)
  PROVE  StoreInv'
<1>0. requests' \in 0..MaxRequests /\ UNCHANGED <<secretRow, vault, request>>
  BY RequestsAreCounted DEF StoreInv, Typed, DeleteServer, SetScriptBindings
<1>1. ASSUME NEW s \in Servers, DeleteServer(s) PROVE StoreInv'
  <2> DEFINE e == [NoServer EXCEPT !.at = "gone"]
  <2>1. e \in ServerRows /\ e.bind = << >> /\ RowsOf(e.bind) = {}
    BY Shapes DEF ServerRows
  <2>2. server' = [server EXCEPT ![s] = e] /\ UNCHANGED bound
    BY <1>1 DEF DeleteServer
  <2> HIDE DEF e
  <2> QED
    BY <1>0, <2>1, <2>2, ServerKeeps DEF StoreInv, Typed, Placed, Bindable
<1>2. ASSUME NEW b \in Bindings, SetScriptBindings(b) PROVE StoreInv'
  <2>1. bound' = b /\ b \in Binds /\ Bindable(b) /\ UNCHANGED server
    BY <1>2, Shapes DEF SetScriptBindings
  <2>2. BindingsHold'
    BY <1>0, <2>1 DEF StoreInv, BindingsHold, Bindable, Known
  <2> QED
    BY <1>0, <2>1, <2>2 DEF StoreInv, Typed, Placed, Dropped
<1> QED
  BY <1>1, <1>2

LEMMA LaunchingKeeps ==
  ASSUME StoreInv, Launching \/ UNCHANGED vaultVars
  PROVE  StoreInv'
<1>1. UNCHANGED <<secretRow, vault, server, bound, request, requests>>
  <2>1. UNCHANGED vaultVars => UNCHANGED <<secretRow, vault, server, bound, request, requests>>
    BY DEF vaultVars
  <2>2. /\ ListMCPServers \/ ReadScript \/ Launch
             => UNCHANGED <<secretRow, vault, server, bound, request, requests>>
        /\ Gather => UNCHANGED <<secretRow, vault, server, bound, request, requests>>
    BY Zenon DEF Gather, ListMCPServers, ListBindings, ReadScript, NextServer, GetValue, TakeServer, Launch
  <2> QED
    BY <2>1, <2>2, Zenon DEF Launching
<1> QED
  BY <1>1 DEF StoreInv, Typed, Placed, Dropped, BindingsHold, Known

LEMMA StoreStep == ASSUME StoreInv, [VaultNext]_vaultVars PROVE StoreInv'
BY AskKeeps, FindKeeps, CreateRecordKeeps, UpdateRecordKeeps, ValuesKeep, DeletionsKeep, SaveKeeps,
   OthersKeep, LaunchingKeeps
DEF VaultNext, Requesting, CreateSecret, UpdateSecret, DeleteSecret

-----------------------------------------------------------------------------
\* The start of a run.

All == Servers \cup {Script}
SeenRows ==
  [at : {"none", "live", "gone"}, enabled : BOOLEAN, required : BOOLEAN, bind : Binds]
Seens == UNION {[D -> SeenRows] : D \in SUBSET All}
Values == SUBSET (Envs \X Records)
Launches ==
  [at : {"idle", "next", "get", "failed", "launched"}, seen : Seens, unread : SUBSET Servers,
   left : SUBSET All, now : All \cup {None}, mine : Values, args : SUBSET All, given : Values]

\* What the connector s of the launch l is to be given.
Pairs(l, s) == {<<e, l.seen[s].bind[e]>> : e \in DOMAIN l.seen[s].bind}

\* Of the connectors that were listed, those with their values are taken up one
\* after the other, and what is needed is still to come or there; before the
\* bindings of all of them are read, none is.
LaunchOK(l) ==
  /\ l.at \in {"next", "get", "launched"} =>
       /\ l.args \cup l.left \subseteq DOMAIN l.seen /\ l.unread \subseteq l.left
       /\ \A s \in DOMAIN l.seen : l.seen[s].required => s \in l.left \cup l.args
       /\ l.given = UNION {Pairs(l, s) : s \in l.args}
       /\ \A g, h \in l.given : g[1] = h[1] => g = h
       /\ l.unread # {} => l.at = "next" /\ l.args = {}
  /\ l.at = "next" => l.mine = {}
  /\ l.at = "get" =>
       /\ l.now \in l.left /\ l.mine \subseteq Pairs(l, l.now)
       /\ \A m \in l.mine, g \in l.given : m[1] # g[1]
  /\ l.at = "launched" => l.left = {}

VaultInv == StoreInv /\ launch \in Launches /\ LaunchOK(launch)

LEMMA VaultInvImplies == VaultInv => VaultTypeOK /\ RunHasAll /\ BindingsHold
<1> SUFFICES ASSUME VaultInv PROVE VaultTypeOK /\ RunHasAll /\ BindingsHold
  OBVIOUS
<1>1. VaultTypeOK
  <2>1. \A i \in Handlers : request[i].at \in
          {"idle", "list", "insert", "rename", "put", "drop", "delete", "erase", "save"}
    BY DEF VaultInv, StoreInv, Typed, Requests
  <2>2. DOMAIN bound \subseteq Envs /\ \A e \in DOMAIN bound : bound[e] \in Records
    BY BindsType DEF VaultInv, StoreInv, Typed
  <2>3. launch.at \in {"idle", "next", "get", "failed", "launched"}
    BY DEF VaultInv, Launches
  <2> QED
    BY <2>1, <2>2, <2>3 DEF VaultInv, StoreInv, Typed, SecretRows, ServerRows, VaultTypeOK
<1>2. RunHasAll
  BY DEF VaultInv, LaunchOK, RunHasAll, Pairs
<1> QED
  BY <1>1, <1>2 DEF VaultInv, StoreInv

LEMMA NoLaunchOK == NoLaunch \in Launches /\ NoLaunch.at = "idle" /\ LaunchOK(NoLaunch)
<1>1. << >> \in Seens
  BY DEF Seens
<1>2. NoLaunch \in Launches /\ NoLaunch.at = "idle"
  BY <1>1 DEF NoLaunch, Launches, Values
<1> QED
  BY <1>2 DEF LaunchOK

LEMMA FailOK == Fail => launch' \in Launches /\ LaunchOK(launch')
<1>1. [NoLaunch EXCEPT !.at = "failed"] \in Launches /\ [NoLaunch EXCEPT !.at = "failed"].at = "failed"
  BY NoLaunchOK DEF Launches
<1> QED
  BY <1>1 DEF Fail, LaunchOK

LEMMA SeensType ==
  ASSUME NEW seen \in Seens
  PROVE  /\ DOMAIN seen \subseteq All /\ seen \in [DOMAIN seen -> SeenRows]
         /\ \A s \in DOMAIN seen : seen[s] \in SeenRows /\ seen[s].bind \in Binds
BY DEF Seens, SeenRows

\* The list, and the script's bindings.
LEMMA ListKeeps ==
  ASSUME VaultInv, ListMCPServers \/ ReadScript
  PROVE  launch' \in Launches /\ LaunchOK(launch')
<1>0. server \in [Servers -> ServerRows] /\ bound \in Binds
  BY DEF VaultInv, StoreInv, Typed
<1>1. ASSUME NEW D \in SUBSET All, NEW seen \in [D -> SeenRows], NEW unread \in SUBSET Servers,
             unread \subseteq D,
             launch' = [at |-> "next", seen |-> seen, unread |-> unread, left |-> D, now |-> None,
                        mine |-> {}, args |-> {}, given |-> {}]
      PROVE  launch' \in Launches /\ LaunchOK(launch')
  <2>1. seen \in Seens /\ DOMAIN seen = D
    BY DEF Seens
  <2>2. launch' \in Launches /\ launch'.at = "next" /\ launch'.seen = seen /\ launch'.unread = unread
        /\ launch'.left = D /\ launch'.mine = {} /\ launch'.args = {} /\ launch'.given = {}
    BY <1>1, <2>1 DEF Launches, Values
  <2> QED
    BY <2>1, <2>2, <1>1 DEF LaunchOK
<1>2. CASE ListMCPServers
  <2> DEFINE on == {s \in Servers : server[s].at = "live" /\ server[s].enabled}
             seen == [s \in on |-> server[s]]
  <2>1. on \in SUBSET All /\ on \in SUBSET Servers
    BY DEF All
  <2>2. ServerRows \subseteq SeenRows
    BY Shapes DEF ServerRows, SeenRows
  <2>3. seen \in [on -> SeenRows]
    BY <1>0, <2>2
  <2>4. launch' = [NoLaunch EXCEPT !.at = "next", !.seen = seen, !.unread = on, !.left = on]
    BY <1>2 DEF ListMCPServers
  <2> HIDE DEF seen, on
  <2>5. launch' = [at |-> "next", seen |-> seen, unread |-> on, left |-> on, now |-> None,
                   mine |-> {}, args |-> {}, given |-> {}]
    BY <2>4 DEF NoLaunch
  <2> QED
    BY <1>1, <2>1, <2>3, <2>5
<1>3. CASE ReadScript
  <2> DEFINE row == [NoServer EXCEPT !.required = TRUE, !.bind = bound]
             seen == [s \in {Script} |-> row]
  <2>1. row \in SeenRows
    BY <1>0, Shapes DEF SeenRows, ServerRows
  <2>2. seen \in [{Script} -> SeenRows] /\ {Script} \in SUBSET All
    BY <2>1 DEF All
  <2>3. launch' = [NoLaunch EXCEPT !.at = "next", !.left = {Script}, !.seen = seen]
    BY <1>3 DEF ReadScript
  <2> HIDE DEF seen
  <2>4. launch' = [at |-> "next", seen |-> seen, unread |-> {}, left |-> {Script}, now |-> None,
                   mine |-> {}, args |-> {}, given |-> {}]
    BY <2>3 DEF NoLaunch
  <2>5. {} \in SUBSET Servers /\ {} \subseteq {Script}
    OBVIOUS
  <2> HIDE DEF row
  <2> QED
    BY <1>1, <2>2, <2>4, <2>5
<1> QED
  BY <1>2, <1>3

LEMMA BindingsKeep ==
  ASSUME VaultInv, NEW s \in Servers, ListBindings(s)
  PROVE  launch' \in Launches /\ LaunchOK(launch')
<1> DEFINE seen == [launch.seen EXCEPT ![s].bind = server[s].bind]
<1>1. /\ launch \in Launches /\ launch.at = "next" /\ s \in launch.unread
      /\ launch.seen \in Seens /\ s \in DOMAIN launch.seen
      /\ launch.args = {} /\ launch.given = {} /\ launch.mine = {}
      /\ launch.left \subseteq DOMAIN launch.seen /\ launch.unread \subseteq launch.left
      /\ \A t \in DOMAIN launch.seen : launch.seen[t].required => t \in launch.left
  BY DEF VaultInv, LaunchOK, ListBindings, Launches
<1>2. server[s].bind \in Binds
  BY Shapes DEF VaultInv, StoreInv, Typed, ServerRows
<1>3. /\ seen \in Seens /\ DOMAIN seen = DOMAIN launch.seen
      /\ \A t \in DOMAIN seen : seen[t].required <=> launch.seen[t].required
  <2>1. launch.seen \in [DOMAIN launch.seen -> SeenRows] /\ DOMAIN launch.seen \subseteq All
    BY <1>1, SeensType
  <2>2. seen \in [DOMAIN launch.seen -> SeenRows]
    BY <1>1, <1>2, <2>1 DEF SeenRows
  <2>3. \A t \in DOMAIN seen : seen[t].required <=> launch.seen[t].required
    BY <1>1, <2>1 DEF SeenRows
  <2> QED
    BY <2>1, <2>2, <2>3 DEF Seens
<1>4. launch' = [launch EXCEPT !.seen = seen, !.unread = @ \ {s}]
  BY <1>1 DEF ListBindings, Launches
<1> HIDE DEF seen
<1>5. /\ launch' \in Launches /\ launch'.at = "next" /\ launch'.seen = seen
      /\ launch'.unread \subseteq launch.unread /\ launch'.left = launch.left
      /\ launch'.args = {} /\ launch'.given = {} /\ launch'.mine = {}
  BY <1>1, <1>3, <1>4 DEF Launches
<1> QED
  BY <1>1, <1>3, <1>5 DEF LaunchOK

\* What a launch that goes on has.
LEMMA Underway ==
  ASSUME VaultInv, launch.at \in {"next", "get"}
  PROVE  /\ launch.seen \in Seens /\ launch.left \cup launch.args \subseteq DOMAIN launch.seen
         /\ launch.unread \subseteq DOMAIN launch.seen
         /\ \A s \in DOMAIN launch.seen : launch.seen[s].required => s \in launch.left \cup launch.args
         /\ launch.given = UNION {Pairs(launch, s) : s \in launch.args}
         /\ \A g, h \in launch.given : g[1] = h[1] => g = h
         /\ launch.at = "get" => launch.unread = {}
         /\ launch.mine \in Values /\ launch.given \in Values
         /\ DOMAIN launch.seen \subseteq All
BY SeensType DEF VaultInv, LaunchOK, Launches

LEMMA NextKeeps ==
  ASSUME VaultInv, NEW s \in Servers \cup {Script}, NextServer(s)
  PROVE  launch' \in Launches /\ LaunchOK(launch')
<1>1. /\ launch \in Launches /\ launch.at = "next" /\ s \in launch.left /\ launch.unread = {}
      /\ launch.mine = {}
  BY DEF VaultInv, LaunchOK, NextServer
<1>2. CASE launch' = [launch EXCEPT !.at = "get", !.now = s]
  <2>1. /\ launch' \in Launches /\ launch'.at = "get" /\ launch'.now = s /\ launch'.seen = launch.seen
        /\ launch'.unread = {} /\ launch'.left = launch.left
        /\ launch'.args = launch.args /\ launch'.given = launch.given /\ launch'.mine = {}
    BY <1>1, <1>2 DEF Launches, All
  <2> QED
    BY <1>1, <2>1, Underway DEF LaunchOK, Pairs
<1>3. CASE SkipServer(s) /\ ~launch.seen[s].required
  <2>1. launch' = [launch EXCEPT !.left = launch.left \ {s}]
    BY <1>3 DEF SkipServer
  <2>2. /\ launch' \in Launches /\ launch'.at = "next" /\ launch'.seen = launch.seen
        /\ launch'.unread = {} /\ launch'.left = launch.left \ {s}
        /\ launch'.args = launch.args /\ launch'.given = launch.given /\ launch'.mine = {}
    BY <1>1, <2>1 DEF Launches
  <2> QED
    BY <1>1, <1>3, <2>2, Underway DEF LaunchOK, Pairs
<1> QED
  BY <1>2, <1>3, FailOK DEF NextServer, SkipServer

LEMMA ValueKeeps ==
  ASSUME VaultInv, NEW e \in Envs, GetValue(e)
  PROVE  launch' \in Launches /\ LaunchOK(launch')
<1> DEFINE now == launch.now
           r == launch.seen[now].bind[e]
<1>1. /\ launch \in Launches /\ launch.at = "get" /\ launch.unread = {} /\ now \in launch.left
      /\ launch.mine \subseteq Pairs(launch, now)
      /\ \A m \in launch.mine, g \in launch.given : m[1] # g[1]
      /\ e \in DOMAIN launch.seen[now].bind
  BY DEF VaultInv, LaunchOK, GetValue, NowSeen
<1>2. r \in Records
  <2>1. now \in DOMAIN launch.seen /\ launch.seen \in Seens
    BY <1>1, Underway
  <2>2. launch.seen[now].bind \in Binds
    BY <2>1, SeensType
  <2> QED
    BY <1>1, <2>2, BindsType
<1>3. vault[r] \in {r, None} /\ Ref(r) = r
  BY <1>2 DEF VaultInv, StoreInv, Placed, Ref
<1>4. CASE /\ ~Duplicate(e) /\ vault[r] # None
           /\ launch' = [launch EXCEPT !.mine = @ \cup {<<e, r>>}]
  <2>1. /\ launch' \in Launches /\ launch'.at = "get" /\ launch'.now = now
        /\ launch'.seen = launch.seen /\ launch'.unread = {} /\ launch'.left = launch.left
        /\ launch'.args = launch.args /\ launch'.given = launch.given
        /\ launch'.mine = launch.mine \cup {<<e, r>>}
    BY <1>1, <1>2, <1>4 DEF Launches, Values
  <2>2. launch'.mine \subseteq Pairs(launch', now)
    BY <1>1, <2>1 DEF Pairs
  <2>3. \A m \in launch'.mine, g \in launch'.given : m[1] # g[1]
    BY <1>1, <1>4, <2>1 DEF Duplicate
  <2>4. launch'.given = UNION {Pairs(launch', s) : s \in launch'.args}
    BY <1>1, <2>1, Underway DEF Pairs
  <2> QED
    BY <1>1, <2>1, <2>2, <2>3, <2>4, Underway DEF LaunchOK
<1>5. CASE launch' = DropServer /\ ~launch.seen[now].required
  <2>1. /\ launch' \in Launches /\ launch'.at = "next" /\ launch'.seen = launch.seen
        /\ launch'.unread = {} /\ launch'.left = launch.left \ {now}
        /\ launch'.args = launch.args /\ launch'.given = launch.given /\ launch'.mine = {}
    BY <1>1, <1>5 DEF Launches, DropServer, Values
  <2>2. launch'.given = UNION {Pairs(launch', s) : s \in launch'.args}
    BY <1>1, <2>1, Underway DEF Pairs
  <2> QED
    BY <1>1, <1>5, <2>1, <2>2, Underway DEF LaunchOK
<1>6. Fail \/ (/\ ~Duplicate(e) /\ vault[r] # None
               /\ launch' = [launch EXCEPT !.mine = @ \cup {<<e, r>>}])
           \/ (launch' = DropServer /\ ~launch.seen[now].required)
  BY <1>3 DEF GetValue, NowSeen
<1> QED
  BY <1>4, <1>5, <1>6, FailOK

LEMMA TakeKeeps == ASSUME VaultInv, TakeServer PROVE launch' \in Launches /\ LaunchOK(launch')
<1> DEFINE now == launch.now
<1>1. /\ launch \in Launches /\ launch.at = "get" /\ launch.unread = {} /\ now \in launch.left
      /\ launch.mine \subseteq Pairs(launch, now)
      /\ \A m \in launch.mine, g \in launch.given : m[1] # g[1]
      /\ {m[1] : m \in launch.mine} = DOMAIN launch.seen[now].bind
  BY DEF VaultInv, LaunchOK, TakeServer, NowSeen
<1>2. launch.mine = Pairs(launch, now)
  <2> SUFFICES ASSUME NEW e \in DOMAIN launch.seen[now].bind
               PROVE  <<e, launch.seen[now].bind[e]>> \in launch.mine
    BY <1>1 DEF Pairs
  <2>1. PICK m \in launch.mine : m[1] = e
    BY <1>1
  <2>2. PICK x \in DOMAIN launch.seen[now].bind : m = <<x, launch.seen[now].bind[x]>>
    BY <1>1 DEF Pairs
  <2> QED
    BY <2>1, <2>2
<1>3. /\ launch' \in Launches /\ launch'.at = "next" /\ launch'.seen = launch.seen
      /\ launch'.unread = {} /\ launch'.left = launch.left \ {now}
      /\ launch'.args = launch.args \cup {now} /\ launch'.given = launch.given \cup launch.mine
      /\ launch'.mine = {}
  <2>1. launch' = [launch EXCEPT !.at = "next", !.left = @ \ {now}, !.now = None, !.mine = {},
                                 !.args = @ \cup {now}, !.given = @ \cup launch.mine]
    BY DEF TakeServer
  <2>2. now \in All /\ launch.mine \in Values /\ launch.given \in Values /\ {} \in Values
    BY <1>1, Underway DEF Values
  <2>3. launch.mine \cup launch.given \in Values
    BY <2>2 DEF Values
  <2> QED
    BY <1>1, <2>1, <2>2, <2>3 DEF Launches
<1>4. launch'.given = UNION {Pairs(launch', s) : s \in launch'.args}
  <2>1. \A s : Pairs(launch', s) = Pairs(launch, s)
    BY <1>3 DEF Pairs
  <2>2. launch'.given = launch.given \cup Pairs(launch, now)
    BY <1>2, <1>3
  <2> QED
    BY <1>1, <1>3, <2>1, <2>2, Underway
<1>5. \A g, h \in launch'.given : g[1] = h[1] => g = h
  <2>1. \A m, n \in launch.mine : m[1] = n[1] => m = n
    BY <1>2 DEF Pairs
  <2> QED
    BY <1>1, <1>3, <2>1, Underway
<1> QED
  BY <1>1, <1>3, <1>4, <1>5, Underway DEF LaunchOK

LEMMA LaunchKeeps == ASSUME VaultInv, Launch PROVE launch' \in Launches /\ LaunchOK(launch')
<1>1. launch \in Launches /\ launch.at = "next" /\ launch.left = {} /\ LaunchOK(launch)
  BY DEF VaultInv, Launch
<1>2. /\ launch' \in Launches /\ launch'.at = "launched" /\ launch'.seen = launch.seen
      /\ launch'.unread = {} /\ launch'.left = {}
      /\ launch'.args = launch.args /\ launch'.given = launch.given
  BY <1>1 DEF Launch, Launches, LaunchOK
<1> QED
  BY <1>1, <1>2, Underway DEF LaunchOK, Pairs

\* Requests change nothing of a launch; what it reads is what they left.
LEMMA VaultStep == ASSUME VaultInv, [VaultNext]_vaultVars PROVE VaultInv'
<1>1. StoreInv'
  BY StoreStep DEF VaultInv
<1>2. CASE UNCHANGED launch
  BY <1>1, <1>2 DEF VaultInv, LaunchOK, Pairs
<1>3. CASE Requesting
  <2>1. UNCHANGED launch
    BY <1>3 DEF Requesting, Ask, CreateSecret, UpdateSecret, Find, CreateSecretRecord, Withdraw,
       UpdateSecretRecord, PutValue, DeleteSecret, EraseValue, SaveServer, DeleteServer,
       SetScriptBindings
  <2> QED
    BY <1>2, <2>1
<1>4. CASE Launching
  BY <1>1, <1>4, ListKeeps, BindingsKeep, NextKeeps, ValueKeeps, TakeKeeps, LaunchKeeps
  DEF Launching, Gather, VaultInv
<1> QED
  BY <1>2, <1>3, <1>4 DEF VaultNext, vaultVars

LEMMA VaultStart == VaultInit => VaultInv
<1>1. VaultInit => launch = NoLaunch
  BY DEF VaultInit
<1> QED
  BY <1>1, InitStore, NoLaunchOK DEF VaultInv

LEMMA VaultInvariant == VaultSpec => []VaultInv
BY VaultStart, VaultStep, PTL DEF VaultSpec

\* Records, bindings, requests and launches keep their types (store/secrets.go,
\* operator/mcp.go).
THEOREM VaultTypeCorrect == VaultSpec => []VaultTypeOK
BY VaultInvariant, VaultInvImplies, PTL

\* No binding of a connector or a script names a record that is gone, and no
\* two records have a name, for any number of requests that overlap
\* (store/secrets.go: CreateSecretRecord, UpdateSecretRecord, DeleteSecretRecord).
THEOREM BindingsAlwaysHold == VaultSpec => []BindingsHold
BY VaultInvariant, VaultInvImplies, PTL

\* A run that starts has all of the values of the connectors it has, and those
\* it needs, whatever requests did while they were gathered (operator/mcp_runtime.go,
\* automation/script.go).
THEOREM RunAlwaysHasAll == VaultSpec => []RunHasAll
BY VaultInvariant, VaultInvImplies, PTL

------------------------------------------------------------------------------
(* MemoryUpdates.                                                            *)

\* Notes in a sequence, each at most once and each accepted.
Notes(s) == {s[k] : k \in 1..Len(s)}
Sound(s) ==
  /\ s \in Seq(Updates)
  /\ \A j, k \in 1..Len(s) : s[j] = s[k] => j = k
  /\ \A u \in Notes(s) : update[u] = "applied"

Decisions == [at : {"idle", "read", "resolve", "append"}, of : Updates \cup {"none"},
              as : {"none", "applied", "rejected"}]
Editors == [open : BOOLEAN, shown : Seq(Updates)]

\* One decision at most is about to append a note, and then the note is in no
\* file, the one that an editor was shown included.
Pends(d) == decide[d].at = "append"
DecisionOK(d) ==
  /\ decide[d].at # "idle" => decide[d].of \in Updates /\ decide[d].as \in {"applied", "rejected"}
  /\ Pends(d) => /\ update[decide[d].of] = "applied" /\ decide[d].of \notin Notes(file)
                 /\ \A e \in Owners : decide[d].of \notin Notes(editor[e].shown)
MemoryInv ==
  /\ update \in [Updates -> {"none", "proposed", "applied", "rejected"}]
  /\ decide \in [Deciders -> Decisions] /\ editor \in [Owners -> Editors]
  /\ Sound(file) /\ \A e \in Owners : Sound(editor[e].shown)
  /\ \A d \in Deciders : DecisionOK(d)
  /\ \A c, d \in Deciders : Pends(c) /\ Pends(d) /\ decide[c].of = decide[d].of => c = d

LEMMA MemoryInvImplies == MemoryInv => MemoryTypeOK /\ MemoryOnce
<1> SUFFICES ASSUME MemoryInv PROVE MemoryTypeOK /\ MemoryOnce
  OBVIOUS
<1>1. MemoryTypeOK
  BY DEF MemoryInv, MemoryTypeOK, Sound, Decisions, Editors
<1>2. ASSUME NEW u \in Updates
      PROVE  Copies(u) <= IF update[u] = "applied" THEN 1 ELSE 0
  <2> DEFINE at == {k \in 1..Len(file) : file[k] = u}
  <2>1. CASE at = {}
    <3>1. Cardinality(at) = 0
      BY <2>1, FS_EmptySet
    <3> QED
      BY <3>1 DEF Copies
  <2>2. CASE at # {}
    <3>1. PICK k \in at : TRUE
      BY <2>2
    <3>2. at = {k} /\ update[u] = "applied"
      BY <3>1 DEF MemoryInv, Sound, Notes
    <3>3. Cardinality(at) = 1
      BY <3>2, FS_Singleton
    <3> QED
      BY <3>2, <3>3 DEF Copies
  <2> QED
    BY <2>1, <2>2
<1> QED
  BY <1>1, <1>2 DEF MemoryOnce

LEMMA MemoryStart == MemoryInit => MemoryInv
<1>1. Idle \in Decisions /\ Idle.at = "idle"
  BY DEF Idle, Decisions
<1>2. << >> \in Seq(Updates) /\ Len(<< >>) = 0 /\ Notes(<< >>) = {}
  BY DEF Notes
<1>3. [open |-> FALSE, shown |-> << >>] \in Editors
  BY <1>2 DEF Editors
<1>4. ASSUME MemoryInit PROVE MemoryInv
  <2>1. \A e \in Owners : editor[e].shown = << >>
    BY <1>4 DEF MemoryInit
  <2>2. file = << >> /\ Sound(<< >>)
    BY <1>2, <1>4 DEF MemoryInit, Sound
  <2>3. \A d \in Deciders : decide[d].at = "idle"
    BY <1>1, <1>4 DEF MemoryInit
  <2>4. \A d \in Deciders : DecisionOK(d) /\ ~Pends(d)
    BY <2>3 DEF DecisionOK, Pends
  <2>5. Sound(file) /\ \A e \in Owners : Sound(editor[e].shown)
    BY <2>1, <2>2
  <2>6. update \in [Updates -> {"none", "proposed", "applied", "rejected"}]
        /\ decide \in [Deciders -> Decisions] /\ editor \in [Owners -> Editors]
    BY <1>1, <1>3, <1>4 DEF MemoryInit
  <2> QED
    BY <2>4, <2>5, <2>6 DEF MemoryInv
<1> QED
  BY <1>4

\* A sequence of accepted notes, whatever else is decided.
LEMMA StaySound ==
  ASSUME MemoryInv, \A u \in Updates : update[u] = "applied" => update'[u] = "applied",
         UNCHANGED <<file, editor>>
  PROVE  Sound(file)' /\ \A e \in Owners : Sound(editor[e].shown)'
<1>1. Notes(file) \subseteq Updates /\ \A e \in Owners : Notes(editor[e].shown) \subseteq Updates
  BY DEF MemoryInv, Sound, Notes
<1> QED
  BY <1>1 DEF MemoryInv, Sound, Notes

LEMMA DecidersKeep ==
  ASSUME MemoryInv, NEW d \in Deciders,
         \/ \E u \in Updates, as \in {"applied", "rejected"} : Decide(d, u, as)
         \/ ReadUpdate(d)
  PROVE  MemoryInv'
<1>0. UNCHANGED <<update, file, editor>> /\ decide \in [Deciders -> Decisions]
  BY DEF Decide, ReadUpdate, MemoryInv
<1>1. decide'[d] \in Decisions /\ decide' = [decide EXCEPT ![d] = decide'[d]] /\ ~Pends(d)'
      /\ (decide'[d].at # "idle" => decide'[d].of \in Updates /\ decide'[d].as \in {"applied", "rejected"})
  <2>1. ASSUME NEW u \in Updates, NEW as \in {"applied", "rejected"}, Decide(d, u, as)
        PROVE  decide' = [decide EXCEPT ![d] = [at |-> "read", of |-> u, as |-> as]]
    BY <2>1 DEF Decide
  <2>2. ASSUME ReadUpdate(d)
        PROVE  decide' = [decide EXCEPT ![d] = Idle]
               \/ decide' = [decide EXCEPT ![d] = [decide[d] EXCEPT !.at = "resolve"]]
    BY <1>0, <2>2 DEF ReadUpdate
  <2>3. decide[d] \in Decisions /\ (ReadUpdate(d) => decide[d].of \in Updates
                                      /\ decide[d].as \in {"applied", "rejected"})
    BY <1>0 DEF MemoryInv, DecisionOK, ReadUpdate
  <2> QED
    BY <1>0, <2>1, <2>2, <2>3 DEF Decisions, Pends, Idle
<1>2. \A c \in Deciders : c # d => decide'[c] = decide[c]
  BY <1>0, <1>1
<1>3. \A c \in Deciders : DecisionOK(c)'
  BY <1>0, <1>1, <1>2 DEF MemoryInv, DecisionOK, Pends
<1> QED
  BY <1>0, <1>1, <1>2, <1>3 DEF MemoryInv, Pends, Sound

\* A proposal is accepted by one decision, which then appends its note.
LEMMA ResolveKeeps == ASSUME MemoryInv, NEW d \in Deciders, ResolveMemoryUpdate(d) PROVE MemoryInv'
<1> DEFINE u == decide[d].of
<1>0. /\ UNCHANGED <<file, editor>> /\ decide \in [Deciders -> Decisions] /\ decide[d].at = "resolve"
      /\ u \in Updates /\ decide[d].as \in {"applied", "rejected"}
  BY DEF ResolveMemoryUpdate, MemoryInv, DecisionOK
<1>1. CASE ~Pending(u)
  <2>1. decide' = [decide EXCEPT ![d] = Idle] /\ UNCHANGED update /\ Idle \in Decisions
        /\ Idle.at = "idle"
    BY <1>1 DEF ResolveMemoryUpdate, Idle, Decisions
  <2> QED
    BY <1>0, <2>1 DEF MemoryInv, Sound, DecisionOK, Pends
<1>2. CASE Pending(u)
  <2>1. /\ update' = [update EXCEPT ![u] = decide[d].as] /\ update[u] = "proposed"
        /\ decide' = [decide EXCEPT ![d] =
             IF decide[d].as = "applied" THEN [decide[d] EXCEPT !.at = "append"] ELSE Idle]
    BY <1>2 DEF ResolveMemoryUpdate, Pending
  <2>2. /\ update' \in [Updates -> {"none", "proposed", "applied", "rejected"}]
        /\ \A v \in Updates \ {u} : update'[v] = update[v] /\ update'[u] = decide[d].as
    BY <1>0, <2>1 DEF MemoryInv
  <2>3. Sound(file)' /\ \A e \in Owners : Sound(editor[e].shown)'
    BY <1>0, <2>1, <2>2, StaySound
  <2>4. /\ decide' \in [Deciders -> Decisions] /\ \A c \in Deciders \ {d} : decide'[c] = decide[c]
        /\ Pends(d)' => decide[d].as = "applied"
        /\ decide'[d].at # "idle" => decide'[d].of = u /\ decide'[d].as = decide[d].as
    BY <1>0, <2>1 DEF Decisions, Idle, Pends
  <2>5. u \notin Notes(file) /\ (\A e \in Owners : u \notin Notes(editor[e].shown))
        /\ \A c \in Deciders : Pends(c) => decide[c].of # u
    BY <2>1 DEF MemoryInv, Sound, DecisionOK
  <2>6. update'[u] = decide[d].as
    BY <1>0, <2>1 DEF MemoryInv
  <2>7. ASSUME NEW c \in Deciders PROVE DecisionOK(c)'
    <3>1. CASE c = d
      BY <1>0, <2>4, <2>5, <2>6, <3>1 DEF DecisionOK, Notes, Pends
    <3>2. CASE c # d
      <4>1. decide'[c] = decide[c] /\ DecisionOK(c)
        BY <2>4, <3>2 DEF MemoryInv
      <4>2. Pends(c) => update'[decide[c].of] = update[decide[c].of]
        BY <2>2, <2>5, <4>1 DEF DecisionOK, Pends
      <4> QED
        BY <1>0, <4>1, <4>2 DEF DecisionOK, Pends, Notes
    <3> QED
      BY <3>1, <3>2
  <2>8. \A b, c \in Deciders : Pends(b)' /\ Pends(c)' /\ decide'[b].of = decide'[c].of => b = c
    BY <2>4, <2>5 DEF MemoryInv, Pends
  <2>9. editor' \in [Owners -> Editors]
    BY <1>0 DEF MemoryInv
  <2> QED
    BY <2>2, <2>3, <2>4, <2>7, <2>8, <2>9 DEF MemoryInv
<1> QED
  BY <1>1, <1>2

LEMMA AppendKeeps == ASSUME MemoryInv, NEW d \in Deciders, AppendMemory(d) PROVE MemoryInv'
<1> DEFINE u == decide[d].of
<1>0. /\ UNCHANGED <<update, editor>> /\ decide \in [Deciders -> Decisions] /\ Pends(d)
      /\ u \in Updates /\ update[u] = "applied" /\ u \notin Notes(file)
      /\ file \in Seq(Updates) /\ Sound(file)
  BY DEF AppendMemory, MemoryInv, DecisionOK, Pends, Sound
<1>1. /\ decide' \in [Deciders -> Decisions] /\ \A c \in Deciders \ {d} : decide'[c] = decide[c]
      /\ decide'[d].at = "idle"
  BY <1>0 DEF AppendMemory, Idle, Decisions
<1>2. Sound(file)' /\ Notes(file)' \subseteq Notes(file) \cup {u}
  <2>1. CASE UNCHANGED file
    BY <1>0, <2>1 DEF Sound, Notes
  <2>2. CASE file' = Append(file, u)
    <3>1. /\ file' \in Seq(Updates) /\ Len(file') = Len(file) + 1 /\ file'[Len(file) + 1] = u
          /\ \A k \in 1..Len(file) : file'[k] = file[k]
      BY <1>0, <2>2
    <3>2. \A k \in 1..Len(file') : k = Len(file) + 1 \/ k \in 1..Len(file)
      BY <1>0, <3>1
    <3>3. \A k \in 1..Len(file) : file[k] # u
      BY <1>0 DEF Notes
    <3>4. \A j, k \in 1..Len(file') : file'[j] = file'[k] => j = k
      BY <1>0, <3>1, <3>2, <3>3 DEF Sound
    <3>5. Notes(file)' \subseteq Notes(file) \cup {u}
      BY <3>1, <3>2 DEF Notes
    <3> QED
      BY <1>0, <3>1, <3>4, <3>5 DEF Sound
  <2> QED
    BY <2>1, <2>2 DEF AppendMemory
<1>3. \A c \in Deciders \ {d} : Pends(c) => decide[c].of # u
  BY <1>0 DEF MemoryInv
<1>4. ASSUME NEW c \in Deciders PROVE DecisionOK(c)'
  <2>1. CASE c = d
    BY <1>1, <2>1 DEF DecisionOK, Pends
  <2>2. CASE c # d
    <3>1. decide'[c] = decide[c] /\ DecisionOK(c)
      BY <1>1, <2>2 DEF MemoryInv
    <3>2. Pends(c) => decide[c].of \notin Notes(file)'
      BY <1>2, <1>3, <2>2, <3>1 DEF DecisionOK
    <3>3. \A e \in Owners : Notes(editor[e].shown)' = Notes(editor[e].shown)
      BY <1>0 DEF Notes
    <3> QED
      BY <1>0, <3>1, <3>2, <3>3 DEF DecisionOK, Pends
  <2> QED
    BY <2>1, <2>2
<1>5. \A e \in Owners : Sound(editor[e].shown)'
  BY <1>0 DEF MemoryInv, Sound, Notes
<1> QED
  BY <1>0, <1>1, <1>2, <1>4, <1>5 DEF MemoryInv, Pends

\* What is left of a sequence is as sound as it was.
LEMMA KeptSound ==
  ASSUME NEW s, Sound(s), NEW t \in Kept(s)
  PROVE  Sound(t) /\ Notes(t) \subseteq Notes(s)
<1>1. CASE t = s
  BY <1>1
<1>2. CASE t # s
  <2>1. PICK j \in 1..Len(s) :
          t = [k \in 1..(Len(s) - 1) |-> IF k < j THEN s[k] ELSE s[k + 1]]
    BY <1>2 DEF Kept
  <2>2. s \in Seq(Updates) /\ Len(s) \in Nat /\ Len(s) >= 1 /\ Len(s) - 1 \in Nat
    BY <2>1 DEF Sound
  <2>3. \A k \in 1..(Len(s) - 1) : k \in 1..Len(s) /\ k + 1 \in 1..Len(s)
    BY <2>2
  <2>4. \A k \in 1..(Len(s) - 1) : s[k] \in Updates /\ s[k + 1] \in Updates
    BY <2>2, <2>3
  <2>5. t \in [1..(Len(s) - 1) -> Updates]
    BY <2>1, <2>4
  <2>6. t \in Seq(Updates) /\ Len(t) = Len(s) - 1
    BY <2>2, <2>5
  <2>7. Notes(t) \subseteq Notes(s)
    BY <2>1, <2>3, <2>6 DEF Notes
  <2>8. \A i, k \in 1..Len(t) : t[i] = t[k] => i = k
    BY <2>1, <2>2, <2>3, <2>6 DEF Sound
  <2> QED
    BY <2>6, <2>7, <2>8 DEF Sound
<1> QED
  BY <1>1, <1>2

LEMMA OwnersKeep == ASSUME MemoryInv, NEW e \in Owners, Show(e) \/ UpdateMemory(e) PROVE MemoryInv'
<1>0. UNCHANGED <<update, decide>> /\ editor \in [Owners -> Editors]
  BY DEF Show, UpdateMemory, MemoryInv
<1>1. CASE Show(e)
  <2>1. /\ UNCHANGED file /\ editor' = [editor EXCEPT ![e] = [open |-> TRUE, shown |-> file]]
        /\ [open |-> TRUE, shown |-> file] \in Editors
    BY <1>1 DEF Show, Editors, MemoryInv, Sound
  <2>2. editor' \in [Owners -> Editors] /\ \A f \in Owners : editor'[f].shown \in {file, editor[f].shown}
    BY <1>0, <2>1
  <2>3. \A f \in Owners : Sound(editor[f].shown)'
    BY <1>0, <2>2 DEF MemoryInv, Sound, Notes
  <2>4. \A d \in Deciders : DecisionOK(d)'
    BY <1>0, <2>1, <2>2 DEF MemoryInv, DecisionOK, Pends, Notes
  <2> QED
    BY <1>0, <2>1, <2>2, <2>3, <2>4 DEF MemoryInv, Pends, Sound, Notes
<1>2. CASE UpdateMemory(e)
  <2>1. /\ file' \in Kept(editor[e].shown) /\ Sound(editor[e].shown)
        /\ editor' = [editor EXCEPT ![e] = [open |-> FALSE, shown |-> << >>]]
        /\ [open |-> FALSE, shown |-> << >>] \in Editors
    BY <1>2 DEF UpdateMemory, Editors, MemoryInv
  <2>2. Sound(file') /\ Notes(file') \subseteq Notes(editor[e].shown)
    BY <2>1, KeptSound
  <2>3. editor' \in [Owners -> Editors]
        /\ \A f \in Owners : editor'[f].shown = << >> \/ editor'[f].shown = editor[f].shown
    BY <1>0, <2>1
  <2>4. << >> \in Seq(Updates) /\ Notes(<< >>) = {} /\ Len(<< >>) = 0
    BY DEF Notes
  <2>5. ASSUME NEW f \in Owners
        PROVE  Sound(editor[f].shown)' /\ Notes(editor[f].shown)' \subseteq Notes(editor[f].shown)
    <3>1. CASE editor'[f].shown = << >>
      BY <2>4, <3>1 DEF Sound, Notes
    <3>2. CASE editor'[f].shown = editor[f].shown
      <4>1. Sound(editor[f].shown)
        BY DEF MemoryInv
      <4> QED
        BY <1>0, <3>2, <4>1 DEF Sound, Notes
    <3> QED
      BY <2>3, <3>1, <3>2
  <2>6. ASSUME NEW d \in Deciders PROVE DecisionOK(d)'
    <3>1. DecisionOK(d) /\ decide'[d] = decide[d]
      BY <1>0 DEF MemoryInv
    <3>2. Notes(file)' \subseteq Notes(editor[e].shown)
      BY <2>2 DEF Notes
    <3>3. Pends(d) => /\ decide[d].of \notin Notes(file)'
                      /\ \A f \in Owners : decide[d].of \notin Notes(editor[f].shown)'
      BY <2>5, <3>1, <3>2 DEF DecisionOK
    <3> QED
      BY <1>0, <3>1, <3>3 DEF DecisionOK, Pends
  <2>7. Sound(file)'
    BY <1>0, <2>2 DEF Sound, Notes
  <2> QED
    BY <1>0, <2>3, <2>5, <2>6, <2>7 DEF MemoryInv, Pends
<1> QED
  BY <1>1, <1>2

LEMMA MemoryStep == ASSUME MemoryInv, [MemoryNext]_memoryVars PROVE MemoryInv'
<1>1. CASE UNCHANGED memoryVars
  BY <1>1 DEF memoryVars, MemoryInv, Sound, Notes, DecisionOK, Pends
<1>2. ASSUME NEW u \in Updates, CreateMemoryUpdate(u) PROVE MemoryInv'
  <2>1. /\ update' \in [Updates -> {"none", "proposed", "applied", "rejected"}]
        /\ \A v \in Updates : update[v] = "applied" => update'[v] = "applied"
        /\ UNCHANGED <<file, decide, editor>>
    BY <1>2 DEF CreateMemoryUpdate, MemoryInv
  <2>2. Sound(file)' /\ \A e \in Owners : Sound(editor[e].shown)'
    BY <2>1, StaySound
  <2>3. \A d \in Deciders : DecisionOK(d)'
    BY <2>1 DEF MemoryInv, DecisionOK, Pends, Notes
  <2> QED
    BY <2>1, <2>2, <2>3 DEF MemoryInv, Pends
<1> QED
  BY <1>1, <1>2, DecidersKeep, ResolveKeeps, AppendKeeps, OwnersKeep DEF MemoryNext

LEMMA MemoryInvariant == MemorySpec => []MemoryInv
BY MemoryStart, MemoryStep, PTL DEF MemorySpec

\* Statuses, the file and the editors keep their types (store/memory.go).
THEOREM MemoryTypeCorrect == MemorySpec => []MemoryTypeOK
BY MemoryInvariant, MemoryInvImplies, PTL

\* No note is written twice, and none that was not accepted, for any number of
\* decisions and editors at once (store/memory.go: ResolveMemoryUpdate;
\* config/memory.go: AppendMemory).
THEOREM MemoryOnceHolds == MemorySpec => []MemoryOnce
BY MemoryInvariant, MemoryInvImplies, PTL

------------------------------------------------------------------------------
(* TaskDependencies.                                                         *)

GraphInv == TypeOK /\ Acyclic /\ WithinWorkspace

-----------------------------------------------------------------------------
\* Facts about graphs.

\* If no prerequisite of D leads to t, the prerequisites of t can be replaced
\* by D.  Of a set that holds t and meets D, look at the part a prerequisite
\* leads to: it is closed, t is outside, and its minimal member will do.
LEMMA ReplaceKeepsAcyclic ==
    ASSUME TypeOK, Acyclic, NEW t \in Tasks, NEW D \in SUBSET Tasks,
           \A p \in D : t \notin Upstream(p),
           deps' = [deps EXCEPT ![t] = D]
    PROVE  Acyclic'
<1> SUFFICES ASSUME NEW S \in SUBSET Tasks, S # {}
             PROVE  \E u \in S : deps'[u] \cap S = {}
  BY DEF Acyclic
<1>0. deps \in [Tasks -> SUBSET Tasks]
  BY DEF TypeOK
<1>1. CASE t \notin S
  <2>1. PICK u \in S : deps[u] \cap S = {}
    BY DEF Acyclic
  <2>2. deps'[u] = deps[u]
    BY <1>0, <1>1
  <2> QED
    BY <2>1, <2>2
<1>2. CASE t \in S /\ D \cap S = {}
  BY <1>0, <1>2
<1>3. CASE t \in S /\ D \cap S # {}
  <2>1. PICK p \in D : p \in S
    BY <1>3
  <2>2. PICK C \in SUBSET Tasks : p \in C /\ Closed(C) /\ t \notin C
    BY DEF Upstream
  <2>3. S \cap C # {} /\ S \cap C \in SUBSET Tasks
    BY <2>1, <2>2
  <2>4. PICK u \in S \cap C : deps[u] \cap (S \cap C) = {}
    BY <2>3 DEF Acyclic
  <2>5. deps[u] \subseteq C
    BY <2>2, <2>4 DEF Closed
  <2>6. deps'[u] = deps[u]
    BY <1>0, <2>2, <2>4
  <2> QED
    BY <2>4, <2>5, <2>6
<1> QED
  BY <1>1, <1>2, <1>3

\* Losing dependencies closes no cycle.
LEMMA SmallerIsAcyclic ==
    ASSUME Acyclic, \A u \in Tasks : deps'[u] \subseteq deps[u]
    PROVE  Acyclic'
<1> SUFFICES ASSUME NEW S \in SUBSET Tasks, S # {}
             PROVE  \E u \in S : deps'[u] \cap S = {}
  BY DEF Acyclic
<1>1. PICK u \in S : deps[u] \cap S = {}
  BY DEF Acyclic
<1> QED
  BY <1>1

\* Following prerequisites stays in Upstream.
LEMMA UpstreamIsClosed ==
    ASSUME NEW t \in Tasks, deps \in [Tasks -> SUBSET Tasks]
    PROVE  /\ Upstream(t) \in SUBSET Tasks
           /\ t \in Upstream(t)
           /\ Closed(Upstream(t))
<1>1. Upstream(t) \in SUBSET Tasks /\ t \in Upstream(t)
  BY DEF Upstream
<1>2. ASSUME NEW u \in Upstream(t), NEW p \in deps[u]
      PROVE  p \in Upstream(t)
  <2>1. u \in Tasks /\ p \in Tasks
    BY <1>1, <1>2
  <2>2. ASSUME NEW C \in SUBSET Tasks, t \in C, Closed(C)
        PROVE  p \in C
    BY <1>2, <2>2 DEF Upstream, Closed
  <2> QED
    BY <2>1, <2>2 DEF Upstream
<1> QED
  BY <1>1, <1>2 DEF Closed

-----------------------------------------------------------------------------
\* Steps that write no dependency.

LEMMA StatusStep ==
    ASSUME GraphInv, deps' = deps, home' = home,
           \A u \in Tasks : Exists(u) => Exists(u)'
    PROVE  Acyclic' /\ WithinWorkspace'
<1>1. Acyclic'
  BY DEF GraphInv, Acyclic
<1>2. deps \in [Tasks -> SUBSET Tasks]
  BY DEF GraphInv, TypeOK
<1>3. WithinWorkspace'
  BY <1>2 DEF GraphInv, WithinWorkspace, IsIn
<1> QED
  BY <1>1, <1>3

\* Deletion, of one task or of all tasks of a workspace.
LEMMA RemoveStep ==
    ASSUME GraphInv, NEW T \in SUBSET Tasks, Remove(T), home' = home
    PROVE  Acyclic' /\ WithinWorkspace'
<1>0. /\ deps \in [Tasks -> SUBSET Tasks] /\ status \in [Tasks -> Statuses]
      /\ deps' = [t \in Tasks |-> IF t \in T THEN {} ELSE deps[t] \ T]
      /\ status' = [t \in Tasks |-> IF t \in T THEN "deleted" ELSE status[t]]
  BY DEF GraphInv, TypeOK, Remove
<1>1. \A u \in Tasks : deps'[u] \subseteq deps[u]
  BY <1>0
<1>2. Acyclic'
  BY <1>1, SmallerIsAcyclic DEF GraphInv
<1>3. ASSUME NEW u \in Tasks, NEW p \in deps'[u]
      PROVE  Exists(u)' /\ Exists(p)' /\ home'[p] = home'[u]
  <2>1. p \in Tasks /\ u \notin T /\ p \notin T /\ p \in deps[u]
    BY <1>0, <1>3
  <2>2. Exists(u) /\ IsIn(p, home[u])
    BY <2>1 DEF GraphInv, WithinWorkspace
  <2> QED
    BY <1>0, <2>1, <2>2 DEF Exists, IsIn
<1>4. ASSUME NEW u \in Tasks
      PROVE  Cardinality(deps'[u]) <= Limit
  <2>1. IsFiniteSet(deps[u])
    BY <1>0, DependenciesAssumption, FS_Subset DEF DependenciesAssumption
  <2>2. IsFiniteSet(deps'[u]) /\ Cardinality(deps'[u]) <= Cardinality(deps[u])
    BY <1>1, <2>1, FS_Subset
  <2>3. Cardinality(deps[u]) \in Nat /\ Cardinality(deps'[u]) \in Nat
    BY <2>1, <2>2, FS_CardinalityType
  <2>4. Cardinality(deps[u]) <= Limit
    BY DEF GraphInv, WithinWorkspace
  <2> QED
    BY <2>2, <2>3, <2>4, DependenciesAssumption DEF DependenciesAssumption
<1>5. WithinWorkspace'
  BY <1>3, <1>4 DEF WithinWorkspace, IsIn
<1> QED
  BY <1>2, <1>5

\* Accepted prerequisites are written for a row that exists afterwards in the
\* workspace they were validated for.
LEMMA ReplaceStep ==
    ASSUME GraphInv, NEW t \in Tasks, NEW w, NEW D \in SUBSET Tasks, NEW s \in Live,
           Accepted(t, w, D),
           status[t] = "absent" \/ (Exists(t) /\ home[t] = w),
           status' = [status EXCEPT ![t] = s],
           deps' = [deps EXCEPT ![t] = D],
           home' = [home EXCEPT ![t] = w]
    PROVE  Acyclic' /\ WithinWorkspace'
<1>0. /\ deps \in [Tasks -> SUBSET Tasks] /\ status \in [Tasks -> Statuses]
      /\ home \in [Tasks -> Workspaces \cup {NoWorkspace}]
  BY DEF GraphInv, TypeOK
<1>1. Acyclic'
  <2>1. \A p \in D : t \notin Upstream(p)
    BY DEF Accepted
  <2> QED
    BY <2>1, ReplaceKeepsAcyclic DEF GraphInv
<1>2. ASSUME NEW u \in Tasks, NEW v, IsIn(u, v)
      PROVE  IsIn(u, v)' 
  BY <1>0, <1>2 DEF IsIn, Exists, Live
<1>3. ASSUME NEW u \in Tasks, NEW p \in deps'[u]
      PROVE  Exists(u)' /\ Exists(p)' /\ home'[p] = home'[u]
  <2>1. CASE u = t
    <3>1. p \in D /\ p \in Tasks /\ home'[u] = w
      BY <1>0, <1>3, <2>1
    <3>2. IsIn(p, w)'
      BY <3>1, <1>2 DEF Accepted
    <3>3. Exists(u)'
      BY <1>0, <2>1 DEF Exists
    <3> QED
      BY <3>1, <3>2, <3>3 DEF IsIn
  <2>2. CASE u # t
    <3>1. p \in deps[u] /\ p \in Tasks /\ home'[u] = home[u] /\ status'[u] = status[u]
      BY <1>0, <1>3, <2>2
    <3>2. Exists(u) /\ IsIn(p, home[u])
      BY <3>1 DEF GraphInv, WithinWorkspace
    <3>3. IsIn(p, home[u])'
      BY <3>1, <3>2, <1>2 DEF IsIn
    <3> QED
      BY <3>1, <3>2, <3>3 DEF IsIn, Exists
  <2> QED
    BY <2>1, <2>2
<1>4. ASSUME NEW u \in Tasks
      PROVE  Cardinality(deps'[u]) <= Limit
  BY <1>0 DEF Accepted, GraphInv, WithinWorkspace
<1>5. WithinWorkspace'
  BY <1>3, <1>4 DEF WithinWorkspace, IsIn
<1> QED
  BY <1>1, <1>5

-----------------------------------------------------------------------------
\* Types.

LEMMA RowTypes ==
    ASSUME GraphInv, NEW e \in Writers, edit[e] # NoEdit
    PROVE  /\ edit[e] \in Snapshots
           /\ edit[e].task \in Tasks
           /\ edit[e].deps \in SUBSET Tasks
           /\ {edit[e].status} \cup Targets(edit[e].status) \subseteq Live
<1>1. edit[e] \in Snapshots
  BY DEF GraphInv, TypeOK
<1> QED
  BY <1>1 DEF Snapshots, Targets, Live

LEMMA RemoveTypes ==
    ASSUME TypeOK, NEW T \in SUBSET Tasks, Remove(T)
    PROVE  status' \in [Tasks -> Statuses] /\ deps' \in [Tasks -> SUBSET Tasks]
<1>1. "deleted" \in Statuses
  BY DEF Statuses
<1> QED
  BY <1>1 DEF TypeOK, Remove

LEMMA NoEditKept ==
    ASSUME TypeOK, NEW e \in Writers, edit' = [edit EXCEPT ![e] = NoEdit]
    PROVE  edit' \in [Writers -> Snapshots \cup {NoEdit}]
BY DEF TypeOK

LEMMA RequestTypes ==
    ASSUME TypeOK, Request
    PROVE  left' \in 0 .. MaxEdits
BY DependenciesAssumption DEF DependenciesAssumption, TypeOK, Request

-----------------------------------------------------------------------------
LEMMA InitGraph == Init => GraphInv
<1> SUFFICES ASSUME Init PROVE GraphInv
  OBVIOUS
<1>1. TypeOK
  BY DependenciesAssumption DEF DependenciesAssumption, Init, TypeOK, Statuses
<1>2. Acyclic
  <2> SUFFICES ASSUME NEW S \in SUBSET Tasks, S # {}
               PROVE  \E u \in S : deps[u] \cap S = {}
    BY DEF Acyclic
  <2>1. PICK u \in S : TRUE
    OBVIOUS
  <2> QED
    BY <2>1 DEF Init
<1>3. WithinWorkspace
  BY FS_EmptySet, DependenciesAssumption DEF DependenciesAssumption, Init, WithinWorkspace
<1> QED
  BY <1>1, <1>2, <1>3 DEF GraphInv

LEMMA EditStepGraph ==
    ASSUME GraphInv, NEW e \in Writers, EditStep(e)
    PROVE  GraphInv'
<1>1. CASE Load(e)
  <2>1. PICK t \in Tasks : /\ Exists(t)
                          /\ edit' = [edit EXCEPT ![e] =
                                [task |-> t, status |-> status[t], deps |-> deps[t]]]
    BY <1>1 DEF Load
  <2>2. [task |-> t, status |-> status[t], deps |-> deps[t]] \in Snapshots
    BY <2>1 DEF GraphInv, TypeOK, Snapshots, Exists
  <2>3. TypeOK'
    BY <1>1, <2>1, <2>2, RequestTypes DEF Load, GraphInv, TypeOK
  <2>4. Acyclic' /\ WithinWorkspace'
    BY <1>1, StatusStep DEF Load, Exists
  <2> QED
    BY <2>3, <2>4 DEF GraphInv
<1>2. CASE CommitEdit(e)
  <2>1. PICK s \in {edit[e].status} \cup Targets(edit[e].status), D \in SUBSET Tasks :
            Rewrite(e, s, D)
    BY <1>2, RowTypes DEF CommitEdit
  <2>2. s \in Live /\ edit[e].task \in Tasks
    BY <1>2, RowTypes DEF CommitEdit
  <2>3. TypeOK'
    <3>1. status' \in [Tasks -> Statuses] /\ deps' \in [Tasks -> SUBSET Tasks]
      BY <2>1, <2>2 DEF Rewrite, GraphInv, TypeOK, Statuses
    <3>2. edit' \in [Writers -> Snapshots \cup {NoEdit}]
      BY <2>1, NoEditKept DEF Rewrite, GraphInv
    <3> QED
      BY <1>2, <3>1, <3>2 DEF CommitEdit, GraphInv, TypeOK
  <2>4. home' = [home EXCEPT ![edit[e].task] = home[edit[e].task]]
    BY <1>2 DEF CommitEdit, GraphInv, TypeOK
  <2>5. Acyclic' /\ WithinWorkspace'
    BY <2>1, <2>2, <2>4, ReplaceStep DEF Rewrite
  <2> QED
    BY <2>3, <2>5 DEF GraphInv
<1>3. CASE Refuse(e)
  <2>1. TypeOK'
    BY <1>3, NoEditKept DEF Refuse, GraphInv, TypeOK
  <2>2. Acyclic' /\ WithinWorkspace'
    BY <1>3, StatusStep DEF Refuse, Exists
  <2> QED
    BY <2>1, <2>2 DEF GraphInv
<1>4. CASE DeleteTask(e)
  <2>1. {edit[e].task} \in SUBSET Tasks /\ Remove({edit[e].task})
    BY <1>4, RowTypes DEF DeleteTask
  <2>2. TypeOK'
    BY <1>4, <2>1, RemoveTypes, NoEditKept DEF DeleteTask, GraphInv, TypeOK
  <2>3. Acyclic' /\ WithinWorkspace'
    BY <1>4, <2>1, RemoveStep DEF DeleteTask
  <2> QED
    BY <2>2, <2>3 DEF GraphInv
<1> QED
  BY <1>1, <1>2, <1>3, <1>4 DEF EditStep

LEMMA TaskStepGraph ==
    ASSUME GraphInv, NEW t \in Tasks, TaskStep(t)
    PROVE  GraphInv'
<1>1. CASE CreateTask(t)
  <2>1. PICK w \in open, D \in SUBSET Tasks, s \in {"idea", "ready"} :
            /\ Accepted(t, w, D)
            /\ status' = [status EXCEPT ![t] = s]
            /\ home'   = [home EXCEPT ![t] = w]
            /\ deps'   = [deps EXCEPT ![t] = D]
    BY <1>1 DEF CreateTask
  <2>2. s \in Live
    BY DEF Live
  <2>3. TypeOK'
    BY <1>1, <2>1, <2>2 DEF CreateTask, GraphInv, TypeOK, Statuses
  <2>4. Acyclic' /\ WithinWorkspace'
    BY <1>1, <2>1, <2>2, ReplaceStep DEF CreateTask
  <2> QED
    BY <2>3, <2>4 DEF GraphInv
<1>2. ASSUME NEW s \in Live, Exists(t), status' = [status EXCEPT ![t] = s],
             UNCHANGED <<home, deps, open, edit, left>>
      PROVE  GraphInv'
  <2>1. TypeOK'
    BY <1>2 DEF GraphInv, TypeOK, Statuses
  <2>2. \A u \in Tasks : Exists(u) => Exists(u)'
    BY <1>2 DEF GraphInv, TypeOK, Exists
  <2>3. Acyclic' /\ WithinWorkspace'
    BY <1>2, <2>2, StatusStep
  <2> QED
    BY <2>1, <2>3 DEF GraphInv
<1>3. CASE RunNow(t)
  BY <1>2, <1>3 DEF RunNow, Exists, Live
<1>4. CASE Claim(t)
  BY <1>2, <1>4 DEF Claim, Claimable, Exists, Live
<1>5. CASE Settle(t)
  BY <1>2, <1>5 DEF Settle, Exists, Live
<1> QED
  BY <1>1, <1>3, <1>4, <1>5 DEF TaskStep, QueueStep

LEMMA NextGraph == GraphInv /\ [Next]_vars => GraphInv'
<1> SUFFICES ASSUME GraphInv, [Next]_vars PROVE GraphInv'
  OBVIOUS
<1>1. CASE \E t \in Tasks : TaskStep(t)
  BY <1>1, TaskStepGraph
<1>2. CASE \E e \in Writers : EditStep(e)
  BY <1>2, EditStepGraph
<1>3. ASSUME NEW w \in Workspaces, DeleteWorkspace(w) PROVE GraphInv'
  <2>1. PICK T \in SUBSET Tasks : Remove(T)
    BY <1>3 DEF DeleteWorkspace
  <2>2. TypeOK'
    BY <1>3, <2>1, RemoveTypes, RequestTypes DEF DeleteWorkspace, GraphInv, TypeOK
  <2>3. Acyclic' /\ WithinWorkspace'
    BY <1>3, <2>1, RemoveStep DEF DeleteWorkspace
  <2> QED
    BY <2>2, <2>3 DEF GraphInv
<1>4. CASE Restart
  <2>1. status' \in [Tasks -> Statuses]
    BY <1>4 DEF Restart, GraphInv, TypeOK, Statuses, Live
  <2>2. TypeOK'
    BY <1>4, <2>1, RequestTypes DEF Restart, GraphInv, TypeOK
  <2>3. \A u \in Tasks : Exists(u) => Exists(u)'
    BY <1>4 DEF Restart, Exists, Live
  <2>4. Acyclic' /\ WithinWorkspace'
    BY <1>4, <2>3, StatusStep DEF Restart
  <2> QED
    BY <2>2, <2>4 DEF GraphInv
<1>5. CASE UNCHANGED vars
  BY <1>5 DEF vars, GraphInv, TypeOK, Acyclic, WithinWorkspace, IsIn, Exists
<1> QED
  BY <1>1, <1>2, <1>3, <1>4, <1>5 DEF Next

LEMMA GraphHolds == Spec => []GraphInv
BY InitGraph, NextGraph, PTL DEF Spec

-----------------------------------------------------------------------------
\* Every variable keeps its type, for every set of tasks, requests and
\* workspaces.
THEOREM TypeCorrect == Spec => []TypeOK
<1>1. GraphInv => TypeOK
  BY DEF GraphInv
<1> QED
  BY <1>1, GraphHolds, PTL

\* No sequence of creations, edits from outdated rows, deletions and restarts
\* closes a cycle of prerequisites.
THEOREM AcyclicHolds == Spec => []Acyclic
<1>1. GraphInv => Acyclic
  BY DEF GraphInv
<1> QED
  BY <1>1, GraphHolds, PTL

\* A dependency joins two existing tasks of one workspace, and no task has
\* more than the limit.
THEOREM WithinWorkspaceHolds == Spec => []WithinWorkspace
<1>1. GraphInv => WithinWorkspace
  BY DEF GraphInv
<1> QED
  BY <1>1, GraphHolds, PTL

\* The ready tasks upstream of a ready task have a minimal one; it can be
\* claimed, or an unresolved prerequisite of it is not ready, hence idea,
\* running or held.
LEMMA NobodyWaitsForNothing == GraphInv => BlockedForAReason
<1> SUFFICES ASSUME GraphInv, NEW t \in Tasks, status[t] = "ready"
             PROVE  \E p \in Upstream(t) : Moves(p)
  BY DEF BlockedForAReason
<1>1. /\ Upstream(t) \in SUBSET Tasks
      /\ t \in Upstream(t)
      /\ Closed(Upstream(t))
  BY UpstreamIsClosed DEF GraphInv, TypeOK
<1> DEFINE R == {u \in Upstream(t) : status[u] = "ready"}
<1>2. R \in SUBSET Tasks /\ R # {}
  BY <1>1
<1>3. PICK u \in R : deps[u] \cap R = {}
  BY <1>2 DEF GraphInv, Acyclic
<1>4. CASE Claimable(u)
  BY <1>3, <1>4 DEF Moves
<1>5. CASE ~ Claimable(u)
  <2>1. PICK p \in deps[u] : Exists(p) /\ status[p] \notin Resolved
    BY <1>3, <1>5 DEF Claimable
  <2>2. p \in Upstream(t)
    BY <1>1, <1>3, <2>1 DEF Closed
  <2>3. status[p] # "ready"
    BY <1>3, <2>1, <2>2
  <2>4. Moves(p)
    BY <2>1, <2>3 DEF Moves, Exists, Live, Resolved
  <2> QED
    BY <2>2, <2>4
<1> QED
  BY <1>4, <1>5

\* Nobody waits for nothing: upstream of a queued task there is always one
\* that can be claimed, runs, or waits for a person.
THEOREM BlockedForAReasonHolds == Spec => []BlockedForAReason
BY NobodyWaitsForNothing, GraphHolds, PTL

\* The graph of prerequisites is acyclic and stays within workspaces and the
\* limit, whatever is created, edited or deleted (internal/store/tasks.go).
THEOREM SoundGraphHolds == Spec => []SoundGraph
<1>1. Acyclic /\ WithinWorkspace => SoundGraph
  BY DEF SoundGraph
<1> QED
  BY <1>1, AcyclicHolds, WithinWorkspaceHolds, PTL

==============================================================================
