------------------------------ MODULE Datasets ------------------------------
(***************************************************************************)
(* The datasets of one workspace (store/datasets.go), the writes of a      *)
(* finished task and of Chat, the owner's requests, the approval a row     *)
(* deletion needs (operator/dataset_approvals.go, store/approvals.go) and  *)
(* the export.  A transaction of the store is one step; everything between *)
(* two of them is another step of its goroutine.                           *)
(***************************************************************************)
EXTENDS Naturals, Sequences, FiniteSets

CONSTANTS
    Datasets,       \* identifiers of datasets
    Slugs, Cols, Vals,
    Null,           \* the JSON null, also the value of a missing column
    Shapes,         \* the schemas with unique keys that requests may name
    Batches,        \* the lists of rows that requests may write
    Changes,        \* the column values that a row update may name
    Workers,        \* task workers
    Chat,           \* the chat lane, which applies one effect at a time
    Editors,        \* requests that change a dataset's schema
    Approvers,      \* requests that decide on an approval
    NoDataset,
    PageSize,       \* rows of an export page
    MaxWrites,      \* bound of the model: writes of one task
    MaxRows,        \* bound of the model: rows ever inserted
    MaxApprovals,   \* bound of the model
    MaxRequests     \* bound of the model: requests of the owner, effects of Chat, crashes

Schema == [Cols -> {"none", "required", "nullable"}]
Values == [Cols -> Vals \cup {Null}]
NoSchema == [c \in Cols |-> "none"]
\* A unique key names columns of the schema.
Wellformed(shape) == \A c \in shape.key : shape.schema[c] # "none"

ASSUME DatasetsAssumption ==
    /\ NoDataset \notin Datasets \cup Workers \cup {Chat} /\ Chat \notin Workers
    /\ Null \notin Vals /\ Slugs # {}
    /\ Shapes \subseteq [schema : Schema, key : SUBSET Cols]
    /\ \A s \in Shapes : Wellformed(s)
    /\ Batches \subseteq Seq(Values)
    /\ \A c \in Changes : \E columns \in SUBSET Cols : c \in [columns -> Vals \cup {Null}]
    /\ PageSize \in Nat \ {0} /\ MaxRows \in Nat

VARIABLES
    datasets,   \* the rows of table datasets
    rows,       \* the rows of table dataset_rows
    births,     \* the AUTOINCREMENT counter of dataset_rows
    approvals,  \* table approvals, those of row deletions, in order of creation
    work,       \* for each worker and for Chat: the writes in progress
    edit,       \* for each editor: the request in progress
    decide,     \* for each approver: the request in progress
    export,     \* the export in progress
    budget,     \* counter of the bound MaxRequests
    overtaken,  \* history: datasets whose schema was written over unseen rows or columns
    erased      \* history: the rows deleted and the approval that did it

table == <<datasets, rows, births>>
vars == <<datasets, rows, births, approvals, work, edit, decide, export, budget,
          overtaken, erased>>

NoWork == [pc |-> "idle", writes |-> <<>>, at |-> 1, asked |-> <<>>, end |-> "none",
           clean |-> TRUE]
NoEdit == [pc |-> "idle", ds |-> NoDataset, shape |-> [schema |-> NoSchema, key |-> {}],
           seen |-> [schema |-> NoSchema, key |-> {}, count |-> 0]]
NoDecision == [pc |-> "idle", id |-> 0, at |-> 1]
NoExport == [pc |-> "idle", ds |-> NoDataset, offset |-> 0, out |-> <<>>, first |-> {},
             shrunk |-> FALSE]

-----------------------------------------------------------------------------
(* Rows and schemas *)

Live(d) == datasets[d].state = "live"
RowsOf(d, rs) == {r \in rs : r.ds = d}
RowAt(d, id) == {r \in rows : r.ds = d /\ r.id = id /\ Live(d)}
Got(d, id) == CHOOSE r \in RowAt(d, id) : TRUE

\* validateDatasetRow: no unknown column, every required one.
Conforms(schema, v) ==
    \A c \in Cols : /\ v[c] # Null => schema[c] # "none"
                    /\ schema[c] = "required" => v[c] # Null

\* encodeDatasetRow: the columns of the unique key are not null; without a key there
\* is no fingerprint.
Encodable(key, v) == \A c \in key : v[c] # Null
Mark(key, v) == [c \in key |-> v[c]]
Storable(shape, v) == Conforms(shape.schema, v) /\ Encodable(shape.key, v)
Clashing(d, print, rs) ==
    {r \in rs : r.ds = d /\ DOMAIN r.print # {} /\ r.print = print}

\* inferDatasetSchema: a column is required when every row has it.
Inferred(batch) ==
    LET has(c) == {i \in DOMAIN batch : batch[i][c] # Null}
    IN  [c \in Cols |-> IF has(c) = {} THEN "none"
                        ELSE IF has(c) = DOMAIN batch THEN "required" ELSE "nullable"]
WithSchema(shape, batch) ==
    IF shape.schema = NoSchema THEN [shape EXCEPT !.schema = Inferred(batch)] ELSE shape
\* Rows without a single value have no schema.
Described(shape, batch) == WithSchema(shape, batch).schema # NoSchema

\* validateAdditiveDatasetSchema
Additive(seen, shape) ==
    \/ seen.count = 0
    \/ /\ \A c \in Cols :
             IF seen.schema[c] = "none" THEN shape.schema[c] \in {"none", "nullable"}
             ELSE shape.schema[c] = seen.schema[c]
       /\ shape.key = seen.key

\* Mutant of NextId: INTEGER PRIMARY KEY without AUTOINCREMENT.
NextIdFree(rs, n) == 1 + Cardinality({i \in 1..n : \E r \in rs : r.id >= i})
\* The identifier SQLite gives the next row: AUTOINCREMENT never uses one again.
NextId(rs, n) == n + 1

\* Mutant of PutRow: a row that is updated is counted as inserted.
PutRowCounted(d, shape, mode, acc, v) ==
    LET print == Mark(shape.key, v)
        old   == Clashing(d, print, acc.rows)
    IN  IF ~acc.ok \/ ~Storable(shape, v) \/ (old # {} /\ mode = "insert")
        THEN [acc EXCEPT !.ok = FALSE]
        ELSE [acc EXCEPT
                !.rows = (@ \ old) \cup {[id |-> acc.births + 1, ds |-> d, vals |-> v,
                                         print |-> print, birth |-> acc.births + 1]},
                !.births = @ + 1, !.inserted = @ + 1]
\* One row of a bulk write, after those of acc.
PutRow(d, shape, mode, acc, v) ==
    LET print == Mark(shape.key, v)
        old   == Clashing(d, print, acc.rows)
    IN  IF ~acc.ok \/ ~Storable(shape, v) \/ (old # {} /\ mode = "insert")
        THEN [acc EXCEPT !.ok = FALSE]
        ELSE IF old # {}
        THEN [acc EXCEPT !.rows = {IF r \in old THEN [r EXCEPT !.vals = v] ELSE r : r \in @}]
        ELSE [acc EXCEPT
                !.rows = @ \cup {[id |-> NextId(acc.rows, acc.births), ds |-> d, vals |-> v,
                                  print |-> print, birth |-> acc.births + 1]},
                !.births = @ + 1, !.inserted = @ + 1]
Put(d, shape, mode, batch) ==
    LET after[n \in 0..Len(batch)] ==
            IF n = 0 THEN [ok |-> TRUE, rows |-> rows, births |-> births, inserted |-> 0]
            ELSE PutRow(d, shape, mode, after[n - 1], batch[n])
    IN  after[Len(batch)]

-----------------------------------------------------------------------------
(* The operations of the store.  Each is a transaction: Can... says when it *)
(* succeeds, Do... what it writes.                                          *)

\* UNIQUE(workspace_id, slug) of the table, which counts deleted datasets.
SlugTaken(slug) == \E d \in Datasets : datasets[d].state # "absent" /\ datasets[d].slug = slug
\* ... and the check of ValidateNewDatasetForWorkspace, which does not.
SlugLive(slug) == \E d \in Datasets : Live(d) /\ datasets[d].slug = slug

\* The identifier of a new dataset is a new one.
CanName == \E d \in Datasets : datasets[d].state = "absent"
NewId == CHOOSE d \in Datasets : datasets[d].state = "absent"

CanCreate(x) ==
    /\ ~SlugTaken(x.slug)
    /\ x.batch # <<>> =>
          /\ Described(x.shape, x.batch)
          /\ Put(NewId, WithSchema(x.shape, x.batch), "insert", x.batch).ok
DoCreate(x) ==
    LET shape == IF x.batch = <<>> THEN x.shape ELSE WithSchema(x.shape, x.batch)
        put   == Put(NewId, shape, "insert", x.batch)
    IN  /\ datasets' = [datasets EXCEPT ![NewId] =
              [state |-> "live", slug |-> x.slug, schema |-> shape.schema,
               key |-> shape.key, count |-> put.inserted]]
        /\ rows' = put.rows /\ births' = put.births

Shape(d) == [schema |-> datasets[d].schema, key |-> datasets[d].key]
CanBulk(d, mode, batch) ==
    /\ Live(d)
    /\ Described(Shape(d), batch)
    /\ mode = "upsert" => datasets[d].key # {}
    /\ Put(d, WithSchema(Shape(d), batch), mode, batch).ok
DoBulk(d, mode, batch) ==
    LET shape == WithSchema(Shape(d), batch)
        put   == Put(d, shape, mode, batch)
    IN  /\ datasets' = [datasets EXCEPT ![d].schema = shape.schema,
                                        ![d].count = @ + put.inserted]
        /\ rows' = put.rows /\ births' = put.births

Merged(r, change) == [c \in Cols |-> IF c \in DOMAIN change THEN change[c] ELSE r.vals[c]]
CanUpdate(d, id, change) ==
    \E r \in RowAt(d, id) :
       LET v == Merged(r, change)
       IN  Storable(Shape(d), v) /\ Clashing(d, Mark(datasets[d].key, v), rows) \subseteq {r}
DoUpdate(d, id, change) ==
    /\ rows' = {IF r \in RowAt(d, id)
                THEN LET v == Merged(r, change)
                     IN  [r EXCEPT !.vals = v, !.print = Mark(datasets[d].key, v)]
                ELSE r : r \in rows}
    /\ UNCHANGED <<datasets, births>>

DoDelete(d, id, by) ==
    /\ rows' = rows \ RowAt(d, id)
    /\ datasets' = [datasets EXCEPT ![d].count = @ - 1]
    /\ erased' = erased \cup {[birth |-> r.birth, by |-> by] : r \in RowAt(d, id)}
    /\ UNCHANGED births

\* History: the workers other than w no longer see what they validated.
Unclean(w) == [a \in DOMAIN work |->
                  IF a # w /\ work[a].pc # "idle" THEN [work[a] EXCEPT !.clean = FALSE]
                  ELSE work[a]]
Shrink(d) == IF export.ds = d THEN [export EXCEPT !.shrunk = TRUE] ELSE export
Room(n) == births + n <= MaxRows
Request == budget < MaxRequests /\ budget' = budget + 1

-----------------------------------------------------------------------------
(* The writes of a finished task: applyTaskDatasetWrites *)

Writes ==
    [op : {"create"}, slug : Slugs, shape : Shapes, batch : Batches \cup {<<>>}]
    \cup [op : {"upsert"}, ds : Datasets, batch : Batches]
    \cup [op : {"update"}, ds : Datasets, id : 1..MaxRows, change : Changes]
    \cup [op : {"delete"}, ds : Datasets, id : 1..MaxRows]

Nameable(x) == x.op = "create" => CanName
Created(w) == {work[w].writes[i].slug : i \in {j \in DOMAIN work[w].writes :
                                                  work[w].writes[j].op = "create"}}

Size(x) == IF x.op \in {"create", "upsert"} THEN Len(x.batch) ELSE 0

\* The validation of one write, before any write is applied.
ValidNew(w, x) ==
    /\ x.slug \notin Created(w) /\ ~SlugLive(x.slug)
    /\ LET shape == WithSchema(x.shape, x.batch)
       IN  x.batch # <<>> =>
              /\ shape.schema # NoSchema
              /\ \A i \in DOMAIN x.batch : Storable(shape, x.batch[i])
              /\ shape.key # {} => \A i, j \in DOMAIN x.batch :
                    i # j => Mark(shape.key, x.batch[i]) # Mark(shape.key, x.batch[j])
\* Mutant of ValidRows: only the dataset is looked at, not the rows.
ValidRowsUnread(d, mode, batch) == Live(d) /\ datasets[d].schema # NoSchema
ValidRows(d, mode, batch) ==
    /\ Live(d) /\ datasets[d].schema # NoSchema
    /\ mode = "upsert" => datasets[d].key # {}
    /\ \A i \in DOMAIN batch : Storable(Shape(d), batch[i])
Valid(w, x) ==
    CASE x.op = "create" -> ValidNew(w, x)
      [] x.op = "upsert" -> ValidRows(x.ds, "upsert", x.batch)
      [] x.op = "update" -> \E r \in RowAt(x.ds, x.id) :
                                ValidRows(x.ds, "insert", <<Merged(r, x.change)>>)
      [] x.op = "delete" -> RowAt(x.ds, x.id) # {}

Begin(w) ==
    /\ work[w].pc = "idle" /\ work[w].end = "none"
    /\ work' = [work EXCEPT ![w] = [NoWork EXCEPT !.pc = "validate"]]
    /\ UNCHANGED <<table, approvals, edit, decide, export, budget, overtaken, erased>>

\* The writes of the result are chosen as they are looked at.
Validate(w) ==
    /\ work[w].pc = "validate" /\ Len(work[w].writes) < MaxWrites
    /\ \E x \in Writes :
          /\ Valid(w, x)
          /\ work' = [work EXCEPT ![w].writes = Append(@, x)]
    /\ UNCHANGED <<table, approvals, edit, decide, export, budget, overtaken, erased>>

\* A write is malformed, or the rows file it names cannot be read, or it is not valid:
\* the task fails and nothing was applied.
RefuseBatch(w) ==
    /\ work[w].pc = "validate" /\ Len(work[w].writes) < MaxWrites
    /\ work' = [work EXCEPT ![w] = [NoWork EXCEPT !.end = "refused"]]
    /\ UNCHANGED <<table, approvals, edit, decide, export, budget, overtaken, erased>>

StartApply(w) ==
    /\ work[w].pc = "validate" /\ work[w].writes # <<>>
    /\ work' = [work EXCEPT ![w].pc = "apply"]
    /\ UNCHANGED <<table, approvals, edit, decide, export, budget, overtaken, erased>>

Current(w) == work[w].writes[work[w].at]
CanApply(x) ==
    CASE x.op = "create" -> CanCreate(x)
      [] x.op = "upsert" -> CanBulk(x.ds, "upsert", x.batch)
      [] x.op = "update" -> CanUpdate(x.ds, x.id, x.change)
      [] x.op = "delete" -> TRUE
DoApply(x) ==
    CASE x.op = "create" -> DoCreate(x)
      [] x.op = "upsert" -> DoBulk(x.ds, "upsert", x.batch)
      [] x.op = "update" -> DoUpdate(x.ds, x.id, x.change)
      [] x.op = "delete" -> UNCHANGED table

Apply(w) ==
    /\ work[w].pc = "apply" /\ work[w].at <= Len(work[w].writes)
    /\ Nameable(Current(w)) /\ Room(Size(Current(w))) /\ CanApply(Current(w))
    /\ DoApply(Current(w))
    /\ work' = [Unclean(w) EXCEPT ![w].at = @ + 1]
    /\ UNCHANGED <<approvals, edit, decide, export, budget, overtaken, erased>>

\* Why a write that was valid cannot be applied.
Reason(x) ==
    CASE x.op = "create" -> IF SlugTaken(x.slug) THEN
                               IF SlugLive(x.slug) THEN "live slug" ELSE "deleted slug"
                            ELSE "rows"
      [] x.op = "upsert" -> IF Live(x.ds) THEN "rows" ELSE "gone"
      [] OTHER -> IF RowAt(x.ds, x.id) = {} THEN "gone"
                  ELSE IF \E r \in RowAt(x.ds, x.id) : Storable(Shape(x.ds), Merged(r, x.change))
                  THEN "unique key" ELSE "rows"

\* The task fails; the writes before this one stay.
Cut(w) ==
    /\ work[w].pc = "apply" /\ work[w].at <= Len(work[w].writes)
    /\ Nameable(Current(w)) /\ ~CanApply(Current(w))
    /\ work' = [work EXCEPT ![w].pc = "idle", ![w].end = Reason(Current(w))]
    /\ UNCHANGED <<table, approvals, edit, decide, export, budget, overtaken, erased>>

\* The places of the deletions among the writes of w.
Deletions(w) == {i \in DOMAIN work[w].writes : work[w].writes[i].op = "delete"}

\* requestDatasetDeletionApproval: every row is looked up, then the approval is created.
LookedUp(w, x) ==
    IF RowAt(x.ds, x.id) # {}
    THEN [work[w] EXCEPT !.asked = Append(@, [ds |-> x.ds, id |-> x.id,
                                              birth |-> Got(x.ds, x.id).birth])]
    ELSE [work[w] EXCEPT !.pc = "idle", !.end = "gone"]
LookUp(w) ==
    /\ work[w].pc = "apply" /\ work[w].at = Len(work[w].writes) + 1
    /\ \E i \in Deletions(w) :
          /\ Cardinality({j \in Deletions(w) : j < i}) = Len(work[w].asked)
          /\ work' = [work EXCEPT ![w] = LookedUp(w, work[w].writes[i])]
    /\ UNCHANGED <<table, approvals, edit, decide, export, budget, overtaken, erased>>

AskApproval(w) ==
    /\ work[w].pc = "apply" /\ work[w].at = Len(work[w].writes) + 1
    /\ Len(work[w].asked) = Cardinality(Deletions(w))
    /\ work[w].asked # <<>> => Len(approvals) < MaxApprovals
    /\ approvals' = IF work[w].asked = <<>> THEN approvals
                    ELSE Append(approvals, [status |-> "pending", targets |-> work[w].asked])
    /\ work' = [work EXCEPT ![w].pc = "idle", ![w].end = "done"]
    /\ UNCHANGED <<table, edit, decide, export, budget, overtaken, erased>>

\* A dataset effect of a chat reply: one write, not validated beforehand.
ChatEffect ==
    /\ Request /\ work[Chat].pc = "idle"
    /\ \E x \in Writes :
          /\ x.op = "create" => x.batch = <<>>
          /\ work' = [work EXCEPT ![Chat] = [NoWork EXCEPT !.pc = "apply", !.writes = <<x>>]]
    /\ UNCHANGED <<table, approvals, edit, decide, export, overtaken, erased>>

-----------------------------------------------------------------------------
(* The owner *)
CreateDataset ==
    /\ Request /\ CanName
    /\ \E slug \in Slugs, shape \in Shapes :
          LET x == [slug |-> slug, shape |-> shape, batch |-> <<>>]
          IN  CanCreate(x) /\ DoCreate(x)
    /\ work' = Unclean(NoDataset)
    /\ UNCHANGED <<approvals, edit, decide, export, overtaken, erased>>

BulkDatasetRows(d) ==
    /\ Request
    /\ \E mode \in {"insert", "upsert"}, batch \in Batches :
          Room(Len(batch)) /\ CanBulk(d, mode, batch) /\ DoBulk(d, mode, batch)
    /\ work' = Unclean(NoDataset)
    /\ UNCHANGED <<approvals, edit, decide, export, overtaken, erased>>

UpdateDatasetRow(d) ==
    /\ Request
    /\ \E id \in 1..MaxRows, change \in Changes :
          CanUpdate(d, id, change) /\ DoUpdate(d, id, change)
    /\ work' = Unclean(NoDataset)
    /\ UNCHANGED <<approvals, edit, decide, export, overtaken, erased>>

DeleteDatasetRow(d) ==
    /\ Request
    /\ \E id \in 1..MaxRows : RowAt(d, id) # {} /\ DoDelete(d, id, 0)
    /\ work' = Unclean(NoDataset) /\ export' = Shrink(d)
    /\ UNCHANGED <<approvals, edit, decide, overtaken>>

DeleteDataset(d) ==
    /\ Request /\ Live(d)
    /\ datasets' = [datasets EXCEPT ![d].state = "deleted"]
    /\ work' = Unclean(NoDataset)
    /\ UNCHANGED <<rows, births, approvals, edit, decide, export, overtaken, erased>>

RestoreDataset(d) ==
    /\ Request /\ datasets[d].state = "deleted"
    /\ datasets' = [datasets EXCEPT ![d].state = "live"]
    /\ work' = Unclean(NoDataset)
    /\ UNCHANGED <<rows, births, approvals, edit, decide, export, overtaken, erased>>

Seen(d) == [schema |-> datasets[d].schema, key |-> datasets[d].key, count |-> datasets[d].count]

\* UpdateDataset of the operator: reads the row and puts the named fields in.
LoadEdit(e) ==
    /\ Request /\ edit[e].pc = "idle"
    /\ \E d \in Datasets, shape \in Shapes :
          /\ Live(d)
          /\ \E fields \in {{"schema"}, {"key"}, {"schema", "key"}} :
                edit' = [edit EXCEPT ![e] = [NoEdit EXCEPT !.pc = "check", !.ds = d,
                           !.shape = [schema |-> IF "schema" \in fields THEN shape.schema
                                                 ELSE datasets[d].schema,
                                      key |-> IF "key" \in fields THEN shape.key
                                              ELSE datasets[d].key]]]
    /\ UNCHANGED <<table, approvals, work, decide, export, overtaken, erased>>

\* UpdateDatasetForWorkspace reads the row again and compares with what it reads.
CheckEdit(e) ==
    /\ edit[e].pc = "check"
    /\ LET d == edit[e].ds  s == edit[e].shape
       IN  edit' = [edit EXCEPT ![e] =
              IF Live(d) /\ Wellformed(s) /\ Additive(Seen(d), s)
              THEN [@ EXCEPT !.pc = "write", !.seen = Seen(d)] ELSE NoEdit]
    /\ UNCHANGED <<table, approvals, work, decide, export, budget, overtaken, erased>>

\* Its UPDATE has no condition but that the dataset is not deleted.
WriteEdit(e) ==
    /\ edit[e].pc = "write"
    /\ LET d == edit[e].ds
       IN  IF Live(d)
           THEN /\ datasets' = [datasets EXCEPT ![d].schema = edit[e].shape.schema,
                                                ![d].key = edit[e].shape.key]
                /\ overtaken' = IF Additive(Seen(d), edit[e].shape) THEN overtaken
                                ELSE overtaken \cup {d}
                /\ work' = Unclean(NoDataset)
           ELSE UNCHANGED <<datasets, overtaken, work>>
    /\ edit' = [edit EXCEPT ![e] = NoEdit]
    /\ UNCHANGED <<rows, births, approvals, decide, export, budget, erased>>

-----------------------------------------------------------------------------
(* Decisions on approvals: ResolveApproval, applyApprovedDatasetDeletion *)

\* The transaction changes only a pending approval.
Resolve(p) ==
    /\ decide[p].pc = "idle"
    /\ \E i \in DOMAIN approvals, to \in {"approved", "rejected"} :
          /\ approvals[i].status = "pending"
          /\ approvals' = [approvals EXCEPT ![i].status = to]
          /\ decide' = [decide EXCEPT ![p] =
                IF to = "approved" THEN [pc |-> "look", id |-> i, at |-> 1] ELSE NoDecision]
    /\ UNCHANGED <<table, work, edit, export, budget, overtaken, erased>>

Target(p) == approvals[decide[p].id].targets[decide[p].at]
AtLast(p) == decide[p].at = Len(approvals[decide[p].id].targets)
Onward(p) == [decide[p] EXCEPT !.at = @ + 1]

\* All rows are looked up first; one that is missing ends the execution.
Look(p) ==
    /\ decide[p].pc = "look"
    /\ decide' = [decide EXCEPT ![p] =
          IF RowAt(Target(p).ds, Target(p).id) = {} THEN [@ EXCEPT !.pc = "failed"]
          ELSE IF AtLast(p) THEN [@ EXCEPT !.pc = "delete", !.at = 1]
          ELSE Onward(p)]
    /\ UNCHANGED <<table, approvals, work, edit, export, budget, overtaken, erased>>

Execute(p) ==
    /\ decide[p].pc = "delete"
    /\ LET t == Target(p)
       IN  IF RowAt(t.ds, t.id) # {}
           THEN /\ DoDelete(t.ds, t.id, decide[p].id)
                /\ work' = Unclean(NoDataset) /\ export' = Shrink(t.ds)
                /\ decide' = [decide EXCEPT ![p] =
                      IF AtLast(p) THEN [@ EXCEPT !.pc = "done"] ELSE Onward(p)]
           ELSE /\ decide' = [decide EXCEPT ![p].pc = "failed"]
                /\ UNCHANGED <<table, work, export, erased>>
    /\ UNCHANGED <<approvals, edit, budget, overtaken>>

Respond(p) ==
    /\ decide[p].pc \in {"done", "failed"}
    /\ decide' = [decide EXCEPT ![p] = NoDecision]
    /\ UNCHANGED <<table, approvals, work, edit, export, budget, overtaken, erased>>

-----------------------------------------------------------------------------
(* Export: StreamDatasetRows reads pages by identifier and offset *)

\* ORDER BY id: the place of a row among those of its dataset.
Ids(d, rs) == {r.id : r \in RowsOf(d, rs)}
Place(i, ids) == Cardinality({j \in ids : j <= i})

StartExport(d) ==
    /\ Request /\ export.pc = "idle" /\ Live(d)
    /\ export' = [NoExport EXCEPT !.pc = "page", !.ds = d,
                     !.first = Ids(d, rows)]
    /\ UNCHANGED <<table, approvals, work, edit, decide, overtaken, erased>>

Sorted(d) ==
    LET ids == Ids(d, rows)
    IN  [k \in 1..Cardinality(ids) |-> CHOOSE i \in ids : Place(i, ids) = k]
Smaller(m, n) == IF m < n THEN m ELSE n

\* Mutant of NextOffset: the row that was read to see whether there is more is skipped.
NextOffsetPast(offset, limit) == offset + limit + 1
NextOffset(offset, limit) == offset + limit
Page ==
    /\ export.pc = "page"
    /\ LET ids == Sorted(export.ds)
           to  == Smaller(export.offset + PageSize, Len(ids))
       IN  export' =
              IF ~Live(export.ds) THEN [export EXCEPT !.pc = "broken"]
              ELSE [export EXCEPT
                      !.out = @ \o SubSeq(ids, export.offset + 1, to),
                      !.pc = IF Len(ids) > export.offset + PageSize THEN "page" ELSE "complete",
                      !.offset = IF Len(ids) > export.offset + PageSize
                                 THEN NextOffset(export.offset, PageSize) ELSE export.offset]
    /\ UNCHANGED <<table, approvals, work, edit, decide, budget, overtaken, erased>>

CloseExport ==
    /\ export.pc \in {"broken", "complete"} /\ export' = NoExport
    /\ UNCHANGED <<table, approvals, work, edit, decide, budget, overtaken, erased>>

-----------------------------------------------------------------------------
\* The daemon dies: what its goroutines were doing is lost, the tables stay.
Crash ==
    /\ Request
    /\ \E w \in DOMAIN work : work[w].pc # "idle" \/ \E p \in Approvers : decide[p].pc # "idle"
    /\ work' = [w \in DOMAIN work |-> NoWork]
    /\ edit' = [e \in Editors |-> NoEdit]
    /\ decide' = [p \in Approvers |-> NoDecision]
    /\ export' = NoExport
    /\ UNCHANGED <<table, approvals, overtaken, erased>>

Init ==
    /\ datasets = [d \in Datasets |-> [state |-> "absent", slug |-> CHOOSE s \in Slugs : TRUE,
                                       schema |-> NoSchema, key |-> {}, count |-> 0]]
    /\ rows = {} /\ births = 0 /\ approvals = <<>>
    /\ work = [w \in Workers \cup {Chat} |-> NoWork]
    /\ edit = [e \in Editors |-> NoEdit]
    /\ decide = [p \in Approvers |-> NoDecision]
    /\ export = NoExport
    /\ budget = 0
    /\ overtaken = {} /\ erased = {}

Next ==
    \/ \E w \in Workers : Begin(w) \/ Validate(w) \/ RefuseBatch(w) \/ StartApply(w)
    \/ \E w \in Workers \cup {Chat} : Apply(w) \/ Cut(w) \/ LookUp(w) \/ AskApproval(w)
    \/ ChatEffect \/ CreateDataset
    \/ \E d \in Datasets :
          \/ BulkDatasetRows(d) \/ UpdateDatasetRow(d)
          \/ DeleteDatasetRow(d) \/ DeleteDataset(d) \/ RestoreDataset(d) \/ StartExport(d)
    \/ \E e \in Editors : LoadEdit(e) \/ CheckEdit(e) \/ WriteEdit(e)
    \/ \E p \in Approvers : Resolve(p) \/ Look(p) \/ Execute(p) \/ Respond(p)
    \/ Page \/ CloseExport
    \/ Crash

Spec == Init /\ [][Next]_vars

-----------------------------------------------------------------------------
(* Properties *)

\* Type correctness of the tables and of the goroutines that write them.
TypeOK ==
    /\ \A d \in Datasets :
          datasets[d] \in [state : {"absent", "live", "deleted"}, slug : Slugs, schema : Schema,
                          key : SUBSET Cols, count : 0..MaxRows]
    /\ \A r \in rows : /\ r.id \in 1..births /\ r.ds \in Datasets /\ r.vals \in Values
                       /\ r.birth \in 1..births
    /\ births \in 0..MaxRows
    /\ \A w \in Workers \cup {Chat} : work[w].at \in 1..(Len(work[w].writes) + 1)

\* row_count is maintained by hand in five transactions (creation with rows, bulk insert,
\* upsert that inserts some rows and updates others, row deletion, approved deletion): it
\* is the number of rows of the dataset after every one of them.
CountsMatch == \A d \in Datasets : datasets[d].count = Cardinality(RowsOf(d, rows))

\* Every row fits the schema and carries the fingerprint of its unique key, unless a
\* schema edit was written over rows or columns it had not seen (UpdateDataset compares
\* with a row it read before): no other interleaving of writers loses or reinterprets data.
RowsFit ==
    \A d \in Datasets \ overtaken : \A r \in RowsOf(d, rows) :
        Storable(Shape(d), r.vals) /\ r.print = Mark(datasets[d].key, r.vals)

\* The rows are what the dataset says of them (internal/store/datasets.go), and
\* the variables have their types.
RowsAreSound == TypeOK /\ CountsMatch /\ RowsFit

\* A row deleted for an approval is one that the approval lists, that the owner approved,
\* and that is the same row as when the approval was asked for, however long ago: the
\* identifier may not have passed to another row (dataset_approvals.go keeps only ids).
DeletedAsAsked ==
    \A x \in erased : x.by # 0 =>
        /\ approvals[x.by].status = "approved"
        /\ \E i \in DOMAIN approvals[x.by].targets : approvals[x.by].targets[i].birth = x.birth

\* When the execution of an approved deletion reports success, none of its rows is left.
SuccessIsDone ==
    \A p \in Approvers : decide[p].pc = "done" =>
        \A i \in DOMAIN approvals[decide[p].id].targets :
            ~ \E r \in rows : r.birth = approvals[decide[p].id].targets[i].birth

\* An approved deletion (applyApprovedDatasetDeletion) does what was approved: nothing
\* else, whoever reused an identifier, and all of it if it says so.
DeletionIsAsApproved == DeletedAsAsked /\ SuccessIsDone

\* A batch of a task that was validated is cut short only by something the validation
\* does not look at (the slug of a deleted dataset, the unique key of an updated row) or
\* by another writer in between: what the validation accepts, the transactions take.
CutIsExplained ==
    \A w \in Workers : work[w].clean => work[w].end \notin {"live slug", "gone", "rows"}

\* An export lists no row twice and in order; if it is complete and no row was deleted
\* while it ran, it has every row that was there when it began.
ExportFaithful ==
    /\ \A i, j \in DOMAIN export.out : i < j => export.out[i] < export.out[j]
    /\ (export.pc = "complete" /\ ~export.shrunk) =>
          \A id \in export.first : \E i \in DOMAIN export.out : export.out[i] = id
=============================================================================
