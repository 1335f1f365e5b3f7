---------------------------- MODULE MemoryUpdates ---------------------------
(* Proposed notes and the file they end up in: memory_updates in the store   *)
(* (store/memory.go), the decision (operator/product_store.go,               *)
(* ResolveMemoryUpdate) and the Markdown files (config/memory.go).           *)
(*                                                                           *)
(* The store decides first and the file follows; the two are not one         *)
(* transaction. A file is the sequence of the notes in it. The owner's edit  *)
(* of the file replaces it with what the editor showed, and more or less.    *)
EXTENDS Naturals, Sequences, FiniteSets

CONSTANTS
  Updates,   \* proposals
  Deciders,  \* requests that decide on one
  Owners     \* requests that replace the file
VARIABLES
  update,    \* memory_updates.status
  file,      \* notes in the file, in their order
  decide,    \* the decisions under way
  editor     \* what an editor has shown, and was told

memoryVars == <<update, file, decide, editor>>

Idle == [at |-> "idle", of |-> "none", as |-> "none"]
Copies(u) == Cardinality({k \in 1..Len(file) : file[k] = u})

MemoryTypeOK ==
  /\ update \in [Updates -> {"none", "proposed", "applied", "rejected"}]
  /\ file \in Seq(Updates)
  /\ \A d \in Deciders : decide[d].at \in {"idle", "read", "resolve", "append"}
  /\ editor \in [Owners -> [open : BOOLEAN, shown : Seq(Updates)]]

------------------------------------------------------------------------------

\* From a finished task or a conversation; Chat then decides on its own
\* proposal in the same way.
CreateMemoryUpdate(u) ==
  /\ update[u] = "none"
  /\ update' = [update EXCEPT ![u] = "proposed"]
  /\ UNCHANGED <<file, decide, editor>>

Decide(d, u, as) ==
  /\ decide[d] = Idle /\ update[u] # "none"
  /\ decide' = [decide EXCEPT ![d] = [at |-> "read", of |-> u, as |-> as]]
  /\ UNCHANGED <<update, file, editor>>

\* The same decision again is answered, another one refused; the workspace may
\* not be the active one.
ReadUpdate(d) ==
  /\ decide[d].at = "read"
  /\ \/ update[decide[d].of] = "proposed" /\ decide' = [decide EXCEPT ![d].at = "resolve"]
     \/ decide' = [decide EXCEPT ![d] = Idle]
  /\ UNCHANGED <<update, file, editor>>

\* UPDATE ... WHERE status = 'proposed'
\* (mutant) Whatever its status is.
Anyway(u) == update[u] # "none"

Pending(u) == update[u] = "proposed"

ResolveMemoryUpdate(d) ==
  /\ decide[d].at = "resolve"
  /\ IF Pending(decide[d].of)
     THEN /\ update' = [update EXCEPT ![decide[d].of] = decide[d].as]
          /\ decide' = [decide EXCEPT ![d] =
               IF decide[d].as = "applied" THEN [decide[d] EXCEPT !.at = "append"] ELSE Idle]
     ELSE decide' = [decide EXCEPT ![d] = Idle] /\ UNCHANGED update
  /\ UNCHANGED <<file, editor>>

\* Under memoryMu. It may fail, and is not tried again.
AppendMemory(d) ==
  /\ decide[d].at = "append"
  /\ file' = Append(file, decide[d].of) \/ UNCHANGED file
  /\ decide' = [decide EXCEPT ![d] = Idle]
  /\ UNCHANGED <<update, editor>>

\* Memory, Soul: the editor is shown the file.
Show(e) ==
  /\ ~editor[e].open
  /\ editor' = [editor EXCEPT ![e] = [open |-> TRUE, shown |-> file]]
  /\ UNCHANGED <<update, file, decide>>

\* updateContextDocument: a new file takes the old one's place. The owner keeps
\* all of the notes shown, or removes one.
Kept(shown) == {shown} \cup {[k \in 1..(Len(shown) - 1) |-> IF k < j THEN shown[k] ELSE shown[k + 1]] :
                             j \in 1..Len(shown)}

UpdateMemory(e) ==
  /\ editor[e].open
  /\ file' \in Kept(editor[e].shown)
  /\ editor' = [editor EXCEPT ![e] = [open |-> FALSE, shown |-> << >>]]
  /\ UNCHANGED <<update, decide>>

------------------------------------------------------------------------------

MemoryInit ==
  /\ update = [u \in Updates |-> "none"] /\ file = << >>
  /\ decide = [d \in Deciders |-> Idle]
  /\ editor = [e \in Owners |-> [open |-> FALSE, shown |-> << >>]]

MemoryNext ==
  \/ \E u \in Updates : CreateMemoryUpdate(u)
  \/ \E d \in Deciders :
       \/ \E u \in Updates, as \in {"applied", "rejected"} : Decide(d, u, as)
       \/ ReadUpdate(d) \/ ResolveMemoryUpdate(d) \/ AppendMemory(d)
  \/ \E e \in Owners : Show(e) \/ UpdateMemory(e)

MemorySpec == MemoryInit /\ [][MemoryNext]_memoryVars

\* A note is in the file at most once, and only if it was accepted; and
\* whoever was told that it was rejected never finds it there: over retries,
\* two opposite decisions at once, and edits of a file that has moved on.
MemoryOnce == \A u \in Updates : Copies(u) <= (IF update[u] = "applied" THEN 1 ELSE 0)
=============================================================================
