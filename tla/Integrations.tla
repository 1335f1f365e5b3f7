---------------------------- MODULE Integrations ----------------------------
(* One generated integration: its row, its credentials in the vault, and the *)
(* requests that save, delete and verify them (operator/integrations.go,     *)
(* integrations/executor.go, store/integrations.go).                         *)
(*                                                                           *)
(* Each request reads the row, works on the vault or the provider, and       *)
(* writes the whole row; two of them overlap, and the client of one may go   *)
(* away at any moment, which cancels its context. Only the last writes of a  *)
(* verification are made without it.                                         *)
EXTENDS Naturals, FiniteSets

CONSTANTS
  Fields,    \* connection fields of the manifest
  Needed,    \* those that are required
  Clients    \* concurrent requests

ASSUME NeededAreFields == Needed \subseteq Fields

VARIABLES
  row,     \* integrations.status
  saved,   \* fields that have a value in the vault
  call     \* the requests under way

integrationVars == <<row, saved, call>>

Statuses == {"draft", "needs_credentials", "verifying", "ready", "failed"}
NoCall == [at |-> "idle", todo |-> {}, live |-> TRUE, ok |-> FALSE]

IntegrationsTypeOK ==
  /\ row \in {"absent"} \cup Statuses
  /\ saved \subseteq Fields
  /\ call \in [Clients -> [at : {"idle", "save", "saved", "delete", "deleted", "verify", "begin",
                                 "execute", "finish"},
                           todo : SUBSET Fields, live : BOOLEAN, ok : BOOLEAN]]

At(c, a) == call' = [call EXCEPT ![c].at = a]
End(c) == call' = [call EXCEPT ![c] = NoCall]

\* A write of the row with the request's context; a cancelled one writes
\* nothing and ends the request.
Written(c, status, next) ==
  \/ call[c].live /\ row' = status /\ next
  \/ ~call[c].live /\ End(c) /\ UNCHANGED row

------------------------------------------------------------------------------

\* createGeneratedIntegrationForWorkspace.
CreateIntegration ==
  /\ row = "absent"
  /\ row' = IF Fields = {} THEN "draft" ELSE "needs_credentials"
  /\ UNCHANGED <<saved, call>>

\* The client goes away.
Disconnect(c) ==
  /\ call[c].at # "idle" /\ call[c].live
  /\ call' = [call EXCEPT ![c].live = FALSE]
  /\ UNCHANGED <<row, saved>>

Save(c) ==
  /\ row # "absent" /\ call[c] = NoCall
  /\ \E f \in SUBSET Fields \ {{}} : call' = [call EXCEPT ![c].at = "save", ![c].todo = f]
  /\ UNCHANGED <<row, saved>>

\* One value after the other, in any order; a failure leaves the earlier ones.
SaveCredential(c) ==
  /\ call[c].at = "save" /\ call[c].todo # {}
  /\ \/ \E f \in call[c].todo :
          /\ call[c].live
          /\ saved' = saved \cup {f}
          /\ call' = [call EXCEPT ![c].todo = @ \ {f}]
     \/ End(c) /\ UNCHANGED saved
  /\ UNCHANGED row

SaveStatus(c) ==
  /\ call[c].at = "save" /\ call[c].todo = {}
  /\ Written(c, "draft", End(c))
  /\ UNCHANGED saved

DeleteCredential(c) ==
  /\ row # "absent" /\ call[c] = NoCall
  /\ \E f \in Fields : saved' = saved \ {f}
  /\ At(c, "deleted")
  /\ UNCHANGED row

DeleteStatus(c) ==
  /\ call[c].at = "deleted"
  /\ Written(c, "needs_credentials", End(c))
  /\ UNCHANGED saved

Verify(c) ==
  /\ row # "absent" /\ call[c] = NoCall
  /\ At(c, "verify")
  /\ UNCHANGED <<row, saved>>

\* configuredCredentials: the vault may refuse.
CheckCredentials(c) ==
  /\ call[c].at = "verify"
  /\ \/ End(c) /\ UNCHANGED row
     \/ Needed \subseteq saved /\ At(c, "begin") /\ UNCHANGED row
     \/ ~(Needed \subseteq saved) /\ Written(c, "needs_credentials", End(c))
  /\ UNCHANGED saved

BeginVerification(c) ==
  /\ call[c].at = "begin"
  /\ Written(c, "verifying", At(c, "execute"))
  /\ UNCHANGED saved

\* Execute reads the values again, and gives the provider 30 seconds. Whatever
\* goes wrong, or the client's leaving, is a failed verification.
Execute(c) ==
  /\ call[c].at = "execute"
  /\ \E ok \in BOOLEAN :
       /\ ok => call[c].live /\ Needed \subseteq saved
       /\ call' = [call EXCEPT ![c].at = "finish", ![c].ok = ok]
  /\ UNCHANGED <<row, saved>>

\* (mutant) With the context of the request.
FinishAsAsked(c) == Written(c, IF call[c].ok THEN "ready" ELSE "failed", End(c))

FinishWrite(c) == row' = (IF call[c].ok THEN "ready" ELSE "failed") /\ End(c)

FinishVerification(c) ==
  /\ call[c].at = "finish"
  /\ FinishWrite(c)
  /\ UNCHANGED saved

------------------------------------------------------------------------------

IntegrationsInit ==
  /\ row = "absent" /\ saved = {}
  /\ call = [c \in Clients |-> NoCall]

SaveIntegrationCredentials(c) == SaveCredential(c) \/ SaveStatus(c)
VerifyIntegration(c) ==
  CheckCredentials(c) \/ BeginVerification(c) \/ Execute(c) \/ FinishVerification(c)

Proceed(c) == SaveIntegrationCredentials(c) \/ DeleteStatus(c) \/ VerifyIntegration(c)

IntegrationsNext ==
  \/ CreateIntegration
  \/ \E c \in Clients : Disconnect(c) \/ Save(c) \/ DeleteCredential(c) \/ Verify(c) \/ Proceed(c)

\* A request under way goes on: no step of it waits for another, and the
\* provider has 30 seconds.
IntegrationsFairness == \A c \in Clients : WF_integrationVars(Proceed(c))

\* An integration does not stay "verifying" for ever, whatever other requests
\* write and whenever its client leaves.
VerifyingEnds == row = "verifying" ~> row # "verifying"
=============================================================================
