------------------------------ MODULE MCVault ------------------------------
\* Three parts that keep something outside of the store: secrets, the
\* credentials of an integration, and notes. A behaviour is about one.
EXTENDS Vault, Integrations, MemoryUpdates

CONSTANTS secrets, integration, notes, First, FirstName, FirstServer, FirstEnv, Other, OtherEnv
VARIABLE part

\* The first secret or the other one under the first variable, or both.
MCBindings == {<< >>, [e \in {FirstEnv} |-> First], [e \in {FirstEnv} |-> Other],
               [e \in {FirstEnv, OtherEnv} |-> IF e = FirstEnv THEN First ELSE Other]}

mcVars == <<part, vaultVars, integrationVars, memoryVars>>

\* In the vault's behaviours one record has its value and another may be there;
\* the first is bound to a variable by a connector or by the script, and the
\* other one may be to another.
MCInit ==
  /\ part \in {secrets, integration, notes}
  /\ VaultInit /\ IntegrationsInit /\ MemoryInit
  /\ secretRow[First] = [at |-> "live", name |-> FirstName] /\ vault[First] = First
  /\ server[FirstServer].at = "none" <=> bound # << >>
  /\ \A b \in {bound, server[FirstServer].bind} : \A e \in DOMAIN b : b[e] = First <=> e = FirstEnv
  /\ FirstEnv \in DOMAIN bound \cup DOMAIN server[FirstServer].bind
  /\ \A s \in Servers \ {FirstServer} : server[s].at = "none"
  /\ part # secrets => bound # << >> /\ RowsOf(bound) = {First} /\ Cardinality(DOMAIN bound) = 1
MCNext ==
  /\ UNCHANGED part
  /\ \/ part = secrets /\ VaultNext /\ UNCHANGED <<integrationVars, memoryVars>>
     \/ part = integration /\ IntegrationsNext /\ UNCHANGED <<vaultVars, memoryVars>>
     \/ part = notes /\ MemoryNext /\ UNCHANGED <<vaultVars, integrationVars>>
MCSpec == MCInit /\ [][MCNext]_mcVars /\ IntegrationsFairness

TypeOK == VaultTypeOK /\ IntegrationsTypeOK /\ MemoryTypeOK
=============================================================================
