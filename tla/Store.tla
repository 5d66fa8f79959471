-------------------------------- MODULE Store --------------------------------
(***************************************************************************)
(* What the program keeps in its data directory, in one specification: the *)
(* system calls of write_atomic (AtomicFile), the trusted keys over it     *)
(* (KnownHosts), the configuration documents over it (Documents), the      *)
(* hosts and tabs the window puts in those (Shell) and the secrets with    *)
(* their backups (Vault).  A behaviour belongs to one of the parts and     *)
(* leaves the others alone, so that the states of the parts add up instead *)
(* of multiplying; the parts that share state have it composed in their    *)
(* own modules.                                                            *)
(***************************************************************************)
EXTENDS AtomicFile, KnownHosts, Documents, Shell, Vault

VARIABLE part   \* which part runs

callVars == <<file, job>>

Parts == {"calls", "trust", "docs", "shell", "vault"}

StoreInit ==
  /\ part \in Parts
  /\ Init /\ TrustInit /\ DocsInit /\ ShellInit /\ VaultInit
  /\ part # "calls" => file = [p \in Paths |-> NoFile]
  /\ part # "trust" => khFile = [p \in {Path} |-> NoFile]
  /\ part # "docs" => docFile = [d \in Docs |-> NoFile]
  /\ part # "vault" => plain = Nothing

InCalls ==
  part = "calls" /\ Next /\ UNCHANGED <<trustVars, docVars, shellVars, vaultVars>>

InTrust ==
  part = "trust" /\ TrustNext /\ UNCHANGED <<callVars, docVars, shellVars, vaultVars>>

InDocs ==
  part = "docs" /\ DocsNext /\ UNCHANGED <<callVars, trustVars, shellVars, vaultVars>>

InShell ==
  part = "shell" /\ ShellNext /\ UNCHANGED <<callVars, trustVars, docVars, vaultVars>>

InVault ==
  part = "vault" /\ VaultNext /\ UNCHANGED <<callVars, trustVars, docVars, shellVars>>

StoreNext == (InCalls \/ InTrust \/ InDocs \/ InShell \/ InVault) /\ UNCHANGED part

storeVars == <<part, callVars, trustVars, docVars, shellVars, vaultVars>>

StoreSpec == StoreInit /\ [][StoreNext]_storeVars

-----------------------------------------------------------------------------
(* Every document, table, job and list has its type.                       *)
StoreTypeOK == TypeOK /\ TrustTypeOK /\ DocsTypeOK /\ ShellTypeOK /\ VaultTypeOK
=============================================================================
