-------------------------------- MODULE Vault --------------------------------
(***************************************************************************)
(* The secrets: crates/wassh-store/src/secrets.rs with what the window     *)
(* does to them, and the backups of backup.rs that carry them away and     *)
(* back.  secrets.json holds one sealed blob for each scope, a host or the *)
(* program itself; the key that opens them is a file beside it.  Earlier   *)
(* builds kept some of these secrets as plain text in the documents, and   *)
(* each launch moves what it finds there into the vault.  A blob is the    *)
(* key that sealed it and the secret; a scope has one, and a document of   *)
(* its own.  Saves of the documents succeed here: Documents has their      *)
(* failures.                                                               *)
(***************************************************************************)
EXTENDS Naturals

CONSTANTS
  Scopes, App,   \* the scopes, and the one that is the program's own
  MaxSecrets,    \* bound on the secrets, numbered from 1; 0 is none
  MaxKeys        \* bound on the keys, numbered from 1; 0 is no whole key

ASSUME VaultAssumption ==
  App \in Scopes /\ MaxSecrets \in Nat \ {0} /\ MaxKeys \in Nat \ {0}

Forgotten == MaxSecrets + 1

Blobs == [key : 0..MaxKeys, secret : 0..MaxSecrets]

NoBlob == [key |-> 0, secret |-> 0]

NoBlobs == [s \in Scopes |-> NoBlob]

Nothing == [s \in Scopes |-> 0]

VARIABLES
  keyFile,     \* secret.key: the key, or 0 when it is missing or too short
  sealed,      \* secrets.json: its blobs, and whether it can be read at all
  plain,       \* the secrets still in the documents as text
  vault,       \* Shell.secrets: cipher and file; key 0 for None
  stage,       \* the program is "down", "sealing" what it found, or "up"
  found,       \* what it found and has not sealed yet
  unsealed,    \* one of them could not be written
  archive,     \* the backup the user has
  restored,    \* a backup was restored since the launch
  promised     \* ghost: the secret the user was left to believe is saved

vaultVars ==
  <<keyFile, sealed, plain, vault, stage, found, unsealed, archive, restored, promised>>

disk == <<keyFile, sealed, plain>>

Unavailable == [key |-> 0, blobs |-> NoBlobs]

(* An upgraded program starts for the first time.                          *)
VaultInit ==
  /\ keyFile = 0 /\ sealed = [whole |-> TRUE, blobs |-> NoBlobs]
  /\ plain \in [Scopes -> 0..1] /\ promised = plain
  /\ vault = Unavailable /\ stage = "down" /\ found = {} /\ unsealed = FALSE
  /\ archive = [key |-> 0, sealed |-> sealed, promised |-> promised]
  /\ restored = FALSE

-----------------------------------------------------------------------------
(* Launch: open and migrate_plugin_secrets.                                *)

(* A new key is none that was ever used.                                   *)
NewKeys ==
  {k \in 1..MaxKeys : k \notin {keyFile, archive.key} /\ \A s \in Scopes :
                        k \notin {sealed.blobs[s].key, archive.sealed.blobs[s].key}}

(* Slip: a key file that cannot be read counts as missing.                 *)
LoadKeyAnyway(key) ==
  \/ keyFile # 0 /\ key = keyFile /\ UNCHANGED keyFile
  \/ key \in NewKeys \cup {0} /\ keyFile' = key

(* load_or_create_key: key 0 is an error.  The file is created in place,   *)
(* so that a failing write, or the end of the program, leaves no key.      *)
LoadKey(key) ==
  \/ keyFile # 0 /\ key \in {keyFile, 0} /\ UNCHANGED keyFile
  \/ keyFile = 0 /\ key \in NewKeys \cup {0} /\ keyFile' = key

Pending == {s \in Scopes : plain[s] # 0}

OpenVault ==
  /\ stage = "down"
  /\ \E key \in 0..MaxKeys, readable \in BOOLEAN :
       /\ LoadKey(key)
       /\ vault' = IF key # 0 /\ sealed.whole /\ readable
                   THEN [key |-> key, blobs |-> sealed.blobs] ELSE Unavailable
  /\ stage' = IF vault'.key # 0 /\ Pending # {} THEN "sealing" ELSE "up"
  /\ found' = IF stage' = "sealing" THEN Pending ELSE {}
  /\ unsealed' = FALSE
  /\ UNCHANGED <<sealed, plain, archive, restored, promised>>

(* set_password, set_plugin_secret and forget_scope: memory changes first, *)
(* then the file is written whole, or not.                                 *)
Put(s, secret, ok) ==
  LET blob == IF secret = 0 THEN NoBlob ELSE [key |-> vault.key, secret |-> secret]
  IN  /\ vault' = [vault EXCEPT !.blobs[s] = blob]
      /\ sealed' = IF ok THEN [whole |-> TRUE, blobs |-> vault'.blobs] ELSE sealed

SealNext ==
  /\ stage = "sealing"
  /\ \E s \in found, ok \in BOOLEAN :
       /\ Put(s, plain[s], ok)
       /\ found' = found \ {s}
       /\ unsealed' = (unsealed \/ ~ok)
  /\ UNCHANGED <<keyFile, plain, stage, archive, restored, promised>>

(* What could not be sealed keeps all of them in the documents.            *)
EndSealing ==
  /\ stage = "sealing" /\ found = {}
  /\ plain' = IF unsealed THEN plain ELSE Nothing
  /\ stage' = "up"
  /\ UNCHANGED <<keyFile, sealed, vault, found, unsealed, archive, restored, promised>>

-----------------------------------------------------------------------------
(* The user.                                                               *)

(* What is still promised when a dialog is saved: it overwrites a restored *)
(* backup that was not loaded yet, and seals with the key from before it.  *)
Promises(s, p) == IF restored THEN Nothing ELSE [promised EXCEPT ![s] = p]

(* Save in a dialog whose secret field was left alone: the text in the     *)
(* document is removed all the same (see StillInTheSettings).              *)
SaveDocument ==
  /\ stage = "up"
  /\ \E s \in Scopes :
       /\ plain' = [plain EXCEPT ![s] = 0]
       /\ promised' = Promises(s, IF plain[s] = 0 THEN promised[s] ELSE 0)
  /\ UNCHANGED <<keyFile, sealed, vault, stage, found, unsealed, archive, restored>>

(* Save with a new secret, or with Forget stored value.  An error is shown *)
(* when the vault is unavailable or the write failed.                      *)
SaveSecret ==
  /\ stage = "up"
  /\ \E s \in Scopes, secret \in 0..MaxSecrets, ok \in BOOLEAN :
       /\ IF vault.key = 0 THEN ~ok /\ UNCHANGED <<vault, sealed>> ELSE Put(s, secret, ok)
       /\ plain' = [plain EXCEPT ![s] = 0]
       /\ promised' = Promises(s, IF ok THEN secret ELSE 0)
  /\ UNCHANGED <<keyFile, stage, found, unsealed, archive, restored>>

(* A pane sets a secret of its own.  Text that the migration could not     *)
(* seal stays in the document, and the next launch seals that instead: the *)
(* user was left to believe more than is promised here.                    *)
SavePaneSecret ==
  /\ stage = "up"
  /\ \E s \in Scopes, secret \in 0..MaxSecrets, ok \in BOOLEAN :
       /\ IF vault.key = 0 THEN ~ok /\ UNCHANGED <<vault, sealed>> ELSE Put(s, secret, ok)
       /\ promised' = Promises(s, IF ok /\ plain[s] = 0 THEN secret ELSE 0)
  /\ UNCHANGED <<keyFile, plain, stage, found, unsealed, archive, restored>>

(* delete_host: errors of the vault are dropped.                           *)
ForgetHost ==
  /\ stage = "up"
  /\ \E s \in Scopes \ {App}, ok \in BOOLEAN :
       /\ IF vault.key = 0 THEN ~ok /\ UNCHANGED <<vault, sealed>> ELSE Put(s, 0, ok)
       /\ plain' = [plain EXCEPT ![s] = 0]
       /\ promised' = Promises(s, Forgotten)
  /\ UNCHANGED <<keyFile, stage, found, unsealed, archive, restored>>

(* One backup, of a directory with a whole key and no text left.           *)
ExportBackup ==
  /\ stage = "up" /\ keyFile # 0 /\ archive.key = 0 /\ plain = Nothing
  /\ archive' = [key |-> keyFile, sealed |-> sealed, promised |-> promised]
  /\ UNCHANGED <<disk, vault, stage, found, unsealed, restored, promised>>

(* The files of the archive are written in place in the order of their     *)
(* names: the hosts, the key, the blobs, the settings.  n of them are      *)
(* written, and the next one may be torn.  secrets.json without a blob may *)
(* be missing from the archive, and is then left as it is.                 *)
ImportBackup ==
  /\ stage = "up" /\ archive.key # 0
  /\ \E n \in 0..4, torn \in BOOLEAN :
       LET Got(i, new, cut, old) == IF i <= n THEN new ELSE IF torn /\ i = n + 1 THEN cut ELSE old
       IN  /\ n = 4 => ~torn
           /\ n = 0 => torn
           /\ keyFile' = Got(2, archive.key, 0, keyFile)
           /\ sealed' \in {Got(3, archive.sealed, [sealed EXCEPT !.whole = FALSE], sealed)}
                            \cup (IF archive.sealed.blobs = NoBlobs THEN {sealed} ELSE {})
           /\ plain' = [s \in Scopes |-> Got(IF s = App THEN 4 ELSE 1, 0, 0, plain[s])]
           /\ promised' = IF n = 4 THEN archive.promised ELSE Nothing
  /\ restored' = TRUE
  /\ UNCHANGED <<vault, stage, found, unsealed, archive>>

(* The program quits or dies.                                              *)
VaultDies ==
  /\ stage # "down" /\ stage' = "down"
  /\ vault' = Unavailable /\ found' = {} /\ unsealed' = FALSE /\ restored' = FALSE
  /\ UNCHANGED <<disk, archive, promised>>

VaultNext ==
  \/ OpenVault \/ SealNext \/ EndSealing \/ VaultDies
  \/ SaveDocument \/ SaveSecret \/ SavePaneSecret \/ ForgetHost
  \/ ExportBackup \/ ImportBackup

VaultSpec == VaultInit /\ [][VaultNext]_vaultVars

-----------------------------------------------------------------------------
(* Properties.                                                             *)

BlobFiles == [whole : BOOLEAN, blobs : [Scopes -> Blobs]]

VaultTypeOK ==
  /\ keyFile \in 0..MaxKeys /\ sealed \in BlobFiles
  /\ plain \in [Scopes -> 0..MaxSecrets] /\ promised \in [Scopes -> 0..Forgotten]
  /\ vault \in [key : 0..MaxKeys, blobs : [Scopes -> Blobs]]
  /\ stage \in {"down", "sealing", "up"} /\ found \in SUBSET Scopes
  /\ unsealed \in BOOLEAN /\ restored \in BOOLEAN
  /\ archive \in [key : 0..MaxKeys, sealed : BlobFiles, promised : [Scopes -> 0..Forgotten]]

Held(p, key, file, s, secret) ==
  \/ p[s] = secret
  \/ file.whole /\ file.blobs[s] = [key |-> key, secret |-> secret] /\ key # 0

(* A secret the user was told is saved, found by the migration, or brought *)
(* back by a complete restore, is at every moment in a document as text or *)
(* in secrets.json under the key in secret.key: through failing reads and  *)
(* writes, a key file that is created and cut short, a migration that      *)
(* stops in the middle, and launches that cannot open the vault.           *)
SecretsAreKept ==
  \A s \in Scopes : promised[s] \in 1..MaxSecrets =>
                      Held(plain, keyFile, sealed, s, promised[s])

(* The secrets of a deleted host do not come back (secrets.rs: "Called     *)
(* when a host is deleted, so a re-used id cannot inherit them.").         *)
ForgottenStaysForgotten ==
  \A s \in Scopes : promised[s] = Forgotten => vault.blobs[s].secret = 0

(* When the vault is unavailable the passwords stay where they are         *)
(* (mod.rs: "plugin passwords are still in the settings file").            *)
StillInTheSettings ==
  [][vault.key = 0 /\ plain[App] # 0 /\ ~restored' => plain'[App] = plain[App]]_vaultVars
=============================================================================
