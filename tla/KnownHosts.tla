------------------------------ MODULE KnownHosts ------------------------------
(***************************************************************************)
(* The trusted host keys of crates/wassh-ssh/src/known_hosts.rs: a table   *)
(* in memory behind a mutex, shared by all SSH threads, and its file,      *)
(* written with write_atomic.  remember changes the table under the lock,  *)
(* and persist takes the lock a second time for the snapshot it writes     *)
(* after releasing it, so threads overlap between change, snapshot and     *)
(* rename.                                                                 *)
(*                                                                         *)
(* forget is not modelled: no code outside the tests calls it.             *)
(***************************************************************************)
EXTENDS DataDir

CONSTANTS Endpoints,   \* host and port
          Keys,        \* fingerprints
          NoKey,       \* no entry for the endpoint
          Threads      \* SSH threads that may be told to remember a key

Path == "known_hosts.json"

Tables == [Endpoints -> Keys \cup {NoKey}]

ASSUME KnownHostsAssumption ==
  /\ NoKey \notin Keys
  /\ NoFile \notin Tables
  /\ NoFile # Path
  /\ Partial \notin Tables
  /\ Windows \in BOOLEAN

Empty == [e \in Endpoints |-> NoKey]

VARIABLES entries,    \* the table in memory
          owes,       \* threads that changed it and have no snapshot yet
          khFile, khJob,  \* the file and the write_atomic each thread is in
          refused,    \* history: threads whose latest write failed
          accepted    \* history: <<endpoint, key>> pairs the user accepted

trustVars == <<entries, owes, khFile, khJob, refused, accepted>>

Table == INSTANCE AtomicFile WITH
  Paths <- {Path}, Writers <- Threads, Contents <- Tables, file <- khFile, job <- khJob

Pairs == Endpoints \X Keys

TrustTypeOK ==
  /\ entries \in Tables
  /\ owes \subseteq Threads
  /\ refused \subseteq Threads
  /\ accepted \subseteq Pairs
  /\ Table!TypeOK

(* load: a missing or unreadable file is an empty table.                   *)
Load(f) == IF f = NoFile THEN Empty ELSE f

PairsOf(table) == {pair \in Pairs : table[pair[1]] = pair[2]}

TrustInit ==
  /\ Table!Init
  /\ entries = Load(khFile[Path])
  /\ owes = {}
  /\ refused = {}
  /\ accepted = PairsOf(Load(khFile[Path]))

(* Slip: the port is not compared, so one host has one entry (all          *)
(* endpoints of the small instance are ports of one host).                 *)
RememberByHost(t, e, k) ==
  /\ Table!At(t, "idle") /\ t \notin owes
  /\ entries' = [x \in Endpoints |-> k]
  /\ owes' = owes \cup {t}
  /\ accepted' = accepted \cup {<<e, k>>}
  /\ UNCHANGED <<khFile, khJob, refused>>

(* remember, its first critical section: check_server_key calls it with    *)
(* the key the user has just accepted.                                     *)
Remember(t, e, k) ==
  /\ Table!At(t, "idle") /\ t \notin owes
  /\ entries' = [entries EXCEPT ![e] = k]
  /\ owes' = owes \cup {t}
  /\ accepted' = accepted \cup {<<e, k>>}
  /\ UNCHANGED <<khFile, khJob, refused>>

(* persist, the second one: the snapshot that will be written.             *)
Persist(t) ==
  /\ t \in owes
  /\ owes' = owes \ {t}
  /\ Table!Begin(t, Path, entries)
  /\ UNCHANGED <<entries, refused, accepted>>

WriteTable(t) ==
  /\ Table!Step(t)
  /\ UNCHANGED <<entries, owes, refused, accepted>>

(* A failed write is printed and the connection goes on.                   *)
Remembered(t) ==
  /\ refused' = IF Table!At(t, "failed") THEN refused \cup {t} ELSE refused \ {t}
  /\ Table!Return(t)
  /\ UNCHANGED <<entries, owes, accepted>>

(* The application ends, at any point, and is started again.               *)
Relaunch ==
  /\ Table!Crash
  /\ entries' = Load(khFile[Path])
  /\ owes' = {}
  /\ refused' = {}
  /\ UNCHANGED accepted

TrustNext ==
  \/ \E t \in Threads :
       \/ \E e \in Endpoints, k \in Keys : Remember(t, e, k)
       \/ Persist(t) \/ WriteTable(t) \/ Remembered(t)
  \/ Relaunch

TrustSpec == TrustInit /\ [][TrustNext]_trustVars

-----------------------------------------------------------------------------
(* Properties.                                                             *)

Accepted(table) == \A e \in Endpoints : table[e] # NoKey => <<e, table[e]>> \in accepted

(* Neither in memory nor on disk is there ever a key the user did not      *)
(* accept for that very host and port, whichever snapshots overlap and     *)
(* whenever the application dies.                                          *)
OnlyAcceptedKeysKept ==
  /\ Accepted(entries)
  /\ Accepted(Load(khFile[Path]))

Quiet == owes = {} /\ \A t \in Threads : Table!At(t, "idle")

(* "In-memory view of the known-host file, written back atomically on      *)
(* every change" (known_hosts.rs:14): once every thread is through and no  *)
(* write failed, a restart finds the table that was in memory.             *)
ChangesReachTheFile == (Quiet /\ refused = {}) => Load(khFile[Path]) = entries

-----------------------------------------------------------------------------
(* The inductive strengthening of OnlyAcceptedKeysKept: the snapshots on   *)
(* their way to the disk are accepted tables too.                          *)
SnapshotInv == \A t \in Threads : khJob[t].data # NoFile => Accepted(khJob[t].data)

TrustInv == Table!JobInv /\ SnapshotInv /\ OnlyAcceptedKeysKept
=============================================================================
