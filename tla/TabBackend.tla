------------------------------ MODULE TabBackend ------------------------------
(***************************************************************************)
(* What the services of a tab (commands, files and forwards of its panes)  *)
(* see of its transport: SessionEntry::backend in                          *)
(* crates/wassh/src/app/session.rs.  SessionTab models how the transport   *)
(* comes up and goes down; here each of them is a number, and its tasks    *)
(* die with its runtime, whenever that is.  Nothing in the code resets the *)
(* services when the transport is replaced.                                *)
(***************************************************************************)
EXTENDS Naturals

CONSTANT MaxLinks   \* transports a tab goes through

ASSUME TabBackendAssumption == MaxLinks \in Nat \ {0}

VARIABLES link,     \* the transport last started
          alive,    \* its thread runs and serves requests
          backend   \* "ssh" or "closed": Backend::Ssh or Backend::Closed

linkVars == <<link, alive, backend>>

Links == 1..MaxLinks

LinkTypeOK ==
  /\ link \in Links
  /\ alive \in BOOLEAN
  /\ backend \in {"ssh", "closed"}
  /\ alive => backend = "ssh"

LinkInit == link = 1 /\ alive = TRUE /\ backend = "ssh"

(* A request sent over transport l can still be worked on.                 *)
Serves(l) == l = link /\ alive

(* The thread ends; the entry keeps its handle until something replaces it.*)
LinkDies ==
  /\ alive
  /\ alive' = FALSE
  /\ UNCHANGED <<link, backend>>

(* Slip: the thread is not told.                                           *)
DisconnectQuietly ==
  /\ backend = "ssh"
  /\ backend' = "closed"
  /\ UNCHANGED <<link, alive>>

(* disconnect: the handle is dropped, and the thread ends.                 *)
Disconnect ==
  /\ backend = "ssh"
  /\ backend' = "closed"
  /\ alive' = FALSE
  /\ UNCHANGED link

(* start_ssh: a retry, a restart of the tab or a password that was asked   *)
(* for puts a new transport in place of the old.                           *)
Reconnect ==
  /\ link < MaxLinks
  /\ link' = link + 1
  /\ alive' = TRUE
  /\ backend' = "ssh"

LinkStep == LinkDies \/ Disconnect \/ Reconnect
=============================================================================
