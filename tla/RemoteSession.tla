---------------------------- MODULE RemoteSession ----------------------------
(***************************************************************************)
(* Tabs that open in a tmux or screen session of their host: the probe and *)
(* the plan of crates/wassh-ssh/src/remote_session.rs with the tab that    *)
(* runs them (begin and finish_probe in crates/wassh/src/app/session.rs).  *)
(* A probe lists the sessions over one connection; what it found decides   *)
(* the command that a second connection runs, later.  All tabs here use    *)
(* one session name of one host, and the host's multiplexer does what the  *)
(* commands are used for.                                                  *)
(***************************************************************************)
CONSTANTS Tabs,
          Kinds, Policies,   \* subsets of the multiplexers and of BusyPolicy
          Sessions           \* the sessions of that name there may be

ASSUME RemoteAssumption ==
  /\ Kinds \subseteq {"Tmux", "Screen"}
  /\ Policies \subseteq {"DoNotAttach", "Share", "ForceDetach"}

VARIABLES kind, policy,   \* remote_session.multiplexer and busy
          installed,      \* the multiplexer is on the host
          stage,          \* where each tab is
          told,           \* the Presence its plan is made from
          running,        \* the sessions of the name
          clients         \* who is attached to each

remoteVars == <<kind, policy, installed, stage, told, running, clients>>

Stages == {"closed", "probing", "probed", "starting", "attached", "plain", "lost"}

Presences == {"Missing", "Attached", "Detached", "Unknown", "Unavailable"}

(* A client whose connection was lost is attached until the host notices.  *)
Clients == [tab : Tabs, alive : BOOLEAN]

Mine(t) == [tab |-> t, alive |-> TRUE]

Ghost(t) == [tab |-> t, alive |-> FALSE]

RemoteTypeOK ==
  /\ kind \in Kinds /\ policy \in Policies /\ installed \in BOOLEAN
  /\ stage \in [Tabs -> Stages] /\ told \in [Tabs -> Presences]
  /\ running \subseteq Sessions /\ clients \in [Sessions -> SUBSET Clients]

RemoteInit ==
  /\ kind \in Kinds /\ policy \in Policies /\ installed \in BOOLEAN
  /\ stage = [t \in Tabs |-> "closed"] /\ told = [t \in Tabs |-> "Unknown"]
  /\ running = {} /\ clients = [s \in Sessions |-> {}]

-----------------------------------------------------------------------------
(* The probe and the plan.                                                 *)

(* classify: the first session of the name that is listed counts.  Without *)
(* one, what the host prints tells that there is none or not even that; a  *)
(* tool that is missing is taken for a session that is, when the host's    *)
(* exit status does not arrive.                                            *)
Found ==
  IF ~installed THEN {"Unavailable", "Missing"}
  ELSE IF running = {} THEN {"Missing", "Unknown"}
  ELSE {IF clients[s] = {} THEN "Detached" ELSE "Attached" : s \in running}

(* Slip: any session that is there is attached to.                         *)
PlanUnasked(presence) ==
  IF presence = "Unavailable" THEN "none"
  ELSE IF policy = "Share" THEN "join"
  ELSE IF policy = "ForceDetach" THEN "take"
  ELSE IF presence \in {"Attached", "Detached"} THEN "reattach" ELSE "create"

(* plan: the command, or "none" for a plain shell.                         *)
Plan(presence) ==
  IF presence = "Unavailable" THEN "none"
  ELSE IF policy = "Share" THEN "join"
  ELSE IF policy = "ForceDetach" THEN "take"
  ELSE IF presence = "Attached" THEN "none"
  ELSE IF presence = "Detached" THEN "reattach" ELSE "create"

-----------------------------------------------------------------------------
(* The multiplexer, as the commands use it.  There is no session beyond    *)
(* Sessions: with all of them running, screen is not asked for another.    *)

Detached == {s \in running : clients[s] = {}}

(* The sessions a command may enter: "join" and "take" any of the name,    *)
(* "reattach" with tmux too, whoever is there, and with screen the one     *)
(* detached session, if there is just one.                                 *)
Enterable(command) ==
  CASE command = "create" -> {}
    [] command \in {"join", "take"} -> running
    [] command = "reattach" -> IF kind = "Tmux" THEN running
                               ELSE {s \in Detached : Detached = {s}}

(* tmux makes no second session of a name; screen does.                    *)
Creates(command) ==
  \/ command \in {"join", "take"} /\ running = {}
  \/ command = "create" /\ (kind = "Tmux" => running = {})

(* The tab has its shell; the shells of those it threw out ended.          *)
Entered(t) ==
  stage' = [o \in Tabs |->
              IF o = t THEN "attached"
              ELSE IF stage[o] = "attached" /\ \A s \in Sessions : Mine(o) \notin clients'[s]
              THEN "closed" ELSE stage[o]]

Made(t) ==
  \E s \in Sessions \ running :
    /\ running' = running \cup {s}
    /\ clients' = [clients EXCEPT ![s] = {Mine(t)}]
    /\ Entered(t)

Attached(t, command) ==
  \E s \in Enterable(command) :
    /\ clients' = [clients EXCEPT ![s] = (IF command = "take" THEN {} ELSE @) \cup {Mine(t)}]
    /\ UNCHANGED running
    /\ Entered(t)

(* The command ends with an error, and the tab with it.                    *)
Refused(t) == stage' = [stage EXCEPT ![t] = "closed"] /\ UNCHANGED <<running, clients>>

Runs(t, command) ==
  \/ installed /\ Creates(command) /\ Made(t)
  \/ installed /\ Attached(t, command)
  \/ (installed => ~Creates(command) /\ Enterable(command) = {}) /\ Refused(t)

-----------------------------------------------------------------------------
(* The tabs.                                                               *)

Severed(t) ==
  [s \in Sessions |->
     IF Mine(t) \in clients[s] THEN (clients[s] \ {Mine(t)}) \cup {Ghost(t)} ELSE clients[s]]

(* begin: a tab is opened, or reconnects, the lost one and the one that    *)
(* still has its shell: that one keeps it while the probe runs.            *)
BeginRemote(t) ==
  /\ stage[t] \notin {"probing", "probed"}
  /\ stage' = [stage EXCEPT ![t] = "probing"]
  /\ UNCHANGED <<kind, policy, installed, told, running, clients>>

(* The host lists its sessions.                                            *)
HostLists(t) ==
  /\ stage[t] = "probing"
  /\ \E presence \in Found : told' = [told EXCEPT ![t] = presence]
  /\ stage' = [stage EXCEPT ![t] = "probed"]
  /\ UNCHANGED <<kind, policy, installed, running, clients>>

(* The probe cannot connect or log in, or takes 15 seconds.                *)
ProbeFails(t) ==
  /\ stage[t] = "probing"
  /\ told' = [told EXCEPT ![t] = "Unknown"]
  /\ stage' = [stage EXCEPT ![t] = "probed"]
  /\ UNCHANGED <<kind, policy, installed, running, clients>>

(* finish_probe and start_ssh, which drops the transport the tab had.      *)
FinishProbe(t) ==
  /\ stage[t] = "probed"
  /\ stage' = [stage EXCEPT ![t] = IF Plan(told[t]) = "none" THEN "plain" ELSE "starting"]
  /\ clients' = Severed(t)
  /\ UNCHANGED <<kind, policy, installed, told, running>>

(* The new transport is up, and the host runs the command.                 *)
HostRuns(t) ==
  /\ stage[t] = "starting"
  /\ Runs(t, Plan(told[t]))
  /\ UNCHANGED <<kind, policy, installed, told>>

(* The connection of a tab breaks.  One that is probing does not look at   *)
(* the transport it still has.                                             *)
LosesConnection(t) ==
  /\ stage[t] # "closed"
  /\ stage' = IF stage[t] \in {"probing", "probed"} THEN stage
              ELSE [stage EXCEPT ![t] = "lost"]
  /\ clients' = Severed(t)
  /\ UNCHANGED <<kind, policy, installed, told, running>>

HostNotices(t) ==
  /\ \E s \in running : Ghost(t) \in clients[s]
  /\ clients' = [s \in Sessions |-> clients[s] \ {Ghost(t)}]
  /\ UNCHANGED <<kind, policy, installed, stage, told, running>>

(* The tab is closed, or its user detaches from the session or leaves the  *)
(* plain shell.                                                            *)
Leaves(t) ==
  /\ stage[t] # "closed"
  /\ stage' = [stage EXCEPT ![t] = "closed"]
  /\ clients' = [s \in Sessions |-> clients[s] \ {Mine(t)}]
  /\ UNCHANGED <<kind, policy, installed, told, running>>

(* The last shell in a session exits, and with it everybody's.             *)
SessionEnds ==
  \E s \in running :
    /\ running' = running \ {s}
    /\ clients' = [clients EXCEPT ![s] = {}]
    /\ stage' = [t \in Tabs |->
                   IF stage[t] = "attached" /\ Mine(t) \in clients[s] THEN "closed" ELSE stage[t]]
    /\ UNCHANGED <<kind, policy, installed, told>>

RemoteNext ==
  \/ \E t \in Tabs :
       \/ BeginRemote(t) \/ HostLists(t) \/ ProbeFails(t) \/ FinishProbe(t)
       \/ HostRuns(t) \/ LosesConnection(t) \/ HostNotices(t) \/ Leaves(t)
  \/ SessionEnds

RemoteSpec == RemoteInit /\ [][RemoteNext]_remoteVars

-----------------------------------------------------------------------------
Present(s) == {t \in Tabs : stage[t] = "attached" /\ Mine(t) \in clients[s]}

(* Who shares a session: under "Force detach others" nobody, and under "Do *)
(* not attach" only tabs that tmux let in because their probe had found it *)
(* detached, before somebody else came in between.                         *)
SharedOnlyByRace ==
  \A s \in Sessions :
    /\ policy = "ForceDetach" => \A c, d \in clients[s] : c = d
    /\ policy = "DoNotAttach" =>
         \A t, u \in Present(s) :
           t = u \/ (kind = "Tmux" /\ "Detached" \in {told[t], told[u]})

(* "probe first, then either attach to an existing session, create one, or *)
(* fall back to a plain login shell" (remote_session.rs:3): a plan ends in *)
(* a shell.  It does not hold: see the README.                             *)
PlanEndsInShell ==
  [][\A t \in Tabs : HostRuns(t) => stage'[t] = "attached"]_remoteVars
=============================================================================
