------------------------------ MODULE FarEndProofs ------------------------------
(***************************************************************************)
(* The tmux and screen sessions of a host, for any number of tabs and      *)
(* sessions.  Who shares a session rests on where the shells of a tab are: *)
(* a tab has at most one, and only while it is attached or runs a probe    *)
(* with its old shell still there (OneShell).  A tab that is let into a    *)
(* session is therefore in no other, so that no sharing comes about there; *)
(* and what a tab was told does not change while it is attached.  The jump *)
(* hosts, for any number of them: jump_chain either fails or leads to the  *)
(* host it began with, and a tab goes on only with a chain that led there. *)
(* Telnet, for every list of bytes and every cutting of it: what the user  *)
(* typed has arrived, is on the way or waits (ToHost), and so has what the *)
(* host printed (ToTerminal), whatever is negotiated in between, because   *)
(* what is negotiated comes as whole commands (AllOrders).                 *)
(***************************************************************************)
EXTENDS FarEnd, ListProofs

(* A tab has one shell of the sessions at most: FinishProbe gives it up    *)
(* before the new one is asked for.                                        *)
OneShell ==
  \A t \in Tabs, s \in Sessions :
    Mine(t) \in clients[s] =>
      /\ stage[t] \in {"probing", "probed", "attached"}
      /\ \A r \in Sessions : Mine(t) \in clients[r] => r = s

(* Under "Force detach others" a session has one client.                   *)
AloneWhenForced ==
  policy = "ForceDetach" => \A s \in Sessions : \A c, d \in clients[s] : c = d

(* Under "Do not attach" the tabs in a session raced.                      *)
Raced(t, u) == kind = "Tmux" /\ "Detached" \in {told[t], told[u]}

OthersRaced ==
  policy = "DoNotAttach" =>
    \A s \in Sessions : \A t, u \in Tabs :
      t \in Present(s) /\ u \in Present(s) /\ t # u => Raced(t, u)

(* A tab that waits for its shell has a command to run: finish_probe asks  *)
(* for a plain shell when the plan has none.                               *)
HasCommand == \A t \in Tabs : stage[t] = "starting" => Plan(told[t]) # "none"

RemoteInv == RemoteTypeOK /\ OneShell /\ AloneWhenForced /\ OthersRaced /\ HasCommand

-----------------------------------------------------------------------------
(* The two shells a tab may have with a host are different clients, and    *)
(* those of two tabs are.                                                  *)
LEMMA ClientsDiffer ==
  ASSUME NEW t \in Tabs, NEW u \in Tabs
  PROVE  /\ Mine(t) \in Clients /\ Ghost(t) \in Clients
         /\ Mine(t) # Ghost(u)
         /\ Mine(t) = Mine(u) => t = u
BY DEF Mine, Ghost, Clients

(* A step that attaches nobody: clients leave or turn into ghosts, and     *)
(* what an attached tab was told stays.                                    *)
Leaving ==
  /\ UNCHANGED <<kind, policy, installed>>
  /\ \A t \in Tabs, s \in Sessions : Mine(t) \in clients'[s] => Mine(t) \in clients[s]
  /\ \A t \in Tabs : stage'[t] = "attached" => stage[t] = "attached" /\ told'[t] = told[t]

(* Nobody comes to share a session by a step that attaches nobody.         *)
LEMMA LeavingKeepsRaces ==
  ASSUME Leaving, OthersRaced
  PROVE  OthersRaced'
<1> SUFFICES ASSUME policy = "DoNotAttach",
                    NEW s \in Sessions, NEW t \in Tabs, NEW u \in Tabs,
                    t \in Present(s)', u \in Present(s)', t # u
             PROVE  Raced(t, u)'
  BY DEF OthersRaced, Leaving
<1>1. t \in Present(s) /\ u \in Present(s) /\ told'[t] = told[t] /\ told'[u] = told[u]
  BY DEF Present, Leaving
<1>2. Raced(t, u)
  BY <1>1 DEF OthersRaced
<1> QED
  BY <1>1, <1>2 DEF Raced, Leaving
-----------------------------------------------------------------------------
(* A connection that is lost makes the shell of its tab a ghost.           *)
LEMMA SeveredClients ==
  ASSUME RemoteTypeOK, NEW t \in Tabs
  PROVE  /\ Severed(t) \in [Sessions -> SUBSET Clients]
         /\ \A u \in Tabs, s \in Sessions :
              Mine(u) \in Severed(t)[s] => u # t /\ Mine(u) \in clients[s]
         /\ \A s \in Sessions :
              (\A c, d \in clients[s] : c = d) => \A c, d \in Severed(t)[s] : c = d
<1>1. Severed(t) \in [Sessions -> SUBSET Clients]
  BY ClientsDiffer DEF Severed, RemoteTypeOK
<1>2. ASSUME NEW u \in Tabs, NEW s \in Sessions, Mine(u) \in Severed(t)[s]
      PROVE  u # t /\ Mine(u) \in clients[s]
  <2>1. Mine(u) # Ghost(t)
    BY ClientsDiffer
  <2> QED
    BY <1>2, <2>1 DEF Severed
<1>3. ASSUME NEW s \in Sessions, \A c, d \in clients[s] : c = d,
             NEW c \in Severed(t)[s], NEW d \in Severed(t)[s]
      PROVE  c = d
  <2>1. CASE Mine(t) \in clients[s]
    <3>1. clients[s] \ {Mine(t)} = {}
      BY <1>3, <2>1
    <3> QED
      BY <2>1, <3>1 DEF Severed
  <2>2. CASE Mine(t) \notin clients[s]
    BY <1>3, <2>2 DEF Severed
  <2> QED
    BY <2>1, <2>2
<1> QED
  BY <1>1, <1>2, <1>3

(* Clients that leave take nobody along, and leave nobody behind twice.    *)
LEMMA GoneClients ==
  ASSUME RemoteTypeOK, NEW gone
  PROVE  LET left == [s \in Sessions |-> clients[s] \ {gone}]
         IN  /\ left \in [Sessions -> SUBSET Clients]
             /\ \A s \in Sessions : left[s] \subseteq clients[s] /\ gone \notin left[s]
BY DEF RemoteTypeOK

(* What the invariant asks of the clients after a step, from what the step *)
(* did with the stages.                                                    *)
LEMMA FewerShells ==
  ASSUME OneShell,
         \A u \in Tabs, s \in Sessions :
           Mine(u) \in clients'[s] =>
             Mine(u) \in clients[s] /\ stage'[u] \in {"probing", "probed", "attached"}
  PROVE  OneShell'
BY DEF OneShell

(* What a probe finds is a Presence.                                       *)
LEMMA FoundType == Found \subseteq Presences
BY DEF Found, Presences

-----------------------------------------------------------------------------
(* The tab that is let in is attached, those it threw out are closed, and  *)
(* the others stay where they are.                                         *)
LEMMA EnteredStage ==
  ASSUME RemoteTypeOK, NEW t \in Tabs, Entered(t)
  PROVE  /\ stage' \in [Tabs -> Stages] /\ stage'[t] = "attached"
         /\ \A u \in Tabs : u # t /\ stage'[u] = "attached" => stage[u] = "attached"
         /\ \A u \in Tabs, s \in Sessions :
              u # t /\ Mine(u) \in clients'[s] => stage'[u] = stage[u]
BY DEF Entered, RemoteTypeOK, Stages

(* How a command lets a tab into a session: with those who are there, or,  *)
(* if they are thrown out or it makes the session, alone.                  *)
LetIn(t, s, before) ==
  /\ clients' = [clients EXCEPT ![s] = before \cup {Mine(t)}]
  /\ before = {} \/ before = clients[s]
  /\ Entered(t)
  /\ UNCHANGED <<kind, policy, installed, told>>

(* A tab that had no shell has one after it was let in.                    *)
LEMMA LetInOneShell ==
  ASSUME RemoteTypeOK, OneShell, NEW t \in Tabs, NEW s \in Sessions, NEW before,
         stage[t] = "starting", LetIn(t, s, before)
  PROVE  /\ OneShell'
         /\ clients' \in [Sessions -> SUBSET Clients]
         /\ \A r \in Sessions : Mine(t) \in clients'[r] => r = s
<1>1. \A r \in Sessions : Mine(t) \notin clients[r]
  BY DEF OneShell
<1>2. clients' \in [Sessions -> SUBSET Clients]
  BY ClientsDiffer DEF LetIn, RemoteTypeOK
<1>3. \A r \in Sessions : clients'[r] = IF r = s THEN before \cup {Mine(t)} ELSE clients[r]
  BY DEF LetIn, RemoteTypeOK
<1>4. \A r \in Sessions : Mine(t) \in clients'[r] => r = s
  BY <1>1, <1>3
<1>5. \A u \in Tabs, r \in Sessions :
        u # t /\ Mine(u) \in clients'[r] => Mine(u) \in clients[r] /\ stage'[u] = stage[u]
  BY <1>3, ClientsDiffer, EnteredStage DEF LetIn
<1>6. stage'[t] = "attached"
  BY EnteredStage DEF LetIn
<1> QED
  BY <1>2, <1>4, <1>5, <1>6 DEF OneShell

(* A command that lets a tab in respects the policy: under "Force detach   *)
(* others" it throws the others out, and under "Do not attach" only tmux   *)
(* may let in a tab where somebody is, one that was told nobody was.       *)
LEMMA LetInKeepsPolicy ==
  ASSUME RemoteTypeOK, OneShell, AloneWhenForced, OthersRaced,
         NEW t \in Tabs, NEW s \in Sessions, NEW before,
         stage[t] = "starting", LetIn(t, s, before),
         policy = "ForceDetach" => before = {},
         policy = "DoNotAttach" /\ before # {} => kind = "Tmux" /\ told[t] = "Detached"
  PROVE  AloneWhenForced' /\ OthersRaced'
<1>1. /\ \A r \in Sessions :
            clients'[r] = IF r = s THEN before \cup {Mine(t)} ELSE clients[r]
      /\ policy' = policy /\ kind' = kind /\ told' = told
  BY DEF LetIn, RemoteTypeOK
<1>2. AloneWhenForced'
  BY <1>1 DEF AloneWhenForced
<1>3. ASSUME policy = "DoNotAttach", NEW r \in Sessions, NEW u \in Tabs, NEW v \in Tabs,
             u \in Present(r)', v \in Present(r)', u # v
      PROVE  Raced(u, v)'
  <2>1. Mine(u) \in clients'[r] /\ Mine(v) \in clients'[r]
    BY <1>3 DEF Present
  <2>2. CASE u # t /\ v # t
    <3>1. Mine(u) \in clients[r] /\ Mine(v) \in clients[r]
      BY <1>1, <2>1, <2>2, ClientsDiffer DEF LetIn
    <3>2. stage[u] = "attached" /\ stage[v] = "attached"
      BY <1>3, <2>2, EnteredStage DEF Present, LetIn
    <3>3. Raced(u, v)
      BY <1>3, <3>1, <3>2 DEF OthersRaced, Present
    <3> QED
      BY <1>1, <3>3 DEF Raced
  <2>3. CASE u = t \/ v = t
    <3>1. r = s
      BY <2>1, <2>3, LetInOneShell
    <3>2. before # {}
      <4>1. \E w \in {u, v} : w # t /\ Mine(w) \in before \cup {Mine(t)}
        BY <1>1, <1>3, <2>1, <3>1
      <4> QED
        BY <4>1, ClientsDiffer
    <3>3. kind = "Tmux" /\ told[t] = "Detached"
      BY <1>3, <3>2
    <3> QED
      BY <1>1, <2>3, <3>3 DEF Raced
  <2> QED
    BY <2>2, <2>3
<1> QED
  BY <1>1, <1>2, <1>3 DEF OthersRaced

(* A command lets a tab in as the policy it was planned under wants.       *)
LEMMA RunsLetsIn ==
  ASSUME RemoteTypeOK, HasCommand, NEW t \in Tabs, HostRuns(t)
  PROVE  \/ Refused(t)
         \/ \E s \in Sessions, before \in SUBSET Clients :
              /\ LetIn(t, s, before)
              /\ policy = "ForceDetach" => before = {}
              /\ policy = "DoNotAttach" /\ before # {}
                   => kind = "Tmux" /\ told[t] = "Detached"
              /\ running' \subseteq Sessions
<1> DEFINE command == Plan(told[t])
<1>1. UNCHANGED <<kind, policy, installed, told>>
  BY DEF HostRuns
<1>2. CASE Made(t)
  <2>1. PICK s \in Sessions : /\ running' = running \cup {s} /\ Entered(t)
                              /\ clients' = [clients EXCEPT ![s] = {Mine(t)}]
    BY <1>2 DEF Made
  <2>2. LetIn(t, s, {})
    BY <1>1, <2>1 DEF LetIn
  <2>3. running' \subseteq Sessions
    BY <2>1 DEF RemoteTypeOK
  <2> QED
    BY <2>2, <2>3
<1>3. CASE Attached(t, command)
  <2>1. PICK s \in Enterable(command) :
          /\ clients' = [clients EXCEPT ![s] = (IF command = "take" THEN {} ELSE @)
                                                 \cup {Mine(t)}]
          /\ UNCHANGED running
          /\ Entered(t)
    BY <1>3 DEF Attached
  <2>2. /\ command \in {"join", "take", "reattach", "create"}
        /\ policy = "ForceDetach" => command = "take"
        /\ policy = "DoNotAttach" => command \in {"reattach", "create"}
        /\ command = "reattach" => told[t] = "Detached"
    BY DEF Plan, HasCommand, HostRuns
  <2>3. CASE command = "create"
    BY <2>1, <2>3 DEF Enterable
  <2>4. CASE command \in {"join", "take"}
    <3>1. Enterable(command) = running
      BY <2>4 DEF Enterable
    <3>2. s \in Sessions /\ running' \subseteq Sessions
      BY <2>1, <3>1 DEF RemoteTypeOK
    <3>3. LetIn(t, s, IF command = "take" THEN {} ELSE clients[s])
      BY <1>1, <2>1, <3>2 DEF LetIn, RemoteTypeOK
    <3>4. clients[s] \in SUBSET Clients
      BY <3>2 DEF RemoteTypeOK
    <3>5. CASE command = "take"
      BY <2>2, <3>2, <3>3, <3>5
    <3>6. CASE command = "join"
      BY <2>2, <3>2, <3>3, <3>4, <3>6
    <3> QED
      BY <2>4, <3>5, <3>6
  <2>5. CASE command = "reattach"
    <3>1. s \in running /\ (kind = "Tmux" \/ clients[s] = {})
      BY <2>1, <2>5 DEF Enterable, Detached
    <3>2. s \in Sessions /\ running' \subseteq Sessions
      BY <2>1, <3>1 DEF RemoteTypeOK
    <3>3. LetIn(t, s, clients[s])
      BY <1>1, <2>1, <2>5, <3>2 DEF LetIn, RemoteTypeOK
    <3>4. clients[s] \in SUBSET Clients
      BY <3>2 DEF RemoteTypeOK
    <3> QED
      BY <2>2, <2>5, <3>1, <3>2, <3>3, <3>4
  <2> QED
    BY <2>2, <2>3, <2>4, <2>5
<1> QED
  BY <1>2, <1>3 DEF HostRuns, Runs
-----------------------------------------------------------------------------
(* A step that attaches nobody keeps the rest, whoever leaves by it.       *)
LEMMA LeavingStep ==
  ASSUME RemoteInv, Leaving, RemoteTypeOK',
         \A u \in Tabs, s \in Sessions :
           Mine(u) \in clients'[s] =>
             Mine(u) \in clients[s] /\ stage'[u] \in {"probing", "probed", "attached"},
         \A s \in Sessions :
           (\A c, d \in clients[s] : c = d) => \A c, d \in clients'[s] : c = d,
         \A u \in Tabs :
           stage'[u] = "starting" => told'[u] = told[u] /\ Plan(told[u]) # "none"
  PROVE  RemoteInv'
<1>1. OneShell'
  BY FewerShells DEF RemoteInv
<1>2. AloneWhenForced'
  BY DEF RemoteInv, AloneWhenForced, Leaving
<1>3. OthersRaced'
  BY LeavingKeepsRaces DEF RemoteInv
<1>4. HasCommand'
  BY DEF HasCommand, Plan, Leaving
<1> QED
  BY <1>1, <1>2, <1>3, <1>4 DEF RemoteInv

(* The probe: the tab keeps the shell it may have.                         *)
LEMMA ProbeStep ==
  ASSUME RemoteInv, NEW t \in Tabs, BeginRemote(t) \/ HostLists(t) \/ ProbeFails(t)
  PROVE  RemoteInv'
<1>1. /\ UNCHANGED <<kind, policy, installed, running, clients>>
      /\ stage' = [stage EXCEPT ![t] = "probing"] \/ stage' = [stage EXCEPT ![t] = "probed"]
      /\ told' = told \/ \E presence \in Presences : told' = [told EXCEPT ![t] = presence]
  BY FoundType DEF BeginRemote, HostLists, ProbeFails, Presences
<1>2. RemoteTypeOK
  BY DEF RemoteInv
<1>3. /\ stage'[t] \in {"probing", "probed"}
      /\ \A u \in Tabs : u # t => stage'[u] = stage[u] /\ told'[u] = told[u]
  BY <1>1, <1>2 DEF RemoteTypeOK
<1>4. RemoteTypeOK'
  <2>1. stage' \in [Tabs -> Stages]
    BY <1>1, <1>2 DEF RemoteTypeOK, Stages
  <2>2. told' \in [Tabs -> Presences]
    BY <1>1, <1>2 DEF RemoteTypeOK
  <2> QED
    BY <1>1, <1>2, <2>1, <2>2 DEF RemoteTypeOK
<1>5. Leaving
  BY <1>1, <1>3 DEF Leaving
<1>6. \A u \in Tabs, s \in Sessions :
        Mine(u) \in clients'[s] =>
          Mine(u) \in clients[s] /\ stage'[u] \in {"probing", "probed", "attached"}
  BY <1>1, <1>3 DEF RemoteInv, OneShell
<1>7. \A u \in Tabs : stage'[u] = "starting" => told'[u] = told[u] /\ Plan(told[u]) # "none"
  BY <1>3 DEF RemoteInv, HasCommand
<1> QED
  BY <1>1, <1>4, <1>5, <1>6, <1>7, LeavingStep

(* A tab loses its connection, or drops it to start the one that runs the  *)
(* command: its shell becomes a ghost.                                     *)
LEMMA SeveredStep ==
  ASSUME RemoteInv, NEW t \in Tabs, FinishProbe(t) \/ LosesConnection(t)
  PROVE  RemoteInv'
<1>1. /\ UNCHANGED <<kind, policy, installed, told, running>>
      /\ clients' = Severed(t)
      /\ stage' = stage \/ \E new \in Stages \ {"attached"} :
                             /\ stage' = [stage EXCEPT ![t] = new]
                             /\ new = "starting" => Plan(told[t]) # "none"
  BY DEF FinishProbe, LosesConnection, Stages
<1>2. RemoteTypeOK
  BY DEF RemoteInv
<1>3. \A u \in Tabs : u # t => stage'[u] = stage[u]
  BY <1>1, <1>2 DEF RemoteTypeOK
<1>4. RemoteTypeOK'
  <2>1. stage' \in [Tabs -> Stages]
    BY <1>1, <1>2 DEF RemoteTypeOK
  <2> QED
    BY <1>1, <1>2, <2>1, SeveredClients DEF RemoteTypeOK
<1>5. Leaving
  <2>1. \A u \in Tabs : stage'[u] = "attached" => stage[u] = "attached"
    BY <1>1, <1>2 DEF RemoteTypeOK
  <2> QED
    BY <1>1, <1>2, <2>1, SeveredClients DEF Leaving
<1>6. \A u \in Tabs, s \in Sessions :
        Mine(u) \in clients'[s] =>
          Mine(u) \in clients[s] /\ stage'[u] \in {"probing", "probed", "attached"}
  BY <1>1, <1>2, <1>3, SeveredClients DEF RemoteInv, OneShell
<1>7. \A s \in Sessions : (\A c, d \in clients[s] : c = d) => \A c, d \in clients'[s] : c = d
  BY <1>1, <1>2, SeveredClients
<1>8. \A u \in Tabs : stage'[u] = "starting" => told'[u] = told[u] /\ Plan(told[u]) # "none"
  BY <1>1, <1>2 DEF RemoteInv, HasCommand, RemoteTypeOK
<1> QED
  BY <1>4, <1>5, <1>6, <1>7, <1>8, LeavingStep

(* The host notices that a client is gone, or its user leaves.             *)
LEMMA GoneStep ==
  ASSUME RemoteInv, NEW t \in Tabs, HostNotices(t) \/ Leaves(t)
  PROVE  RemoteInv'
<1>1. /\ UNCHANGED <<kind, policy, installed, told, running>>
      /\ \/ stage' = stage
         \/ /\ stage' = [stage EXCEPT ![t] = "closed"]
            /\ \A s \in Sessions : Mine(t) \notin clients'[s]
      /\ clients' \in [Sessions -> SUBSET Clients]
      /\ \A s \in Sessions : clients'[s] \subseteq clients[s]
  BY GoneClients DEF HostNotices, Leaves, RemoteInv
<1>2. RemoteTypeOK
  BY DEF RemoteInv
<1>3. \A u \in Tabs : stage'[u] = stage[u] \/ (u = t /\ stage'[u] = "closed")
  BY <1>1, <1>2 DEF RemoteTypeOK
<1>4. RemoteTypeOK'
  <2>1. stage' \in [Tabs -> Stages]
    BY <1>1, <1>2 DEF RemoteTypeOK, Stages
  <2> QED
    BY <1>1, <1>2, <2>1 DEF RemoteTypeOK
<1>5. Leaving
  BY <1>1, <1>3 DEF Leaving
<1>6. \A u \in Tabs, s \in Sessions :
        Mine(u) \in clients'[s] =>
          Mine(u) \in clients[s] /\ stage'[u] \in {"probing", "probed", "attached"}
  <2> SUFFICES ASSUME NEW u \in Tabs, NEW s \in Sessions, Mine(u) \in clients'[s]
               PROVE  Mine(u) \in clients[s] /\ stage'[u] \in {"probing", "probed", "attached"}
    OBVIOUS
  <2>1. Mine(u) \in clients[s] /\ stage'[u] = stage[u]
    BY <1>1, <1>2 DEF RemoteTypeOK
  <2> QED
    BY <2>1 DEF RemoteInv, OneShell
<1>7. \A s \in Sessions : (\A c, d \in clients[s] : c = d) => \A c, d \in clients'[s] : c = d
  BY <1>1
<1>8. \A u \in Tabs : stage'[u] = "starting" => told'[u] = told[u] /\ Plan(told[u]) # "none"
  BY <1>1, <1>3 DEF RemoteInv, HasCommand
<1> QED
  BY <1>4, <1>5, <1>6, <1>7, <1>8, LeavingStep

(* A session ends, and takes the shells of its clients with it.            *)
LEMMA EndStep ==
  ASSUME RemoteInv, SessionEnds
  PROVE  RemoteInv'
<1>1. PICK s \in running :
        /\ running' = running \ {s}
        /\ clients' = [clients EXCEPT ![s] = {}]
        /\ stage' = [t \in Tabs |-> IF stage[t] = "attached" /\ Mine(t) \in clients[s]
                                    THEN "closed" ELSE stage[t]]
        /\ UNCHANGED <<kind, policy, installed, told>>
  BY DEF SessionEnds
<1>2. RemoteTypeOK /\ s \in Sessions
  BY DEF RemoteInv, RemoteTypeOK
<1>3. \A r \in Sessions : clients'[r] = IF r = s THEN {} ELSE clients[r]
  BY <1>1, <1>2 DEF RemoteTypeOK
<1>4. RemoteTypeOK'
  <2>1. stage' \in [Tabs -> Stages]
    BY <1>1, <1>2 DEF RemoteTypeOK, Stages
  <2>2. clients' \in [Sessions -> SUBSET Clients]
    BY <1>1, <1>2 DEF RemoteTypeOK
  <2> QED
    BY <1>1, <1>2, <2>1, <2>2 DEF RemoteTypeOK
<1>5. Leaving
  BY <1>1, <1>3 DEF Leaving
<1>6. \A u \in Tabs, r \in Sessions :
        Mine(u) \in clients'[r] =>
          Mine(u) \in clients[r] /\ stage'[u] \in {"probing", "probed", "attached"}
  <2> SUFFICES ASSUME NEW u \in Tabs, NEW r \in Sessions, Mine(u) \in clients'[r]
               PROVE  Mine(u) \in clients[r] /\ stage'[u] \in {"probing", "probed", "attached"}
    OBVIOUS
  <2>1. r # s /\ Mine(u) \in clients[r]
    BY <1>3
  <2>2. Mine(u) \notin clients[s] /\ stage[u] \in {"probing", "probed", "attached"}
    BY <1>2, <2>1 DEF RemoteInv, OneShell
  <2> QED
    BY <1>1, <2>1, <2>2
<1>7. \A r \in Sessions : (\A c, d \in clients[r] : c = d) => \A c, d \in clients'[r] : c = d
  BY <1>3
<1>8. \A u \in Tabs : stage'[u] = "starting" => told'[u] = told[u] /\ Plan(told[u]) # "none"
  BY <1>1 DEF RemoteInv, HasCommand
<1> QED
  BY <1>4, <1>5, <1>6, <1>7, <1>8, LeavingStep

(* The host runs the command of a tab, or refuses it.                      *)
LEMMA HostRunsStep ==
  ASSUME RemoteInv, NEW t \in Tabs, HostRuns(t)
  PROVE  RemoteInv'
<1>1. RemoteTypeOK /\ stage[t] = "starting" /\ UNCHANGED <<kind, policy, installed, told>>
  BY DEF RemoteInv, HostRuns
<1>2. CASE Refused(t)
  <2>1. /\ UNCHANGED <<running, clients>>
        /\ stage' = [stage EXCEPT ![t] = "closed"]
    BY <1>2 DEF Refused
  <2>2. \A u \in Tabs : stage'[u] = IF u = t THEN "closed" ELSE stage[u]
    BY <1>1, <2>1 DEF RemoteTypeOK
  <2>3. RemoteTypeOK'
    BY <1>1, <2>1 DEF RemoteTypeOK, Stages
  <2>4. Leaving
    BY <1>1, <2>1, <2>2 DEF Leaving
  <2>5. \A u \in Tabs, s \in Sessions :
          Mine(u) \in clients'[s] =>
            Mine(u) \in clients[s] /\ stage'[u] \in {"probing", "probed", "attached"}
    BY <1>1, <2>1, <2>2 DEF RemoteInv, OneShell
  <2>6. \A u \in Tabs : stage'[u] = "starting" => told'[u] = told[u] /\ Plan(told[u]) # "none"
    BY <1>1, <2>2 DEF RemoteInv, HasCommand
  <2> QED
    BY <2>1, <2>3, <2>4, <2>5, <2>6, LeavingStep
<1>3. ASSUME NEW s \in Sessions, NEW before \in SUBSET Clients,
             LetIn(t, s, before),
             policy = "ForceDetach" => before = {},
             policy = "DoNotAttach" /\ before # {} => kind = "Tmux" /\ told[t] = "Detached",
             running' \subseteq Sessions
      PROVE  RemoteInv'
  <2>1. OneShell' /\ clients' \in [Sessions -> SUBSET Clients]
    BY <1>1, <1>3, LetInOneShell DEF RemoteInv
  <2>2. AloneWhenForced' /\ OthersRaced'
    BY <1>1, <1>3, LetInKeepsPolicy DEF RemoteInv
  <2>3. stage' \in [Tabs -> Stages]
    BY <1>1, <1>3, EnteredStage DEF LetIn
  <2>4. RemoteTypeOK'
    BY <1>1, <1>3, <2>1, <2>3 DEF RemoteTypeOK
  <2>5. \A u \in Tabs : stage'[u] = "starting" => stage[u] = "starting"
    BY <1>3 DEF LetIn, Entered
  <2>6. HasCommand'
    BY <1>1, <2>5 DEF RemoteInv, HasCommand, Plan
  <2> QED
    BY <2>1, <2>2, <2>4, <2>6 DEF RemoteInv
<1> QED
  BY <1>1, <1>2, <1>3, RunsLetsIn DEF RemoteInv

-----------------------------------------------------------------------------
(* The invariant of the sessions holds.                                    *)
LEMMA RemoteHolds == FarSpec => []RemoteInv
<1>1. FarInit => RemoteInv
  <2> SUFFICES ASSUME RemoteInit PROVE RemoteInv
    BY DEF FarInit
  <2>1. RemoteTypeOK
    BY DEF RemoteInit, RemoteTypeOK, Stages, Presences
  <2> QED
    BY <2>1 DEF RemoteInit, RemoteInv, OneShell, AloneWhenForced, OthersRaced, HasCommand,
                Present
<1>2. RemoteInv /\ [FarNext]_farVars => RemoteInv'
  <2> SUFFICES ASSUME RemoteInv, [FarNext]_farVars PROVE RemoteInv'
    OBVIOUS
  <2>1. CASE RemoteNext
    BY <2>1, ProbeStep, SeveredStep, GoneStep, EndStep, HostRunsStep DEF RemoteNext
  <2>2. CASE UNCHANGED remoteVars
    BY <2>2 DEF remoteVars, RemoteInv, RemoteTypeOK, OneShell, AloneWhenForced, OthersRaced,
                HasCommand, Present, Raced, Plan
  <2> QED
    BY <2>1, <2>2 DEF FarNext, farVars
<1> QED
  BY <1>1, <1>2, PTL DEF FarSpec

(* Who shares a session: under "Force detach others" nobody, and under "Do *)
(* not attach" only tabs that tmux let in because their probe had found    *)
(* the session detached (remote_session.rs), with any number of tabs.      *)
THEOREM SharersRaced == FarSpec => []SharedOnlyByRace
<1>1. RemoteInv => SharedOnlyByRace
  BY DEF RemoteInv, AloneWhenForced, OthersRaced, Raced, SharedOnlyByRace, Present
<1> QED
  BY <1>1, RemoteHolds, PTL

-----------------------------------------------------------------------------
(* The jump hosts.                                                         *)

Profiles == [Hosts -> [there : BOOLEAN, jump : Ways, usable : BOOLEAN]]

Walks == [next : Ways, hops : Seq(Hosts), error : BOOLEAN]

(* What holds of the way so far: it is short, has no host twice, and ends  *)
(* at the host it began with, or has not begun.                            *)
OnWay(walk, way) ==
  walk.error \/ /\ Len(walk.hops) <= MaxHops /\ Distinct(walk.hops)
                /\ IF walk.hops = << >> THEN walk.next = way
                   ELSE walk.hops[Len(walk.hops)] = way

(* After n turns the walk is over, or has n hops.                          *)
Gone(walk, n) == walk.error \/ walk.next = NoJump \/ Len(walk.hops) = n

(* One turn.                                                               *)
LEMMA HopKeeps ==
  ASSUME profiles \in Profiles, NEW walk \in Walks, NEW way \in Ways, NEW n \in Nat,
         OnWay(walk, way), Gone(walk, n)
  PROVE  Hop(walk) \in Walks /\ OnWay(Hop(walk), way) /\ Gone(Hop(walk), n + 1)
<1>1. CASE walk.error \/ walk.next = NoJump
  BY <1>1 DEF Hop, Gone
<1>2. CASE ~walk.error /\ walk.next # NoJump /\ Broken(walk)
  BY <1>2 DEF Hop, Walks, Ways, OnWay, Gone
<1>3. CASE ~walk.error /\ walk.next # NoJump /\ ~Broken(walk)
  <2>1. PICK h \in Hosts, s \in Seq(Hosts) : walk.next = h /\ walk.hops = s
    BY <1>3 DEF Walks, Ways
  <2>2. PICK longer : longer = <<h>> \o s
    OBVIOUS
  <2>3. Hop(walk) = [next |-> profiles[h].jump, hops |-> longer, error |-> FALSE]
    BY <1>3, <2>1, <2>2 DEF Hop
  <2>4. profiles[h].jump \in Ways
    BY <2>1 DEF Profiles
  <2>5. /\ longer \in Seq(Hosts) /\ Len(longer) = Len(s) + 1
        /\ longer # << >> /\ longer[Len(longer)] = IF s = << >> THEN h ELSE s[Len(s)]
    BY <2>1, <2>2
  <2>6. h \notin Elements(s) /\ Len(s) < MaxHops
    BY <1>3, <2>1, JumpsAssumption DEF Broken
  <2>7. Distinct(s) /\ Len(s) = n /\ IF s = << >> THEN h = way ELSE s[Len(s)] = way
    BY <1>3, <2>1 DEF OnWay, Gone
  <2>8. Distinct(longer)
    <3>1. <<h>> \in Seq(Hosts) /\ Elements(<<h>>) = {h} /\ Distinct(<<h>>)
      BY <2>1 DEF Elements, Distinct
    <3>2. Distinct(<<h>> \o s) <=>
            Distinct(<<h>>) /\ Distinct(s) /\ Elements(<<h>>) \cap Elements(s) = {}
      BY <2>1, <3>1, ConcatDistinct
    <3> QED
      BY <2>2, <2>6, <2>7, <3>1, <3>2
  <2>9. Len(longer) <= MaxHops /\ Len(longer) = n + 1 /\ longer[Len(longer)] = way
    BY <2>5, <2>6, <2>7, JumpsAssumption
  <2> QED
    BY <2>3, <2>4, <2>5, <2>8, <2>9 DEF Walks, OnWay, Gone
<1> QED
  BY <1>1, <1>2, <1>3

(* The walk there is.                                                      *)
Walking(walk, way) ==
  /\ Chain(way) = walk[MaxHops + 1]
  /\ walk[0] = [next |-> way, hops |-> << >>, error |-> FALSE]
  /\ \A n \in 1..MaxHops + 1 : walk[n] = Hop(walk[n - 1])

(* The chain of a way is where some walk ends.                             *)
LEMMA ChainUnfolds ==
  ASSUME profiles \in Profiles, NEW way \in Ways
  PROVE  \E walk : Walking(walk, way)
<1>0. PICK m \in Nat : m = MaxHops + 1
  BY JumpsAssumption
<1> DEFINE first == [next |-> way, hops |-> << >>, error |-> FALSE]
           step == [x \in Walks \X (1..m) |-> Hop(x[1])]
           Body(f) == [n \in 0..m |-> IF n = 0 THEN first ELSE Hop(f[n - 1])]
           walk == CHOOSE f : f = Body(f)
<1>1. first \in Walks
  BY DEF Walks
<1>2. step \in [Walks \X (1..m) -> Walks]
  <2>1. \A x \in Walks : Hop(x) \in Walks
    <3> SUFFICES ASSUME NEW x \in Walks PROVE Hop(x) \in Walks
      OBVIOUS
    <3>1. CASE x.error \/ x.next = NoJump
      BY <3>1 DEF Hop
    <3>2. CASE ~(x.error \/ x.next = NoJump) /\ Broken(x)
      BY <3>2 DEF Hop, Walks, Ways
    <3>3. CASE ~(x.error \/ x.next = NoJump) /\ ~Broken(x)
      <4>1. x.next \in Hosts /\ x.hops \in Seq(Hosts)
        BY <3>3 DEF Walks, Ways
      <4>2. profiles[x.next].jump \in Ways /\ <<x.next>> \o x.hops \in Seq(Hosts)
        BY <4>1 DEF Profiles
      <4>3. Hop(x) = [next |-> profiles[x.next].jump, hops |-> <<x.next>> \o x.hops,
                      error |-> FALSE]
        BY <3>3 DEF Hop
      <4> QED
        BY <4>2, <4>3 DEF Walks
    <3> QED
      BY <3>1, <3>2, <3>3
  <2> QED
    BY <2>1
<1>3. PICK f : Folds(f, Walks, first, m, step)
  <2>1. IsStep(step, Walks, m)
    BY <1>2 DEF IsStep
  <2> HIDE DEF step, first
  <2> QED
    BY <1>1, <2>1, FoldExists
<1> HIDE DEF first
<1>4. f \in [0..m -> Walks] /\ f[0] = first /\ \A n \in 1..m : f[n] = step[<<f[n - 1], n>>]
  BY <1>3 DEF Folds
<1>5. ASSUME NEW n \in 0..m
      PROVE  f[n] = IF n = 0 THEN first ELSE Hop(f[n - 1])
  <2>1. CASE n = 0
    BY <1>4, <2>1
  <2>2. CASE n # 0
    <3>1. n \in 1..m /\ n - 1 \in 0..m
      BY <2>2
    <3>2. <<f[n - 1], n>> \in Walks \X (1..m)
      BY <1>4, <3>1
    <3>3. f[n] = step[<<f[n - 1], n>>]
      BY <1>4, <3>1
    <3> QED
      BY <2>2, <3>2, <3>3
  <2> QED
    BY <2>1, <2>2
<1> HIDE DEF step
<1>6. f = Body(f)
  BY <1>4, <1>5
<1> HIDE DEF Body
<1>7. walk = Body(walk)
  BY <1>6
<1>8. Chain(way) = walk[m]
  BY <1>0 DEF Chain, Body, first
<1> HIDE DEF walk
<1>9. ASSUME NEW n \in 0..m
      PROVE  walk[n] = IF n = 0 THEN first ELSE Hop(walk[n - 1])
  BY <1>7 DEF Body
<1>10. walk[0] = first
  <2>1. 0 \in 0..m
    OBVIOUS
  <2> QED
    BY <1>9, <2>1
<1>11. ASSUME NEW n \in 1..m PROVE walk[n] = Hop(walk[n - 1])
  <2>1. n \in 0..m /\ n # 0
    OBVIOUS
  <2> QED
    BY <1>9, <2>1
<1> QED
  BY <1>0, <1>8, <1>10, <1>11 DEF Walking, first

(* The chain of a way: it is broken, or it leads there, over no host twice *)
(* and not too many.                                                       *)
GoodChain(hops, way) ==
  Nearest(hops) = way /\ Len(hops) <= MaxHops /\ Distinct(hops)

(* A chain without an error leads to the way, over distinct hosts.         *)
LEMMA ChainLeads ==
  ASSUME profiles \in Profiles, NEW way \in Ways
  PROVE  /\ Chain(way) \in Walks
         /\ Chain(way).error \/ GoodChain(Chain(way).hops, way)
<1>1. PICK walk : Walking(walk, way)
  BY ChainUnfolds
<1>2. PICK m \in Nat : m = MaxHops + 1
  BY JumpsAssumption
<1>3. Chain(way) = walk[m] /\ \A n \in 1..m : walk[n] = Hop(walk[n - 1])
  BY <1>1, <1>2 DEF Walking
<1> DEFINE Right(n) == walk[n] \in Walks /\ OnWay(walk[n], way) /\ Gone(walk[n], n)
           right == {n \in 0..m : Right(n)}
<1>4. 0 \in right
  <2>1. Distinct(<< >>) /\ Len(<< >>) = 0 /\ << >> \in Seq(Hosts)
    BY DEF Distinct
  <2>2. walk[0] = [next |-> way, hops |-> << >>, error |-> FALSE]
    BY <1>1 DEF Walking
  <2>3. Right(0)
    BY <2>1, <2>2, JumpsAssumption DEF Walks, OnWay, Gone
  <2> HIDE DEF Right
  <2> QED
    BY <2>3
<1>5. ASSUME NEW n \in 0..m - 1, n \in right PROVE n + 1 \in right
  <2>1. n + 1 \in 1..m /\ (n + 1) - 1 = n /\ n + 1 \in 0..m /\ n \in Nat
    OBVIOUS
  <2>2. walk[n + 1] = Hop(walk[n])
    BY <1>3, <2>1
  <2>3. Right(n)
    BY <1>5
  <2>4. Right(n + 1)
    BY <2>1, <2>2, <2>3, HopKeeps
  <2> HIDE DEF Right
  <2> QED
    BY <2>1, <2>4
<1>6. m \in right
  <2> HIDE DEF right
  <2>1. 0..m \subseteq right
    BY <1>4, <1>5, UpTo
  <2> QED
    BY <2>1
<1>7. Right(m)
  BY <1>6
<1>8. ASSUME ~walk[m].error PROVE GoodChain(walk[m].hops, way)
  <2>1. Len(walk[m].hops) <= MaxHops /\ walk[m].hops \in Seq(Hosts)
    BY <1>7, <1>8 DEF OnWay, Walks
  <2>2. walk[m].next = NoJump
    BY <1>2, <1>7, <1>8, <2>1, JumpsAssumption DEF Gone
  <2> QED
    BY <1>7, <1>8, <2>1, <2>2 DEF OnWay, GoodChain, Nearest
<1> QED
  BY <1>3, <1>7, <1>8

(* A tab, whatever phase it is in: it goes on only with a chain that is not *)
(* broken.                                                                  *)
TabType == [phase : Phases, jump : Ways, jumps : Seq(Hosts), error : BOOLEAN, named : Ways]

SoundTab(t) ==
  /\ t \in TabType
  /\ t.error \/ GoodChain(t.jumps, t.named)
  /\ t.phase \in {"probing", "dialled"} => ~t.error

(* A tab takes its chain when it is opened.                                *)
LEMMA TabOverSound ==
  ASSUME profiles \in Profiles, NEW way \in Ways
  PROVE  SoundTab(TabOver(way))
<1>1. PICK chain \in Walks : chain = Chain(way)
  BY ChainLeads
<1>2. chain.error \/ GoodChain(chain.hops, way)
  BY <1>1, ChainLeads
<1>3. TabOver(way) = [phase |-> "none", jump |-> way, jumps |-> chain.hops,
                      error |-> chain.error, named |-> way]
  BY <1>1 DEF TabOver, Tab
<1> QED
  BY <1>2, <1>3 DEF SoundTab, TabType, Walks, Phases

(* It starts, and starts again, with that chain, or fails.                 *)
LEMMA StartedSound ==
  ASSUME NEW t, SoundTab(t), NEW u \in Started(t)
  PROVE  SoundTab(u)
<1>1. t \in TabType
  BY DEF SoundTab
<1>2. \A p \in Phases : /\ [t EXCEPT !.phase = p] \in TabType
                        /\ [t EXCEPT !.phase = p].phase = p
                        /\ [t EXCEPT !.phase = p].jumps = t.jumps
                        /\ [t EXCEPT !.phase = p].error = t.error
                        /\ [t EXCEPT !.phase = p].named = t.named
  BY <1>1 DEF TabType
<1>3. PICK p \in Phases : u = [t EXCEPT !.phase = p] /\ (p \in {"probing", "dialled"} => ~t.error)
  BY DEF Started, BeginOver, Phases
<1> QED
  BY <1>2, <1>3 DEF SoundTab

(* A tab that begins again is one that started.                            *)
LEMMA BeginIsStart ==
  ASSUME NEW t
  PROVE  BeginOver(t) \subseteq Started(t)
BY DEF Started

(* Its settings may be edited.                                             *)
LEMMA EditedSound ==
  ASSUME SoundTab(tab), NEW way \in Ways
  PROVE  SoundTab([tab EXCEPT !.jump = way])
BY DEF SoundTab, TabType

(* The way a host goes after it was edited.                                *)
LEMMA EditedProfiles ==
  ASSUME profiles \in Profiles, NEW h \in Hosts, NEW way \in Ways
  PROVE  [profiles EXCEPT ![h].jump = way] \in Profiles
<1>1. [profiles[h] EXCEPT !.jump = way] \in [there : BOOLEAN, jump : Ways, usable : BOOLEAN]
  BY DEF Profiles
<1> QED
  BY <1>1 DEF Profiles

(* What the dialog offers to jump through.                                 *)
LEMMA OfferedWays ==
  ASSUME NEW h \in Hosts
  PROVE  Offered(h) \subseteq Ways
BY DEF Offered, SavedHosts, Ways

(* The inductive invariant: an open tab is remembered.                     *)
JumpsSound ==
  /\ profiles \in Profiles /\ SoundTab(tab) /\ remembered \in Ways \cup {NoTab}
  /\ tab.phase # "none" => remembered \in Ways

(* Every step keeps it.                                                    *)
LEMMA JumpsStep ==
  ASSUME JumpsSound, JumpsNext
  PROVE  JumpsSound'
<1> USE DEF JumpsSound
<1>1. CASE SaveJumpHost
  <2>1. PICK h \in Hosts, usable \in BOOLEAN : \E way \in Offered(h) :
          profiles' = [profiles EXCEPT ![h] = [there |-> TRUE, jump |-> way, usable |-> usable]]
    BY <1>1 DEF SaveJumpHost
  <2>2. PICK way \in Ways :
          profiles' = [profiles EXCEPT ![h] = [there |-> TRUE, jump |-> way, usable |-> usable]]
    BY <2>1, OfferedWays
  <2>3. profiles' \in Profiles
    BY <2>2 DEF Profiles
  <2> QED
    BY <1>1, <2>3 DEF SaveJumpHost, SoundTab
<1>2. CASE ApplyConnection
  <2>1. ASSUME NEW h \in SavedHosts, NEW way \in Offered(h),
               tab' = [tab EXCEPT !.jump = way], profiles' = [profiles EXCEPT ![h].jump = way]
        PROVE  SoundTab(tab)' /\ profiles' \in Profiles
    <3>1. h \in Hosts /\ way \in Ways
      BY <2>1, OfferedWays DEF SavedHosts
    <3> QED
      BY <2>1, <3>1, EditedSound, EditedProfiles DEF SoundTab
  <2>2. ASSUME NEW way \in SavedHosts \cup {NoJump},
               tab' = [tab EXCEPT !.jump = way], UNCHANGED profiles
        PROVE  SoundTab(tab)' /\ profiles' \in Profiles
    <3>1. way \in Ways
      BY DEF SavedHosts, Ways
    <3> QED
      BY <2>2, <3>1, EditedSound DEF SoundTab
  <2> QED
    BY <1>2, <2>1, <2>2 DEF ApplyConnection
<1>3. CASE DeleteJumpHost
  <2>1. PICK gone \in SavedHosts :
          profiles' = [h \in Hosts |->
                        IF h = gone THEN NoProfile
                        ELSE IF profiles[h].jump = gone THEN [profiles[h] EXCEPT !.jump = NoJump]
                        ELSE profiles[h]]
    BY <1>3 DEF DeleteJumpHost
  <2>2. profiles' \in Profiles
    <3>1. NoProfile \in [there : BOOLEAN, jump : Ways, usable : BOOLEAN]
      BY DEF NoProfile, Ways
    <3>2. \A h \in Hosts : [profiles[h] EXCEPT !.jump = NoJump]
                             \in [there : BOOLEAN, jump : Ways, usable : BOOLEAN]
      BY DEF Profiles, Ways
    <3> QED
      BY <2>1, <3>1, <3>2 DEF Profiles
  <2> QED
    BY <1>3, <2>2 DEF DeleteJumpHost, SoundTab
<1>4. ASSUME NEW way \in Ways, NEW otherwise \in Ways \cup {NoTab}, OpenOver(way, otherwise),
             tab.phase = "none"
      PROVE  /\ SoundTab(tab)' /\ remembered' \in Ways \cup {NoTab}
             /\ tab'.phase # "none" => remembered' \in Ways
  <2>1. SoundTab(TabOver(way))
    BY TabOverSound
  <2>2. CASE TabOver(way).error
    BY <1>4, <2>2 DEF OpenOver, SoundTab
  <2>3. CASE ~TabOver(way).error
    <3>1. tab' \in Started(TabOver(way)) /\ remembered' = way
      BY <1>4, <2>3 DEF OpenOver
    <3>2. \A u \in Started(TabOver(way)) : SoundTab(u)
      BY <2>1, StartedSound
    <3> QED
      BY <3>1, <3>2 DEF SoundTab
  <2> QED
    BY <2>2, <2>3
<1>5. CASE OpenHost
  <2>1. PICK h \in SavedHosts : OpenOver(profiles[h].jump, remembered)
    BY <1>5 DEF OpenHost
  <2>2. profiles[h].jump \in Ways
    BY DEF SavedHosts, Profiles
  <2> QED
    BY <1>4, <1>5, <2>1, <2>2 DEF OpenHost
<1>6. CASE ReopenClosed
  BY <1>4, <1>6 DEF ReopenClosed
<1>7. CASE CloseJumpTab
  <2>1. SoundTab(Closed)
    <3>1. Closed = [phase |-> "none", jump |-> NoJump, jumps |-> << >>, error |-> FALSE,
                    named |-> NoJump]
      BY DEF Closed, Tab
    <3>2. << >> \in Seq(Hosts) /\ GoodChain(<< >>, NoJump)
      BY JumpsAssumption DEF GoodChain, Nearest, Distinct
    <3> QED
      BY <3>1, <3>2 DEF SoundTab, TabType, Phases, Ways
  <2> QED
    BY <1>7, <2>1 DEF CloseJumpTab, SoundTab, TabType
<1>8. CASE PersistJumpTab
  BY <1>8 DEF PersistJumpTab, SoundTab, TabType
<1>9. CASE SubmitPassword
  <2>1. tab' \in Started(tab)
    BY <1>9, BeginIsStart DEF SubmitPassword
  <2> QED
    BY <1>9, <2>1, StartedSound DEF SubmitPassword, SoundTab
<1>10. CASE ProbeEnds
  <2>1. tab' = [tab EXCEPT !.phase = "dialled"] /\ ~tab.error
    BY <1>10 DEF ProbeEnds, SoundTab
  <2>2. tab' \in Started(tab)
    BY <2>1 DEF Started, BeginOver
  <2> QED
    BY <1>10, <2>2, StartedSound DEF ProbeEnds, SoundTab
<1>11. CASE ReconnectTab
  BY <1>11, StartedSound DEF ReconnectTab, SoundTab
<1>12. CASE RelaunchTab
  <2>1. remembered \in Ways
    BY <1>12 DEF RelaunchTab
  <2>2. SoundTab(tab)'
    <3>1. tab' \in Started(TabOver(remembered))
      BY <1>12, BeginIsStart DEF RelaunchTab
    <3>2. SoundTab(TabOver(remembered))
      BY <2>1, TabOverSound
    <3>3. \A u \in Started(TabOver(remembered)) : SoundTab(u)
      BY <3>2, StartedSound
    <3> QED
      BY <3>1, <3>3 DEF SoundTab
  <2> QED
    BY <1>12, <2>1, <2>2 DEF RelaunchTab
<1> QED
  BY <1>1, <1>2, <1>3, <1>5, <1>6, <1>7, <1>8, <1>9, <1>10, <1>11, <1>12 DEF JumpsNext

(* However the hosts are edited and the tab is opened again.               *)
LEMMA JumpsAreSound == FarSpec => []JumpsSound
<1>1. FarInit => JumpsSound
  <2> SUFFICES ASSUME JumpsInit PROVE JumpsSound
    BY DEF FarInit
  <2>1. profiles \in Profiles
    BY DEF JumpsInit, NoProfile, Profiles, Ways
  <2>2. tab = [phase |-> "none", jump |-> NoJump, jumps |-> << >>, error |-> FALSE,
               named |-> NoJump]
    BY DEF JumpsInit, Closed, Tab
  <2>3. << >> \in Seq(Hosts) /\ GoodChain(<< >>, NoJump)
    BY JumpsAssumption DEF GoodChain, Nearest, Distinct
  <2>4. SoundTab(tab)
    BY <2>2, <2>3 DEF SoundTab, TabType, Phases, Ways
  <2> QED
    BY <2>1, <2>2, <2>4 DEF JumpsInit, JumpsSound
<1>2. JumpsSound /\ [FarNext]_farVars => JumpsSound'
  <2> SUFFICES ASSUME JumpsSound, [FarNext]_farVars PROVE JumpsSound'
    OBVIOUS
  <2>1. CASE UNCHANGED jumpVars
    BY <2>1 DEF jumpVars, JumpsSound, SoundTab
  <2> QED
    BY <2>1, JumpsStep DEF FarNext, farVars
<1> QED
  BY <1>1, <1>2, PTL DEF FarSpec

(* A session goes the way its host named when the tab was opened, over     *)
(* each jump host once and not too many, whatever is done to the saved     *)
(* hosts, the tab and the program: it is never dialled past a chain that   *)
(* cannot be resolved.                                                     *)
THEOREM NoJumpIsSkipped == FarSpec => []JumpsAreTaken
<1>1. JumpsSound => JumpsAreTaken
  BY DEF JumpsSound, SoundTab, GoodChain, JumpsAreTaken, Through
<1> QED
  BY <1>1, JumpsAreSound, PTL

-----------------------------------------------------------------------------
(* Telnet: the bytes, the filter and the server.                           *)

Octets == {IAC, DONT, DO, WONT, WILL, SB, NOP, SE, ECHO, SGA, TTYPE, NAWS, SEND, IS, 120}

(* The bytes the protocol has a name for are bytes.                        *)
LEMMA OctetsAreBytes == Octets \subseteq Byte
  BY DEF Octets, Byte, IAC, DONT, DO, WONT, WILL, SB, NOP, SE, ECHO, SGA, TTYPE, NAWS, SEND, IS

(* An escaped byte is doubled or stays as it is.                           *)
LEMMA EscapeByte ==
  ASSUME NEW b \in Byte
  PROVE  /\ Escape(<<b>>) = (IF b = IAC THEN <<IAC, IAC>> ELSE <<b>>)
         /\ Escape(<<b>>) \in Seq(Byte)
<1>1. IAC \in Byte
  BY OctetsAreBytes DEF Octets
<1>2. PICK e \in Seq(Byte) : e = << >>
  <2>1. << >> \in Seq(Byte)
    OBVIOUS
  <2> QED
    BY <2>1
<1>3. PICK y \in Seq(Byte) \X Byte : y = <<e, b>> /\ y[1] = e /\ y[2] = b
  <2>1. <<e, b>> \in Seq(Byte) \X Byte /\ <<e, b>>[1] = e /\ <<e, b>>[2] = b
    OBVIOUS
  <2> QED
    BY <2>1
<1>4. <<b>> = Append(e, b) /\ <<b>> \in Seq(Byte) /\ <<IAC, IAC>> \in Seq(Byte)
  BY <1>1, <1>2
<1>5. \A r \in Seq(Byte) : e \o r = r
  BY <1>2
<1> DEFINE sent(c) == IF c = IAC THEN <<IAC, IAC>> ELSE <<c>>
<1>6. \A c \in Byte : sent(c) \in Seq(Byte)
  BY <1>1
<1> DEFINE step == [x \in Seq(Byte) \X Byte |-> x[1] \o sent(x[2])]
<1>7. Escape(<<b>>) = Along(step, << >>, <<b>>)
  BY DEF Escape
<1> HIDE DEF sent
<1>8. Takes(step, Seq(Byte), Byte)
  <2>1. \A x \in Seq(Byte) \X Byte : x[1] \o sent(x[2]) \in Seq(Byte)
    BY <1>6
  <2> QED
    BY <2>1 DEF Takes
<1>9. step[y] = y[1] \o sent(y[2])
  BY <1>3
<1> HIDE DEF step
<1>10. Along(step, e, Append(e, b)) = step[<<Along(step, e, e), b>>]
  BY <1>8, AlongAppend
<1>11. Along(step, e, << >>) = e
  BY <1>8, AlongEmpty
<1>12. Escape(<<b>>) = step[y]
  BY <1>2, <1>3, <1>4, <1>7, <1>10, <1>11
<1>13. Escape(<<b>>) = sent(b)
  BY <1>3, <1>5, <1>6, <1>9, <1>12
<1> QED
  BY <1>6, <1>13 DEF sent

(* The payload that tells a size is bytes.                                 *)
LEMMA PayloadType == ASSUME NEW s \in Byte PROVE Payload(s) \in Seq(Byte)
<1>1. <<IAC, SB, NAWS>> \in Seq(Byte) /\ <<IAC, SE>> \in Seq(Byte)
  BY OctetsAreBytes DEF Octets
<1>2. Escape(<<s>>) \in Seq(Byte)
  BY EscapeByte
<1>3. PICK e \in Seq(Byte) : e = Escape(<<s>>)
  BY <1>2
<1>4. \A p \in Seq(Byte), q \in Seq(Byte) : p \o e \o q \in Seq(Byte)
  OBVIOUS
<1> QED
  BY <1>1, <1>3, <1>4 DEF Payload

(* A size is told in one byte.                                             *)
LEMMA SizesAreBytes == Sizes \subseteq Byte
  BY TelnetAssumption

(* Bytes one after another.                                                *)
LEMMA AppendByte ==
  ASSUME NEW s \in Seq(Byte), NEW b \in Byte
  PROVE  Append(s, b) \in Seq(Byte) /\ Append(s, b) # << >>
<1>1. Append(s, b) \in Seq(Byte) /\ Len(Append(s, b)) = Len(s) + 1 /\ Len(s) \in Nat
  OBVIOUS
<1>2. Len(<< >>) = 0 /\ \A n \in Nat : n + 1 # 0
  OBVIOUS
<1> QED
  BY <1>1, <1>2, Zenon

(* No bytes are a sequence of bytes.                                       *)
LEMMA NoBytes == << >> \in Seq(Byte)
  OBVIOUS

(* A filter with an answer more is a filter.                               *)
LEMMA ReplyType ==
  ASSUME NEW f \in Filters, NEW r \in Seq(Byte)
  PROVE  Reply(f, r) \in Filters
<1>1. f.replies \in Seq(Byte)
  BY DEF Filters
<1>2. f.replies \o r \in Seq(Byte)
  BY <1>1
<1> QED
  BY <1>2 DEF Reply, Filters

(* A filter in another state is a filter.                                  *)
LEMMA ToType ==
  ASSUME NEW f \in Filters, NEW st \in FilterStates
  PROVE  To(f, st) \in Filters
  BY DEF To, Filters

(* A filter that met a byte is a filter.                                   *)
LEMMA StepType ==
  ASSUME NEW f \in Filters, NEW b \in Byte
  PROVE  Step(f, b) \in Filters
<1>1. /\ f.state \in FilterStates /\ f.sub \in Seq(Byte) /\ f.naws \in BOOLEAN /\ f.size \in Sizes
      /\ f.replies \in Seq(Byte) /\ f.app \in Seq(Byte)
  BY DEF Filters
<1>2. Append(f.app, b) \in Seq(Byte) /\ Append(f.sub, b) \in Seq(Byte) /\ << >> \in Seq(Byte)
  BY <1>1
<1>3. \A st \in FilterStates : To(f, st) \in Filters
  BY ToType
<1>4. \A g \in Filters, st \in FilterStates : To(g, st) \in Filters
  BY ToType
<1>5. {"Data", "Iac", "Will", "Wont", "Do", "Dont", "Sub", "SubIac"} = FilterStates
  BY DEF FilterStates
<1>6. \A x \in Byte, y \in Byte, z \in Byte : <<x, y, z>> \in Seq(Byte)
  OBVIOUS
<1>7. Octets \subseteq Byte
  BY OctetsAreBytes
<1>8. CASE f.state = "Data"
  <2>1. [f EXCEPT !.app = Append(@, b)] \in Filters
    BY <1>2 DEF Filters
  <2> QED
    BY <1>3, <1>5, <1>8, <2>1 DEF Step
<1>9. CASE f.state = "Iac"
  <2>1. Introduces(b) \in FilterStates
    BY <1>5 DEF Introduces
  <2>2. [To(f, "Sub") EXCEPT !.sub = << >>] \in Filters
    BY <1>2, <1>3, <1>5 DEF Filters
  <2>3. ASSUME b = IAC PROVE [To(f, "Data") EXCEPT !.app = Append(@, IAC)] \in Filters
    <3>1. To(f, "Data") \in Filters /\ To(f, "Data").app = f.app
      BY <1>3, <1>5 DEF To, Filters
    <3> QED
      BY <1>2, <2>3, <3>1 DEF Filters
  <2>4. OnIac(f, b) \in Filters
    BY <1>3, <2>1, <2>2, <2>3 DEF OnIac
  <2> QED
    BY <1>9, <2>4 DEF Step
<1>10. CASE f.state = "Will"
  <2>1. <<IAC, IF b \in {ECHO, SGA} THEN DO ELSE DONT, b>> \in Seq(Byte)
    BY <1>6, <1>7 DEF Octets
  <2>2. OnWill(f, b) \in Filters
    BY <2>1, ReplyType DEF OnWill
  <2> QED
    BY <1>4, <1>5, <1>10, <2>2 DEF Step
<1>11. CASE f.state = "Do"
  <2>1. \A c \in {WILL, WONT} : Reply(f, <<IAC, c, b>>) \in Filters
    <3>1. \A c \in {WILL, WONT} : <<IAC, c, b>> \in Seq(Byte)
      BY <1>6, <1>7 DEF Octets
    <3> QED
      BY <3>1, ReplyType
  <2>2. [Reply(f, <<IAC, WILL, NAWS>> \o Payload(f.size)) EXCEPT !.naws = TRUE] \in Filters
    <3>1. <<IAC, WILL, NAWS>> \in Seq(Byte)
      BY <1>6, <1>7 DEF Octets
    <3>2. Payload(f.size) \in Seq(Byte)
      BY <1>1, PayloadType, SizesAreBytes
    <3>3. \A p \in Seq(Byte), q \in Seq(Byte) : p \o q \in Seq(Byte)
      OBVIOUS
    <3>4. Reply(f, <<IAC, WILL, NAWS>> \o Payload(f.size)) \in Filters
      BY <3>1, <3>2, <3>3, ReplyType
    <3> QED
      BY <3>4 DEF Filters
  <2>3. OnDo(f, b) \in Filters
    BY <2>1, <2>2 DEF OnDo
  <2> QED
    BY <1>4, <1>5, <1>11, <2>3 DEF Step
<1>12. CASE f.state \in {"Wont", "Dont"}
  <2>1. OnRefusal(f, b) \in Filters
    BY DEF OnRefusal, Filters
  <2> QED
    BY <1>4, <1>5, <1>12, <2>1 DEF Step
<1>13. CASE f.state = "Sub"
  <2>1. [f EXCEPT !.sub = Append(@, b)] \in Filters
    BY <1>2 DEF Filters
  <2> QED
    BY <1>3, <1>5, <1>13, <2>1 DEF Step
<1>14. CASE f.state = "SubIac"
  <2>1. ASSUME b = IAC PROVE [To(f, "Sub") EXCEPT !.sub = Append(@, IAC)] \in Filters
    <3>1. To(f, "Sub") \in Filters /\ To(f, "Sub").sub = f.sub
      BY <1>3, <1>5 DEF To, Filters
    <3> QED
      BY <1>2, <2>1, <3>1 DEF Filters
  <2>2. <<IAC, SB, TTYPE, IS, 120, IAC, SE>> \in Seq(Byte)
    BY <1>7 DEF Octets
  <2>3. OnSubnegotiation(f) \in Filters
    BY <2>2, ReplyType DEF OnSubnegotiation
  <2>4. [To(OnSubnegotiation(f), "Data") EXCEPT !.sub = << >>] \in Filters
    <3>1. To(OnSubnegotiation(f), "Data") \in Filters
      BY <1>4, <1>5, <2>3
    <3> QED
      BY <1>2, <3>1 DEF Filters
  <2>5. OnSubIac(f, b) \in Filters
    BY <1>3, <1>5, <2>1, <2>4 DEF OnSubIac
  <2> QED
    BY <1>14, <2>5 DEF Step
<1> QED
  BY <1>1, <1>5, <1>8, <1>9, <1>10, <1>11, <1>12, <1>13, <1>14 DEF FilterStates

(* The loops of the filter and of the server.                              *)
FilterStep == [x \in Filters \X Byte |-> Step(x[1], x[2])]

(* The loop of the filter leads from filters to filters.                   *)
LEMMA FilterTakes == Takes(FilterStep, Filters, Byte)
<1>1. \A x \in Filters \X Byte : x[1] \in Filters /\ x[2] \in Byte
  OBVIOUS
<1>2. \A x \in Filters \X Byte : Step(x[1], x[2]) \in Filters
  BY <1>1, StepType
<1> QED
  BY <1>2 DEF Takes, FilterStep

(* A filter that was fed is a filter.                                      *)
LEMMA FeedType ==
  ASSUME NEW f \in Filters, NEW s \in Seq(Byte)
  PROVE  Feed(f, s) \in Filters
<1>1. Feed(f, s) = Along(FilterStep, f, s)
  BY DEF Feed, FilterStep
<1>2. Along(FilterStep, f, s) \in Filters
  BY FilterTakes, AlongType
<1> QED
  BY <1>1, <1>2

(* Fed nothing, a filter stays what it was.                                *)
LEMMA FeedNothing ==
  ASSUME NEW f \in Filters
  PROVE  Feed(f, << >>) = f
<1>1. Feed(f, << >>) = Along(FilterStep, f, << >>)
  BY DEF Feed, FilterStep
<1>2. Along(FilterStep, f, << >>) = f
  BY FilterTakes, AlongEmpty
<1> QED
  BY <1>1, <1>2

(* The last byte it is fed is one more step.                               *)
LEMMA FeedOne ==
  ASSUME NEW f \in Filters, NEW s \in Seq(Byte), NEW b \in Byte
  PROVE  Feed(f, Append(s, b)) = Step(Feed(f, s), b)
<1>1. /\ Feed(f, Append(s, b)) = Along(FilterStep, f, Append(s, b))
      /\ Feed(f, s) = Along(FilterStep, f, s)
  BY DEF Feed, FilterStep
<1>2. Along(FilterStep, f, Append(s, b)) = FilterStep[<<Along(FilterStep, f, s), b>>]
  BY FilterTakes, AlongAppend
<1>3. \A g \in Filters, c \in Byte : FilterStep[<<g, c>>] = Step(g, c)
  BY DEF FilterStep
<1>4. Along(FilterStep, f, s) \in Filters
  BY FilterTakes, AlongType
<1> QED
  BY <1>1, <1>2, <1>3, <1>4

(* Fed two chunks one after another, it is fed what they make together.    *)
LEMMA FeedBoth ==
  ASSUME NEW f \in Filters, NEW s \in Seq(Byte), NEW t \in Seq(Byte)
  PROVE  Feed(f, s \o t) = Feed(Feed(f, s), t)
<1>1. \A g, u : Feed(g, u) = Along(FilterStep, g, u)
  BY DEF Feed, FilterStep
<1>2. Along(FilterStep, f, s \o t) = Along(FilterStep, Along(FilterStep, f, s), t)
  BY FilterTakes, AlongConcat
<1> QED
  BY <1>1, <1>2

(* One more byte leaves a server a collection.                             *)
LEMMA CollectType ==
  ASSUME NEW c \in Collections, NEW b \in Byte
  PROVE  Collect(c, b) \in Collections
<1>1. c.at \in Seq(Byte) /\ c.msgs \in Seq(Messages)
  BY DEF Collections
<1>2. PICK s \in Seq(Byte) : s = Append(c.at, b) /\ s # << >>
  <2>1. Append(c.at, b) \in Seq(Byte) /\ Append(c.at, b) # << >>
    BY <1>1, AppendByte
  <2> QED
    BY <2>1
<1>3. CASE IsMessage(s)
  <2>1. s \in Messages
    BY <1>2, <1>3 DEF Messages
  <2>2. Append(c.msgs, s) \in Seq(Messages) /\ << >> \in Seq(Byte)
    BY <1>1, <2>1
  <2>3. Collect(c, b) = [at |-> << >>, msgs |-> Append(c.msgs, s)]
    BY <1>2, <1>3 DEF Collect
  <2> QED
    BY <2>2, <2>3 DEF Collections
<1>4. CASE ~IsMessage(s)
  <2>1. Collect(c, b) = [c EXCEPT !.at = s]
    BY <1>2, <1>4 DEF Collect
  <2> QED
    BY <1>2, <2>1 DEF Collections
<1> QED
  BY <1>3, <1>4

CollectStep == [x \in Collections \X Byte |-> Collect(x[1], x[2])]

(* The loop of the server leads from collections to collections.           *)
LEMMA CollectTakes == Takes(CollectStep, Collections, Byte)
<1>1. \A x \in Collections \X Byte : x[1] \in Collections /\ x[2] \in Byte
  OBVIOUS
<1>2. \A x \in Collections \X Byte : Collect(x[1], x[2]) \in Collections
  BY <1>1, CollectType
<1> QED
  BY <1>2 DEF Takes, CollectStep

Heard(msgs, at) == [at |-> at, msgs |-> msgs]

(* What was begun and what is complete make a collection.                  *)
LEMMA HeardType ==
  ASSUME NEW at \in Seq(Byte), NEW ms \in Seq(Messages)
  PROVE  Heard(ms, at) \in Collections
  BY DEF Heard, Collections

(* What a server has collected is messages and one that was begun.         *)
LEMMA CollectedType ==
  ASSUME NEW at \in Seq(Byte), NEW s \in Seq(Byte)
  PROVE  /\ Collected(at, s) \in Collections
         /\ Collected(at, s).at \in Seq(Byte) /\ Collected(at, s).msgs \in Seq(Messages)
<1>1. << >> \in Seq(Messages)
  OBVIOUS
<1>2. PICK c \in Collections : c = Heard(<< >>, at)
  BY <1>1, HeardType
<1>3. Collected(at, s) = Along(CollectStep, c, s)
  BY <1>2 DEF Collected, CollectStep, Heard
<1>4. Along(CollectStep, c, s) \in Collections
  BY CollectTakes, AlongType
<1> QED
  BY <1>3, <1>4 DEF Collections

(* What a message is made of: data, IAC IAC, NOP, a command with its       *)
(* option, or a subnegotiation.                                            *)
LEMMA MessageTypes ==
  ASSUME NEW m \in Messages
  PROVE  /\ m \in Seq(Byte) /\ m[1] \in Byte
         /\ m[1] = IAC => m[2] \in {IAC, NOP, DO, DONT, WILL, WONT, SB}
         /\ m[1] = IAC /\ m[2] \in {DO, DONT, WILL, WONT} => m[3] \in Byte
         /\ m[1] = IAC /\ m[2] = SB => m[3] \in Byte /\ m[4] \in Byte
<1>1. m \in Seq(Byte) /\ m # << >> /\ IsMessage(m)
  BY DEF Messages
<1>2. PICK n \in Nat : n = Len(m)
  BY <1>1
<1>3. \A i \in 1..n : m[i] \in Byte
  BY <1>1, <1>2
<1>4. n # 0
  BY <1>1, <1>2
<1>5. 1 \in 1..n
  BY <1>2, <1>4
<1>6. \/ m[1] # IAC
      \/ n = 2 /\ m[2] \in {IAC, NOP}
      \/ n = 3 /\ m[2] \in {DO, DONT, WILL, WONT}
      \/ n >= 5 /\ m[2] = SB
  BY <1>1, <1>2 DEF IsMessage
<1>7. n = 3 => 3 \in 1..n
  BY <1>2
<1>8. n >= 5 => 3 \in 1..n /\ 4 \in 1..n
  BY <1>2
<1>9. {IAC, NOP} \cap {DO, DONT, WILL, WONT, SB} = {} /\ SB \notin {DO, DONT, WILL, WONT}
  BY DEF IAC, NOP, DO, DONT, WILL, WONT, SB
<1> QED
  BY <1>1, <1>3, <1>5, <1>6, <1>7, <1>8, <1>9

(* A server with another field is one.                                     *)
LEMMA ServerFields ==
  ASSUME NEW v \in Servers
  PROVE  /\ \A x \in Seq(Byte) : [v EXCEPT !.at = x] \in Servers
         /\ \A x \in Seq(Byte) : [v EXCEPT !.replies = x] \in Servers
         /\ \A x \in Seq(Byte) : [v EXCEPT !.got = x] \in Servers
         /\ \A x \in 0..256 : [v EXCEPT !.seen = x] \in Servers
         /\ \A x \in SUBSET Byte : [v EXCEPT !.on = x] \in Servers
         /\ \A x \in SUBSET Byte : [v EXCEPT !.doing = x] \in Servers
         /\ \A x \in SUBSET (Byte \X Byte) : [v EXCEPT !.pending = x] \in Servers
         /\ \A x \in BOOLEAN : [v EXCEPT !.up = x] \in Servers
<1>1. PICK B, T, N, S, P : /\ B = BOOLEAN /\ T = Seq(Byte) /\ N = 0..256 /\ S = SUBSET Byte
                           /\ P = SUBSET (Byte \X Byte)
  OBVIOUS
<1>2. PICK R : R = Servers
  OBVIOUS
<1>3. R = [up : B, agrees : S, at : T, replies : T, got : T, seen : N, on : S, doing : S,
           pending : P]
  BY <1>1, <1>2, Zenon DEF Servers
<1>4. v \in R
  BY <1>2
<1>5. \A x \in Seq(Byte) : [v EXCEPT !.at = x] \in Servers
  <2>1. \A x \in T : [v EXCEPT !.at = x] \in R
    BY <1>3, <1>4
  <2> QED
    BY <1>1, <1>2, <2>1, Zenon
<1>6. \A x \in Seq(Byte) : [v EXCEPT !.replies = x] \in Servers
  <2>1. \A x \in T : [v EXCEPT !.replies = x] \in R
    BY <1>3, <1>4
  <2> QED
    BY <1>1, <1>2, <2>1, Zenon
<1>7. \A x \in Seq(Byte) : [v EXCEPT !.got = x] \in Servers
  <2>1. \A x \in T : [v EXCEPT !.got = x] \in R
    BY <1>3, <1>4
  <2> QED
    BY <1>1, <1>2, <2>1, Zenon
<1>8. \A x \in 0..256 : [v EXCEPT !.seen = x] \in Servers
  <2>1. \A x \in N : [v EXCEPT !.seen = x] \in R
    BY <1>3, <1>4
  <2> QED
    BY <1>1, <1>2, <2>1, Zenon
<1>9. \A x \in SUBSET Byte : [v EXCEPT !.on = x] \in Servers
  <2>1. \A x \in S : [v EXCEPT !.on = x] \in R
    BY <1>3, <1>4
  <2> QED
    BY <1>1, <1>2, <2>1, Zenon
<1>10. \A x \in SUBSET Byte : [v EXCEPT !.doing = x] \in Servers
  <2>1. \A x \in S : [v EXCEPT !.doing = x] \in R
    BY <1>3, <1>4
  <2> QED
    BY <1>1, <1>2, <2>1, Zenon
<1>11. \A x \in SUBSET (Byte \X Byte) : [v EXCEPT !.pending = x] \in Servers
  <2>1. \A x \in P : [v EXCEPT !.pending = x] \in R
    BY <1>3, <1>4
  <2> QED
    BY <1>1, <1>2, <2>1, Zenon
<1>12. \A x \in BOOLEAN : [v EXCEPT !.up = x] \in Servers
  <2>1. \A x \in B : [v EXCEPT !.up = x] \in R
    BY <1>3, <1>4
  <2> QED
    BY <1>1, <1>2, <2>1, Zenon
<1> QED
  BY <1>5, <1>6, <1>7, <1>8, <1>9, <1>10, <1>11, <1>12

(* The fields of a server that another value of one leaves.                *)
LEMMA ServerKeeps ==
  ASSUME NEW v \in Servers, NEW x
  PROVE  /\ [v EXCEPT !.at = x].at = x
         /\ [v EXCEPT !.at = x].replies = v.replies /\ [v EXCEPT !.at = x].got = v.got
         /\ [v EXCEPT !.replies = x].replies = x
         /\ [v EXCEPT !.replies = x].at = v.at /\ [v EXCEPT !.replies = x].got = v.got
         /\ [v EXCEPT !.got = x].got = x /\ [v EXCEPT !.got = x].replies = v.replies
         /\ [v EXCEPT !.seen = x].got = v.got /\ [v EXCEPT !.seen = x].replies = v.replies
         /\ [v EXCEPT !.on = x].got = v.got /\ [v EXCEPT !.on = x].replies = v.replies
         /\ [v EXCEPT !.doing = x].got = v.got /\ [v EXCEPT !.doing = x].replies = v.replies
         /\ [v EXCEPT !.pending = x].got = v.got
         /\ [v EXCEPT !.pending = x].replies = v.replies
<1>1. DOMAIN v = {"up", "agrees", "at", "replies", "got", "seen", "on", "doing", "pending"}
  BY DEF Servers
<1> QED
  BY <1>1

(* A server that has read: it has begun another message, and its answers   *)
(* are on the way.                                                         *)
LEMMA ServerRead ==
  ASSUME NEW v \in Servers, NEW x \in Seq(Byte)
  PROVE  LET w == [v EXCEPT !.at = x, !.replies = << >>]
         IN  w \in Servers /\ w.at = x /\ w.replies = << >> /\ w.got = v.got
<1>1. PICK u : u = [v EXCEPT !.at = x]
  OBVIOUS
<1>2. u \in Servers /\ u.at = x /\ u.got = v.got
  BY <1>1, ServerFields, ServerKeeps
<1>3. PICK w : w = [u EXCEPT !.replies = << >>]
  OBVIOUS
<1>4. << >> \in Seq(Byte)
  OBVIOUS
<1>5. w \in Servers
  BY <1>2, <1>3, <1>4, ServerFields, Zenon
<1>6. w.replies = << >> /\ w.at = u.at /\ w.got = u.got
  BY <1>2, <1>3, ServerKeeps, Zenon
<1>7. w = [v EXCEPT !.at = x, !.replies = << >>]
  BY <1>1, <1>3
<1> QED
  BY <1>2, <1>5, <1>6, <1>7, Zenon

(* A filter whose answers were taken, and its data too.                    *)
LEMMA FilterTaken ==
  ASSUME NEW f \in Filters
  PROVE  /\ LET g == [f EXCEPT !.replies = << >>]
            IN  g \in Filters /\ g.replies = << >> /\ g.state = f.state /\ g.app = f.app
         /\ LET g == [f EXCEPT !.replies = << >>, !.app = << >>]
            IN  g \in Filters /\ g.replies = << >> /\ g.state = f.state /\ g.app = << >>
<1>1. PICK B, T, S, Z : B = BOOLEAN /\ T = Seq(Byte) /\ S = FilterStates /\ Z = Sizes
  OBVIOUS
<1>2. PICK R : R = Filters
  OBVIOUS
<1>3. R = [state : S, sub : T, naws : B, size : Z, replies : T, app : T]
  BY <1>1, <1>2, Zenon DEF Filters
<1>4. PICK e \in T : e = << >>
  <2>1. << >> \in Seq(Byte)
    OBVIOUS
  <2> QED
    BY <1>1, <2>1
<1>5. f \in R
  BY <1>2
<1>6. PICK g : g = [f EXCEPT !.replies = e]
  OBVIOUS
<1>7. g \in R /\ g.replies = e /\ g.state = f.state /\ g.app = f.app
  BY <1>3, <1>5, <1>6
<1>8. PICK h : h = [f EXCEPT !.replies = e, !.app = e]
  OBVIOUS
<1>9. h \in R /\ h.replies = e /\ h.state = f.state /\ h.app = e
  BY <1>3, <1>5, <1>8
<1> QED
  BY <1>2, <1>4, <1>6, <1>7, <1>8, <1>9, Zenon

(* What the server does keeps its fields what they are.                    *)
LEMMA AnswerType ==
  ASSUME NEW v \in Servers, NEW c \in Byte, NEW o \in Byte
  PROVE  Answer(v, c, o) \in Servers /\ Answer(v, c, o).replies = v.replies \o <<IAC, c, o>>
<1>1. v.replies \in Seq(Byte)
  BY DEF Servers
<1>2. <<IAC, c, o>> \in Seq(Byte)
  <2>1. IAC \in Byte
    BY OctetsAreBytes DEF Octets
  <2> QED
    BY <2>1
<1>3. PICK u \in Seq(Byte) : u = <<IAC, c, o>>
  BY <1>2
<1>4. v.replies \o u \in Seq(Byte)
  BY <1>1
<1>5. Answer(v, c, o) = [v EXCEPT !.replies = v.replies \o u]
  BY <1>3 DEF Answer
<1>6. Answer(v, c, o) \in Servers
  BY <1>4, <1>5, ServerFields, Zenon
<1>7. Answer(v, c, o).replies = v.replies \o u
  <2>1. PICK r : r = v.replies \o u
    OBVIOUS
  <2>2. [v EXCEPT !.replies = r].replies = r
    BY ServerKeeps
  <2> QED
    BY <1>5, <2>1, <2>2, Zenon
<1> QED
  BY <1>3, <1>6, <1>7, Zenon

(* A server that asks for the terminal type is a server.                   *)
LEMMA AskTypeType ==
  ASSUME NEW v \in Servers
  PROVE  AskType(v) \in Servers
<1>1. v.replies \in Seq(Byte) /\ v.pending \in SUBSET (Byte \X Byte)
  BY DEF Servers
<1>2. <<IAC, SB, TTYPE, SEND, IAC, SE>> \in Seq(Byte) /\ <<SB, TTYPE>> \in Byte \X Byte
  BY OctetsAreBytes DEF Octets
<1>3. PICK u \in Seq(Byte) : u = <<IAC, SB, TTYPE, SEND, IAC, SE>>
  BY <1>2
<1>4. v.replies \o u \in Seq(Byte) /\ v.pending \cup {<<SB, TTYPE>>} \in SUBSET (Byte \X Byte)
  BY <1>1, <1>2
<1>5. PICK p \in SUBSET (Byte \X Byte) : p = v.pending \cup {<<SB, TTYPE>>}
  BY <1>4
<1>6. PICK w : w = [v EXCEPT !.replies = v.replies \o u]
  OBVIOUS
<1>7. w \in Servers
  BY <1>4, <1>6, ServerFields, Zenon
<1>8. AskType(v) = [w EXCEPT !.pending = p]
  BY <1>3, <1>5, <1>6 DEF AskType
<1> QED
  BY <1>7, <1>8, ServerFields, Zenon

(* A server that waits for one answer less is a server.                    *)
LEMMA SettledType ==
  ASSUME NEW v \in Servers, NEW c, NEW o
  PROVE  Settled(v, c, o) \in Servers
<1>1. v.pending \ {<<c, o>>} \in SUBSET (Byte \X Byte)
  BY DEF Servers
<1>2. [v EXCEPT !.pending = v.pending \ {<<c, o>>}] \in Servers
  BY <1>1, ServerFields
<1> QED
  BY <1>2 DEF Settled

(* A server that turned an option on is a server.                          *)
LEMMA TurnedOnType ==
  ASSUME NEW v \in Servers, NEW o \in Byte
  PROVE  TurnedOn(v, o) \in Servers
<1>1. v.on \cup {o} \in SUBSET Byte
  BY DEF Servers
<1>2. [v EXCEPT !.on = v.on \cup {o}] \in Servers
  BY <1>1, ServerFields
<1> QED
  BY <1>2, AskTypeType DEF TurnedOn

(* A server that answered an offer is a server.                            *)
LEMMA OnOfferType ==
  ASSUME NEW v \in Servers, NEW o \in Byte
  PROVE  OnOffer(v, o) \in Servers
<1>1. DO \in Byte /\ DONT \in Byte
  BY OctetsAreBytes DEF Octets
<1>2. TurnedOn(Settled(v, DO, o), o) \in Servers
  BY SettledType, TurnedOnType
<1>3. Answer(v, DO, o) \in Servers /\ Answer(v, DONT, o) \in Servers
  BY <1>1, AnswerType
<1>4. TurnedOn(Answer(v, DO, o), o) \in Servers
  BY <1>3, TurnedOnType
<1> QED
  BY <1>2, <1>3, <1>4 DEF OnOffer

(* A server that answered a request is a server.                           *)
LEMMA OnRequestType ==
  ASSUME NEW v \in Servers, NEW o \in Byte
  PROVE  OnRequest(v, o) \in Servers
<1>1. WILL \in Byte /\ WONT \in Byte
  BY OctetsAreBytes DEF Octets
<1>2. \A w \in Servers : [w EXCEPT !.doing = @ \cup {o}] \in Servers
  <2> SUFFICES ASSUME NEW w \in Servers PROVE [w EXCEPT !.doing = @ \cup {o}] \in Servers
    OBVIOUS
  <2>1. w.doing \cup {o} \in SUBSET Byte
    BY DEF Servers
  <2> QED
    BY <2>1, ServerFields
<1>3. Settled(v, WILL, o) \in Servers
  BY SettledType
<1>4. Answer(v, WILL, o) \in Servers /\ Answer(v, WONT, o) \in Servers
  BY <1>1, AnswerType
<1> QED
  BY <1>2, <1>3, <1>4 DEF OnRequest

(* Which answer a message gets.                                            *)
LEMMA Handling ==
  ASSUME NEW v, NEW m
  PROVE  /\ m[1] # IAC => Handle(v, m) = [v EXCEPT !.got = Append(v.got, m[1])]
         /\ m[1] = IAC =>
              /\ m[2] = IAC => Handle(v, m) = [v EXCEPT !.got = Append(v.got, IAC)]
              /\ m[2] = NOP => Handle(v, m) = v
              /\ m[2] = SB => Handle(v, m) = IF m[3] = NAWS THEN [v EXCEPT !.seen = m[4]]
                                             ELSE Settled(v, SB, m[3])
              /\ m[2] = WILL => Handle(v, m) = OnOffer(v, m[3])
              /\ m[2] = WONT =>
                   Handle(v, m) = [Settled(v, DO, m[3]) EXCEPT
                                     !.on = Settled(v, DO, m[3]).on \ {m[3]}]
              /\ m[2] = DO => Handle(v, m) = OnRequest(v, m[3])
              /\ m[2] = DONT =>
                   Handle(v, m) = [Settled(v, WILL, m[3]) EXCEPT
                                     !.doing = Settled(v, WILL, m[3]).doing \ {m[3]}]
<1>1. CASE m[1] # IAC
  BY <1>1 DEF Handle
<1>2. CASE m[1] = IAC /\ m[2] = IAC
  BY <1>2 DEF Handle, IAC, NOP, DO, DONT, WILL, WONT, SB
<1>3. CASE m[1] = IAC /\ m[2] = NOP
  BY <1>3 DEF Handle, IAC, NOP, DO, DONT, WILL, WONT, SB
<1>4. CASE m[1] = IAC /\ m[2] = SB
  BY <1>4 DEF Handle, IAC, NOP, DO, DONT, WILL, WONT, SB
<1>5. CASE m[1] = IAC /\ m[2] = WILL
  BY <1>5 DEF Handle, IAC, NOP, DO, DONT, WILL, WONT, SB
<1>6. CASE m[1] = IAC /\ m[2] = WONT
  BY <1>6 DEF Handle, IAC, NOP, DO, DONT, WILL, WONT, SB
<1>7. CASE m[1] = IAC /\ m[2] = DO
  BY <1>7 DEF Handle, IAC, NOP, DO, DONT, WILL, WONT, SB
<1>8. CASE m[1] = IAC /\ m[2] = DONT
  BY <1>8 DEF Handle, IAC, NOP, DO, DONT, WILL, WONT, SB
<1> QED
  BY <1>1, <1>2, <1>3, <1>4, <1>5, <1>6, <1>7, <1>8

(* A server that handled a message is a server.                            *)
LEMMA HandleType ==
  ASSUME NEW v \in Servers, NEW m \in Messages
  PROVE  Handle(v, m) \in Servers
<1>1. /\ m[1] \in Byte
      /\ m[1] = IAC => m[2] \in {IAC, NOP, DO, DONT, WILL, WONT, SB}
      /\ m[1] = IAC /\ m[2] \in {DO, DONT, WILL, WONT} => m[3] \in Byte
      /\ m[1] = IAC /\ m[2] = SB => m[3] \in Byte /\ m[4] \in Byte
  BY MessageTypes
<1>2. ASSUME NEW b \in Byte PROVE [v EXCEPT !.got = Append(v.got, b)] \in Servers
  <2>1. Append(v.got, b) \in Seq(Byte)
    BY DEF Servers
  <2> QED
    BY <2>1, ServerFields
<1>3. ASSUME NEW b \in Byte PROVE [v EXCEPT !.seen = b] \in Servers
  <2>1. b \in 0..256
    BY DEF Byte
  <2> QED
    BY <2>1, ServerFields
<1>4. \A c, o : Settled(v, c, o) \in Servers
  BY SettledType
<1>6. \A o \in Byte : OnOffer(v, o) \in Servers /\ OnRequest(v, o) \in Servers
  BY OnOfferType, OnRequestType
<1>7. IAC \in Byte
  BY OctetsAreBytes DEF Octets
<1>8. CASE m[1] # IAC
  BY <1>1, <1>2, <1>8, Handling
<1>9. CASE m[1] = IAC /\ m[2] = IAC
  BY <1>2, <1>7, <1>9, Handling
<1>10. CASE m[1] = IAC /\ m[2] = NOP
  BY <1>10, Handling
<1>11. CASE m[1] = IAC /\ m[2] = SB
  BY <1>1, <1>3, <1>4, <1>11, Handling
<1>12. CASE m[1] = IAC /\ m[2] = WILL
  BY <1>1, <1>6, <1>12, Handling
<1>13. CASE m[1] = IAC /\ m[2] = WONT
  <2>1. PICK w \in Servers : w = Settled(v, DO, m[3])
    BY <1>4
  <2>2. Handle(v, m) = [w EXCEPT !.on = w.on \ {m[3]}]
    BY <1>13, <2>1, Handling
  <2>3. w.on \ {m[3]} \in SUBSET Byte
    BY <2>1 DEF Servers
  <2>4. [w EXCEPT !.on = w.on \ {m[3]}] \in Servers
    BY <2>1, <2>3, ServerFields
  <2> QED
    BY <2>2, <2>4, Zenon
<1>14. CASE m[1] = IAC /\ m[2] = DO
  BY <1>1, <1>6, <1>14, Handling
<1>15. CASE m[1] = IAC /\ m[2] = DONT
  <2>1. PICK w \in Servers : w = Settled(v, WILL, m[3])
    BY <1>4
  <2>2. Handle(v, m) = [w EXCEPT !.doing = w.doing \ {m[3]}]
    BY <1>15, <2>1, Handling
  <2>3. w.doing \ {m[3]} \in SUBSET Byte
    BY <2>1 DEF Servers
  <2>4. [w EXCEPT !.doing = w.doing \ {m[3]}] \in Servers
    BY <2>1, <2>3, ServerFields
  <2> QED
    BY <2>2, <2>4, Zenon
<1> QED
  BY <1>1, <1>8, <1>9, <1>10, <1>11, <1>12, <1>13, <1>14, <1>15

HandleStep == [x \in Servers \X Messages |-> Handle(x[1], x[2])]

(* The loop over messages leads from servers to servers.                   *)
LEMMA HandleTakes == Takes(HandleStep, Servers, Messages)
<1>1. \A x \in Servers \X Messages : x[1] \in Servers /\ x[2] \in Messages
  OBVIOUS
<1>2. \A x \in Servers \X Messages : Handle(x[1], x[2]) \in Servers
  BY <1>1, HandleType
<1> QED
  BY <1>2 DEF Takes, HandleStep

(* A server that handled messages is a server.                             *)
LEMMA HandledType ==
  ASSUME NEW v \in Servers, NEW ms \in Seq(Messages)
  PROVE  Handled(v, ms) \in Servers
<1>1. Handled(v, ms) = Along(HandleStep, v, ms)
  BY DEF Handled, HandleStep
<1>2. Along(HandleStep, v, ms) \in Servers
  BY HandleTakes, AlongType
<1> QED
  BY <1>1, <1>2
-----------------------------------------------------------------------------
(* The types of the Telnet connection.                                     *)

(* What a write leaves.                                                    *)
LEMMA WrittenTypes ==
  ASSUME TelnetTypeOK, link = "up", NEW u \in Seq(Byte), Written(u)
  PROVE  /\ link' \in {"up", "ended"} /\ closed' \in {"no", "local"}
         /\ (link' = "ended") = (closed' # "no") /\ toServer' \in Seq(Byte)
<1>1. toServer \in Seq(Byte) /\ closed = "no"
  BY DEF TelnetTypeOK
<1>2. toServer \o u \in Seq(Byte)
  BY <1>1
<1> QED
  BY <1>1, <1>2 DEF Written, Ends

(* What the three commands of the handle carry.                            *)
LEMMA CommandTypes ==
  ASSUME NEW c \in Commands
  PROVE  /\ c[1] \in {"write", "resize", "disconnect"}
         /\ c[1] = "write" => \E b \in Typed : c[2] = <<b>>
         /\ c[1] = "resize" => c[2] \in Sizes
  BY DEF Commands

(* The first command, and the ones behind it.                              *)
LEMMA FirstCommand ==
  ASSUME TelnetTypeOK, commands # << >>
  PROVE  Head(commands) \in Commands /\ Tail(commands) \in Seq(Commands)
  BY DEF TelnetTypeOK

(* What is typed is bytes.                                                 *)
LEMMA TypedAreBytes == Typed \subseteq Byte
  BY TelnetAssumption

(* A filter that was told a size is a filter.                              *)
LEMMA ResizedType ==
  ASSUME NEW f \in Filters, NEW s \in Sizes
  PROVE  /\ Resized(f, s) \in Filters /\ Resized(f, s).app = f.app
         /\ Resized(f, s).replies \in Seq(Byte)
         /\ [Resized(f, s) EXCEPT !.replies = << >>] \in Filters
<1>1. << >> \in Seq(Byte)
  OBVIOUS
<1>2. s \in Byte
  BY SizesAreBytes
<1>3. Payload(s) \in Seq(Byte)
  BY <1>2, PayloadType
<1>4. Resized(f, s) \in Filters /\ Resized(f, s).app = f.app
  BY <1>1, <1>3 DEF Resized, Filters
<1>5. \A g \in Filters : g.replies \in Seq(Byte) /\ [g EXCEPT !.replies = << >>] \in Filters
  BY <1>1 DEF Filters
<1> QED
  BY <1>4, <1>5

(* The commands as they are taken.                                         *)
LEMMA TakeCommandTypes ==
  ASSUME TelnetTypeOK, TakeCommand
  PROVE  TelnetTypeOK'
<1>1. PICK c \in Commands : c = Head(commands)
  BY FirstCommand DEF TakeCommand
<1>2. commands' \in Seq(Commands)
  BY FirstCommand DEF TakeCommand
<1>3. link = "up"
  BY DEF TakeCommand
<1>4. size' = size /\ toClient' = toClient /\ server' = server /\ typed' = typed /\ shown' = shown
      /\ output' = output
  BY DEF TakeCommand
<1>5. CASE TakeWrite
  <2>1. PICK b \in Typed : c[2] = <<b>>
    BY <1>1, <1>5, CommandTypes DEF TakeWrite
  <2>2. Escape(<<b>>) \in Seq(Byte)
    BY <2>1, TypedAreBytes, EscapeByte
  <2>3. Written(Escape(<<b>>)) /\ filter' = filter
    BY <1>1, <1>5, <2>1 DEF TakeWrite
  <2> QED
    BY <1>2, <1>3, <1>4, <2>2, <2>3, WrittenTypes DEF TelnetTypeOK
<1>6. CASE TakeResize
  <2>1. PICK s \in Sizes : s = c[2]
    BY <1>1, <1>6, CommandTypes DEF TakeResize
  <2>2. PICK f : f = Resized(filter, s)
    OBVIOUS
  <2>3. Written(f.replies) /\ filter' = [f EXCEPT !.replies = << >>]
    BY <1>1, <1>6, <2>1, <2>2 DEF TakeResize
  <2>4. filter \in Filters /\ filter.app = << >>
    BY DEF TelnetTypeOK
  <2>5. f \in Filters /\ f.replies \in Seq(Byte) /\ f.app = << >> /\ filter' \in Filters
    BY <2>2, <2>3, <2>4, ResizedType
  <2>6. filter'.replies = << >> /\ filter'.app = << >>
    BY <2>3, <2>5 DEF Filters
  <2> QED
    BY <1>2, <1>3, <1>4, <2>3, <2>5, <2>6, WrittenTypes DEF TelnetTypeOK
<1>7. CASE TakeDisconnect
  BY <1>2, <1>4, <1>7 DEF TakeDisconnect, Ends, TelnetTypeOK
<1> QED
  BY <1>5, <1>6, <1>7 DEF TakeCommand

(* A chunk is a part of what came.                                         *)
LEMMA ChunkTypes ==
  ASSUME NEW s \in Seq(Byte), NEW n \in 1..Len(s)
  PROVE  /\ SubSeq(s, 1, n) \in Seq(Byte) /\ SubSeq(s, n + 1, Len(s)) \in Seq(Byte)
         /\ s = SubSeq(s, 1, n) \o SubSeq(s, n + 1, Len(s))
  OBVIOUS

(* A chunk that is read.                                                   *)
LEMMA ReadChunkTypes ==
  ASSUME TelnetTypeOK, ReadChunk
  PROVE  TelnetTypeOK'
<1>1. toClient \in Seq(Byte) /\ filter \in Filters /\ link = "up" /\ shown \in Seq(Byte)
  BY DEF TelnetTypeOK, ReadChunk
<1>2. PICK n \in 1..Len(toClient) :
        LET f == Feed(filter, SubSeq(toClient, 1, n)) IN
          /\ toClient' = SubSeq(toClient, n + 1, Len(toClient))
          /\ filter' = [f EXCEPT !.replies = <<>>, !.app = <<>>]
          /\ Written(f.replies)
          /\ shown' = IF link' = "up" THEN shown \o f.app ELSE shown
  BY DEF ReadChunk
<1>3. SubSeq(toClient, 1, n) \in Seq(Byte) /\ toClient' \in Seq(Byte)
  BY <1>1, <1>2, ChunkTypes
<1>4. PICK f \in Filters : f = Feed(filter, SubSeq(toClient, 1, n))
  BY <1>1, <1>3, FeedType
<1>5. /\ filter' = [f EXCEPT !.replies = <<>>, !.app = <<>>]
      /\ Written(f.replies)
      /\ shown' = IF link' = "up" THEN shown \o f.app ELSE shown
  BY <1>2, <1>4
<1>6. f.replies \in Seq(Byte) /\ f.app \in Seq(Byte) /\ << >> \in Seq(Byte)
  BY <1>4 DEF Filters
<1>7. filter' \in Filters /\ filter'.replies = << >> /\ filter'.app = << >>
  BY <1>4, <1>5, FilterTaken
<1>8. shown' \in Seq(Byte)
  BY <1>1, <1>5, <1>6
<1>9. size' = size /\ commands' = commands /\ server' = server /\ typed' = typed /\ output' = output
  BY DEF ReadChunk
<1> QED
  BY <1>1, <1>3, <1>5, <1>6, <1>7, <1>8, <1>9, WrittenTypes DEF TelnetTypeOK

(* The server reads.                                                       *)
LEMMA ServerReadsTypes ==
  ASSUME TelnetTypeOK, ServerReads
  PROVE  TelnetTypeOK'
<1>1. toServer \in Seq(Byte) /\ toClient \in Seq(Byte) /\ server \in Servers
  BY DEF TelnetTypeOK
<1>2. server.at \in Seq(Byte)
  BY <1>1 DEF Servers
<1>3. PICK read \in Collections : read = Collected(server.at, toServer)
  BY <1>1, <1>2, CollectedType
<1>4. read.at \in Seq(Byte) /\ read.msgs \in Seq(Messages)
  BY <1>3 DEF Collections
<1>5. PICK done \in Servers : done = Handled(server, read.msgs)
  BY <1>1, <1>4, HandledType
<1>6. /\ server' = [done EXCEPT !.at = read.at, !.replies = << >>]
      /\ toClient' = toClient \o done.replies
  BY <1>3, <1>5 DEF ServerReads
<1>7. done.replies \in Seq(Byte) /\ << >> \in Seq(Byte)
  BY <1>5 DEF Servers
<1>8. server' \in Servers
  BY <1>4, <1>5, <1>6, ServerRead
<1>9. toClient' \in Seq(Byte) /\ toServer' \in Seq(Byte)
  BY <1>1, <1>6, <1>7 DEF ServerReads
<1> QED
  BY <1>8, <1>9 DEF ServerReads, client, TelnetTypeOK

(* The server asks.                                                        *)
LEMMA ServerAsksTypes ==
  ASSUME TelnetTypeOK, ServerAsks
  PROVE  TelnetTypeOK'
<1>1. PICK c \in {DO, DONT, WILL, WONT}, o \in Asked :
        /\ toClient' = toClient \o <<IAC, c, o>>
        /\ server' = CASE c \in {DO, WILL} ->
                            [server EXCEPT !.pending = @ \cup {<<c, o>>}]
                       [] c = DONT -> [server EXCEPT !.on = @ \ {o}]
                       [] c = WONT -> [server EXCEPT !.doing = @ \ {o}]
  BY DEF ServerAsks
<1>2. c \in Byte /\ o \in Byte /\ IAC \in Byte
  BY OctetsAreBytes, TelnetAssumption DEF Octets
<1>3. toClient \in Seq(Byte) /\ server \in Servers
  BY DEF TelnetTypeOK
<1>4. toClient' \in Seq(Byte)
  <2>1. <<IAC, c, o>> \in Seq(Byte)
    BY <1>2
  <2> QED
    BY <1>1, <1>3, <2>1
<1>5. server' \in Servers
  <2>1. server.pending \cup {<<c, o>>} \in SUBSET (Byte \X Byte)
    BY <1>2, <1>3 DEF Servers
  <2>2. [server EXCEPT !.pending = @ \cup {<<c, o>>}] \in Servers
    BY <1>3, <2>1 DEF Servers
  <2>3. server.on \ {o} \in SUBSET Byte /\ server.doing \ {o} \in SUBSET Byte
    BY <1>3 DEF Servers
  <2>4. [server EXCEPT !.on = @ \ {o}] \in Servers /\ [server EXCEPT !.doing = @ \ {o}] \in Servers
    <3>1. \A x \in SUBSET Byte : [server EXCEPT !.on = x] \in Servers
      BY <1>3 DEF Servers
    <3>2. \A x \in SUBSET Byte : [server EXCEPT !.doing = x] \in Servers
      BY <1>3 DEF Servers
    <3> QED
      BY <2>3, <3>1, <3>2
  <2>5. CASE c \in {DO, WILL}
    <3>1. c # DONT /\ c # WONT
      BY <2>5 DEF DO, DONT, WILL, WONT
    <3>2. server' = [server EXCEPT !.pending = @ \cup {<<c, o>>}]
      BY <1>1, <2>5, <3>1
    <3> QED
      BY <2>2, <3>2, Zenon
  <2>6. CASE c = DONT
    BY <1>1, <2>4, <2>6 DEF DO, DONT, WILL, WONT
  <2>7. CASE c = WONT
    BY <1>1, <2>4, <2>7 DEF DO, DONT, WILL, WONT
  <2> QED
    BY <2>5, <2>6, <2>7
<1> QED
  BY <1>4, <1>5 DEF ServerAsks, client, TelnetTypeOK

(* The host prints.                                                        *)
LEMMA HostPrintsTypes ==
  ASSUME TelnetTypeOK, HostPrints
  PROVE  TelnetTypeOK'
<1>1. PICK b \in Typed :
        /\ output' = Append(output, b)
        /\ toClient' = toClient \o (IF b = IAC THEN <<IAC, IAC>> ELSE <<b>>)
  BY DEF HostPrints
<1>2. b \in Byte /\ IAC \in Byte
  BY TypedAreBytes, OctetsAreBytes DEF Octets
<1>3. toClient \in Seq(Byte) /\ output \in Seq(Typed)
  BY DEF TelnetTypeOK
<1>4. <<b>> \in Seq(Byte) /\ <<IAC, IAC>> \in Seq(Byte)
  BY <1>2
<1>5. toClient' \in Seq(Byte) /\ output' \in Seq(Typed)
  BY <1>1, <1>3, <1>4
<1> QED
  BY <1>5 DEF HostPrints, client, TelnetTypeOK

(* The greeting is bytes.                                                  *)
LEMMA GreetingType == Greeting \in Seq(Byte)
<1>1. \A x \in Byte, y \in Byte, z \in Byte : <<x, y, z>> \in Seq(Byte)
  OBVIOUS
<1>2. /\ <<IAC, DO, SGA>> \in Seq(Byte) /\ <<IAC, WILL, SGA>> \in Seq(Byte)
      /\ <<IAC, DO, ECHO>> \in Seq(Byte) /\ <<IAC, WILL, NAWS>> \in Seq(Byte)
      /\ <<IAC, WILL, TTYPE>> \in Seq(Byte)
  BY <1>1, OctetsAreBytes DEF Octets
<1>3. \A p, q, r, s, t \in Seq(Byte) : p \o q \o r \o s \o t \in Seq(Byte)
  OBVIOUS
<1> QED
  BY <1>2, <1>3 DEF Greeting

(* What the handle asks is queued.                                         *)
LEMMA QueuedTypes ==
  ASSUME TelnetTypeOK, NEW c \in Commands, Queued(c)
  PROVE  commands' \in Seq(Commands)
  BY DEF Queued, TelnetTypeOK

(* Every step keeps the types of the Telnet connection.                    *)
LEMMA TelnetStepTypes ==
  ASSUME TelnetTypeOK, TelnetNext
  PROVE  TelnetTypeOK'
<1>1. CASE Connect
  BY <1>1, GreetingType DEF Connect, TelnetTypeOK
<1>2. CASE ReadEnd
  BY <1>2 DEF ReadEnd, Ends, TelnetTypeOK
<1>3. CASE ConnectFails
  BY <1>3 DEF ConnectFails, Ends, TelnetTypeOK
<1>4. CASE ReadFails
  BY <1>4 DEF ReadFails, Ends, TelnetTypeOK
<1>5. CASE HangsUp
  <2>1. server \in Servers /\ server' = [server EXCEPT !.up = FALSE]
    BY <1>5 DEF HangsUp, TelnetTypeOK
  <2>2. server' \in Servers
    BY <2>1, ServerFields
  <2> QED
    BY <1>5, <2>2 DEF HangsUp, client, TelnetTypeOK
<1>6. CASE Types
  <2>1. PICK b \in Typed : Queued(<<"write", <<b>>>>) /\ typed' = Append(typed, b)
    BY <1>6 DEF Types
  <2>2. <<"write", <<b>>>> \in Commands
    BY <2>1 DEF Commands
  <2>3. commands' \in Seq(Commands)
    BY <2>1, <2>2, QueuedTypes
  <2>4. typed' \in Seq(Typed)
    BY <2>1 DEF TelnetTypeOK
  <2> QED
    BY <1>6, <2>3, <2>4 DEF Types, TelnetTypeOK
<1>7. CASE Resizes
  <2>1. PICK s \in Sizes : size' = s /\ Queued(<<"resize", s>>)
    BY <1>7 DEF Resizes
  <2>2. <<"resize", s>> \in Commands
    BY <2>1 DEF Commands
  <2>3. commands' \in Seq(Commands)
    BY <2>1, <2>2, QueuedTypes
  <2> QED
    BY <1>7, <2>1, <2>3 DEF Resizes, TelnetTypeOK
<1>8. CASE Disconnects
  <2>1. <<"disconnect", 0>> \in Commands
    BY DEF Commands
  <2>2. commands' \in Seq(Commands)
    BY <1>8, <2>1, QueuedTypes DEF Disconnects
  <2> QED
    BY <1>8, <2>2 DEF Disconnects, TelnetTypeOK
<1> QED
  BY <1>1, <1>2, <1>3, <1>4, <1>5, <1>6, <1>7, <1>8, TakeCommandTypes, ReadChunkTypes,
     ServerReadsTypes, ServerAsksTypes, HostPrintsTypes DEF TelnetNext, ThreadStep

(* A connection begins with the types it has.                              *)
LEMMA TelnetInitTypes ==
  ASSUME TelnetInit
  PROVE  TelnetTypeOK
<1>1. << >> \in Seq(Byte) /\ << >> \in Seq(Typed) /\ << >> \in Seq(Commands)
  OBVIOUS
<1>2. filter \in Filters /\ filter.replies = << >> /\ filter.app = << >>
  BY <1>1 DEF TelnetInit, NewFilter, Filters, FilterStates
<1>3. server \in Servers
  <2>1. PICK a \in Agreements : server = NewServer(a)
    BY DEF TelnetInit
  <2>2. a \in SUBSET Byte
    BY TelnetAssumption
  <2> QED
    BY <1>1, <2>1, <2>2 DEF NewServer, Servers
<1> QED
  BY <1>1, <1>2, <1>3 DEF TelnetInit, TelnetTypeOK

(* Whatever the connection does.                                           *)
LEMMA TelnetTypesHold == FarSpec => []TelnetTypeOK
<1>1. FarInit => TelnetTypeOK
  BY TelnetInitTypes DEF FarInit
<1>2. TelnetTypeOK /\ [FarNext]_farVars => TelnetTypeOK'
  <2> SUFFICES ASSUME TelnetTypeOK, [FarNext]_farVars PROVE TelnetTypeOK'
    OBVIOUS
  <2>1. CASE UNCHANGED telnetVars
    BY <2>1 DEF telnetVars, client, TelnetTypeOK
  <2> QED
    BY <2>1, TelnetStepTypes DEF FarNext, farVars
<1> QED
  BY <1>1, <1>2, PTL DEF FarSpec
-----------------------------------------------------------------------------
(* Telnet: what one side has sent, as the other side reads it.             *)

(* Collecting from the first byte on.                                      *)
LEMMA CollectedAlong ==
  ASSUME NEW at \in Seq(Byte)
  PROVE  /\ Heard(<< >>, at) \in Collections
         /\ \A s : Collected(at, s) = Along(CollectStep, Heard(<< >>, at), s)
<1>1. << >> \in Seq(Messages)
  OBVIOUS
<1> QED
  BY <1>1, HeardType DEF Collected, CollectStep, Heard

(* Without a byte, only what was begun is there.                           *)
LEMMA CollectedNothing ==
  ASSUME NEW at \in Seq(Byte)
  PROVE  Collected(at, << >>) = Heard(<< >>, at)
<1>1. PICK c \in Collections : c = Heard(<< >>, at)
  BY CollectedAlong
<1>2. Along(CollectStep, c, << >>) = c
  BY CollectTakes, AlongEmpty
<1> QED
  BY <1>1, <1>2, CollectedAlong

(* The last byte that comes is one more step.                              *)
LEMMA CollectedOne ==
  ASSUME NEW at \in Seq(Byte), NEW s \in Seq(Byte), NEW b \in Byte
  PROVE  Collected(at, Append(s, b)) = Collect(Collected(at, s), b)
<1>1. PICK c \in Collections : c = Heard(<< >>, at)
  BY CollectedAlong
<1>2. Along(CollectStep, c, Append(s, b)) = CollectStep[<<Along(CollectStep, c, s), b>>]
  BY CollectTakes, AlongAppend
<1>3. \A d \in Collections, x \in Byte : CollectStep[<<d, x>>] = Collect(d, x)
  BY DEF CollectStep
<1>4. Along(CollectStep, c, s) \in Collections
  BY CollectTakes, AlongType
<1> QED
  BY <1>1, <1>2, <1>3, <1>4, CollectedAlong

(* Messages that were there before stay in front.                          *)
Behind(ms, c) == [at |-> c.at, msgs |-> ms \o c.msgs]

(* A step does not depend on the messages that are there.                  *)
LEMMA CollectBehind ==
  ASSUME NEW ms \in Seq(Messages), NEW c \in Collections, NEW b \in Byte
  PROVE  Collect(Behind(ms, c), b) = Behind(ms, Collect(c, b))
<1>1. c.at \in Seq(Byte) /\ c.msgs \in Seq(Messages) /\ c = [at |-> c.at, msgs |-> c.msgs]
  BY DEF Collections
<1>2. PICK s \in Seq(Byte) : s = Append(c.at, b) /\ s # << >>
  <2>1. Append(c.at, b) \in Seq(Byte) /\ Append(c.at, b) # << >>
    BY <1>1, AppendByte
  <2> QED
    BY <2>1
<1>3. Behind(ms, c).at = c.at /\ Behind(ms, c).msgs = ms \o c.msgs
  BY DEF Behind
<1>4. CASE IsMessage(s)
  <2>1. s \in Messages
    BY <1>2, <1>4 DEF Messages
  <2>2. ms \o Append(c.msgs, s) = Append(ms \o c.msgs, s)
    BY <1>1, <2>1, ConcatAppend
  <2>3. Collect(c, b) = [at |-> << >>, msgs |-> Append(c.msgs, s)]
    BY <1>2, <1>4 DEF Collect
  <2>4. Collect(Behind(ms, c), b) = [at |-> << >>, msgs |-> Append(ms \o c.msgs, s)]
    BY <1>2, <1>3, <1>4 DEF Collect
  <2>5. Behind(ms, Collect(c, b)) = [at |-> << >>, msgs |-> ms \o Append(c.msgs, s)]
    BY <2>3 DEF Behind
  <2> QED
    BY <2>2, <2>4, <2>5
<1>5. CASE ~IsMessage(s)
  <2>1. Collect(c, b) = [at |-> s, msgs |-> c.msgs]
    BY <1>1, <1>2, <1>5 DEF Collect
  <2>2. Collect(Behind(ms, c), b) = [at |-> s, msgs |-> ms \o c.msgs]
    BY <1>2, <1>3, <1>5 DEF Collect, Behind
  <2> QED
    BY <2>1, <2>2 DEF Behind
<1> QED
  BY <1>4, <1>5

(* Messages in front leave a collection.                                   *)
LEMMA BehindType ==
  ASSUME NEW ms \in Seq(Messages), NEW c \in Collections
  PROVE  Behind(ms, c) \in Collections
<1>1. c.at \in Seq(Byte) /\ c.msgs \in Seq(Messages)
  BY DEF Collections
<1>2. ms \o c.msgs \in Seq(Messages)
  BY <1>1
<1> QED
  BY <1>1, <1>2 DEF Behind, Collections

(* Nor does the whole loop.                                                *)
LEMMA AlongBehind ==
  ASSUME NEW ms \in Seq(Messages), NEW c \in Collections, NEW s \in Seq(Byte)
  PROVE  Along(CollectStep, Behind(ms, c), s) = Behind(ms, Along(CollectStep, c, s))
<1>1. PICK d \in Collections : d = Behind(ms, c)
  BY BehindType
<1> DEFINE P == {t \in Seq(Byte) : Along(CollectStep, d, t) = Behind(ms, Along(CollectStep, c, t))}
<1>2. << >> \in P
  <2>1. << >> \in Seq(Byte)
    OBVIOUS
  <2>2. Along(CollectStep, d, << >>) = d /\ Along(CollectStep, c, << >>) = c
    BY CollectTakes, AlongEmpty
  <2> QED
    BY <1>1, <2>1, <2>2
<1>3. ASSUME NEW t \in Seq(Byte), NEW b \in Byte, t \in P PROVE Append(t, b) \in P
  <2>1. Append(t, b) \in Seq(Byte)
    OBVIOUS
  <2>2. /\ Along(CollectStep, d, Append(t, b)) = CollectStep[<<Along(CollectStep, d, t), b>>]
        /\ Along(CollectStep, c, Append(t, b)) = CollectStep[<<Along(CollectStep, c, t), b>>]
    BY CollectTakes, AlongAppend
  <2>3. \A e \in Collections, x \in Byte : CollectStep[<<e, x>>] = Collect(e, x)
    BY DEF CollectStep
  <2>4. Along(CollectStep, d, t) \in Collections
    BY CollectTakes, AlongType
  <2>5. PICK e \in Collections : e = Along(CollectStep, c, t)
    BY CollectTakes, AlongType
  <2>6. Along(CollectStep, d, t) = Behind(ms, e)
    BY <1>3, <2>5
  <2>7. Collect(Behind(ms, e), b) = Behind(ms, Collect(e, b))
    BY <2>5, CollectBehind
  <2>8. Along(CollectStep, d, Append(t, b)) = Collect(Behind(ms, e), b)
    BY <2>2, <2>3, <2>4, <2>6
  <2>9. Along(CollectStep, c, Append(t, b)) = Collect(e, b)
    BY <2>2, <2>3, <2>5
  <2> QED
    BY <2>1, <2>7, <2>8, <2>9
<1> HIDE DEF P
<1>4. Seq(Byte) \subseteq P
  BY <1>2, <1>3, ByAppending
<1>5. s \in P
  BY <1>4
<1> QED
  BY <1>1, <1>5 DEF P

(* What follows whole messages is read from its first byte on.             *)
LEMMA CollectedBoth ==
  ASSUME NEW at \in Seq(Byte), NEW s \in Seq(Byte), NEW t \in Seq(Byte), Collected(at, s).at = << >>
  PROVE  /\ Collected(at, s \o t).at = Collected(<< >>, t).at
         /\ Collected(at, s \o t).msgs = Collected(at, s).msgs \o Collected(<< >>, t).msgs
<1>1. PICK a \in Collections : /\ a = Heard(<< >>, at)
                               /\ \A r : Collected(at, r) = Along(CollectStep, a, r)
  BY CollectedAlong
<1>2. PICK e \in Seq(Byte) : e = << >>
  <2>1. << >> \in Seq(Byte)
    OBVIOUS
  <2> QED
    BY <2>1
<1>3. PICK z \in Collections : /\ z = Heard(<< >>, e)
                               /\ \A r : Collected(e, r) = Along(CollectStep, z, r)
  BY <1>2, CollectedAlong
<1>4. PICK c \in Collections : c = Collected(at, s)
  BY CollectedType
<1>5. c.msgs \in Seq(Messages) /\ c = [at |-> c.at, msgs |-> c.msgs] /\ c.at = << >>
  BY <1>4 DEF Collections
<1>6. Along(CollectStep, a, s \o t) = Along(CollectStep, Along(CollectStep, a, s), t)
  BY <1>1, CollectTakes, AlongConcat
<1>7. c.msgs \o << >> = c.msgs
  BY <1>5
<1>8. Behind(c.msgs, z) = c
  BY <1>2, <1>3, <1>5, <1>7 DEF Behind, Heard
<1>9. Along(CollectStep, Behind(c.msgs, z), t) = Behind(c.msgs, Along(CollectStep, z, t))
  BY <1>3, <1>5, AlongBehind
<1>10. Collected(at, s \o t) = Behind(c.msgs, Collected(e, t))
  BY <1>1, <1>3, <1>4, <1>6, <1>8, <1>9
<1>11. \A ms, d : Behind(ms, d).at = d.at /\ Behind(ms, d).msgs = ms \o d.msgs
  BY DEF Behind
<1>12. /\ Collected(at, s \o t).at = Collected(e, t).at
       /\ Collected(at, s \o t).msgs = c.msgs \o Collected(e, t).msgs
  BY <1>10, <1>11, Zenon
<1> QED
  BY <1>2, <1>4, <1>12, Zenon

(* A sequence of one.                                                      *)
LEMMA OneByte ==
  ASSUME NEW a
  PROVE  Append(<< >>, a) = <<a>> /\ Len(<<a>>) = 1 /\ <<a>>[1] = a
  OBVIOUS

(* A sequence of two.                                                      *)
LEMMA TwoBytes ==
  ASSUME NEW a, NEW b
  PROVE  Append(<<a>>, b) = <<a, b>> /\ Len(<<a, b>>) = 2 /\ <<a, b>>[1] = a /\ <<a, b>>[2] = b
<1>1. <<a, b>> = Append(<<a>>, b)
  OBVIOUS
<1>2. Len(<<a, b>>) = 2 /\ <<a, b>>[1] = a /\ <<a, b>>[2] = b
  OBVIOUS
<1> QED
  BY <1>1, <1>2, Zenon

(* A sequence of three.                                                    *)
LEMMA ThreeBytes ==
  ASSUME NEW a, NEW b, NEW c
  PROVE  /\ Append(<<a, b>>, c) = <<a, b, c>> /\ Len(<<a, b, c>>) = 3
         /\ <<a, b, c>>[1] = a /\ <<a, b, c>>[2] = b /\ <<a, b, c>>[3] = c
<1>1. <<a, b, c>> = Append(<<a, b>>, c)
  OBVIOUS
<1>2. Len(<<a, b, c>>) = 3 /\ <<a, b, c>>[1] = a /\ <<a, b, c>>[2] = b /\ <<a, b, c>>[3] = c
  OBVIOUS
<1> QED
  BY <1>1, <1>2, Zenon

(* A message that has begun, and one that is there.                        *)
Begun(s) == Collected(<< >>, s) = [at |-> s, msgs |-> << >>] /\ s \in Seq(Byte)

Unit(s) == Collected(<< >>, s).at = << >> /\ Collected(<< >>, s).msgs = <<s>> /\ s \in Messages

(* Before the first byte nothing is there.                                 *)
LEMMA NothingBegun == Begun(<< >>)
  BY NoBytes, CollectedNothing DEF Begun, Heard

(* A byte that does not complete the message is put to what was begun.     *)
LEMMA BeginMessage ==
  ASSUME NEW s, NEW b \in Byte, Begun(s), ~IsMessage(Append(s, b))
  PROVE  Begun(Append(s, b))
<1>1. s \in Seq(Byte)
  BY DEF Begun
<1>2. Collected(<< >>, Append(s, b)) = Collect(Collected(<< >>, s), b)
  BY <1>1, NoBytes, CollectedOne
<1> QED
  BY <1>1, <1>2, AppendByte DEF Begun, Collect

(* A byte that completes it makes it the one message there is.             *)
LEMMA EndMessage ==
  ASSUME NEW s, NEW b \in Byte, Begun(s), IsMessage(Append(s, b))
  PROVE  Unit(Append(s, b))
<1>1. s \in Seq(Byte)
  BY DEF Begun
<1>2. Collected(<< >>, Append(s, b)) = Collect(Collected(<< >>, s), b)
  BY <1>1, NoBytes, CollectedOne
<1>3. PICK m \in Seq(Byte) : m = Append(s, b) /\ m # << >>
  BY <1>1, AppendByte
<1>4. m \in Messages
  BY <1>3 DEF Messages
<1>5. PICK c : c = Collected(<< >>, s) /\ c.at = s /\ c.msgs = << >>
  BY DEF Begun
<1>6. Collect(c, b) = [at |-> << >>, msgs |-> Append(c.msgs, m)]
  BY <1>3, <1>5 DEF Collect
<1>7. Append(c.msgs, m) = <<m>>
  BY <1>5, OneByte
<1>8. Collect(c, b).at = << >> /\ Collect(c, b).msgs = <<m>>
  BY <1>6, <1>7
<1> QED
  BY <1>2, <1>3, <1>4, <1>5, <1>8 DEF Unit

(* A byte of the user.                                                     *)
LEMMA DataUnit ==
  ASSUME NEW b \in Byte \ {IAC}
  PROVE  Unit(<<b>>)
<1>1. IsMessage(<<b>>)
  BY OneByte DEF IsMessage
<1>2. PICK e : e = << >> /\ Begun(e) /\ Append(e, b) = <<b>>
  BY NothingBegun, OneByte
<1>3. IsMessage(Append(e, b))
  BY <1>1, <1>2
<1>4. Unit(Append(e, b))
  BY <1>2, <1>3, EndMessage
<1> QED
  BY <1>2, <1>4

(* IAC alone is no message.                                                *)
LEMMA IacBegun == Begun(<<IAC>>)
<1>1. IAC \in Byte
  BY OctetsAreBytes DEF Octets
<1>2. ~IsMessage(<<IAC>>)
  BY OneByte DEF IsMessage
<1>3. PICK e : e = << >> /\ Begun(e) /\ Append(e, IAC) = <<IAC>>
  BY NothingBegun, OneByte
<1>4. Begun(Append(e, IAC))
  BY <1>1, <1>2, <1>3, BeginMessage
<1> QED
  BY <1>3, <1>4

(* IAC IAC is one.                                                         *)
LEMMA IacUnit == Unit(<<IAC, IAC>>)
<1>1. IAC \in Byte
  BY OctetsAreBytes DEF Octets
<1>2. IsMessage(<<IAC, IAC>>)
  BY TwoBytes DEF IsMessage
<1>3. PICK e : e = <<IAC>> /\ Begun(e) /\ Append(e, IAC) = <<IAC, IAC>>
  BY IacBegun, TwoBytes
<1>4. Unit(Append(e, IAC))
  BY <1>1, <1>2, <1>3, EndMessage
<1> QED
  BY <1>3, <1>4

(* IAC and a command are none before the option comes.                     *)
LEMMA TwoBegun ==
  ASSUME NEW c \in {DO, DONT, WILL, WONT, SB}
  PROVE  Begun(<<IAC, c>>)
<1>1. c \in Byte
  BY OctetsAreBytes DEF Octets
<1>2. c \notin {IAC, NOP}
  BY DEF IAC, NOP, DO, DONT, WILL, WONT, SB
<1>3. ~IsMessage(<<IAC, c>>)
  BY <1>2, TwoBytes DEF IsMessage
<1>4. Append(<<IAC>>, c) = <<IAC, c>>
  BY TwoBytes
<1>5. PICK e : e = <<IAC>>
  OBVIOUS
<1>6. Begun(e) /\ Append(e, c) = <<IAC, c>>
  BY <1>4, <1>5, IacBegun, Zenon
<1>7. Begun(Append(e, c))
  BY <1>1, <1>3, <1>6, BeginMessage
<1> QED
  BY <1>6, <1>7, Zenon

(* With its option, a command is one.                                      *)
LEMMA CommandUnit ==
  ASSUME NEW c \in {DO, DONT, WILL, WONT}, NEW o \in Byte
  PROVE  Unit(<<IAC, c, o>>)
<1>1. IsMessage(<<IAC, c, o>>)
  BY ThreeBytes DEF IsMessage
<1>2. Append(<<IAC, c>>, o) = <<IAC, c, o>>
  BY ThreeBytes
<1>3. PICK e : e = <<IAC, c>>
  OBVIOUS
<1>4. Begun(<<IAC, c>>)
  BY TwoBegun
<1>5. Begun(e) /\ Append(e, o) = <<IAC, c, o>>
  BY <1>2, <1>3, <1>4, Zenon
<1>6. Unit(Append(e, o))
  BY <1>1, <1>5, EndMessage
<1> QED
  BY <1>5, <1>6, Zenon

(* Bytes put after others one by one.                                      *)
LEMMA ConcatOne ==
  ASSUME NEW s \in Seq(Byte), NEW a \in Byte
  PROVE  s \o <<a>> = Append(s, a)
  OBVIOUS

(* Two bytes behind others.                                                *)
LEMMA ConcatTwo ==
  ASSUME NEW s \in Seq(Byte), NEW a \in Byte, NEW b \in Byte
  PROVE  s \o <<a, b>> = Append(Append(s, a), b)
<1>1. PICK e \in Seq(Byte) : e = <<a>>
  <2>1. <<a>> \in Seq(Byte)
    OBVIOUS
  <2> QED
    BY <2>1
<1>2. Append(<<a>>, b) = <<a, b>>
  BY TwoBytes
<1>3. s \o Append(e, b) = Append(s \o e, b)
  BY ConcatAppend
<1>4. s \o <<a>> = Append(s, a)
  BY ConcatOne
<1> QED
  BY <1>1, <1>2, <1>3, <1>4, Zenon

(* A subnegotiation that has begun.                                        *)
Opened(s) == Begun(s) /\ Len(s) >= 2 /\ s[1] = IAC /\ s[2] = SB

(* IAC SB begins a subnegotiation.                                         *)
LEMMA OpenedFirst == Opened(<<IAC, SB>>)
<1>1. Begun(<<IAC, SB>>)
  BY TwoBegun
<1>2. Len(<<IAC, SB>>) = 2 /\ <<IAC, SB>>[1] = IAC /\ <<IAC, SB>>[2] = SB
  BY TwoBytes
<1>3. 2 >= 2
  OBVIOUS
<1> QED
  BY <1>1, <1>2, <1>3, Zenon DEF Opened

(* What is where when a byte was put behind others.                        *)
LEMMA AppendedAt ==
  ASSUME NEW s \in Seq(Byte), NEW b \in Byte
  PROVE  /\ Len(Append(s, b)) = Len(s) + 1 /\ Append(s, b)[Len(s) + 1] = b
         /\ \A i \in 1..Len(s) : Append(s, b)[i] = s[i]
  OBVIOUS

(* A byte that is no SE does not end a subnegotiation, nor does one that   *)
(* comes too early.                                                        *)
LEMMA OpenedMore ==
  ASSUME NEW s, Opened(s), NEW b \in Byte, b # SE \/ Len(s) < 4
  PROVE  Opened(Append(s, b))
<1>1. s \in Seq(Byte) /\ Len(s) \in Nat /\ Len(s) >= 2 /\ s[1] = IAC /\ s[2] = SB
  BY DEF Opened, Begun
<1>2. PICK t : t = Append(s, b)
  OBVIOUS
<1>3. /\ Len(t) = Len(s) + 1 /\ t[Len(t)] = b /\ t[1] = IAC /\ t[2] = SB
  <2>1. Len(t) = Len(s) + 1 /\ t[Len(s) + 1] = b /\ \A i \in 1..Len(s) : t[i] = s[i]
    BY <1>1, <1>2, AppendedAt
  <2>2. 1 \in 1..Len(s) /\ 2 \in 1..Len(s)
    BY <1>1
  <2> QED
    BY <1>1, <2>1, <2>2
<1>4. SB \notin {IAC, NOP, DO, DONT, WILL, WONT}
  BY DEF SB, IAC, NOP, DO, DONT, WILL, WONT
<1>5. t[Len(t)] = SE => Len(t) < 5
  BY <1>1, <1>3
<1>6. Len(t) \in Nat /\ Len(t) >= 2
  BY <1>1, <1>3
<1>7. ~IsMessage(t)
  BY <1>3, <1>4, <1>5, <1>6 DEF IsMessage
<1>8. Begun(t)
  BY <1>2, <1>7, BeginMessage DEF Opened
<1> QED
  BY <1>2, <1>3, <1>6, <1>8 DEF Opened

(* A message that is a command.                                            *)
Order(u) == Unit(u) /\ u[1] = IAC /\ u[2] # IAC

(* It ends at an IAC SE that no IAC is doubled by.                         *)
LEMMA OpenedEnds ==
  ASSUME NEW s, Opened(s), Len(s) >= 4,
         s[Len(s)] = IAC => s[Len(s) - 1] = IAC
  PROVE  Order(s \o <<IAC, SE>>)
<1>1. s \in Seq(Byte) /\ Len(s) \in Nat /\ s[1] = IAC /\ s[2] = SB
  BY DEF Opened, Begun
<1>2. IAC \in Byte /\ SE \in Byte /\ IAC # SE
  BY DEF IAC, SE, Byte
<1>3. PICK t \in Seq(Byte) : t = Append(s, IAC) /\ Opened(t)
  BY <1>1, <1>2, OpenedMore DEF Opened, Begun
<1>4. PICK u : u = Append(t, SE)
  OBVIOUS
<1>5. Len(t) = Len(s) + 1 /\ t[Len(s) + 1] = IAC /\ \A i \in 1..Len(s) : t[i] = s[i]
  BY <1>1, <1>2, <1>3, AppendedAt
<1>6. Len(u) = Len(t) + 1 /\ u[Len(t) + 1] = SE /\ \A i \in 1..Len(t) : u[i] = t[i]
  BY <1>2, <1>3, <1>4, AppendedAt
<1>7. PICK n \in Nat : n = Len(s) /\ n >= 4
  BY <1>1
<1>8. Len(t) = n + 1 /\ Len(u) = n + 2
  BY <1>5, <1>6, <1>7
<1>9. /\ n \in 1..n /\ n - 1 \in 1..n /\ 1 \in 1..n /\ 2 \in 1..n
      /\ n \in 1..n + 1 /\ n - 1 \in 1..n + 1 /\ 1 \in 1..n + 1 /\ 2 \in 1..n + 1
      /\ n + 1 \in 1..n + 1
  BY <1>7
<1>10. /\ u[n + 2] = SE /\ u[n + 1] = IAC /\ u[n] = s[n] /\ u[n - 1] = s[n - 1]
       /\ u[1] = IAC /\ u[2] = SB
  <2>1. u[n + 2] = SE
    <3>1. (n + 1) + 1 = n + 2
      BY <1>7
    <3> QED
      BY <1>6, <1>8, <3>1
  <2> QED
    BY <1>1, <1>5, <1>6, <1>7, <1>8, <1>9, <2>1
<1>11. IacsBefore(u, n + 2) \in {1, 3}
  <2>1. (n + 2) - 1 = n + 1 /\ (n + 2) - 2 = n /\ (n + 2) - 3 = n - 1
    BY <1>7
  <2>2. s[n] = IAC => s[n - 1] = IAC
    BY <1>7
  <2> QED
    BY <1>10, <2>1, <2>2 DEF IacsBefore
<1>12. 1 % 2 = 1 /\ 3 % 2 = 1
  OBVIOUS
<1>13. n + 2 >= 5
  BY <1>7
<1>14. IsMessage(u)
  BY <1>8, <1>10, <1>11, <1>12, <1>13 DEF IsMessage
<1>15. Unit(Append(t, SE))
  BY <1>2, <1>3, <1>4, <1>14, EndMessage DEF Opened
<1>16. s \o <<IAC, SE>> = Append(Append(s, IAC), SE)
  BY <1>1, <1>2, ConcatTwo
<1>17. SB # IAC
  BY DEF SB, IAC
<1>18. Order(u)
  BY <1>4, <1>10, <1>15, <1>17, Zenon DEF Order
<1> QED
  BY <1>3, <1>4, <1>16, <1>18, Zenon

(* The size is told in one message, doubled or not.                        *)
LEMMA PayloadOrder ==
  ASSUME NEW x \in Byte
  PROVE  Order(Payload(x))
<1>1. IAC \in Byte /\ NAWS \in Byte /\ IAC # SE /\ NAWS # SE
  BY DEF IAC, SE, NAWS, Byte
<1>2. PICK o : o = <<IAC, SB>> /\ Opened(o) /\ Len(o) = 2
  BY OpenedFirst, TwoBytes
<1>3. Append(<<IAC, SB>>, NAWS) = <<IAC, SB, NAWS>>
  BY ThreeBytes
<1>4. PICK p : p = Append(o, NAWS)
  OBVIOUS
<1>5. Opened(p)
  BY <1>1, <1>2, <1>4, OpenedMore
<1>6. p = <<IAC, SB, NAWS>> /\ Len(p) = 3 /\ p \in Seq(Byte)
  <2>1. p = <<IAC, SB, NAWS>>
    BY <1>2, <1>3, <1>4, Zenon
  <2> QED
    BY <1>5, <2>1, ThreeBytes DEF Opened, Begun
<1>7. Payload(x) = (p \o Escape(<<x>>)) \o <<IAC, SE>>
  BY <1>6, Zenon DEF Payload
<1>8. CASE x # IAC
  <2>1. Escape(<<x>>) = <<x>> /\ p \o <<x>> = Append(p, x)
    BY <1>6, <1>8, EscapeByte, ConcatOne
  <2>2. PICK q : q = Append(p, x)
    OBVIOUS
  <2>3. 3 < 4 /\ Len(p) < 4
    BY <1>6
  <2>4. Opened(q)
    BY <1>5, <2>2, <2>3, OpenedMore
  <2>5. Len(q) = 4 /\ q[4] = x
    BY <1>6, <2>2, AppendedAt
  <2>6. Len(q) >= 4 /\ q[Len(q)] # IAC
    BY <1>8, <2>5
  <2>7. Order(q \o <<IAC, SE>>)
    BY <2>4, <2>6, OpenedEnds
  <2> QED
    BY <1>7, <2>1, <2>2, <2>7, Zenon
<1>9. CASE x = IAC
  <2>1. Escape(<<x>>) = <<IAC, IAC>> /\ p \o <<IAC, IAC>> = Append(Append(p, IAC), IAC)
    BY <1>1, <1>6, <1>9, EscapeByte, ConcatTwo
  <2>2. PICK q : q = Append(p, IAC)
    OBVIOUS
  <2>3. PICK r : r = Append(q, IAC)
    OBVIOUS
  <2>4. Opened(q) /\ q \in Seq(Byte)
    BY <1>1, <1>5, <2>2, OpenedMore DEF Opened, Begun
  <2>5. Opened(r)
    BY <1>1, <2>3, <2>4, OpenedMore
  <2>6. Len(q) = 4 /\ q[4] = IAC
    BY <1>1, <1>6, <2>2, AppendedAt
  <2>7. Len(r) = 5 /\ r[5] = IAC /\ r[4] = IAC
    <3>1. Len(r) = Len(q) + 1 /\ r[Len(q) + 1] = IAC /\ \A i \in 1..Len(q) : r[i] = q[i]
      BY <1>1, <2>3, <2>4, AppendedAt
    <3> QED
      BY <2>6, <3>1
  <2>8. Len(r) >= 4 /\ r[Len(r) - 1] = IAC
    BY <2>7
  <2>9. Order(r \o <<IAC, SE>>)
    BY <2>5, <2>8, OpenedEnds
  <2>10. Payload(x) = r \o <<IAC, SE>>
    BY <1>7, <2>1, <2>2, <2>3, Zenon
  <2> QED
    BY <2>9, <2>10, Zenon
<1> QED
  BY <1>8, <1>9

TypeIs == <<IAC, SB, TTYPE, IS, 120, IAC, SE>>

(* The terminal type is told in one message.                               *)
LEMMA TypeIsOrder == Order(TypeIs)
<1>1. /\ IAC \in Byte /\ TTYPE \in Byte /\ IS \in Byte /\ 120 \in Byte /\ SE \in Byte
      /\ TTYPE # SE /\ IS # SE /\ 120 # SE /\ 120 # IAC
  BY DEF IAC, SE, TTYPE, IS, Byte
<1>2. PICK o : o = <<IAC, SB>> /\ Opened(o) /\ Len(o) = 2
  BY OpenedFirst, TwoBytes
<1>3. PICK p : p = Append(o, TTYPE)
  OBVIOUS
<1>4. PICK q : q = Append(p, IS)
  OBVIOUS
<1>5. PICK r : r = Append(q, 120)
  OBVIOUS
<1>6. Opened(p) /\ p \in Seq(Byte)
  BY <1>1, <1>2, <1>3, OpenedMore DEF Opened, Begun
<1>7. Opened(q) /\ q \in Seq(Byte)
  BY <1>1, <1>4, <1>6, OpenedMore DEF Opened, Begun
<1>8. Opened(r)
  BY <1>1, <1>5, <1>7, OpenedMore
<1>9. Len(r) = 5 /\ r[5] = 120
  <2>1. o \in Seq(Byte)
    BY <1>2 DEF Opened, Begun
  <2>2. Len(p) = 3
    BY <1>1, <1>2, <1>3, <2>1, AppendedAt
  <2>3. Len(Append(p, IS)) = Len(p) + 1
    BY <1>1, <1>6, AppendedAt
  <2>4. Len(Append(q, 120)) = Len(q) + 1 /\ Append(q, 120)[Len(q) + 1] = 120
    BY <1>1, <1>7, AppendedAt
  <2>5. Len(q) = Len(p) + 1
    BY <1>4, <2>3, Zenon
  <2>6. Len(r) = Len(q) + 1 /\ r[Len(q) + 1] = 120
    BY <1>5, <2>4, Zenon
  <2>7. Len(q) = 4
    BY <2>2, <2>5
  <2> QED
    BY <2>6, <2>7
<1>10. Len(r) >= 4 /\ r[Len(r)] # IAC
  BY <1>1, <1>9
<1>11. Order(r \o <<IAC, SE>>)
  BY <1>8, <1>10, OpenedEnds
<1>12. r \o <<IAC, SE>> = Append(Append(r, IAC), SE)
  BY <1>1, <1>8, ConcatTwo DEF Opened, Begun
<1>13. TypeIs = Append(Append(Append(Append(Append(<<IAC, SB>>, TTYPE), IS), 120), IAC), SE)
  BY DEF TypeIs
<1> QED
  BY <1>2, <1>3, <1>4, <1>5, <1>11, <1>12, <1>13, Zenon

(* The commands about options are commands.                                *)
LEMMA CommandOrder ==
  ASSUME NEW c \in {DO, DONT, WILL, WONT}, NEW o \in Byte
  PROVE  Order(<<IAC, c, o>>)
<1>1. Unit(<<IAC, c, o>>)
  BY CommandUnit
<1>2. <<IAC, c, o>>[1] = IAC /\ <<IAC, c, o>>[2] = c
  BY ThreeBytes
<1>3. c # IAC
  BY DEF DO, DONT, WILL, WONT, IAC
<1> QED
  BY <1>1, <1>2, <1>3, Zenon DEF Order

(* Bytes that are commands, one after another and whole.                   *)
Orders == {m \in Messages : m[1] = IAC /\ m[2] # IAC}

AllOrders(s) ==
  s \in Seq(Byte) /\ Collected(<< >>, s).at = << >> /\ Collected(<< >>, s).msgs \in Seq(Orders)

(* Nothing is no command too many.                                         *)
LEMMA NoOrders == AllOrders(<< >>)
<1>1. Collected(<< >>, << >>) = Heard(<< >>, << >>)
  BY NoBytes, CollectedNothing
<1>2. << >> \in Seq(Orders)
  OBVIOUS
<1>3. Collected(<< >>, << >>).at = << >> /\ Collected(<< >>, << >>).msgs = << >>
  BY <1>1 DEF Heard
<1> QED
  BY <1>2, <1>3, NoBytes, Zenon DEF AllOrders

(* One command is whole.                                                   *)
LEMMA OrderIsOrders ==
  ASSUME NEW u, Order(u)
  PROVE  AllOrders(u)
<1>1. u \in Messages /\ u[1] = IAC /\ u[2] # IAC
  BY DEF Order, Unit
<1>2. u \in Orders
  BY <1>1 DEF Orders
<1>3. <<u>> \in Seq(Orders)
  BY <1>2
<1>4. u \in Seq(Byte)
  BY <1>1 DEF Messages
<1>5. Collected(<< >>, u).at = << >> /\ Collected(<< >>, u).msgs = <<u>>
  BY DEF Order, Unit
<1> QED
  BY <1>3, <1>4, <1>5, Zenon DEF AllOrders

(* Commands after commands are commands.                                   *)
LEMMA OrdersBoth ==
  ASSUME NEW s, AllOrders(s), NEW t, AllOrders(t)
  PROVE  AllOrders(s \o t)
<1>1. s \in Seq(Byte) /\ t \in Seq(Byte) /\ s \o t \in Seq(Byte)
  BY DEF AllOrders
<1>2. /\ Collected(<< >>, s \o t).at = Collected(<< >>, t).at
      /\ Collected(<< >>, s \o t).msgs = Collected(<< >>, s).msgs \o Collected(<< >>, t).msgs
  BY <1>1, NoBytes, CollectedBoth DEF AllOrders
<1>3. PICK ms \in Seq(Orders) : ms = Collected(<< >>, s).msgs
  BY DEF AllOrders
<1>4. PICK ns \in Seq(Orders) : ns = Collected(<< >>, t).msgs
  BY DEF AllOrders
<1>5. ms \o ns \in Seq(Orders)
  BY <1>3, <1>4
<1> QED
  BY <1>1, <1>2, <1>3, <1>4, <1>5, Zenon DEF AllOrders

(* What the filter has to send is commands.                                *)
LEMMA ReplyOrders ==
  ASSUME NEW f \in Filters, AllOrders(f.replies), NEW r, AllOrders(r)
  PROVE  AllOrders(Reply(f, r).replies)
<1>1. Reply(f, r).replies = f.replies \o r
  BY DEF Reply, Filters
<1> QED
  BY <1>1, OrdersBoth

(* The state has nothing to do with the answers.                           *)
LEMMA ToOrders ==
  ASSUME NEW f \in Filters, NEW st
  PROVE  To(f, st).replies = f.replies
  BY DEF To, Filters

(* A byte makes the filter say commands, or nothing.                       *)
LEMMA StepOrders ==
  ASSUME NEW f \in Filters, AllOrders(f.replies), NEW b \in Byte
  PROVE  AllOrders(Step(f, b).replies)
<1>1. f.size \in Byte /\ f.state \in FilterStates
  BY SizesAreBytes DEF Filters
<1>2. CASE f.state = "Data"
  BY <1>2, ToOrders DEF Step, Filters, To
<1>3. CASE f.state = "Iac"
  BY <1>3 DEF Step, OnIac, To, Filters
<1>4. CASE f.state = "Will"
  <2>1. PICK c \in {DO, DONT} : OnWill(f, b) = Reply(f, <<IAC, c, b>>)
    BY DEF OnWill
  <2>2. PICK g \in Filters : g = Reply(f, <<IAC, c, b>>)
    <3>1. <<IAC, c, b>> \in Seq(Byte)
      BY CommandOrder, OrderIsOrders DEF AllOrders
    <3> QED
      BY <3>1, ReplyType
  <2>3. AllOrders(g.replies)
    BY <2>2, CommandOrder, OrderIsOrders, ReplyOrders
  <2> QED
    BY <1>4, <2>1, <2>2, <2>3, ToOrders DEF Step
<1>5. CASE f.state = "Do"
  <2>1. ASSUME NEW r, AllOrders(r) PROVE Reply(f, r) \in Filters /\ AllOrders(Reply(f, r).replies)
    BY <2>1, ReplyType, ReplyOrders DEF AllOrders
  <2>2. OnDo(f, b) \in Filters /\ AllOrders(OnDo(f, b).replies)
    <3>1. CASE b \in {SGA, TTYPE}
      <4>1. OnDo(f, b) = Reply(f, <<IAC, WILL, b>>)
        BY <3>1 DEF OnDo, NAWS, SGA, TTYPE
      <4> QED
        BY <4>1, <2>1, CommandOrder, OrderIsOrders
    <3>2. CASE b = NAWS
      <4>1. OnDo(f, b) = [Reply(f, <<IAC, WILL, NAWS>> \o Payload(f.size)) EXCEPT !.naws = TRUE]
        BY <3>2 DEF OnDo, NAWS, SGA, TTYPE
      <4>2. AllOrders(<<IAC, WILL, NAWS>> \o Payload(f.size))
        BY <1>1, <3>2, CommandOrder, PayloadOrder, OrderIsOrders, OrdersBoth
      <4>3. PICK g \in Filters : /\ g = Reply(f, <<IAC, WILL, NAWS>> \o Payload(f.size))
                                 /\ AllOrders(g.replies)
        BY <4>2, <2>1
      <4> QED
        BY <4>1, <4>3 DEF Filters
    <3>3. CASE b \notin {SGA, TTYPE, NAWS}
      <4>1. OnDo(f, b) = Reply(f, <<IAC, WONT, b>>)
        BY <3>3 DEF OnDo
      <4> QED
        BY <4>1, <2>1, CommandOrder, OrderIsOrders
    <3> QED
      BY <3>1, <3>2, <3>3
  <2> QED
    BY <1>5, <2>2, ToOrders DEF Step
<1>6. CASE f.state \in {"Wont", "Dont"}
  BY <1>6 DEF Step, OnRefusal, To, Filters
<1>7. CASE f.state = "Sub"
  BY <1>7 DEF Step, To, Filters
<1>8. CASE f.state = "SubIac"
  <2>1. Step(f, b) = OnSubIac(f, b)
    BY <1>8 DEF Step
  <2>2. CASE b = IAC
    <3>1. PICK g \in Filters : g = To(f, "Sub") /\ g.replies = f.replies
      BY ToType, ToOrders DEF FilterStates
    <3>2. Step(f, b) = [g EXCEPT !.sub = Append(g.sub, IAC)]
      BY <2>1, <2>2, <3>1 DEF OnSubIac, IAC, SE
    <3> QED
      BY <3>1, <3>2 DEF Filters
  <2>3. CASE b = SE
    <3>1. OnSubnegotiation(f) \in {f, Reply(f, TypeIs)}
      BY DEF OnSubnegotiation, TypeIs
    <3>2. Reply(f, TypeIs) \in Filters /\ AllOrders(Reply(f, TypeIs).replies)
      BY TypeIsOrder, OrderIsOrders, ReplyType, ReplyOrders DEF AllOrders
    <3>3. PICK g \in Filters : g = OnSubnegotiation(f) /\ AllOrders(g.replies)
      BY <3>1, <3>2
    <3>4. Step(f, b) = [To(g, "Data") EXCEPT !.sub = << >>]
      BY <2>1, <2>3, <3>3 DEF OnSubIac, SE, IAC
    <3> QED
      BY <3>3, <3>4 DEF To, Filters
  <2>4. CASE b \notin {IAC, SE}
    BY <2>1, <2>4 DEF OnSubIac, To, Filters
  <2> QED
    BY <2>2, <2>3, <2>4
<1> QED
  BY <1>1, <1>2, <1>3, <1>4, <1>5, <1>6, <1>7, <1>8 DEF FilterStates

(* Whatever the filter is fed, its answers are whole commands.             *)
LEMMA FeedOrders ==
  ASSUME NEW f \in Filters, f.replies = << >>, NEW s \in Seq(Byte)
  PROVE  AllOrders(Feed(f, s).replies)
<1> DEFINE P == {t \in Seq(Byte) : AllOrders(Feed(f, t).replies)}
<1>1. << >> \in P
  <2>1. Feed(f, << >>).replies = << >>
    BY FeedNothing
  <2>2. AllOrders(Feed(f, << >>).replies)
    BY <2>1, NoOrders, Zenon
  <2> QED
    BY <2>2, NoBytes
<1>2. ASSUME NEW t \in Seq(Byte), NEW b \in Byte, t \in P PROVE Append(t, b) \in P
  <2>1. PICK g \in Filters : g = Feed(f, t)
    BY FeedType
  <2>2. AllOrders(g.replies)
    BY <1>2, <2>1
  <2>3. AllOrders(Step(g, b).replies)
    BY <2>2, StepOrders
  <2>4. Feed(f, Append(t, b)) = Step(g, b)
    BY <2>1, FeedOne
  <2> QED
    BY <2>3, <2>4, AppendByte
<1> HIDE DEF P
<1>3. Seq(Byte) \subseteq P
  BY <1>1, <1>2, ByAppending
<1>4. s \in P
  BY <1>3
<1> QED
  BY <1>4 DEF P

(* The greeting is commands.                                               *)
LEMMA GreetingOrders == AllOrders(Greeting)
<1>1. SGA \in Byte /\ ECHO \in Byte /\ NAWS \in Byte /\ TTYPE \in Byte
  BY DEF SGA, ECHO, NAWS, TTYPE, Byte
<1>2. \A o \in Byte : AllOrders(<<IAC, DO, o>>) /\ AllOrders(<<IAC, WILL, o>>)
  BY CommandOrder, OrderIsOrders
<1>3. AllOrders(<<IAC, DO, SGA>> \o <<IAC, WILL, SGA>>)
  BY <1>1, <1>2, OrdersBoth
<1>4. AllOrders((<<IAC, DO, SGA>> \o <<IAC, WILL, SGA>>) \o <<IAC, DO, ECHO>>)
  BY <1>1, <1>2, <1>3, OrdersBoth
<1>5. AllOrders(((<<IAC, DO, SGA>> \o <<IAC, WILL, SGA>>) \o <<IAC, DO, ECHO>>)
                  \o <<IAC, WILL, NAWS>>)
  BY <1>1, <1>2, <1>4, OrdersBoth
<1>6. AllOrders((((<<IAC, DO, SGA>> \o <<IAC, WILL, SGA>>) \o <<IAC, DO, ECHO>>)
                   \o <<IAC, WILL, NAWS>>) \o <<IAC, WILL, TTYPE>>)
  BY <1>1, <1>2, <1>5, OrdersBoth
<1> QED
  BY <1>6, Zenon DEF Greeting

(* A resize has commands to send, or nothing.                              *)
LEMMA ResizedOrders ==
  ASSUME NEW f \in Filters, f.replies = << >>, NEW x \in Sizes
  PROVE  AllOrders(Resized(f, x).replies)
<1>1. AllOrders(Payload(x))
  BY SizesAreBytes, PayloadOrder, OrderIsOrders
<1>2. Resized(f, x).replies \in {<< >>, Payload(x)}
  BY DEF Resized, Filters
<1> QED
  BY <1>1, <1>2, NoOrders

-----------------------------------------------------------------------------
(* Telnet: what comes to the terminal.                                     *)

(* The state of the filter and what it lets through depend on the state    *)
(* and the byte alone.                                                     *)
NextState(st, b) ==
  CASE st = "Data" -> IF b = IAC THEN "Iac" ELSE "Data"
    [] st = "Iac" -> IF b = IAC THEN "Data" ELSE IF b = SB THEN "Sub" ELSE Introduces(b)
    [] st \in {"Will", "Wont", "Do", "Dont"} -> "Data"
    [] st = "Sub" -> IF b = IAC THEN "SubIac" ELSE "Sub"
    [] st = "SubIac" -> IF b = SE THEN "Data" ELSE "Sub"

Lets(st, b) == st \in {"Data", "Iac"} /\ (b = IAC) = (st = "Iac")

(* What is in the fields of a filter when others are set.                  *)
LEMMA FieldsSet ==
  ASSUME NEW f \in Filters
  PROVE  /\ \A st : /\ To(f, st).state = st /\ To(f, st).app = f.app
                    /\ \A x : [To(f, st) EXCEPT !.sub = x].state = st
                    /\ \A x : [To(f, st) EXCEPT !.sub = x].app = f.app
                    /\ \A x : [To(f, st) EXCEPT !.app = x].state = st
                    /\ \A x : [To(f, st) EXCEPT !.app = x].app = x
         /\ \A r : Reply(f, r).state = f.state /\ Reply(f, r).app = f.app
         /\ \A x : [f EXCEPT !.app = x].state = f.state /\ [f EXCEPT !.app = x].app = x
         /\ \A x : [f EXCEPT !.sub = x].state = f.state /\ [f EXCEPT !.sub = x].app = f.app
         /\ \A x : [f EXCEPT !.naws = x].state = f.state /\ [f EXCEPT !.naws = x].app = f.app
         /\ \A r, x : [Reply(f, r) EXCEPT !.naws = x].app = f.app
  BY DEF Filters, To, Reply

(* A step of the filter, as far as the terminal is concerned.              *)
LEMMA StepLets ==
  ASSUME NEW f \in Filters, NEW b \in Byte
  PROVE  /\ Step(f, b).state = NextState(f.state, b)
         /\ Step(f, b).app = IF Lets(f.state, b) THEN Append(f.app, b) ELSE f.app
<1>1. f.state \in FilterStates
  BY DEF Filters
<1>2. CASE f.state = "Data"
  <2>1. Step(f, b) = IF b = IAC THEN To(f, "Iac") ELSE [f EXCEPT !.app = Append(f.app, b)]
    BY <1>2 DEF Step
  <2>2. /\ NextState(f.state, b) = (IF b = IAC THEN "Iac" ELSE "Data")
        /\ Lets(f.state, b) <=> b # IAC
    BY <1>2 DEF NextState, Lets
  <2> QED
    BY <1>2, <2>1, <2>2, FieldsSet
<1>3. CASE f.state = "Iac"
  <2>1. Step(f, b) = OnIac(f, b)
    BY <1>3 DEF Step
  <2>2. OnIac(f, b) = IF b = IAC THEN [To(f, "Data") EXCEPT !.app = Append(f.app, IAC)]
                      ELSE IF b = SB THEN [To(f, "Sub") EXCEPT !.sub = << >>]
                      ELSE To(f, Introduces(b))
    <3>1. IAC # SB
      BY DEF IAC, SB
    <3>2. To(f, "Data").app = f.app
      BY FieldsSet
    <3> QED
      BY <3>1, <3>2 DEF OnIac
  <2>3. NextState(f.state, b) = IF b = IAC THEN "Data" ELSE IF b = SB THEN "Sub" ELSE Introduces(b)
    BY <1>3 DEF NextState
  <2>4. Lets(f.state, b) <=> b = IAC
    BY <1>3 DEF Lets
  <2> QED
    BY <2>1, <2>2, <2>3, <2>4, FieldsSet
<1>4. CASE f.state \in {"Will", "Wont", "Do", "Dont"}
  <2>1. NextState(f.state, b) = "Data" /\ ~Lets(f.state, b)
    BY <1>4 DEF NextState, Lets
  <2>2. \E g \in Filters : Step(f, b) = To(g, "Data") /\ g.app = f.app
    <3>1. CASE f.state = "Will"
      <4>1. PICK r \in Seq(Byte) : OnWill(f, b) = Reply(f, r)
        BY CommandOrder, OrderIsOrders DEF OnWill, AllOrders
      <4> QED
        BY <3>1, <4>1, ReplyType, FieldsSet DEF Step
    <3>2. CASE f.state = "Do"
      <4>1. PICK g : g = OnDo(f, b)
        OBVIOUS
      <4>2. Step(f, b) = To(g, "Data")
        BY <3>2, <4>1 DEF Step
      <4>3. \A c \in {WILL, WONT} : <<IAC, c, b>> \in Seq(Byte)
        BY CommandOrder, OrderIsOrders DEF AllOrders
      <4>4. b = NAWS => <<IAC, WILL, NAWS>> \o Payload(f.size) \in Seq(Byte)
        BY <4>3, PayloadType, SizesAreBytes DEF Filters
      <4>5. \A h \in Filters : [h EXCEPT !.naws = TRUE] \in Filters
        BY DEF Filters
      <4>6. g \in Filters /\ g.app = f.app
        <5>1. CASE b \in {SGA, TTYPE}
          <6>1. g = Reply(f, <<IAC, WILL, b>>)
            BY <4>1, <5>1 DEF OnDo, SGA, TTYPE, NAWS
          <6> QED
            BY <4>3, <6>1, ReplyType, FieldsSet
        <5>2. CASE b = NAWS
          <6>1. PICK r \in Seq(Byte) : r = <<IAC, WILL, NAWS>> \o Payload(f.size)
            BY <4>4, <5>2
          <6>2. g = [Reply(f, r) EXCEPT !.naws = TRUE]
            BY <4>1, <5>2, <6>1 DEF OnDo, SGA, TTYPE, NAWS
          <6> QED
            BY <4>5, <6>2, ReplyType, FieldsSet
        <5>3. CASE b \notin {SGA, TTYPE, NAWS}
          <6>1. g = Reply(f, <<IAC, WONT, b>>)
            BY <4>1, <5>3 DEF OnDo
          <6> QED
            BY <4>3, <6>1, ReplyType, FieldsSet
        <5> QED
          BY <5>1, <5>2, <5>3
      <4> QED
        BY <4>2, <4>6
    <3>3. CASE f.state \in {"Wont", "Dont"}
      <4>1. Step(f, b) = To(OnRefusal(f, b), "Data")
        BY <3>3 DEF Step
      <4>2. OnRefusal(f, b) \in Filters /\ OnRefusal(f, b).app = f.app
        BY DEF OnRefusal, Filters
      <4> QED
        BY <4>1, <4>2
    <3> QED
      BY <1>4, <3>1, <3>2, <3>3
  <2> QED
    BY <2>1, <2>2, FieldsSet
<1>5. CASE f.state = "Sub"
  <2>1. Step(f, b) = IF b = IAC THEN To(f, "SubIac") ELSE [f EXCEPT !.sub = Append(f.sub, b)]
    BY <1>5 DEF Step
  <2>2. NextState(f.state, b) = (IF b = IAC THEN "SubIac" ELSE "Sub") /\ ~Lets(f.state, b)
    BY <1>5 DEF NextState, Lets
  <2> QED
    BY <1>5, <2>1, <2>2, FieldsSet
<1>6. CASE f.state = "SubIac"
  <2>1. Step(f, b) = OnSubIac(f, b)
    BY <1>6 DEF Step
  <2>2. NextState(f.state, b) = (IF b = SE THEN "Data" ELSE "Sub") /\ ~Lets(f.state, b)
    BY <1>6 DEF NextState, Lets
  <2>3. CASE b # SE
    <3>1. PICK g : g = OnSubIac(f, b)
      OBVIOUS
    <3>2. (\E x : g = [To(f, "Sub") EXCEPT !.sub = x]) \/ g = To(f, "Sub")
      BY <2>3, <3>1 DEF OnSubIac
    <3>3. g.state = "Sub" /\ g.app = f.app
      <4>1. /\ \A x : [To(f, "Sub") EXCEPT !.sub = x].state = "Sub"
            /\ \A x : [To(f, "Sub") EXCEPT !.sub = x].app = f.app
            /\ To(f, "Sub").state = "Sub" /\ To(f, "Sub").app = f.app
        BY FieldsSet
      <4> QED
        BY <3>2, <4>1, Zenon
    <3> QED
      BY <2>1, <2>2, <2>3, <3>1, <3>3
  <2>4. CASE b = SE
    <3>1. PICK g \in Filters : g = OnSubnegotiation(f) /\ g.app = f.app
      <4>1. TypeIs \in Seq(Byte)
        BY TypeIsOrder, OrderIsOrders DEF AllOrders
      <4>2. OnSubnegotiation(f) \in {f, Reply(f, TypeIs)}
        BY DEF OnSubnegotiation, TypeIs
      <4> QED
        BY <4>1, <4>2, ReplyType, FieldsSet
    <3>2. OnSubIac(f, b) = [To(g, "Data") EXCEPT !.sub = << >>]
      BY <2>4, <3>1 DEF OnSubIac, SE, IAC
    <3> QED
      BY <2>1, <2>2, <2>4, <3>1, <3>2, FieldsSet
  <2> QED
    BY <2>3, <2>4
<1> QED
  BY <1>1, <1>2, <1>3, <1>4, <1>5, <1>6 DEF FilterStates

(* Two filters in one state let the same through: what was there before    *)
(* stays in front.                                                         *)
Ahead(f, g, a) == f.state = g.state /\ f.app = a \o g.app

(* One byte lets two filters in one state through the same.                *)
LEMMA StepAhead ==
  ASSUME NEW f \in Filters, NEW g \in Filters, NEW a \in Seq(Byte), Ahead(f, g, a), NEW b \in Byte
  PROVE  Ahead(Step(f, b), Step(g, b), a)
<1>1. PICK p \in Seq(Byte) : p = g.app
  BY DEF Filters
<1>2. a \o Append(p, b) = Append(a \o p, b)
  BY ConcatAppend
<1>3. f.state = g.state /\ f.app = a \o p
  BY <1>1 DEF Ahead
<1>4. /\ Step(f, b).state = NextState(g.state, b)
      /\ Step(f, b).app = IF Lets(g.state, b) THEN Append(a \o p, b) ELSE a \o p
  BY <1>3, StepLets
<1>5. /\ Step(g, b).state = NextState(g.state, b)
      /\ Step(g, b).app = IF Lets(g.state, b) THEN Append(p, b) ELSE p
  BY <1>1, StepLets
<1> QED
  BY <1>2, <1>4, <1>5, Zenon DEF Ahead

(* So do the bytes of a chunk.                                             *)
LEMMA FeedAhead ==
  ASSUME NEW f \in Filters, NEW g \in Filters, NEW a \in Seq(Byte), Ahead(f, g, a),
         NEW s \in Seq(Byte)
  PROVE  Ahead(Feed(f, s), Feed(g, s), a)
<1> DEFINE P == {t \in Seq(Byte) : Ahead(Feed(f, t), Feed(g, t), a)}
<1>1. << >> \in P
  BY FeedNothing, NoBytes
<1>2. ASSUME NEW t \in Seq(Byte), NEW b \in Byte, t \in P PROVE Append(t, b) \in P
  <2>1. PICK h \in Filters : h = Feed(f, t)
    BY FeedType
  <2>2. PICK k \in Filters : k = Feed(g, t)
    BY FeedType
  <2>3. Ahead(h, k, a)
    BY <1>2, <2>1, <2>2
  <2>4. Ahead(Step(h, b), Step(k, b), a)
    BY <2>3, StepAhead
  <2>5. Feed(f, Append(t, b)) = Step(h, b) /\ Feed(g, Append(t, b)) = Step(k, b)
    BY <2>1, <2>2, FeedOne
  <2> QED
    BY <2>4, <2>5, AppendByte
<1> HIDE DEF P
<1>3. Seq(Byte) \subseteq P
  BY <1>1, <1>2, ByAppending
<1>4. s \in P
  BY <1>3
<1> QED
  BY <1>4 DEF P

(* Bytes the terminal gets nothing of, which leave the filter in a state.  *)
Passes(s, st) ==
  /\ s \in Seq(Byte)
  /\ \A f \in Filters : f.state = "Data" => Feed(f, s).state = st /\ Feed(f, s).app = f.app

(* One more byte that is not let through.                                  *)
LEMMA PassesOn ==
  ASSUME NEW s, NEW st, Passes(s, st), NEW b \in Byte, ~Lets(st, b), NEW r, r = Append(s, b),
         NEW next, NextState(st, b) = next
  PROVE  Passes(r, next)
<1>1. s \in Seq(Byte) /\ Append(s, b) \in Seq(Byte)
  BY AppendByte DEF Passes
<1>2. ASSUME NEW f \in Filters, f.state = "Data"
      PROVE  /\ Feed(f, Append(s, b)).state = NextState(st, b)
             /\ Feed(f, Append(s, b)).app = f.app
  <2>1. PICK g \in Filters : g = Feed(f, s)
    BY <1>1, FeedType
  <2>2. g.state = st /\ g.app = f.app
    BY <1>2, <2>1 DEF Passes
  <2>3. Feed(f, Append(s, b)) = Step(g, b)
    BY <1>1, <2>1, FeedOne
  <2>4. /\ Step(g, b).state = NextState(g.state, b)
        /\ Step(g, b).app = IF Lets(g.state, b) THEN Append(g.app, b) ELSE g.app
    BY StepLets
  <2> QED
    BY <2>2, <2>3, <2>4
<1> QED
  BY <1>1, <1>2, Zenon DEF Passes

(* Without a byte nothing is let through.                                  *)
LEMMA PassesNothing == Passes(<< >>, "Data")
  BY FeedNothing, NoBytes DEF Passes

(* Such bytes with nothing begun after them.                               *)
Quiet(s) == Passes(s, "Data")

(* What is quiet twice is quiet.                                           *)
LEMMA QuietBoth ==
  ASSUME NEW s, Quiet(s), NEW t, Quiet(t)
  PROVE  Quiet(s \o t)
<1>1. s \in Seq(Byte) /\ t \in Seq(Byte) /\ s \o t \in Seq(Byte)
  BY DEF Quiet, Passes
<1>2. ASSUME NEW f \in Filters, f.state = "Data"
      PROVE  Feed(f, s \o t).state = "Data" /\ Feed(f, s \o t).app = f.app
  <2>1. PICK g \in Filters : g = Feed(f, s)
    BY <1>1, FeedType
  <2>2. g.state = "Data" /\ g.app = f.app
    BY <1>2, <2>1 DEF Quiet, Passes
  <2>3. Feed(f, s \o t) = Feed(g, t)
    BY <1>1, <2>1, FeedBoth
  <2>4. Feed(g, t).state = "Data" /\ Feed(g, t).app = g.app
    BY <2>2 DEF Quiet, Passes
  <2> QED
    BY <2>2, <2>3, <2>4
<1> QED
  BY <1>1, <1>2 DEF Quiet, Passes

(* A command about an option is quiet.                                     *)
LEMMA QuietCommand ==
  ASSUME NEW c \in {DO, DONT, WILL, WONT}, NEW o \in Byte
  PROVE  Quiet(<<IAC, c, o>>)
<1>1. IAC \in Byte /\ c \in Byte
  BY OctetsAreBytes DEF Octets
<1>2. /\ ~Lets("Data", IAC) /\ NextState("Data", IAC) = "Iac"
  BY DEF Lets, NextState
<1>3. Append(<< >>, IAC) = <<IAC>> /\ Append(<<IAC>>, c) = <<IAC, c>>
      /\ Append(<<IAC, c>>, o) = <<IAC, c, o>>
  BY OneByte, TwoBytes, ThreeBytes
<1>4. Passes(<<IAC>>, "Iac")
  BY <1>1, <1>2, <1>3, PassesNothing, PassesOn
<1>5. PICK st \in {"Will", "Wont", "Do", "Dont"} : st = Introduces(c)
  BY DEF Introduces
<1>6. ~Lets("Iac", c) /\ NextState("Iac", c) = st
  <2>1. c # IAC /\ c # SB
    BY DEF DO, DONT, WILL, WONT, IAC, SB
  <2> QED
    BY <1>5, <2>1 DEF Lets, NextState
<1>7. Passes(<<IAC, c>>, st)
  BY <1>1, <1>3, <1>4, <1>6, PassesOn
<1>8. ~Lets(st, o) /\ NextState(st, o) = "Data"
  BY DEF Lets, NextState
<1> QED
  BY <1>3, <1>7, <1>8, PassesOn DEF Quiet

TypeAsk == <<IAC, SB, TTYPE, SEND, IAC, SE>>

(* So is the question for the terminal type.                               *)
LEMMA QuietAsk == Quiet(TypeAsk)
<1>1. /\ IAC \in Byte /\ SB \in Byte /\ TTYPE \in Byte /\ SEND \in Byte /\ SE \in Byte
      /\ SB # IAC /\ TTYPE # IAC /\ SEND # IAC /\ SE # IAC
  BY DEF IAC, SB, TTYPE, SEND, SE, Byte
<1>2. /\ ~Lets("Data", IAC) /\ NextState("Data", IAC) = "Iac"
      /\ ~Lets("Iac", SB) /\ NextState("Iac", SB) = "Sub"
      /\ ~Lets("Sub", TTYPE) /\ NextState("Sub", TTYPE) = "Sub"
      /\ ~Lets("Sub", SEND) /\ NextState("Sub", SEND) = "Sub"
      /\ ~Lets("Sub", IAC) /\ NextState("Sub", IAC) = "SubIac"
      /\ ~Lets("SubIac", SE) /\ NextState("SubIac", SE) = "Data"
  BY <1>1 DEF Lets, NextState
<1>3. PICK s1 : s1 = Append(<< >>, IAC)
  OBVIOUS
<1>4. Passes(s1, "Iac")
  BY <1>1, <1>2, <1>3, PassesNothing, PassesOn
<1>5. PICK s2 : s2 = Append(s1, SB)
  OBVIOUS
<1>6. Passes(s2, "Sub")
  BY <1>1, <1>2, <1>4, <1>5, PassesOn
<1>7. PICK s3 : s3 = Append(s2, TTYPE)
  OBVIOUS
<1>8. Passes(s3, "Sub")
  BY <1>1, <1>2, <1>6, <1>7, PassesOn
<1>9. PICK s4 : s4 = Append(s3, SEND)
  OBVIOUS
<1>10. Passes(s4, "Sub")
  BY <1>1, <1>2, <1>8, <1>9, PassesOn
<1>11. PICK s5 : s5 = Append(s4, IAC)
  OBVIOUS
<1>12. Passes(s5, "SubIac")
  BY <1>1, <1>2, <1>10, <1>11, PassesOn
<1>13. PICK s6 : s6 = Append(s5, SE)
  OBVIOUS
<1>14. Passes(s6, "Data")
  BY <1>1, <1>2, <1>12, <1>13, PassesOn
<1>15. TypeAsk =
         Append(Append(Append(Append(Append(Append(<< >>, IAC), SB), TTYPE), SEND), IAC), SE)
  BY DEF TypeAsk
<1> QED
  BY <1>3, <1>5, <1>7, <1>9, <1>11, <1>13, <1>14, <1>15, Zenon DEF Quiet

(* What the server says of itself is quiet, and no data of the user.       *)
Calmly(v, w) ==
  w \in Servers /\ w.got = v.got /\ (Quiet(v.replies) => Quiet(w.replies))

(* Two calm steps make one.                                                *)
LEMMA CalmTwice ==
  ASSUME NEW u, NEW v, NEW w, Calmly(u, v), Calmly(v, w)
  PROVE  Calmly(u, w)
  BY DEF Calmly

(* An answer about an option is calm.                                      *)
LEMMA AnswerCalm ==
  ASSUME NEW v \in Servers, NEW c \in {DO, DONT, WILL, WONT}, NEW o \in Byte
  PROVE  Calmly(v, Answer(v, c, o))
<1>1. c \in Byte
  BY OctetsAreBytes DEF Octets
<1>2. PICK w : w = Answer(v, c, o)
  OBVIOUS
<1>3. w \in Servers /\ w.replies = v.replies \o <<IAC, c, o>>
  BY <1>1, <1>2, AnswerType
<1>4. w.got = v.got
  BY <1>2 DEF Answer, Servers
<1>5. Quiet(<<IAC, c, o>>)
  BY QuietCommand
<1>6. Quiet(v.replies) => Quiet(v.replies \o <<IAC, c, o>>)
  BY <1>5, QuietBoth
<1> QED
  BY <1>2, <1>3, <1>4, <1>6, Zenon DEF Calmly

(* The question for the terminal type is.                                  *)
LEMMA AskTypeCalm ==
  ASSUME NEW v \in Servers
  PROVE  Calmly(v, AskType(v))
<1>1. PICK w : w = AskType(v)
  OBVIOUS
<1>2. w \in Servers
  BY <1>1, AskTypeType
<1>3. w.got = v.got /\ w.replies = v.replies \o TypeAsk
  <2>1. PICK r : r = v.replies \o TypeAsk
    OBVIOUS
  <2>2. PICK p : p = v.pending \cup {<<SB, TTYPE>>}
    OBVIOUS
  <2>3. w = [[v EXCEPT !.replies = r] EXCEPT !.pending = p]
    BY <1>1, <2>1, <2>2 DEF AskType, TypeAsk
  <2>4. DOMAIN v = {"up", "agrees", "at", "replies", "got", "seen", "on", "doing", "pending"}
    BY DEF Servers
  <2> QED
    BY <2>1, <2>3, <2>4
<1>4. Quiet(v.replies) => Quiet(v.replies \o TypeAsk)
  BY QuietAsk, QuietBoth
<1> QED
  BY <1>1, <1>2, <1>3, <1>4, Zenon DEF Calmly

(* So is all the server only remembers.                                    *)
LEMMA FieldsCalm ==
  ASSUME NEW v \in Servers
  PROVE  /\ \A c, o : Calmly(v, Settled(v, c, o))
         /\ \A x \in SUBSET Byte : Calmly(v, [v EXCEPT !.on = x])
         /\ \A x \in SUBSET Byte : Calmly(v, [v EXCEPT !.doing = x])
         /\ \A x \in Byte : Calmly(v, [v EXCEPT !.seen = x])
<1>1. \A c, o : Settled(v, c, o) \in Servers
  BY SettledType
<1>2. \A c, o : Settled(v, c, o).got = v.got /\ Settled(v, c, o).replies = v.replies
  BY ServerKeeps DEF Settled
<1>3. \A x \in SUBSET Byte : /\ [v EXCEPT !.on = x] \in Servers
                             /\ [v EXCEPT !.on = x].got = v.got
                             /\ [v EXCEPT !.on = x].replies = v.replies
  BY ServerFields, ServerKeeps, Zenon
<1>4. \A x \in SUBSET Byte : /\ [v EXCEPT !.doing = x] \in Servers
                             /\ [v EXCEPT !.doing = x].got = v.got
                             /\ [v EXCEPT !.doing = x].replies = v.replies
  BY ServerFields, ServerKeeps, Zenon
<1>5. Byte \subseteq 0..256
  BY DEF Byte
<1>6. \A x \in Byte : /\ [v EXCEPT !.seen = x] \in Servers
                      /\ [v EXCEPT !.seen = x].got = v.got
                      /\ [v EXCEPT !.seen = x].replies = v.replies
  BY <1>5, ServerFields, ServerKeeps, Zenon
<1>7. \A c, o : Calmly(v, Settled(v, c, o))
  BY <1>1, <1>2, Zenon DEF Calmly
<1>8. \A x \in SUBSET Byte : Calmly(v, [v EXCEPT !.on = x])
  BY <1>3, Zenon DEF Calmly
<1>9. \A x \in SUBSET Byte : Calmly(v, [v EXCEPT !.doing = x])
  BY <1>4, Zenon DEF Calmly
<1>10. \A x \in Byte : Calmly(v, [v EXCEPT !.seen = x])
  BY <1>6, Zenon DEF Calmly
<1> QED
  BY <1>7, <1>8, <1>9, <1>10

(* An option that is turned on.                                            *)
LEMMA TurnedOnCalm ==
  ASSUME NEW v \in Servers, NEW o \in Byte
  PROVE  Calmly(v, TurnedOn(v, o))
<1>1. PICK w : w = [v EXCEPT !.on = v.on \cup {o}]
  OBVIOUS
<1>2. v.on \cup {o} \in SUBSET Byte
  BY DEF Servers
<1>3. Calmly(v, w)
  BY <1>1, <1>2, FieldsCalm
<1>4. Calmly(w, AskType(w))
  BY <1>3, AskTypeCalm DEF Calmly
<1>5. TurnedOn(v, o) \in {w, AskType(w)}
  BY <1>1 DEF TurnedOn
<1> QED
  BY <1>3, <1>4, <1>5, CalmTwice

(* An offer that is handled.                                               *)
LEMMA OnOfferCalm ==
  ASSUME NEW v \in Servers, NEW o \in Byte
  PROVE  Calmly(v, OnOffer(v, o))
<1>1. Calmly(v, v)
  BY DEF Calmly
<1>2. PICK w : w = Settled(v, DO, o) /\ Calmly(v, w)
  BY FieldsCalm
<1>3. Calmly(v, TurnedOn(w, o))
  BY <1>2, TurnedOnCalm, CalmTwice DEF Calmly
<1>4. Calmly(v, Answer(v, DONT, o))
  BY AnswerCalm
<1>5. PICK u : u = Answer(v, DO, o) /\ Calmly(v, u)
  BY AnswerCalm
<1>6. Calmly(v, TurnedOn(u, o))
  BY <1>5, TurnedOnCalm, CalmTwice DEF Calmly
<1>7. OnOffer(v, o) \in {v, TurnedOn(w, o), TurnedOn(u, o), Answer(v, DONT, o)}
  BY <1>2, <1>5 DEF OnOffer
<1> QED
  BY <1>1, <1>3, <1>4, <1>6, <1>7

(* A request that is handled.                                              *)
LEMMA OnRequestCalm ==
  ASSUME NEW v \in Servers, NEW o \in Byte
  PROVE  Calmly(v, OnRequest(v, o))
<1>1. Calmly(v, v)
  BY DEF Calmly
<1>2. PICK w : w = Settled(v, WILL, o) /\ Calmly(v, w)
  BY FieldsCalm
<1>3. PICK u : u = Answer(v, WILL, o) /\ Calmly(v, u)
  BY AnswerCalm
<1>4. Calmly(v, Answer(v, WONT, o))
  BY AnswerCalm
<1>5. ASSUME NEW x, Calmly(v, x) PROVE Calmly(v, [x EXCEPT !.doing = x.doing \cup {o}])
  <2>1. x \in Servers /\ x.doing \cup {o} \in SUBSET Byte
    BY <1>5 DEF Calmly, Servers
  <2> QED
    BY <1>5, <2>1, FieldsCalm, CalmTwice
<1>6. OnRequest(v, o) \in {v, [w EXCEPT !.doing = w.doing \cup {o}],
                           [u EXCEPT !.doing = u.doing \cup {o}], Answer(v, WONT, o)}
  BY <1>2, <1>3 DEF OnRequest
<1> QED
  BY <1>1, <1>2, <1>3, <1>4, <1>5, <1>6

(* A command is no data, and every other message is one byte of them.      *)
LEMMA HandleData ==
  ASSUME NEW v \in Servers, NEW m \in Messages
  PROVE  /\ m \in Orders => Calmly(v, Handle(v, m))
         /\ m \notin Orders => /\ Handle(v, m) \in Servers
                               /\ Handle(v, m).got = Append(v.got, m[1])
                               /\ Handle(v, m).replies = v.replies
<1>1. /\ m[1] \in Byte
      /\ m[1] = IAC => m[2] \in {IAC, NOP, DO, DONT, WILL, WONT, SB}
      /\ m[1] = IAC /\ m[2] \in {DO, DONT, WILL, WONT} => m[3] \in Byte
      /\ m[1] = IAC /\ m[2] = SB => m[3] \in Byte /\ m[4] \in Byte
  BY MessageTypes
<1>2. CASE m \notin Orders
  <2>1. Handle(v, m) = [v EXCEPT !.got = Append(v.got, m[1])]
    BY <1>2, Handling DEF Orders
  <2>2. PICK x : x = Append(v.got, m[1])
    OBVIOUS
  <2>3. [v EXCEPT !.got = x].got = x /\ [v EXCEPT !.got = x].replies = v.replies
    BY ServerKeeps
  <2> QED
    BY <1>2, <2>1, <2>2, <2>3, HandleType, Zenon
<1>3. CASE m \in Orders
  <2> SUFFICES Calmly(v, Handle(v, m))
    BY <1>3
  <2>1. m[1] = IAC /\ m[2] \in {NOP, DO, DONT, WILL, WONT, SB}
    BY <1>1, <1>3 DEF Orders
  <2>2. CASE m[2] = NOP
    BY <2>1, <2>2, Handling DEF Calmly
  <2>3. CASE m[2] = SB
    <3>1. Handle(v, m) = IF m[3] = NAWS THEN [v EXCEPT !.seen = m[4]] ELSE Settled(v, SB, m[3])
      BY <2>1, <2>3, Handling
    <3>2. Calmly(v, [v EXCEPT !.seen = m[4]]) /\ Calmly(v, Settled(v, SB, m[3]))
      BY <1>1, <2>1, <2>3, FieldsCalm
    <3> QED
      BY <3>1, <3>2
  <2>4. CASE m[2] = WILL
    BY <1>1, <2>1, <2>4, Handling, OnOfferCalm
  <2>5. CASE m[2] = WONT
    <3>1. PICK w : w = Settled(v, DO, m[3]) /\ Calmly(v, w)
      BY FieldsCalm
    <3>2. Handle(v, m) = [w EXCEPT !.on = w.on \ {m[3]}]
      BY <2>1, <2>5, <3>1, Handling
    <3>3. w \in Servers /\ w.on \ {m[3]} \in SUBSET Byte
      BY <3>1 DEF Calmly, Servers
    <3>4. Calmly(w, Handle(v, m))
      BY <3>2, <3>3, FieldsCalm
    <3> QED
      BY <3>1, <3>4, CalmTwice
  <2>6. CASE m[2] = DO
    BY <1>1, <2>1, <2>6, Handling, OnRequestCalm
  <2>7. CASE m[2] = DONT
    <3>1. PICK w : w = Settled(v, WILL, m[3]) /\ Calmly(v, w)
      BY FieldsCalm
    <3>2. Handle(v, m) = [w EXCEPT !.doing = w.doing \ {m[3]}]
      BY <2>1, <2>7, <3>1, Handling
    <3>3. w \in Servers /\ w.doing \ {m[3]} \in SUBSET Byte
      BY <3>1 DEF Calmly, Servers
    <3>4. Calmly(w, Handle(v, m))
      BY <3>2, <3>3, FieldsCalm
    <3> QED
      BY <3>1, <3>4, CalmTwice
  <2> QED
    BY <2>1, <2>2, <2>3, <2>4, <2>5, <2>6, <2>7
<1> QED
  BY <1>2, <1>3

(* Handled is the loop of Handle.                                          *)
LEMMA HandledAlong ==
  ASSUME NEW v, NEW ms
  PROVE  Handled(v, ms) = Along(HandleStep, v, ms)
  BY DEF Handled, HandleStep

(* Without a message a server stays what it was.                           *)
LEMMA HandledNothing ==
  ASSUME NEW v \in Servers
  PROVE  Handled(v, << >>) = v
<1>1. Along(HandleStep, v, << >>) = v
  BY HandleTakes, AlongEmpty
<1> QED
  BY <1>1, HandledAlong

(* The last message is one more step.                                      *)
LEMMA HandledOne ==
  ASSUME NEW v \in Servers, NEW ms \in Seq(Messages), NEW m \in Messages
  PROVE  Handled(v, Append(ms, m)) = Handle(Handled(v, ms), m)
<1>1. Along(HandleStep, v, Append(ms, m)) = HandleStep[<<Along(HandleStep, v, ms), m>>]
  BY HandleTakes, AlongAppend
<1>2. \A w \in Servers, n \in Messages : HandleStep[<<w, n>>] = Handle(w, n)
  BY DEF HandleStep
<1>3. Along(HandleStep, v, ms) \in Servers
  BY HandleTakes, AlongType
<1> QED
  BY <1>1, <1>2, <1>3, HandledAlong

(* Messages after messages are handled after them.                         *)
LEMMA HandledBoth ==
  ASSUME NEW v \in Servers, NEW ms \in Seq(Messages), NEW ns \in Seq(Messages)
  PROVE  Handled(v, ms \o ns) = Handled(Handled(v, ms), ns)
<1>1. Along(HandleStep, v, ms \o ns) = Along(HandleStep, Along(HandleStep, v, ms), ns)
  BY HandleTakes, AlongConcat
<1> QED
  BY <1>1, HandledAlong

(* What the server has of the data is what the data messages say.          *)
LEMMA HandledSame ==
  ASSUME NEW v \in Servers, NEW w \in Servers, v.got = w.got, NEW ms \in Seq(Messages)
  PROVE  Handled(v, ms).got = Handled(w, ms).got
<1> DEFINE P == {ns \in Seq(Messages) : Handled(v, ns).got = Handled(w, ns).got}
<1>1. << >> \in P
  <2>1. << >> \in Seq(Messages)
    OBVIOUS
  <2> QED
    BY <2>1, HandledNothing
<1>2. ASSUME NEW ns \in Seq(Messages), NEW m \in Messages, ns \in P PROVE Append(ns, m) \in P
  <2>1. PICK x \in Servers : x = Handled(v, ns)
    BY HandledType
  <2>2. PICK y \in Servers : y = Handled(w, ns)
    BY HandledType
  <2>3. x.got = y.got
    BY <1>2, <2>1, <2>2
  <2>4. Handle(x, m).got = Handle(y, m).got
    <3>1. CASE m \in Orders
      <4>1. Handle(x, m).got = x.got /\ Handle(y, m).got = y.got
        BY <3>1, HandleData DEF Calmly
      <4> QED
        BY <2>3, <4>1
    <3>2. CASE m \notin Orders
      <4>1. Handle(x, m).got = Append(x.got, m[1]) /\ Handle(y, m).got = Append(y.got, m[1])
        BY <3>2, HandleData
      <4> QED
        BY <2>3, <4>1
    <3> QED
      BY <3>1, <3>2
  <2>5. Handled(v, Append(ns, m)) = Handle(x, m) /\ Handled(w, Append(ns, m)) = Handle(y, m)
    BY <2>1, <2>2, HandledOne
  <2>6. Append(ns, m) \in Seq(Messages)
    OBVIOUS
  <2> QED
    BY <2>4, <2>5, <2>6
<1> HIDE DEF P
<1>3. Seq(Messages) \subseteq P
  BY <1>1, <1>2, ByAppending
<1>4. ms \in P
  BY <1>3
<1> QED
  BY <1>4 DEF P

(* s is the beginning of u.                                                *)
Begins(s, u) == \E x \in Seq(Byte) : s \o x = u

(* The server takes data in order, and answers with commands.              *)
LEMMA HandledGrows ==
  ASSUME NEW v \in Servers, NEW ms \in Seq(Messages)
  PROVE  /\ Begins(v.got, Handled(v, ms).got)
         /\ Quiet(v.replies) => Quiet(Handled(v, ms).replies)
<1> DEFINE Fine(ns) == /\ Begins(v.got, Handled(v, ns).got)
                       /\ Quiet(v.replies) => Quiet(Handled(v, ns).replies)
           P == {ns \in Seq(Messages) : Fine(ns)}
<1>0. PICK g \in Seq(Byte) : g = v.got
  BY DEF Servers
<1>1. << >> \in P
  <2>1. << >> \in Seq(Messages)
    OBVIOUS
  <2>2. g \o << >> = g
    OBVIOUS
  <2>3. Begins(v.got, v.got)
    BY <1>0, <2>2, NoBytes DEF Begins
  <2> QED
    BY <2>1, <2>3, HandledNothing
<1>2. ASSUME NEW ns \in Seq(Messages), NEW m \in Messages, ns \in P PROVE Append(ns, m) \in P
  <2>1. PICK x \in Servers : x = Handled(v, ns)
    BY HandledType
  <2>2. PICK t \in Seq(Byte) : g \o t = x.got
    BY <1>0, <1>2, <2>1 DEF Begins
  <2>3. Quiet(v.replies) => Quiet(x.replies)
    BY <1>2, <2>1
  <2>4. Handled(v, Append(ns, m)) = Handle(x, m)
    BY <2>1, HandledOne
  <2>5. Append(ns, m) \in Seq(Messages)
    OBVIOUS
  <2>6. CASE m \in Orders
    <3>1. Handle(x, m).got = x.got /\ (Quiet(x.replies) => Quiet(Handle(x, m).replies))
      BY <2>6, HandleData DEF Calmly
    <3> QED
      BY <1>0, <2>2, <2>3, <2>4, <2>5, <3>1 DEF Begins
  <2>7. CASE m \notin Orders
    <3>1. Handle(x, m).got = Append(x.got, m[1]) /\ Handle(x, m).replies = x.replies
      BY <2>7, HandleData
    <3>2. PICK b \in Byte : b = m[1]
      BY MessageTypes
    <3>3. g \o Append(t, b) = Append(g \o t, b) /\ Append(t, b) \in Seq(Byte)
      BY ConcatAppend, AppendByte
    <3>4. Begins(v.got, Handle(x, m).got)
      BY <1>0, <2>2, <3>1, <3>2, <3>3 DEF Begins
    <3> QED
      BY <2>3, <2>4, <2>5, <3>1, <3>4
  <2> QED
    BY <2>6, <2>7
<1> HIDE DEF P
<1>3. Seq(Messages) \subseteq P
  BY <1>1, <1>2, ByAppending
<1>4. ms \in P
  BY <1>3
<1> QED
  BY <1>4 DEF P

(* Commands change nothing in the data.                                    *)
LEMMA HandledOrders ==
  ASSUME NEW v \in Servers, NEW ms \in Seq(Orders)
  PROVE  ms \in Seq(Messages) /\ Handled(v, ms).got = v.got
<1> DEFINE P == {ns \in Seq(Orders) : ns \in Seq(Messages) /\ Handled(v, ns).got = v.got}
<1>1. << >> \in P
  <2>1. << >> \in Seq(Messages) /\ << >> \in Seq(Orders)
    OBVIOUS
  <2> QED
    BY <2>1, HandledNothing
<1>2. ASSUME NEW ns \in Seq(Orders), NEW m \in Orders, ns \in P PROVE Append(ns, m) \in P
  <2>1. m \in Messages /\ ns \in Seq(Messages)
    BY <1>2 DEF Orders
  <2>2. PICK x \in Servers : x = Handled(v, ns)
    BY <2>1, HandledType
  <2>3. x.got = v.got
    BY <1>2, <2>2
  <2>4. Handled(v, Append(ns, m)) = Handle(x, m)
    BY <2>1, <2>2, HandledOne
  <2>5. Handle(x, m).got = x.got
    BY <2>1, HandleData DEF Calmly
  <2>6. Append(ns, m) \in Seq(Messages) /\ Append(ns, m) \in Seq(Orders)
    BY <2>1
  <2> QED
    BY <2>3, <2>4, <2>5, <2>6
<1> HIDE DEF P
<1>3. Seq(Orders) \subseteq P
  BY <1>1, <1>2, ByAppending
<1>4. ms \in P
  BY <1>3
<1> QED
  BY <1>4 DEF P

(* What comes to the terminal: what it has not got yet is on the way, and  *)
(* no command is cut through where the bytes on the way end.               *)
ToTerminal ==
  /\ server.replies = << >>
  /\ Feed(filter, toClient).state = "Data"
  /\ link # "ended" => shown \o Feed(filter, toClient).app = output
  /\ link = "ended" => Begins(shown, output)
  /\ closed = "remote" => shown = output

(* The terminal has the beginning of what the host printed.                *)
LEMMA TerminalBegins ==
  ASSUME TelnetTypeOK, ToTerminal
  PROVE  Begins(shown, output)
<1>1. filter \in Filters /\ toClient \in Seq(Byte)
  BY DEF TelnetTypeOK
<1>2. PICK f \in Filters : f = Feed(filter, toClient)
  BY <1>1, FeedType
<1>3. f.app \in Seq(Byte)
  BY DEF Filters
<1> QED
  BY <1>2, <1>3 DEF ToTerminal, Begins

(* A step that has nothing to do with it.                                  *)
LEMMA TerminalStays ==
  ASSUME TelnetTypeOK, ToTerminal, UNCHANGED <<filter, toClient, shown, output>>,
         server'.replies = server.replies,
         \/ link' = link /\ closed' = closed
         \/ link' = "ended" /\ closed' = "local"
         \/ link' = "up" /\ link = "connecting" /\ closed' = closed
  PROVE  ToTerminal'
<1>1. Begins(shown, output)
  BY TerminalBegins
<1>2. Feed(filter, toClient)' = Feed(filter, toClient)
  BY Zenon
<1> QED
  BY <1>1, <1>2 DEF ToTerminal, Begins

(* The same before and after a filter is emptied or told a size.           *)
LEMMA FilterAlike ==
  ASSUME NEW f \in Filters, NEW g \in Filters, g.state = f.state, g.app = << >>,
         NEW s \in Seq(Byte)
  PROVE  /\ Feed(f, s).state = Feed(g, s).state
         /\ Feed(f, s).app = f.app \o Feed(g, s).app
<1>1. PICK a \in Seq(Byte) : a = f.app
  BY DEF Filters
<1>2. a \o << >> = a
  BY <1>1
<1>3. Ahead(f, g, a)
  BY <1>1, <1>2 DEF Ahead
<1>4. Ahead(Feed(f, s), Feed(g, s), a)
  BY <1>3, FeedAhead
<1> QED
  BY <1>1, <1>4 DEF Ahead

(* Putting bytes together is associative.                                  *)
LEMMA ConcatThree ==
  ASSUME NEW s \in Seq(Byte), NEW t \in Seq(Byte), NEW u \in Seq(Byte)
  PROVE  (s \o t) \o u = s \o (t \o u)
  OBVIOUS

(* Nothing in front of bytes changes nothing.                              *)
LEMMA EmptyBefore ==
  ASSUME NEW s \in Seq(Byte)
  PROVE  << >> \o s = s
  OBVIOUS

(* The command of a size leaves the filter as it was but for the size.     *)
LEMMA TerminalResized ==
  ASSUME TelnetTypeOK, ToTerminal, TakeCommand, TakeResize
  PROVE  ToTerminal'
<1>1. PICK x \in Sizes : x = Head(commands)[2]
  BY FirstCommand, CommandTypes DEF TakeCommand, TakeResize
<1>2. PICK f : f = Resized(filter, x)
  OBVIOUS
<1>3. filter \in Filters /\ filter.app = << >> /\ toClient \in Seq(Byte)
  BY DEF TelnetTypeOK
<1>4. f \in Filters /\ f.app = << >> /\ f.state = filter.state
  <2>1. f \in Filters /\ f.app = << >>
    BY <1>2, <1>3, ResizedType
  <2>2. f.state = filter.state
    BY <1>2, <1>3 DEF Resized, Filters
  <2> QED
    BY <2>1, <2>2
<1>5. PICK g : g = [f EXCEPT !.replies = << >>]
  OBVIOUS
<1>6. filter' = g
  BY <1>1, <1>2, <1>5 DEF TakeResize
<1>7. g \in Filters /\ g.state = filter.state /\ g.app = << >>
  BY <1>4, <1>5, FilterTaken
<1>8. PICK h \in Filters : h = Feed(g, toClient)
  BY <1>3, <1>7, FeedType
<1>9. /\ Feed(filter, toClient).state = h.state
      /\ Feed(filter, toClient).app = << >> \o h.app
  <2>1. /\ Feed(filter, toClient).state = Feed(g, toClient).state
        /\ Feed(filter, toClient).app = filter.app \o Feed(g, toClient).app
    BY <1>3, <1>7, FilterAlike
  <2> QED
    BY <1>3, <1>8, <2>1, Zenon
<1>10. << >> \o h.app = h.app
  BY EmptyBefore DEF Filters
<1>11. Feed(filter, toClient)' = h
  BY <1>6, <1>8 DEF TakeCommand
<1>12. /\ UNCHANGED <<toClient, shown, output>> /\ server'.replies = server.replies
       /\ \/ link' = link /\ closed' = closed
          \/ link' = "ended" /\ closed' = "local"
  BY DEF TakeCommand, TakeResize, Written, Ends
<1>13. Begins(shown, output)
  BY TerminalBegins
<1> QED
  BY <1>9, <1>10, <1>11, <1>12, <1>13 DEF ToTerminal, Begins

(* A chunk: what it has let through was the beginning of what was to come. *)
LEMMA TerminalChunk ==
  ASSUME TelnetTypeOK, ToTerminal, ReadChunk
  PROVE  ToTerminal'
<1>1. /\ toClient \in Seq(Byte) /\ filter \in Filters /\ link = "up" /\ shown \in Seq(Byte)
      /\ closed = "no" /\ filter.app = << >>
  BY DEF TelnetTypeOK, ReadChunk
<1>2. PICK n \in 1..Len(toClient) :
        LET f == Feed(filter, SubSeq(toClient, 1, n)) IN
          /\ toClient' = SubSeq(toClient, n + 1, Len(toClient))
          /\ filter' = [f EXCEPT !.replies = <<>>, !.app = <<>>]
          /\ Written(f.replies)
          /\ shown' = IF link' = "up" THEN shown \o f.app ELSE shown
  BY DEF ReadChunk
<1>3. PICK s \in Seq(Byte), t \in Seq(Byte) :
        /\ s = SubSeq(toClient, 1, n) /\ t = SubSeq(toClient, n + 1, Len(toClient))
        /\ toClient = s \o t
  BY <1>1, ChunkTypes
<1>4. PICK f \in Filters : f = Feed(filter, s)
  BY <1>1, FeedType
<1>5. PICK g : g = [f EXCEPT !.replies = <<>>, !.app = <<>>]
  OBVIOUS
<1>6. filter' = g /\ toClient' = t /\ Written(f.replies)
      /\ shown' = IF link' = "up" THEN shown \o f.app ELSE shown
  BY <1>2, <1>3, <1>4, <1>5, Zenon
<1>7. g \in Filters /\ g.state = f.state /\ g.app = << >>
  BY <1>5, FilterTaken
<1>8. PICK h \in Filters : h = Feed(g, t)
  BY <1>7, FeedType
<1>9. Feed(filter, toClient) = Feed(f, t)
  <2>1. Feed(filter, s \o t) = Feed(Feed(filter, s), t)
    BY <1>1, FeedBoth
  <2> QED
    BY <1>3, <1>4, <2>1, Zenon
<1>10. Feed(f, t).state = h.state /\ Feed(f, t).app = f.app \o h.app
  <2>1. Feed(f, t).state = Feed(g, t).state /\ Feed(f, t).app = f.app \o Feed(g, t).app
    BY <1>7, FilterAlike
  <2> QED
    BY <1>8, <2>1, Zenon
<1>11. h.state = "Data" /\ shown \o (f.app \o h.app) = output
  BY <1>1, <1>9, <1>10 DEF ToTerminal
<1>12. f.app \in Seq(Byte) /\ h.app \in Seq(Byte)
  BY DEF Filters
<1>13. (shown \o f.app) \o h.app = output
  <2>1. \A p, q, r \in Seq(Byte) : (p \o q) \o r = p \o (q \o r)
    BY ConcatThree
  <2>2. shown \in Seq(Byte)
    BY <1>1
  <2>3. (shown \o f.app) \o h.app = shown \o (f.app \o h.app)
    BY <1>12, <2>1, <2>2, Zenon
  <2> QED
    BY <1>11, <2>3, Zenon
<1>14. Feed(filter, toClient)' = h
  BY <1>6, <1>8, Zenon
<1>15. server' = server /\ output' = output
  BY DEF ReadChunk
<1>16. \/ link' = "up" /\ closed' = "no"
       \/ link' = "ended" /\ closed' = "local"
  BY <1>1, <1>6 DEF Written, Ends
<1>17. CASE link' = "up"
  BY <1>6, <1>11, <1>13, <1>14, <1>15, <1>16, <1>17 DEF ToTerminal
<1>18. CASE link' = "ended"
  <2>1. Begins(shown, output)
    BY TerminalBegins
  <2> QED
    BY <1>6, <1>11, <1>14, <1>15, <1>16, <1>18, <2>1 DEF ToTerminal, Begins
<1> QED
  BY <1>16, <1>17, <1>18

(* The server sends something the terminal gets nothing of.                *)
LEMMA TerminalQuiet ==
  ASSUME TelnetTypeOK, ToTerminal, NEW r, Quiet(r), toClient' = toClient \o r,
         server'.replies = << >>, UNCHANGED <<link, closed, filter, shown, output>>
  PROVE  ToTerminal'
<1>1. filter \in Filters /\ toClient \in Seq(Byte) /\ r \in Seq(Byte)
  BY DEF TelnetTypeOK, Quiet, Passes
<1>2. PICK f \in Filters : f = Feed(filter, toClient)
  BY <1>1, FeedType
<1>3. Feed(filter, toClient \o r) = Feed(f, r)
  BY <1>1, <1>2, FeedBoth
<1>4. f.state = "Data"
  BY <1>2 DEF ToTerminal
<1>5. Feed(f, r).state = "Data" /\ Feed(f, r).app = f.app
  BY <1>4 DEF Quiet, Passes
<1>6. Feed(filter, toClient)' = Feed(f, r)
  BY <1>3, Zenon
<1> QED
  BY <1>2, <1>5, <1>6 DEF ToTerminal, Begins

(* The server reads, and what it answers is quiet.                         *)
LEMMA TerminalReads ==
  ASSUME TelnetTypeOK, ToTerminal, ServerReads
  PROVE  ToTerminal'
<1>1. toServer \in Seq(Byte) /\ server \in Servers /\ server.at \in Seq(Byte)
  BY DEF TelnetTypeOK, Servers
<1>2. PICK ms \in Seq(Messages) : ms = Collected(server.at, toServer).msgs
  BY <1>1, CollectedType
<1>3. PICK done \in Servers : done = Handled(server, ms)
  BY <1>1, HandledType
<1>4. server.replies = << >>
  BY DEF ToTerminal
<1>5. Quiet(server.replies)
  BY <1>4, PassesNothing DEF Quiet
<1>6. Quiet(done.replies)
  BY <1>1, <1>3, <1>5, HandledGrows
<1>7. /\ server' = [done EXCEPT !.at = Collected(server.at, toServer).at, !.replies = << >>]
      /\ toClient' = toClient \o done.replies
  BY <1>2, <1>3 DEF ServerReads
<1>8. server'.replies = << >>
  BY <1>3, <1>7 DEF Servers
<1>9. UNCHANGED <<link, closed, filter, shown, output>>
  BY DEF ServerReads, client
<1> QED
  BY <1>6, <1>7, <1>8, <1>9, TerminalQuiet

(* What the server asks is quiet.                                          *)
LEMMA TerminalAsked ==
  ASSUME TelnetTypeOK, ToTerminal, ServerAsks
  PROVE  ToTerminal'
<1>1. PICK c \in {DO, DONT, WILL, WONT}, o \in Asked :
        /\ toClient' = toClient \o <<IAC, c, o>>
        /\ server' = CASE c \in {DO, WILL} ->
                            [server EXCEPT !.pending = @ \cup {<<c, o>>}]
                       [] c = DONT -> [server EXCEPT !.on = @ \ {o}]
                       [] c = WONT -> [server EXCEPT !.doing = @ \ {o}]
  BY DEF ServerAsks
<1>2. Quiet(<<IAC, c, o>>)
  BY QuietCommand, TelnetAssumption
<1>3. server \in Servers /\ server.replies = << >>
  BY DEF TelnetTypeOK, ToTerminal
<1>4. \A x : /\ [server EXCEPT !.pending = x].replies = << >>
             /\ [server EXCEPT !.on = x].replies = << >>
             /\ [server EXCEPT !.doing = x].replies = << >>
  BY <1>3 DEF Servers
<1>5. server'.replies = << >>
  BY <1>1, <1>4 DEF DO, DONT, WILL, WONT
<1>6. UNCHANGED <<link, closed, filter, shown, output>>
  BY DEF ServerAsks, client
<1> QED
  BY <1>1, <1>2, <1>5, <1>6, TerminalQuiet

(* The host prints: what it escaped is let through as the byte it was.     *)
LEMMA PrintedFeed ==
  ASSUME NEW f \in Filters, f.state = "Data", NEW b \in Byte, NEW r,
         r = IF b = IAC THEN <<IAC, IAC>> ELSE <<b>>
  PROVE  r \in Seq(Byte) /\ Feed(f, r).state = "Data" /\ Feed(f, r).app = Append(f.app, b)
<1>1. IAC \in Byte
  BY OctetsAreBytes DEF Octets
<1>2. Feed(f, << >>) = f
  BY FeedNothing
<1>3. ASSUME NEW x \in Byte PROVE Feed(f, <<x>>) = Step(f, x)
  <2>1. Feed(f, Append(<< >>, x)) = Step(Feed(f, << >>), x)
    BY NoBytes, FeedOne
  <2>2. Append(<< >>, x) = <<x>>
    BY OneByte
  <2> QED
    BY <1>2, <2>1, <2>2, Zenon
<1>4. CASE b # IAC
  <2>1. r = <<b>> /\ r \in Seq(Byte)
    BY <1>4
  <2>2. NextState("Data", b) = "Data" /\ Lets("Data", b)
    BY <1>4 DEF NextState, Lets
  <2>3. Step(f, b).state = "Data" /\ Step(f, b).app = Append(f.app, b)
    BY <2>2, StepLets
  <2>4. Feed(f, <<b>>) = Step(f, b)
    BY <1>3
  <2> QED
    BY <2>1, <2>3, <2>4, Zenon
<1>5. CASE b = IAC
  <2>1. r = <<IAC, IAC>> /\ r \in Seq(Byte)
    BY <1>1, <1>5
  <2>2. PICK g \in Filters : g = Step(f, IAC)
    BY <1>1, StepType
  <2>3. ~Lets("Data", IAC) /\ NextState("Data", IAC) = "Iac"
    BY DEF Lets, NextState
  <2>4. g.state = "Iac" /\ g.app = f.app
    BY <1>1, <2>2, <2>3, StepLets
  <2>5. Lets("Iac", IAC) /\ NextState("Iac", IAC) = "Data"
    BY DEF Lets, NextState
  <2>6. Step(g, IAC).state = "Data" /\ Step(g, IAC).app = Append(f.app, IAC)
    BY <1>1, <2>4, <2>5, StepLets
  <2>7. Feed(f, <<IAC>>) = g
    BY <1>1, <1>3, <2>2
  <2>8. <<IAC>> \in Seq(Byte)
    BY <1>1
  <2>9. Feed(f, Append(<<IAC>>, IAC)) = Step(Feed(f, <<IAC>>), IAC)
    BY <1>1, <2>8, FeedOne
  <2>10. Append(<<IAC>>, IAC) = <<IAC, IAC>>
    BY TwoBytes
  <2>11. Feed(f, <<IAC, IAC>>) = Step(g, IAC)
    BY <2>7, <2>9, <2>10, Zenon
  <2> QED
    BY <1>5, <2>1, <2>6, <2>11, Zenon
<1> QED
  BY <1>4, <1>5

(* A byte of the host is to come to the terminal.                          *)
LEMMA TerminalPrints ==
  ASSUME TelnetTypeOK, ToTerminal, HostPrints
  PROVE  ToTerminal'
<1>1. PICK b \in Typed : /\ output' = Append(output, b)
                         /\ toClient' = toClient \o (IF b = IAC THEN <<IAC, IAC>> ELSE <<b>>)
  BY DEF HostPrints
<1>2. b \in Byte
  BY TypedAreBytes
<1>3. filter \in Filters /\ toClient \in Seq(Byte) /\ shown \in Seq(Byte) /\ link = "up"
      /\ closed = "no"
  BY DEF TelnetTypeOK, HostPrints
<1>4. PICK f \in Filters : f = Feed(filter, toClient)
  BY <1>3, FeedType
<1>5. f.state = "Data" /\ shown \o f.app = output
  BY <1>3, <1>4 DEF ToTerminal
<1>6. PICK r : r = IF b = IAC THEN <<IAC, IAC>> ELSE <<b>>
  OBVIOUS
<1>7. r \in Seq(Byte) /\ Feed(f, r).state = "Data" /\ Feed(f, r).app = Append(f.app, b)
  BY <1>2, <1>5, <1>6, PrintedFeed
<1>8. Feed(filter, toClient \o r) = Feed(f, r)
  BY <1>3, <1>4, <1>7, FeedBoth
<1>9. UNCHANGED <<link, closed, filter, shown, server>>
  BY DEF HostPrints, client
<1>10. Feed(filter, toClient)' = Feed(f, r)
  BY <1>1, <1>6, <1>8, <1>9, Zenon
<1>11. PICK p \in Seq(Byte) : p = f.app
  BY DEF Filters
<1>12. shown \o Append(p, b) = Append(shown \o p, b)
  BY <1>2, <1>3, ConcatAppend
<1>13. shown' \o Feed(filter, toClient)'.app = output'
  BY <1>1, <1>5, <1>7, <1>9, <1>10, <1>11, <1>12, Zenon
<1> QED
  BY <1>3, <1>7, <1>9, <1>10, <1>13 DEF ToTerminal

(* When the server hung up and all was read, the terminal has all.         *)
LEMMA TerminalEnds ==
  ASSUME TelnetTypeOK, ToTerminal, ReadEnd
  PROVE  ToTerminal'
<1>1. filter \in Filters /\ filter.app = << >> /\ toClient = << >> /\ link = "up"
      /\ shown \in Seq(Byte)
  BY DEF TelnetTypeOK, ReadEnd
<1>2. Feed(filter, << >>) = filter
  BY <1>1, FeedNothing
<1>3. shown \o << >> = shown
  BY <1>1
<1>4. shown = output
  BY <1>1, <1>2, <1>3 DEF ToTerminal
<1>5. Begins(shown, output)
  BY <1>3, <1>4, NoBytes DEF Begins
<1>6. UNCHANGED <<filter, toClient, shown, output, server>> /\ link' = "ended"
  BY DEF ReadEnd, Ends
<1> QED
  BY <1>4, <1>5, <1>6 DEF ToTerminal, Begins

(* Every step keeps what comes to the terminal.                            *)
LEMMA TerminalStep ==
  ASSUME TelnetTypeOK, ToTerminal, TelnetNext
  PROVE  ToTerminal'
<1>1. CASE Connect
  BY <1>1, TerminalStays DEF Connect
<1>2. CASE ConnectFails
  BY <1>2, TerminalStays DEF ConnectFails, Ends
<1>3. CASE ReadFails
  BY <1>3, TerminalStays DEF ReadFails, Ends
<1>4. CASE TakeCommand
  <2>1. CASE TakeWrite
    BY <1>4, <2>1, TerminalStays DEF TakeCommand, TakeWrite, Written, Ends
  <2>2. CASE TakeDisconnect
    BY <1>4, <2>2, TerminalStays DEF TakeCommand, TakeDisconnect, Ends
  <2> QED
    BY <1>4, <2>1, <2>2, TerminalResized DEF TakeCommand
<1>5. CASE HangsUp
  <2>1. server'.replies = server.replies
    BY <1>5 DEF HangsUp, TelnetTypeOK, Servers
  <2> QED
    BY <1>5, <2>1, TerminalStays DEF HangsUp, client
<1>6. CASE Types \/ Resizes \/ Disconnects
  BY <1>6, TerminalStays DEF Types, Resizes, Disconnects
<1> QED
  BY <1>1, <1>2, <1>3, <1>4, <1>5, <1>6, TerminalChunk, TerminalReads, TerminalAsked,
     TerminalPrints, TerminalEnds DEF TelnetNext, ThreadStep

-----------------------------------------------------------------------------
(* Telnet: what goes to the host.                                          *)

(* What the commands that wait will write.                                 *)
Writes ==
  [x \in Seq(Byte) \X Commands |-> IF x[2][1] = "write" THEN x[1] \o x[2][2] ELSE x[1]]

(* The data of the user that a server has when it has read s.              *)
Reached(v, s) == Handled(v, Collected(<< >>, s).msgs).got

(* What goes to the host: what the server has not got of it is on the way  *)
(* or waits, and no command is cut through where the bytes on the way end. *)
ToHost ==
  /\ server.at = << >>
  /\ Collected(<< >>, toServer).at = << >>
  /\ link = "connecting" => toServer = << >>
  /\ link # "ended" => Along(Writes, Reached(server, toServer), commands) = typed
  /\ link = "ended" => Begins(Reached(server, toServer), typed)

(* Commands lead from bytes to bytes.                                      *)
LEMMA WritesTake == Takes(Writes, Seq(Byte), Commands)
<1>1. ASSUME NEW s \in Seq(Byte), NEW c \in Commands
      PROVE  (IF c[1] = "write" THEN s \o c[2] ELSE s) \in Seq(Byte)
  <2>1. CASE c[1] = "write"
    <3>1. PICK b \in Typed : c[2] = <<b>>
      BY <2>1, CommandTypes
    <3>2. <<b>> \in Seq(Byte)
      BY TypedAreBytes
    <3>3. PICK e \in Seq(Byte) : e = c[2]
      BY <3>1, <3>2
    <3> QED
      BY <2>1, <3>3
  <2> QED
    BY <2>1
<1> QED
  BY <1>1 DEF Takes, Writes

(* What one command adds.                                                  *)
LEMMA WritesOf ==
  ASSUME NEW s \in Seq(Byte), NEW c \in Commands
  PROVE  Writes[<<s, c>>] = IF c[1] = "write" THEN s \o c[2] ELSE s
  BY DEF Writes

(* What the server will have got is bytes.                                 *)
LEMMA ReachedType ==
  ASSUME NEW v \in Servers, NEW s \in Seq(Byte)
  PROVE  Reached(v, s) \in Seq(Byte)
<1>1. PICK ms \in Seq(Messages) : ms = Collected(<< >>, s).msgs
  BY NoBytes, CollectedType
<1>2. PICK w \in Servers : w = Handled(v, ms)
  BY HandledType
<1>3. w.got \in Seq(Byte)
  BY DEF Servers
<1> QED
  BY <1>1, <1>2, <1>3, Zenon DEF Reached

(* Bytes begin with themselves.                                            *)
LEMMA BeginsAll ==
  ASSUME NEW s \in Seq(Byte)
  PROVE  Begins(s, s)
<1>1. s \o << >> = s
  OBVIOUS
<1> QED
  BY <1>1, NoBytes DEF Begins

(* The beginning of a beginning is one.                                    *)
LEMMA BeginsMore ==
  ASSUME NEW s \in Seq(Byte), NEW t \in Seq(Byte), NEW u, Begins(s, t), Begins(t, u)
  PROVE  Begins(s, u)
<1>1. PICK x \in Seq(Byte) : s \o x = t
  BY DEF Begins
<1>2. PICK y \in Seq(Byte) : t \o y = u
  BY DEF Begins
<1>3. (s \o x) \o y = s \o (x \o y) /\ x \o y \in Seq(Byte)
  BY ConcatThree
<1>4. s \o (x \o y) = u
  BY <1>1, <1>2, <1>3, Zenon
<1> QED
  BY <1>3, <1>4, Zenon DEF Begins

(* What waits only adds to what is there.                                  *)
LEMMA WritesGrow ==
  ASSUME NEW s \in Seq(Byte), NEW cs \in Seq(Commands)
  PROVE  Begins(s, Along(Writes, s, cs))
<1> DEFINE P == {ds \in Seq(Commands) : Begins(s, Along(Writes, s, ds))}
<1>1. << >> \in P
  <2>1. << >> \in Seq(Commands)
    OBVIOUS
  <2>2. Along(Writes, s, << >>) = s
    BY WritesTake, AlongEmpty
  <2> QED
    BY <2>1, <2>2, BeginsAll
<1>2. ASSUME NEW ds \in Seq(Commands), NEW c \in Commands, ds \in P PROVE Append(ds, c) \in P
  <2>1. Append(ds, c) \in Seq(Commands)
    OBVIOUS
  <2>2. PICK t \in Seq(Byte) : t = Along(Writes, s, ds)
    BY WritesTake, AlongType
  <2>3. Begins(s, t)
    BY <1>2, <2>2
  <2>4. Along(Writes, s, Append(ds, c)) = Writes[<<t, c>>]
    BY <2>2, WritesTake, AlongAppend
  <2>5. CASE c[1] = "write"
    <3>1. PICK b \in Typed : c[2] = <<b>>
      BY <2>5, CommandTypes
    <3>2. <<b>> \in Seq(Byte)
      BY TypedAreBytes
    <3>3. Begins(t, t \o <<b>>)
      BY <3>2, Zenon DEF Begins
    <3>4. Writes[<<t, c>>] = t \o <<b>>
      BY <2>5, <3>1, WritesOf
    <3>5. Begins(s, t \o <<b>>)
      BY <2>3, <3>3, BeginsMore
    <3> QED
      BY <2>1, <2>4, <3>4, <3>5
  <2>6. CASE c[1] # "write"
    <3>1. Writes[<<t, c>>] = t
      BY <2>6, WritesOf
    <3> QED
      BY <2>1, <2>3, <2>4, <3>1
  <2> QED
    BY <2>5, <2>6
<1> HIDE DEF P
<1>3. Seq(Commands) \subseteq P
  BY <1>1, <1>2, ByAppending
<1>4. cs \in P
  BY <1>3
<1> QED
  BY <1>4 DEF P

(* The server will have the beginning of what was typed.                   *)
LEMMA HostBegins ==
  ASSUME TelnetTypeOK, ToHost
  PROVE  Begins(Reached(server, toServer), typed)
<1>1. server \in Servers /\ toServer \in Seq(Byte) /\ commands \in Seq(Commands)
  BY DEF TelnetTypeOK
<1>2. PICK s \in Seq(Byte) : s = Reached(server, toServer)
  BY <1>1, ReachedType
<1>3. Begins(s, Along(Writes, s, commands))
  BY <1>1, WritesGrow
<1> QED
  BY <1>2, <1>3 DEF ToHost

(* A step that has nothing to do with it.                                  *)
LEMMA HostStays ==
  ASSUME TelnetTypeOK, ToHost, UNCHANGED <<toServer, typed>>,
         server' \in Servers, server'.got = server.got, server'.at = server.at,
         \/ link' = link /\ commands' = commands
         \/ link' = "ended"
  PROVE  ToHost'
<1>1. server \in Servers /\ toServer \in Seq(Byte)
  BY DEF TelnetTypeOK
<1>2. PICK ms \in Seq(Messages) : ms = Collected(<< >>, toServer).msgs
  BY <1>1, NoBytes, CollectedType
<1>3. Handled(server', ms).got = Handled(server, ms).got
  BY <1>1, HandledSame
<1>4. Collected(<< >>, toServer)' = Collected(<< >>, toServer)
  BY Zenon
<1>5. Reached(server, toServer)' = Reached(server, toServer)
  BY <1>2, <1>3, <1>4, Zenon DEF Reached
<1>6. Begins(Reached(server, toServer), typed)
  BY HostBegins
<1> QED
  BY <1>4, <1>5, <1>6 DEF ToHost, Begins

(* Commands of the filter are no data.                                     *)
LEMMA ReachedOrders ==
  ASSUME NEW v \in Servers, NEW s \in Seq(Byte), Collected(<< >>, s).at = << >>,
         NEW u, AllOrders(u)
  PROVE  Collected(<< >>, s \o u).at = << >> /\ Reached(v, s \o u) = Reached(v, s)
<1>1. u \in Seq(Byte) /\ Collected(<< >>, u).at = << >>
  BY DEF AllOrders
<1>2. PICK ms \in Seq(Messages) : ms = Collected(<< >>, s).msgs
  BY NoBytes, CollectedType
<1>3. PICK os \in Seq(Orders) : os = Collected(<< >>, u).msgs
  BY DEF AllOrders
<1>4. /\ Collected(<< >>, s \o u).at = << >>
      /\ Collected(<< >>, s \o u).msgs = ms \o os
  <2>1. /\ Collected(<< >>, s \o u).at = Collected(<< >>, u).at
        /\ Collected(<< >>, s \o u).msgs = Collected(<< >>, s).msgs \o Collected(<< >>, u).msgs
    BY <1>1, NoBytes, CollectedBoth
  <2> QED
    BY <1>1, <1>2, <1>3, <2>1, Zenon
<1>5. PICK w \in Servers : w = Handled(v, ms)
  BY HandledType
<1>6. os \in Seq(Messages) /\ Handled(w, os).got = w.got
  BY HandledOrders
<1>7. Handled(v, ms \o os) = Handled(w, os)
  BY <1>5, <1>6, HandledBoth
<1> QED
  BY <1>2, <1>4, <1>5, <1>6, <1>7, Zenon DEF Reached

(* A message of data is the byte it stands for.                            *)
LEMMA ReachedByte ==
  ASSUME NEW v \in Servers, NEW s \in Seq(Byte), Collected(<< >>, s).at = << >>, NEW b \in Byte
  PROVE  /\ Collected(<< >>, s \o Escape(<<b>>)).at = << >>
         /\ Reached(v, s \o Escape(<<b>>)) = Append(Reached(v, s), b)
<1>1. PICK u \in Seq(Byte) : u = Escape(<<b>>)
  BY EscapeByte
<1>2. Unit(u) /\ u \notin Orders /\ u[1] = b
  <2>1. CASE b # IAC
    <3>1. u = <<b>>
      BY <1>1, <2>1, EscapeByte
    <3>2. Unit(<<b>>)
      BY <2>1, DataUnit
    <3>3. <<b>>[1] = b
      BY OneByte
    <3> QED
      BY <2>1, <3>1, <3>2, <3>3 DEF Orders
  <2>2. CASE b = IAC
    <3>1. u = <<IAC, IAC>>
      BY <1>1, <2>2, EscapeByte
    <3>2. <<IAC, IAC>>[1] = IAC /\ <<IAC, IAC>>[2] = IAC
      BY TwoBytes
    <3> QED
      BY <2>2, <3>1, <3>2, IacUnit DEF Orders
  <2> QED
    BY <2>1, <2>2
<1>3. Collected(<< >>, u).at = << >> /\ Collected(<< >>, u).msgs = <<u>> /\ u \in Messages
  BY <1>2 DEF Unit
<1>4. PICK ms \in Seq(Messages) : ms = Collected(<< >>, s).msgs
  BY NoBytes, CollectedType
<1>5. /\ Collected(<< >>, s \o u).at = << >>
      /\ Collected(<< >>, s \o u).msgs = ms \o <<u>>
  <2>1. /\ Collected(<< >>, s \o u).at = Collected(<< >>, u).at
        /\ Collected(<< >>, s \o u).msgs = Collected(<< >>, s).msgs \o Collected(<< >>, u).msgs
    BY NoBytes, CollectedBoth
  <2> QED
    BY <1>3, <1>4, <2>1, Zenon
<1>6. ms \o <<u>> = Append(ms, u)
  BY <1>3, <1>4
<1>7. PICK w \in Servers : w = Handled(v, ms)
  BY HandledType
<1>8. Handled(v, Append(ms, u)) = Handle(w, u)
  BY <1>3, <1>7, HandledOne
<1>9. Handle(w, u).got = Append(w.got, b)
  BY <1>2, <1>3, HandleData
<1> QED
  BY <1>1, <1>4, <1>5, <1>6, <1>7, <1>8, <1>9, Zenon DEF Reached

(* What the filter writes is no data, whether the write succeeds or not.   *)
LEMMA HostWritten ==
  ASSUME TelnetTypeOK, ToHost, link = "up", NEW u, AllOrders(u), Written(u), server' = server
  PROVE  /\ Collected(<< >>, toServer').at = << >>
         /\ Reached(server', toServer') = Reached(server, toServer)
         /\ link' \in {"up", "ended"}
<1>1. server \in Servers /\ toServer \in Seq(Byte) /\ Collected(<< >>, toServer).at = << >>
  BY DEF TelnetTypeOK, ToHost
<1>2. toServer' \in {toServer, toServer \o u} /\ link' \in {"up", "ended"}
  BY DEF Written, Ends
<1>3. /\ Collected(<< >>, toServer \o u).at = << >>
      /\ Reached(server, toServer \o u) = Reached(server, toServer)
  BY <1>1, ReachedOrders
<1> QED
  BY <1>1, <1>2, <1>3

(* The first command and the others.                                       *)
LEMMA WritesFirst ==
  ASSUME TelnetTypeOK, commands # << >>, NEW s \in Seq(Byte)
  PROVE  Along(Writes, s, commands) = Along(Writes, Writes[<<s, Head(commands)>>], Tail(commands))
<1>1. PICK c \in Commands : c = Head(commands)
  BY FirstCommand
<1>2. PICK cs \in Seq(Commands) : cs = Tail(commands)
  BY FirstCommand
<1>3. commands = <<c>> \o cs
  BY <1>1, <1>2 DEF TelnetTypeOK
<1>4. PICK o \in Seq(Commands) : o = <<c>>
  <2>1. <<c>> \in Seq(Commands)
    OBVIOUS
  <2> QED
    BY <2>1
<1>5. Along(Writes, s, o \o cs) = Along(Writes, Along(Writes, s, o), cs)
  BY WritesTake, AlongConcat
<1>6. PICK e \in Seq(Commands) : e = << >>
  <2>1. << >> \in Seq(Commands)
    OBVIOUS
  <2> QED
    BY <2>1
<1>7. Append(e, c) = o
  BY <1>4, <1>6, OneByte
<1>8. Along(Writes, s, Append(e, c)) = Writes[<<Along(Writes, s, e), c>>]
  BY WritesTake, AlongAppend
<1>9. Along(Writes, s, e) = s
  BY <1>6, WritesTake, AlongEmpty
<1> QED
  BY <1>1, <1>2, <1>3, <1>4, <1>5, <1>7, <1>8, <1>9, Zenon

(* A byte of the user is written, or the connection is gone.               *)
LEMMA HostTakesWrite ==
  ASSUME TelnetTypeOK, ToHost, TakeCommand, TakeWrite
  PROVE  ToHost'
<1>1. server \in Servers /\ toServer \in Seq(Byte) /\ Collected(<< >>, toServer).at = << >>
      /\ link = "up" /\ commands # << >>
  BY DEF TelnetTypeOK, ToHost, TakeCommand
<1>2. PICK c \in Commands : c = Head(commands)
  BY <1>1, FirstCommand
<1>3. PICK b \in Typed : c[2] = <<b>> /\ c[1] = "write"
  BY <1>2, CommandTypes DEF TakeWrite
<1>4. b \in Byte
  BY TypedAreBytes
<1>5. PICK s \in Seq(Byte) : s = Reached(server, toServer)
  BY <1>1, ReachedType
<1>6. /\ Collected(<< >>, toServer \o Escape(<<b>>)).at = << >>
      /\ Reached(server, toServer \o Escape(<<b>>)) = Append(s, b)
  BY <1>1, <1>4, <1>5, ReachedByte
<1>7. Written(Escape(<<b>>)) /\ UNCHANGED <<server, typed>> /\ commands' = Tail(commands)
  BY <1>2, <1>3 DEF TakeWrite, TakeCommand
<1>8. \/ toServer' = toServer \o Escape(<<b>>) /\ link' = "up"
      \/ toServer' = toServer /\ link' = "ended"
  BY <1>1, <1>7 DEF Written, Ends
<1>9. CASE toServer' = toServer \o Escape(<<b>>) /\ link' = "up"
  <2>1. Writes[<<s, c>>] = s \o <<b>>
    BY <1>3, WritesOf
  <2>2. s \o <<b>> = Append(s, b)
    BY <1>4, ConcatOne
  <2>3. Along(Writes, s, commands) = Along(Writes, Writes[<<s, c>>], Tail(commands))
    BY <1>1, <1>2, WritesFirst
  <2>4. Along(Writes, s, commands) = typed
    BY <1>1, <1>5 DEF ToHost
  <2>5. Along(Writes, Append(s, b), Tail(commands)) = typed
    BY <2>1, <2>2, <2>3, <2>4, Zenon
  <2>6. Reached(server', toServer') = Append(s, b) /\ Collected(<< >>, toServer').at = << >>
    BY <1>6, <1>7, <1>9, Zenon
  <2> QED
    BY <1>7, <1>9, <2>5, <2>6 DEF ToHost
<1>10. CASE toServer' = toServer /\ link' = "ended"
  BY <1>1, <1>7, <1>10, HostStays
<1> QED
  BY <1>8, <1>9, <1>10

(* A size is told, or nothing: no data either way.                         *)
LEMMA HostTakesResize ==
  ASSUME TelnetTypeOK, ToHost, TakeCommand, TakeResize
  PROVE  ToHost'
<1>1. server \in Servers /\ toServer \in Seq(Byte) /\ link = "up" /\ commands # << >>
      /\ filter \in Filters /\ filter.replies = << >>
  BY DEF TelnetTypeOK, TakeCommand
<1>2. PICK c \in Commands : c = Head(commands)
  BY <1>1, FirstCommand
<1>3. c[1] = "resize" /\ c[2] \in Sizes
  BY <1>2, CommandTypes DEF TakeResize
<1>4. PICK u : u = Resized(filter, c[2]).replies
  OBVIOUS
<1>5. AllOrders(u) /\ Written(u) /\ UNCHANGED <<server, typed>> /\ commands' = Tail(commands)
  BY <1>1, <1>2, <1>3, <1>4, ResizedOrders DEF TakeResize, TakeCommand
<1>6. /\ Collected(<< >>, toServer').at = << >>
      /\ Reached(server', toServer') = Reached(server, toServer)
      /\ link' \in {"up", "ended"}
  BY <1>1, <1>5, HostWritten
<1>7. PICK s \in Seq(Byte) : s = Reached(server, toServer)
  BY <1>1, ReachedType
<1>8. Writes[<<s, c>>] = s
  BY <1>3, WritesOf
<1>9. Along(Writes, s, commands) = Along(Writes, Writes[<<s, c>>], Tail(commands))
  BY <1>1, <1>2, WritesFirst
<1>10. Along(Writes, s, commands) = typed
  BY <1>1, <1>7 DEF ToHost
<1>11. Along(Writes, s, commands') = typed'
  BY <1>5, <1>8, <1>9, <1>10, Zenon
<1>12. Begins(Reached(server, toServer), typed)
  BY HostBegins
<1> QED
  BY <1>5, <1>6, <1>7, <1>11, <1>12 DEF ToHost, Begins

(* The answers to a chunk are no data.                                     *)
LEMMA HostChunk ==
  ASSUME TelnetTypeOK, ToHost, ReadChunk
  PROVE  ToHost'
<1>1. toClient \in Seq(Byte) /\ filter \in Filters /\ filter.replies = << >> /\ link = "up"
  BY DEF TelnetTypeOK, ReadChunk
<1>2. PICK n \in 1..Len(toClient) : Written(Feed(filter, SubSeq(toClient, 1, n)).replies)
  BY DEF ReadChunk
<1>3. SubSeq(toClient, 1, n) \in Seq(Byte)
  BY <1>1, ChunkTypes
<1>4. PICK u : u = Feed(filter, SubSeq(toClient, 1, n)).replies
  OBVIOUS
<1>5. AllOrders(u) /\ Written(u)
  BY <1>1, <1>2, <1>3, <1>4, FeedOrders
<1>6. UNCHANGED <<server, typed, commands>>
  BY DEF ReadChunk
<1>7. /\ Collected(<< >>, toServer').at = << >>
      /\ Reached(server', toServer') = Reached(server, toServer)
      /\ link' \in {"up", "ended"}
  BY <1>1, <1>5, <1>6, HostWritten
<1>8. Begins(Reached(server, toServer), typed)
  BY HostBegins
<1> QED
  BY <1>1, <1>6, <1>7, <1>8 DEF ToHost, Begins

(* Nor is the greeting.                                                    *)
LEMMA HostConnects ==
  ASSUME TelnetTypeOK, ToHost, Connect
  PROVE  ToHost'
<1>1. server \in Servers /\ toServer = << >> /\ Collected(<< >>, << >>).at = << >>
  BY DEF TelnetTypeOK, ToHost, Connect
<1>2. << >> \o Greeting = Greeting
  BY GreetingType, EmptyBefore
<1>3. /\ Collected(<< >>, << >> \o Greeting).at = << >>
      /\ Reached(server, << >> \o Greeting) = Reached(server, << >>)
  BY <1>1, NoBytes, GreetingOrders, ReachedOrders
<1>4. /\ link' = "up" /\ toServer' = Greeting /\ link # "ended"
      /\ UNCHANGED <<server, commands, typed>>
  BY DEF Connect
<1>5. Along(Writes, Reached(server, << >>), commands) = typed
  BY <1>1, <1>4, Zenon DEF ToHost
<1>6. /\ Collected(<< >>, toServer').at = << >>
      /\ Along(Writes, Reached(server', toServer'), commands') = typed'
  BY <1>2, <1>3, <1>4, <1>5, Zenon
<1> QED
  BY <1>4, <1>6 DEF ToHost

(* What the server has read it has got.                                    *)
LEMMA HostReads ==
  ASSUME TelnetTypeOK, ToHost, ServerReads
  PROVE  ToHost'
<1>1. toServer \in Seq(Byte) /\ server \in Servers /\ server.at = << >>
      /\ Collected(<< >>, toServer).at = << >>
  BY DEF TelnetTypeOK, ToHost
<1>2. PICK ms \in Seq(Messages) : ms = Collected(<< >>, toServer).msgs
  BY NoBytes, <1>1, CollectedType
<1>3. PICK done \in Servers : done = Handled(server, ms)
  BY <1>1, HandledType
<1>4. server' = [done EXCEPT !.at = << >>, !.replies = << >>]
  <2>1. server' = [Handled(server, Collected(server.at, toServer).msgs) EXCEPT
                     !.at = Collected(server.at, toServer).at, !.replies = << >>]
    BY DEF ServerReads
  <2> QED
    BY <1>1, <1>2, <1>3, <2>1, Zenon
<1>5. server' \in Servers /\ server'.at = << >> /\ server'.got = done.got
  BY <1>4, NoBytes, ServerRead
<1>6. toServer' = << >> /\ UNCHANGED <<link, commands, typed>>
  BY DEF ServerReads, client
<1>7. Collected(<< >>, << >>).at = << >> /\ Collected(<< >>, << >>).msgs = << >>
  <2>1. Collected(<< >>, << >>) = Heard(<< >>, << >>)
    BY NoBytes, CollectedNothing
  <2> QED
    BY <2>1 DEF Heard
<1>8. Handled(server', << >>) = server'
  BY <1>5, HandledNothing
<1>9. Reached(server', toServer') = Reached(server, toServer)
  BY <1>2, <1>3, <1>5, <1>6, <1>7, <1>8, Zenon DEF Reached
<1> QED
  BY <1>5, <1>6, <1>7, <1>9 DEF ToHost, Begins

(* A command that is put behind the others.                                *)
LEMMA WritesLast ==
  ASSUME TelnetTypeOK, NEW c \in Commands, Queued(c), NEW s \in Seq(Byte)
  PROVE  Along(Writes, s, commands') = Writes[<<Along(Writes, s, commands), c>>]
<1>1. commands \in Seq(Commands) /\ commands' = Append(commands, c)
  BY DEF TelnetTypeOK, Queued
<1>2. Along(Writes, s, Append(commands, c)) = Writes[<<Along(Writes, s, commands), c>>]
  BY <1>1, WritesTake, AlongAppend
<1> QED
  BY <1>1, <1>2

(* A command that waits writes what was typed.                             *)
LEMMA HostQueued ==
  ASSUME TelnetTypeOK, ToHost, UNCHANGED <<link, server, toServer>>, closed = "no",
         NEW c \in Commands, Queued(c),
         \/ \E b \in Typed : c = <<"write", <<b>>>> /\ typed' = Append(typed, b)
         \/ c[1] # "write" /\ typed' = typed
  PROVE  ToHost'
<1>1. server \in Servers /\ toServer \in Seq(Byte) /\ typed \in Seq(Byte) /\ link # "ended"
  <2>1. Seq(Typed) \subseteq Seq(Byte)
    BY TypedAreBytes
  <2> QED
    BY <2>1 DEF TelnetTypeOK
<1>2. PICK s \in Seq(Byte) : s = Reached(server, toServer)
  BY <1>1, ReachedType
<1>3. Along(Writes, s, commands) = typed
  BY <1>1, <1>2 DEF ToHost
<1>4. Along(Writes, s, commands') = Writes[<<typed, c>>]
  BY <1>3, WritesLast
<1>5. Writes[<<typed, c>>] = typed'
  <2>1. CASE c[1] # "write" /\ typed' = typed
    BY <1>1, <2>1, WritesOf
  <2>2. CASE \E b \in Typed : c = <<"write", <<b>>>> /\ typed' = Append(typed, b)
    <3>1. PICK b \in Typed : c = <<"write", <<b>>>> /\ typed' = Append(typed, b)
      BY <2>2
    <3>2. c[1] = "write" /\ c[2] = <<b>> /\ b \in Byte
      BY <3>1, TypedAreBytes
    <3>3. Writes[<<typed, c>>] = typed \o <<b>>
      BY <1>1, <3>2, WritesOf
    <3> QED
      BY <1>1, <3>1, <3>2, <3>3, ConcatOne
  <2> QED
    BY <2>1, <2>2
<1>6. Reached(server', toServer') = s
  BY <1>2
<1> QED
  BY <1>1, <1>4, <1>5, <1>6 DEF ToHost

(* Every step keeps what goes to the host.                                 *)
LEMMA HostStep ==
  ASSUME TelnetTypeOK, ToHost, TelnetNext
  PROVE  ToHost'
<1>1. server \in Servers
  BY DEF TelnetTypeOK
<1>2. server' \in Servers
  BY TelnetStepTypes DEF TelnetTypeOK
<1>3. CASE ReadEnd \/ ConnectFails \/ ReadFails \/ HostPrints
  BY <1>1, <1>3, HostStays DEF ReadEnd, ConnectFails, ReadFails, HostPrints, Ends, client
<1>4. CASE HangsUp
  <2>1. server'.got = server.got /\ server'.at = server.at
    BY <1>1, <1>4 DEF HangsUp, Servers
  <2> QED
    BY <1>2, <1>4, <2>1, HostStays DEF HangsUp, client
<1>5. CASE ServerAsks
  <2>1. PICK c \in {DO, DONT, WILL, WONT}, o \in Asked :
          server' = CASE c \in {DO, WILL} ->
                            [server EXCEPT !.pending = @ \cup {<<c, o>>}]
                       [] c = DONT -> [server EXCEPT !.on = @ \ {o}]
                       [] c = WONT -> [server EXCEPT !.doing = @ \ {o}]
    BY <1>5 DEF ServerAsks
  <2>2. \A x : /\ [server EXCEPT !.pending = x].got = server.got
               /\ [server EXCEPT !.pending = x].at = server.at
               /\ [server EXCEPT !.on = x].got = server.got
               /\ [server EXCEPT !.on = x].at = server.at
               /\ [server EXCEPT !.doing = x].got = server.got
               /\ [server EXCEPT !.doing = x].at = server.at
    BY <1>1 DEF Servers
  <2>3. server'.got = server.got /\ server'.at = server.at
    BY <2>1, <2>2 DEF DO, DONT, WILL, WONT
  <2> QED
    BY <1>2, <1>5, <2>3, HostStays DEF ServerAsks, client
<1>6. CASE TakeCommand
  <2>1. CASE TakeDisconnect
    BY <1>1, <1>6, <2>1, HostStays DEF TakeCommand, TakeDisconnect, Ends
  <2> QED
    BY <1>6, <2>1, HostTakesWrite, HostTakesResize DEF TakeCommand
<1>7. CASE Types
  <2>1. PICK b \in Typed : Queued(<<"write", <<b>>>>) /\ typed' = Append(typed, b)
    BY <1>7 DEF Types
  <2>2. PICK c \in Commands : c = <<"write", <<b>>>>
    BY DEF Commands
  <2> QED
    BY <1>7, <2>1, <2>2, HostQueued DEF Types
<1>8. CASE Resizes
  <2>1. PICK x \in Sizes : Queued(<<"resize", x>>)
    BY <1>8 DEF Resizes
  <2>2. <<"resize", x>> \in Commands
    BY DEF Commands
  <2>3. <<"resize", x>>[1] # "write"
    OBVIOUS
  <2> QED
    BY <1>8, <2>1, <2>2, <2>3, HostQueued DEF Resizes
<1>9. CASE Disconnects
  <2>1. <<"disconnect", 0>> \in Commands
    BY DEF Commands
  <2>2. <<"disconnect", 0>>[1] # "write"
    OBVIOUS
  <2> QED
    BY <1>9, <2>1, <2>2, HostQueued DEF Disconnects
<1> QED
  BY <1>3, <1>4, <1>5, <1>6, <1>7, <1>8, <1>9, HostChunk, HostConnects, HostReads
  DEF TelnetNext, ThreadStep

(* Nothing is on the way at first.                                         *)
LEMMA StreamsBegin ==
  ASSUME TelnetInit
  PROVE  ToTerminal /\ ToHost
<1>1. TelnetTypeOK
  BY TelnetInitTypes
<1>2. /\ toServer = << >> /\ toClient = << >> /\ link = "connecting" /\ commands = << >>
      /\ typed = << >> /\ shown = << >> /\ output = << >> /\ closed = "no"
      /\ filter.state = "Data"
  BY DEF TelnetInit, NewFilter
<1>3. filter \in Filters /\ filter.app = << >> /\ server \in Servers
  BY <1>1 DEF TelnetTypeOK
<1>4. server.at = << >> /\ server.replies = << >> /\ server.got = << >>
  BY DEF TelnetInit, NewServer
<1>5. Feed(filter, toClient) = filter
  <2>1. Feed(filter, << >>) = filter
    BY <1>3, FeedNothing
  <2> QED
    BY <1>2, <2>1, Zenon
<1>6. << >> \o << >> = << >>
  OBVIOUS
<1>7. ToTerminal
  BY <1>2, <1>3, <1>4, <1>5, <1>6 DEF ToTerminal
<1>8. Collected(<< >>, << >>).at = << >> /\ Collected(<< >>, << >>).msgs = << >>
  <2>1. Collected(<< >>, << >>) = Heard(<< >>, << >>)
    BY NoBytes, CollectedNothing
  <2> QED
    BY <2>1 DEF Heard
<1>9. Handled(server, << >>) = server
  BY <1>3, HandledNothing
<1>10. Reached(server, toServer) = << >>
  BY <1>2, <1>4, <1>8, <1>9, Zenon DEF Reached
<1>11. PICK e \in Seq(Byte) : e = << >>
  BY NoBytes
<1>12. Along(Writes, e, << >>) = e
  BY WritesTake, AlongEmpty
<1>13. Along(Writes, Reached(server, toServer), commands) = typed
  BY <1>2, <1>10, <1>11, <1>12, Zenon
<1>14. ToHost
  BY <1>2, <1>4, <1>8, <1>13 DEF ToHost
<1> QED
  BY <1>7, <1>14

(* Whatever the connection does.                                           *)
LEMMA StreamsHold == FarSpec => [](ToTerminal /\ ToHost)
<1>1. FarInit => ToTerminal /\ ToHost
  BY StreamsBegin DEF FarInit
<1>2. TelnetTypeOK /\ ToTerminal /\ ToHost /\ [FarNext]_farVars => (ToTerminal /\ ToHost)'
  <2> SUFFICES ASSUME TelnetTypeOK, ToTerminal, ToHost, [FarNext]_farVars
               PROVE  (ToTerminal /\ ToHost)'
    OBVIOUS
  <2>1. CASE UNCHANGED telnetVars
    <3>1. UNCHANGED <<link, filter, commands, closed, toServer, toClient, server, typed, shown,
                      output>>
      BY <2>1 DEF telnetVars, client
    <3>2. ToTerminal'
      BY <3>1, TerminalStays
    <3>3. server' \in Servers
      BY <3>1 DEF TelnetTypeOK
    <3>4. ToHost'
      BY <3>1, <3>3, HostStays
    <3> QED
      BY <3>2, <3>4
  <2> QED
    BY <2>1, TerminalStep, HostStep DEF FarNext, farVars
<1> QED
  BY <1>1, <1>2, TelnetTypesHold, PTL DEF FarSpec

(* However the bytes are cut into chunks and the answers of the filter     *)
(* come between them, for every list of bytes: the host gets what the user *)
(* typed and the terminal what the host printed, in order and whole, and a *)
(* hang-up of the server loses nothing (codec.rs, session.rs).             *)
THEOREM StreamsStayFaithful == FarSpec => []StreamsAreFaithful
<1>1. ASSUME NEW s \in Seq(Byte), NEW u, Begins(s, u)
      PROVE  IsPrefix(s, u)
  <2>1. PICK x \in Seq(Byte) : s \o x = u
    BY <1>1 DEF Begins
  <2> QED
    BY <2>1 DEF IsPrefix
<1>2. TelnetTypeOK /\ ToTerminal /\ ToHost => StreamsAreFaithful
  <2> SUFFICES ASSUME TelnetTypeOK, ToTerminal, ToHost PROVE StreamsAreFaithful
    OBVIOUS
  <2>1. /\ server \in Servers /\ server.got \in Seq(Byte) /\ shown \in Seq(Byte)
        /\ toServer \in Seq(Byte)
    BY DEF TelnetTypeOK, Servers
  <2>2. PICK ms \in Seq(Messages) : ms = Collected(<< >>, toServer).msgs
    BY <2>1, NoBytes, CollectedType
  <2>3. Begins(server.got, Handled(server, ms).got)
    BY <2>1, HandledGrows
  <2>4. Begins(server.got, Reached(server, toServer))
    BY <2>2, <2>3, Zenon DEF Reached
  <2>5. Begins(server.got, typed)
    <3>1. Reached(server, toServer) \in Seq(Byte)
      BY <2>1, ReachedType
    <3> QED
      BY <2>1, <2>4, <3>1, HostBegins, BeginsMore
  <2>6. IsPrefix(server.got, typed) /\ IsPrefix(shown, output)
    BY <1>1, <2>1, <2>5, TerminalBegins
  <2> QED
    BY <2>6 DEF ToTerminal, StreamsAreFaithful
<1> QED
  BY <1>2, TelnetTypesHold, StreamsHold, PTL

(* What a Telnet server, the sessions of a host and the hosts on the way   *)
(* hold has its type, whatever they are given (codec.rs, session.rs,       *)
(* remote_session.rs and jump_chain): no sequence of bytes, cut anywhere,  *)
(* leaves the filter or the server in a state they do not have.            *)
THEOREM FarTypesCorrect == FarSpec => []FarTypeOK
<1>1. RemoteInv => RemoteTypeOK
  BY DEF RemoteInv
<1>2. JumpsSound => JumpsTypeOK
  BY DEF JumpsSound, SoundTab, TabType, Profiles, JumpsTypeOK
<1>3. TelnetTypeOK /\ RemoteTypeOK /\ JumpsTypeOK => FarTypeOK
  BY DEF FarTypeOK
<1> QED
  BY <1>1, <1>2, <1>3, TelnetTypesHold, RemoteHolds, JumpsAreSound, PTL
=============================================================================
