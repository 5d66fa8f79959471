-------------------------------- MODULE Panes --------------------------------
(***************************************************************************)
(* The services of one tab and the panes that use them, over transports    *)
(* that die and are replaced, and the layout of those panes.  They share   *)
(* the transport and nothing else, so a behaviour shows one of them,       *)
(* picked when it starts, and the others at rest.                          *)
(***************************************************************************)
EXTENDS AgentLoop, BrokerPane, RemoteFiles, PaneLayout

CONSTANTS Parts,      \* a subset of {"agent", "broker", "files", "layout"}
          AgentSteps, \* commands sent and transports started over a conversation
          FileLinks   \* transports that may be started while files move

VARIABLE part

brokerOwn == <<connected, broker, forwardVars, paneVars>>

vars == <<linkVars, commandVars, agentVars, brokerOwn, fs, layoutVars, part>>

TypeOK ==
  AgentTypeOK /\ BrokerTypeOK /\ FilesTypeOK /\ LayoutTypeOK /\ part \in Parts

Init ==
  /\ AgentInit /\ BrokerInit /\ FilesInit /\ LayoutInit
  /\ part \in Parts
  /\ part # "broker" => broker = CHOOSE b \in Brokers : TRUE

(* What a step of each part leaves alone.                                  *)
InAgent(A) ==
  part = "agent" /\ A /\ UNCHANGED <<brokerOwn, fs, layoutVars, part>>

InBroker(A) ==
  part = "broker" /\ A /\ UNCHANGED <<commandVars, agentVars, fs, layoutVars, part>>

InFiles(A) ==
  part = "files" /\ A /\ UNCHANGED <<commandVars, agentVars, brokerOwn, layoutVars, part>>

InLayout ==
  /\ part = "layout" /\ LayoutNext
  /\ UNCHANGED <<linkVars, commandVars, agentVars, brokerOwn, fs, part>>

AgentNext ==
  \/ InAgent(LinkStep /\ asked + link' <= AgentSteps /\ UNCHANGED <<commandVars, agentVars>>)
  \/ InAgent((AgentStep \/ OthersStep) /\ asked' + link <= AgentSteps /\ UNCHANGED linkVars)

FilesNext ==
  \/ InFiles(LinkStep /\ link' <= FileLinks /\ UNCHANGED fs)
  \/ InFiles(FilesStep /\ UNCHANGED linkVars)

Next == AgentNext \/ InBroker(BrokerNext) \/ FilesNext \/ InLayout

Spec == Init /\ [][Next]_vars

(* Frames go on, a task whose transport is gone ends, and a host that is   *)
(* asked for a file or a listener answers.                                 *)
Fairness ==
  /\ WF_vars(InAgent(PollCommands /\ UNCHANGED <<linkVars, agentVars>>))
  /\ WF_vars(InAgent(CommandAnswers /\ UNCHANGED linkVars))
  /\ \A a \in Asks :
       WF_vars(InAgent(TaskDies(a) /\ UNCHANGED <<linkVars, agentVars>>))
  /\ WF_vars(InBroker(PollForwards)) /\ WF_vars(InBroker(Show))
  /\ WF_vars(InBroker(TabNotices))
  /\ \A f \in Forwards : WF_vars(InBroker(~Serves(fhome[f]) /\ ForwardEnds(f)))
  /\ WF_vars(InFiles(PollFiles /\ UNCHANGED linkVars))
  /\ \A j \in Jobs :
       WF_vars(InFiles(JobDies(j) /\ UNCHANGED linkVars))
  /\ WF_vars(InFiles(PackEnds /\ UNCHANGED linkVars))

FairSpec == Spec /\ Fairness
=============================================================================
