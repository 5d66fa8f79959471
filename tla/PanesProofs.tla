------------------------------ MODULE PanesProofs ------------------------------
(***************************************************************************)
(* The panes of a tab for any number of transports, commands, brokers and  *)
(* forwards.  The MQTT pane: its types, and that it never goes on showing  *)
(* a connection that is over, which is inductive once the types are known: *)
(* a thread that ends puts its last event in the channel in the same step, *)
(* and only the pane takes events out of it, all of them and its client    *)
(* with them.  The commands: a stop that is kept is that of a command that *)
(* is still pending.  The agent: what it reads under a label is the answer *)
(* to what it asked there.  The remote files: FilesInv, which says what    *)
(* the two slots and the dropped jobs hold, is kept by each of the         *)
(* functions a handler is composed of, and so by every handler.  The       *)
(* layout: every plugin has one leaf, on the screen and in what is saved.  *)
(***************************************************************************)
EXTENDS Panes, TabCommandsProofs, ListProofs, FiniteSetTheorems

(* The address that is read is that of a forward that was asked for.       *)
LEMMA AddressLeftType ==
  ASSUME BrokerTypeOK
  PROVE  AddressLeft \in Forwards \cup {0} /\ ErrorLeft \in BOOLEAN
<1>1. CASE ForwardsOpened = {}
  BY <1>1 DEF AddressLeft, ErrorLeft, BrokerTypeOK
<1>2. CASE ForwardsOpened # {}
  <2>1. (CHOOSE f \in ForwardsOpened : TRUE) \in ForwardsOpened
    BY <1>2
  <2> QED
    BY <1>2, <2>1 DEF AddressLeft, ErrorLeft, ForwardsOpened, ForwardsAnswered, BrokerTypeOK
<1> QED
  BY <1>1, <1>2

(* Asking for a forward, or reading the answer to an earlier request.      *)
LEMMA OpenForwardType ==
  ASSUME BrokerTypeOK, OpenForward
  PROVE  /\ fhome' \in [Forwards -> Links]
         /\ ftarget' \in [Forwards -> Brokers]
         /\ fstate' \in [Forwards -> {"none", "binding", "bound", "failed", "dead"}]
         /\ fpending' \subseteq Forwards
         /\ address' \in Forwards \cup {0}
         /\ ferror' \in BOOLEAN
<1>1. address' \in Forwards \cup {0} /\ ferror' \in BOOLEAN
  BY AddressLeftType DEF OpenForward
<1>2. CASE AskNothing
  BY <1>1, <1>2 DEF AskNothing, BrokerTypeOK
<1>3. ASSUME NEW f \in Free, AskForward(f)
      PROVE  /\ fhome' \in [Forwards -> Links]
             /\ ftarget' \in [Forwards -> Brokers]
             /\ fstate' \in [Forwards -> {"none", "binding", "bound", "failed", "dead"}]
             /\ fpending' \subseteq Forwards
  BY <1>3 DEF AskForward, Free, BrokerTypeOK, LinkTypeOK
<1> QED
  BY <1>1, <1>2, <1>3 DEF OpenForward

(* A step of the thread of the client, in the terms both proofs need.      *)
LEMMA ClientStepMoves ==
  ASSUME BrokerTypeOK, ClientStep
  PROVE  /\ UNCHANGED <<linkVars, connected, broker, forwardVars, requested, status, session>>
         /\ client # "ended"
         /\ \/ client' \in {"greeting", "open", "closing"} /\ events' = events
            \/ client' = "open" /\ events' = Append(events, "Connected")
            \/ client' \in {"greeting", "open", "closing", "ended"} /\ events' = Append(events, "Error")
            \/ client' = "ended" /\ events' = Append(events, "Closed")
<1> USE DEF ClientMoves, BrokerTypeOK
<1>1. CASE ClientDials   BY <1>1 DEF ClientDials
<1>2. CASE BrokerAccepts BY <1>2 DEF BrokerAccepts
<1>3. CASE ClientFails   BY <1>3 DEF ClientFails
<1>4. CASE ClientCloses  BY <1>4 DEF ClientCloses
<1>5. CASE PublishFails  BY <1>5 DEF PublishFails
<1> QED
  BY <1>1, <1>2, <1>3, <1>4, <1>5 DEF ClientStep

(* The status that is shown is one of the six.                             *)
LEMMA DrainType ==
  ASSUME BrokerTypeOK, Drain
  PROVE  /\ status' \in Statuses
         /\ session' \in Forwards \cup {0}
         /\ client' \in {"none", "dialing", "greeting", "open", "closing", "ended"}
<1>1. events[Len(events)] \in {"Connected", "Error", "Closed"}
  BY DEF Drain, BrokerTypeOK
<1> QED
  BY <1>1 DEF Drain, StatusOf, Statuses, BrokerTypeOK

-----------------------------------------------------------------------------

(* Every step of the tab, its forwards, the pane and the client keeps the  *)
(* types.                                                                  *)
LEMMA NextKeepsTypes ==
  ASSUME BrokerTypeOK, [BrokerNext]_brokerVars
  PROVE  BrokerTypeOK'
<1> USE BrokerPaneAssumption, TabBackendAssumption
<1>1. CASE TabChanges
  <2>1. LinkTypeOK'
    BY <1>1, LinkStepType DEF TabChanges, BrokerTypeOK
  <2>2. connected' \in BOOLEAN
    BY <1>1 DEF TabChanges
  <2> QED
    BY <1>1, <2>1, <2>2 DEF TabChanges, BrokerTypeOK, forwardVars, paneVars
<1>2. CASE TabNotices
  BY <1>2 DEF TabNotices, BrokerTypeOK, LinkTypeOK, linkVars, forwardVars, paneVars
<1>3. CASE EditBroker
  BY <1>3 DEF EditBroker, BrokerTypeOK, LinkTypeOK, linkVars, forwardVars, paneVars
<1>4. ASSUME NEW f \in Forwards, ForwardEnds(f)
      PROVE  BrokerTypeOK'
  BY <1>4 DEF ForwardEnds, BrokerTypeOK, LinkTypeOK, linkVars, paneVars
<1>5. CASE PollForwards
  <2>1. address' \in Forwards \cup {0} /\ ferror' \in BOOLEAN
    BY <1>5, AddressLeftType DEF PollForwards
  <2> QED
    BY <1>5, <2>1 DEF PollForwards, BrokerTypeOK, LinkTypeOK, linkVars, paneVars
<1>6. CASE Connect
  <2>1. /\ fhome' \in [Forwards -> Links]
        /\ ftarget' \in [Forwards -> Brokers]
        /\ fstate' \in [Forwards -> {"none", "binding", "bound", "failed", "dead"}]
        /\ fpending' \subseteq Forwards
        /\ address' \in Forwards \cup {0}
        /\ ferror' \in BOOLEAN
    BY <1>6, OpenForwardType DEF Connect, BrokerTypeOK, forwardVars
  <2>2. CASE requested' = FALSE /\ status' = "Failed" /\ UNCHANGED <<session, client, events>>
    BY <1>6, <2>1, <2>2 DEF Connect, BrokerTypeOK, LinkTypeOK, linkVars, Statuses
  <2>3. CASE /\ requested' = (requested \/ address = 0)
             /\ status' = "Connecting"
             /\ session' = address'
             /\ client' = IF address' = 0 THEN client ELSE "dialing"
             /\ UNCHANGED events
    BY <1>6, <2>1, <2>3 DEF Connect, BrokerTypeOK, LinkTypeOK, linkVars, Statuses
  <2> QED
    BY <1>6, <2>2, <2>3 DEF Connect
<1>7. CASE Unavailable
  BY <1>7 DEF Unavailable, BrokerTypeOK, LinkTypeOK, linkVars, forwardVars, Statuses
<1>8. CASE Drain
  <2>1. events' \in Seq({"Connected", "Error", "Closed"})
    BY <1>8 DEF Drain
  <2> QED
    BY <1>8, <2>1, DrainType DEF Drain, BrokerTypeOK, LinkTypeOK, linkVars, forwardVars
<1>9. CASE ClickReconnect
  <2>1. events' \in Seq({"Connected", "Error", "Closed"})
    BY <1>9 DEF ClickReconnect
  <2>2. /\ requested' \in BOOLEAN /\ status' \in Statuses
        /\ session' \in Forwards \cup {0}
        /\ client' \in {"none", "dialing", "greeting", "open", "closing", "ended"}
    BY <1>9 DEF ClickReconnect, Statuses
  <2>3. UNCHANGED <<linkVars, connected, broker, forwardVars>>
    BY <1>9 DEF ClickReconnect
  <2> QED
    BY <2>1, <2>2, <2>3 DEF BrokerTypeOK, LinkTypeOK, linkVars, forwardVars
<1>10. CASE session # 0 /\ ClientStep
  <2>1. client' \in {"none", "dialing", "greeting", "open", "closing", "ended"}
    BY <1>10, ClientStepMoves
  <2>2. events' \in Seq({"Connected", "Error", "Closed"})
    <3>1. events \in Seq({"Connected", "Error", "Closed"})
      BY DEF BrokerTypeOK
    <3>2. events' = events \/ (\E e \in {"Connected", "Error", "Closed"} : events' = Append(events, e))
      BY <1>10, ClientStepMoves
    <3> QED
      BY <3>1, <3>2
  <2>3. UNCHANGED <<linkVars, connected, broker, forwardVars, requested, status, session>>
    BY <1>10, ClientStepMoves
  <2> QED
    BY <2>1, <2>2, <2>3 DEF BrokerTypeOK, LinkTypeOK, linkVars, forwardVars
<1>11. CASE UNCHANGED brokerVars
  BY <1>11 DEF brokerVars, BrokerTypeOK, LinkTypeOK, linkVars, forwardVars, paneVars
<1> QED
  BY <1>1, <1>2, <1>3, <1>4, <1>5, <1>6, <1>7, <1>8, <1>9, <1>10, <1>11 DEF BrokerNext, Show

(* The other panes of the tab share its transport with the MQTT pane, and  *)
(* nothing else.                                                           *)
LEMMA OthersKeepTypes ==
  ASSUME BrokerTypeOK, UNCHANGED brokerOwn, LinkTypeOK'
  PROVE  BrokerTypeOK'
BY DEF BrokerTypeOK, brokerOwn, forwardVars, paneVars

(* A step of the tab is one of the broker's, or leaves all of the broker's *)
(* but the transport alone.                                                *)
LEMMA PanesStep ==
  ASSUME BrokerTypeOK, [Next]_vars
  PROVE  \/ [BrokerNext]_brokerVars
         \/ UNCHANGED brokerOwn /\ LinkTypeOK'
<1>1. CASE AgentNext
  BY <1>1, LinkStepType DEF AgentNext, InAgent, BrokerTypeOK, LinkTypeOK, linkVars
<1>2. CASE InBroker(BrokerNext)
  BY <1>2 DEF InBroker
<1>3. CASE FilesNext
  BY <1>3, LinkStepType DEF FilesNext, InFiles, BrokerTypeOK, LinkTypeOK, linkVars
<1>4. CASE InLayout \/ UNCHANGED vars
  BY <1>4 DEF InLayout, vars, BrokerTypeOK, LinkTypeOK, linkVars
<1> QED
  BY <1>1, <1>2, <1>3, <1>4 DEF Next

(* The forwards of a tab, the MQTT pane and its client are well typed.     *)
THEOREM BrokerTypeCorrect == Spec => []BrokerTypeOK
<1>1. Init => BrokerTypeOK
  <2> SUFFICES ASSUME BrokerInit PROVE BrokerTypeOK
    BY DEF Init
  <2>1. 1 \in Links
    BY TabBackendAssumption DEF Links
  <2>2. LinkTypeOK
    BY <2>1 DEF BrokerInit, LinkInit, LinkTypeOK
  <2>3. events \in Seq({"Connected", "Error", "Closed"})
    BY DEF BrokerInit
  <2> QED
    BY <2>1, <2>2, <2>3 DEF BrokerInit, BrokerTypeOK, Statuses
<1>2. BrokerTypeOK /\ [Next]_vars => BrokerTypeOK'
  BY PanesStep, NextKeepsTypes, OthersKeepTypes
<1> QED
  BY <1>1, <1>2, PTL DEF Spec

(* Only the thread fills the channel, and only the pane empties it: none   *)
(* of their steps leaves an ended client without its last event.           *)
LEMMA NextKeepsTheEnd ==
  ASSUME BrokerTypeOK, PaneHearsTheEnd, [BrokerNext]_brokerVars
  PROVE  PaneHearsTheEnd'
<1>1. CASE Connect
  BY <1>1 DEF Connect, PaneHearsTheEnd
<1>2. CASE Drain
  <2>1. CASE \E i \in DOMAIN events : events[i] \in {"Error", "Closed"}
    BY <1>2, <2>1 DEF Drain, PaneHearsTheEnd
  <2>2. CASE ~ \E i \in DOMAIN events : events[i] \in {"Error", "Closed"}
    <3>1. Len(events) \in DOMAIN events
      BY <1>2 DEF Drain, BrokerTypeOK
    <3>2. events[Len(events)] = "Connected"
      BY <2>2, <3>1 DEF BrokerTypeOK
    <3> QED
      BY <1>2, <2>2, <3>2 DEF Drain, PaneHearsTheEnd
  <2> QED
    BY <2>1, <2>2
<1>3. CASE ClickReconnect
  BY <1>3 DEF ClickReconnect, PaneHearsTheEnd
<1>4. CASE session # 0 /\ ClientStep
  <2>1. CASE client' # "ended"
    BY <2>1 DEF PaneHearsTheEnd
  <2>2. ASSUME NEW e \in {"Error", "Closed"}, events' = Append(events, e)
        PROVE  PaneHearsTheEnd'
    BY <2>2 DEF BrokerTypeOK, PaneHearsTheEnd
  <2> QED
    BY <1>4, <2>1, <2>2, ClientStepMoves
<1>5. CASE UNCHANGED <<session, client, events>>
  BY <1>5 DEF PaneHearsTheEnd
<1>6. TabChanges \/ TabNotices \/ EditBroker \/ PollForwards \/ Unavailable
        \/ (\E f \in Forwards : ForwardEnds(f)) \/ UNCHANGED brokerVars
      => UNCHANGED <<session, client, events>>
  BY DEF TabChanges, TabNotices, EditBroker, PollForwards, Unavailable, ForwardEnds,
         brokerVars, paneVars
<1> QED
  BY <1>1, <1>2, <1>3, <1>4, <1>5, <1>6 DEF BrokerNext, Show

(* An MQTT client that has ended has told the pane, whatever the tab, the  *)
(* forward and the broker did: the pane never goes on showing a connection *)
(* that is over.                                                           *)
THEOREM TheEndIsHeard == Spec => []PaneHearsTheEnd
<1>1. Init => PaneHearsTheEnd
  BY DEF Init, BrokerInit, PaneHearsTheEnd
<1>2. BrokerTypeOK /\ PaneHearsTheEnd /\ [Next]_vars => PaneHearsTheEnd'
  <2> SUFFICES ASSUME BrokerTypeOK, PaneHearsTheEnd, [Next]_vars PROVE PaneHearsTheEnd'
    OBVIOUS
  <2>1. CASE UNCHANGED brokerOwn
    BY <2>1 DEF brokerOwn, paneVars, PaneHearsTheEnd
  <2> QED
    BY <2>1, PanesStep, NextKeepsTheEnd
<1> QED
  BY <1>1, <1>2, BrokerTypeCorrect, PTL DEF Spec

-----------------------------------------------------------------------------
(* The commands.                                                           *)

(* What a step may do to the commands of the tab: a pane asks or cancels,  *)
(* a frame collects the answers, a task ends.                              *)
CommandMove ==
  \/ UNCHANGED <<pending, stops>>
  \/ \E k \in Labels : StartCommand(k) \/ Cancel(k)
  \/ PollCommands

(* No step of the agent touches them in another way, whatever phase it is  *)
(* in and however many of its calls are answered on the spot.              *)
LEMMA AgentMoves ==
  ASSUME AgentStep
  PROVE  CommandMove
<1> USE TabCommandsAssumption, AgentLoopAssumption DEF CommandMove
<1>1. ASSUME NEW from, Parks(from)
      PROVE  CommandMove
  BY <1>1 DEF Parks, Runs, Prompts, LabelOf, commandVars
<1>2. ASSUME NEW h, NEW q, Advance(h, q)
      PROVE  CommandMove
  BY <1>1, <1>2 DEF Advance, Rests, commandVars
<1>3. CASE AskModel          BY <1>3 DEF AskModel, commandVars
<1>4. CASE ReplyArrives      BY <1>2, <1>4 DEF ReplyArrives, Rests, commandVars
<1>5. CASE CommandAnswers    BY <1>2, <1>5 DEF CommandAnswers, Settle, Uploads, commandVars
<1>6. CASE ToolAnswers       BY <1>2, <1>6 DEF ToolAnswers, Settle, Uploads, commandVars
<1>7. CASE SendMessage       BY <1>7 DEF SendMessage, commandVars
<1>8. CASE Inject            BY <1>8 DEF Inject, commandVars
<1>9. CASE Resume            BY <1>9 DEF Resume, commandVars
<1>10. CASE Answer           BY <1>1, <1>2, <1>10 DEF Answer, Settle, Goes
<1>11. CASE Stop             BY <1>11 DEF Stop, Rests, commandVars
<1>12. CASE StopCommand      BY <1>12 DEF StopCommand, LabelOf
<1>13. CASE Rewind           BY <1>13 DEF Rewind, commandVars
<1>14. CASE NewChat          BY <1>14 DEF NewChat, Cleared, Rests, commandVars
<1>15. CASE Reopen           BY <1>15 DEF Reopen, Cleared, Rests, commandVars
<1> QED
  BY <1>3, <1>4, <1>5, <1>6, <1>7, <1>8, <1>9, <1>10, <1>11, <1>12, <1>13, <1>14, <1>15
  DEF AgentStep

(* Every step of the tab moves the commands as TabCommands says, or not at *)
(* all.                                                                    *)
LEMMA PanesMoves ==
  ASSUME [Next]_vars
  PROVE  CommandMove
<1>1. CASE AgentNext
  <2>1. CASE InAgent(LinkStep /\ UNCHANGED <<commandVars, agentVars>>)
    BY <2>1 DEF InAgent, CommandMove, commandVars
  <2>2. CASE InAgent(AgentStep /\ UNCHANGED linkVars)
    BY <2>2, AgentMoves DEF InAgent
  <2>3. CASE InAgent(OthersStep /\ UNCHANGED linkVars)
    BY <2>3 DEF InAgent, OthersStep, CommandMove, Ask, TaskStep, HostAnswers, TaskStops,
                TaskDies, EndTask
  <2> QED
    BY <1>1, <2>1, <2>2, <2>3 DEF AgentNext, InAgent
<1>2. CASE UNCHANGED <<pending, stops>>
  BY <1>2 DEF CommandMove
<1>3. InBroker(BrokerNext) \/ FilesNext \/ InLayout \/ UNCHANGED vars
        => UNCHANGED <<pending, stops>>
  BY DEF InBroker, FilesNext, InFiles, InLayout, vars, commandVars
<1> QED
  BY <1>1, <1>2, <1>3 DEF Next

(* cancel never spends itself on a command that is over: the answer of a   *)
(* command takes with it the stops of its label, so a stop that is kept is *)
(* that of a command nobody has answered yet.                              *)
THEOREM StopsOutliveNothing == Spec => []StopsAreOfRunning
<1>1. Init => StopsAreOfRunning
  BY DEF Init, AgentInit, CommandsInit, StopsAreOfRunning
<1>2. StopsAreOfRunning /\ [Next]_vars => StopsAreOfRunning'
  <2> SUFFICES ASSUME StopsAreOfRunning, [Next]_vars PROVE StopsAreOfRunning'
    OBVIOUS
  <2>1. StopsLeft \subseteq pending \ Landed
    BY DEF StopsLeft, LandedUnder, StopsAreOfRunning
  <2>2. ASSUME NEW k \in Labels, StartCommand(k)
        PROVE  StopsAreOfRunning'
    BY <2>1, <2>2 DEF StartCommand, Send, RefuseAll, StopsAreOfRunning
  <2>3. ASSUME NEW k \in Labels, Cancel(k)
        PROVE  StopsAreOfRunning'
    BY <2>3 DEF Cancel, StopsAreOfRunning
  <2>4. CASE PollCommands
    BY <2>1, <2>4 DEF PollCommands, StopsAreOfRunning
  <2>5. CASE UNCHANGED <<pending, stops>>
    BY <2>5 DEF StopsAreOfRunning
  <2> QED
    BY <2>2, <2>3, <2>4, <2>5, PanesMoves DEF CommandMove
<1> QED
  BY <1>1, <1>2, PTL DEF Spec
-----------------------------------------------------------------------------
(* The answers the agent reads.                                            *)

(* Of a label of the agent only the command it waits for is pending, apart *)
(* from those it stopped waiting for.                                      *)
AwaitsOne(k) ==
  \A a \in pending :
    key[a] = k =>
      \/ a \in left
      \/ OnCommand /\ LabelOf(waiting) = k /\ a = latest[k]

MixesLeft(k) ==
  results[k].kind # "none" /\ results[k].ask # latest[k] => results[k].ask \in left

AgentInv ==
  /\ CommandsInv
  /\ \A k \in {"exec", "probe"} : AwaitsOne(k) /\ MixesLeft(k)

(* The agent goes on waiting, or the command it waited for is left.        *)
Leaves ==
  /\ left \subseteq left'
  /\ \/ LeftNow \subseteq left'
     \/ OnCommand' /\ waiting' = waiting

(* A command goes out, and the agent waits for it.                         *)
Starts ==
  \E k \in {"exec", "probe"} :
    /\ StartCommand(k)
    /\ OnCommand' /\ LabelOf(waiting)' = k
    /\ left \cup LeftNow \subseteq left'

(* Commands run for the call in flight, or they are left alone.            *)
LEMMA ParksStarts ==
  ASSUME NEW from, Parks(from), left \cup LeftNow \subseteq left'
  PROVE  (UNCHANGED commandVars /\ Leaves) \/ Starts
<1>1. ASSUME NEW w \in Waitings, Runs(w)
      PROVE  (UNCHANGED commandVars /\ Leaves) \/ Starts
  <2>1. CASE w \in {"exec", "probe", "exists"}
    <3>1. LabelOf(w) \in {"exec", "probe"} /\ StartCommand(LabelOf(w))
      BY <1>1, <2>1 DEF Runs, LabelOf
    <3>2. OnCommand' /\ LabelOf(waiting)' = LabelOf(w)
      BY <1>1, <2>1 DEF Runs, OnCommand, LabelOf
    <3> QED
      BY <3>1, <3>2 DEF Starts
  <2>2. CASE w \notin {"exec", "probe", "exists"}
    BY <1>1, <2>2 DEF Runs, Leaves
  <2> QED
    BY <2>1, <2>2
<1>2. ASSUME NEW p, Prompts(p)
      PROVE  UNCHANGED commandVars /\ Leaves
  BY <1>2 DEF Prompts, Leaves
<1> QED
  BY <1>1, <1>2 DEF Parks

(* A phase that ends starts a command, or leaves the one it waited for.    *)
LEMMA AdvanceStarts ==
  ASSUME NEW h, NEW q, Advance(h, q), left \cup LeftNow \subseteq left'
  PROVE  (UNCHANGED commandVars /\ Leaves) \/ Starts
BY ParksStarts DEF Advance, Rests, Leaves

(* Every step of the agent is of one of the three kinds: in no phase and   *)
(* by no click does it forget a command without having left it.            *)
LEMMA AgentKinds ==
  ASSUME AgentStep
  PROVE  \/ UNCHANGED commandVars /\ Leaves
         \/ Starts
         \/ \E k \in Labels : Cancel(k) /\ UNCHANGED agentVars
<1> USE DEF Leaves
<1>0. ~OnCommand => LeftNow = {}
  BY DEF LeftNow
<1>1. CASE AskModel
  BY <1>0, <1>1 DEF AskModel, OnCommand
<1>2. CASE ReplyArrives
  <2>1. LeftNow = {} /\ left' = left
    BY <1>0, <1>2 DEF ReplyArrives, OnCommand
  <2>2. Rests => UNCHANGED commandVars /\ Leaves
    BY <2>1 DEF Rests
  <2>3. (\E h, q : Advance(h, q)) => (UNCHANGED commandVars /\ Leaves) \/ Starts
    BY <2>1, AdvanceStarts
  <2> HIDE DEF Leaves
  <2> QED
    BY <1>2, <2>2, <2>3 DEF ReplyArrives
<1>3. CASE CommandAnswers
  <2>1. LeftNow \subseteq left' /\ left \subseteq left'
    BY <1>3 DEF CommandAnswers, LeftNow
  <2>2. CASE Settle
    BY <2>1, <2>2, AdvanceStarts DEF Settle
  <2>3. CASE Uploads
    BY <2>1, <2>3 DEF Uploads
  <2> QED
    BY <1>3, <2>2, <2>3 DEF CommandAnswers
<1>4. CASE ToolAnswers
  <2>1. LeftNow = {} /\ left' = left
    BY <1>0, <1>4 DEF ToolAnswers
  <2>2. CASE Settle
    BY <2>1, <2>2, AdvanceStarts DEF Settle
  <2>3. CASE Uploads
    BY <2>1, <2>3 DEF Uploads
  <2> QED
    BY <1>4, <2>2, <2>3 DEF ToolAnswers
<1>5. CASE SendMessage
  BY <1>0, <1>5 DEF SendMessage, OnCommand
<1>6. CASE Inject
  BY <1>0, <1>6 DEF Inject, OnCommand
<1>7. CASE Resume
  BY <1>0, <1>7 DEF Resume, OnCommand
<1>8. CASE Answer
  <2>1. LeftNow = {} /\ left' = left
    BY <1>0, <1>8 DEF Answer, OnCommand
  <2>2. CASE Settle
    BY <2>1, <2>2, AdvanceStarts DEF Settle
  <2>3. CASE Goes(phase)
    BY <2>1, <2>3, ParksStarts DEF Goes
  <2> QED
    BY <1>8, <2>2, <2>3 DEF Answer
<1>9. CASE Stop
  BY <1>9 DEF Stop, Rests
<1>10. CASE StopCommand
  BY <1>10, AgentLoopAssumption DEF StopCommand, LabelOf
<1>11. CASE Rewind
  BY <1>0, <1>11 DEF Rewind, OnCommand
<1>12. CASE NewChat \/ Reopen
  BY <1>12 DEF NewChat, Reopen, Cleared, Rests
<1> QED
  BY <1>1, <1>2, <1>3, <1>4, <1>5, <1>6, <1>7, <1>8, <1>9, <1>10, <1>11, <1>12 DEF AgentStep

(* What is left of the commands when the agent stops waiting.              *)
LEMMA LeavesAll ==
  ASSUME AgentInv, NEW k \in {"exec", "probe"}, NEW a \in pending, key[a] = k
  PROVE  a \in left \cup LeftNow
<1>1. k \in Labels /\ a # 0 /\ a # results[k].ask
  BY AgentLoopAssumption DEF AgentInv, CommandsInv
<1>2. a \in left \/ (OnCommand /\ LabelOf(waiting) = k /\ a = latest[k])
  BY DEF AgentInv, AwaitsOne
<1> QED
  BY <1>1, <1>2 DEF LeftNow, Unanswered

(* A label nobody asks under keeps its answers apart.                      *)
LEMMA DrainKeepsApart ==
  ASSUME AgentInv, NEW k \in {"exec", "probe"}, Drains(k), latest'[k] = latest[k],
         left \subseteq left'
  PROVE  MixesLeft(k)'
<1>1. AwaitsOne(k) /\ MixesLeft(k)
  BY DEF AgentInv
<1>2. CASE results'[k] = results[k]
  BY <1>1, <1>2 DEF MixesLeft
<1>3. ASSUME NEW a \in pending, key[a] = k, results'[k].ask = a
      PROVE  MixesLeft(k)'
  BY <1>1, <1>3 DEF AwaitsOne, MixesLeft
<1> QED
  BY <1>2, <1>3 DEF Drains

(* Steps that ask for nothing and leave the agent waiting, or not.         *)
LEMMA QuietKeepsAgent ==
  ASSUME AgentInv, CommandsInv', UNCHANGED <<key, latest>>, pending' \subseteq pending,
         \A k \in {"exec", "probe"} : Drains(k), Leaves
  PROVE  AgentInv'
<1>1. ASSUME NEW k \in {"exec", "probe"}
      PROVE  AwaitsOne(k)' /\ MixesLeft(k)'
  <2>1. MixesLeft(k)'
    BY DrainKeepsApart DEF Leaves
  <2>2. ASSUME NEW a \in pending', key[a] = k
        PROVE  a \in left' \/ (OnCommand' /\ LabelOf(waiting)' = k /\ a = latest[k])
    <3>1. CASE LeftNow \subseteq left'
      BY <2>2, <3>1, LeavesAll DEF Leaves
    <3>2. CASE OnCommand' /\ waiting' = waiting
      <4>1. a \in left \/ (OnCommand /\ LabelOf(waiting) = k /\ a = latest[k])
        BY <2>2 DEF AgentInv, AwaitsOne
      <4> QED
        BY <3>2, <4>1 DEF Leaves, LabelOf
    <3> QED
      BY <3>1, <3>2 DEF Leaves
  <2> QED
    BY <2>1, <2>2 DEF AwaitsOne
<1> QED
  BY <1>1 DEF AgentInv
(* A command that goes out under a label of the agent is the only one it   *)
(* waits for.                                                              *)
LEMMA StartsKeepsAgent ==
  ASSUME AgentInv, CommandsInv', Starts
  PROVE  AgentInv'
<1>1. PICK k \in {"exec", "probe"} :
        /\ StartCommand(k)
        /\ OnCommand' /\ LabelOf(waiting)' = k
        /\ left \cup LeftNow \subseteq left'
  BY DEF Starts
<1>2. CommandsTypeOK /\ k \in Labels /\ pending \subseteq 1..asked /\ asked \in Nat
  BY AgentLoopAssumption, TabCommandsAssumption DEF AgentInv, CommandsInv, CommandsTypeOK
<1>3. ASSUME NEW l \in {"exec", "probe"}, NEW a \in pending, key[a] = l
      PROVE  a \in left'
  BY <1>1, <1>3, LeavesAll
<1>4. CASE Send(k)
  <2>1. /\ asked' = asked + 1 /\ asked' \in Asks
        /\ pending' \subseteq pending \cup {asked'}
        /\ key' = [key EXCEPT ![asked'] = k] /\ key'[asked'] = k
        /\ latest' = [latest EXCEPT ![k] = asked']
        /\ results'[k] = NoResult
        /\ \A l \in Labels \ {k} : Drains(l)
    BY <1>2, <1>4, SendMoves
  <2>2. \A a \in pending : key'[a] = key[a]
    BY <1>2, <2>1 DEF CommandsTypeOK
  <2>3. ASSUME NEW l \in {"exec", "probe"}
        PROVE  AwaitsOne(l)' /\ MixesLeft(l)'
    <3>1. ASSUME NEW a \in pending', key'[a] = l
          PROVE  a \in left' \/ (OnCommand' /\ LabelOf(waiting)' = l /\ a = latest'[l])
      <4>1. CASE a \in pending
        BY <1>3, <2>2, <3>1, <4>1
      <4>2. CASE a = asked'
        BY <1>1, <1>2, <2>1, <3>1, <4>2 DEF CommandsTypeOK
      <4> QED
        BY <2>1, <4>1, <4>2
    <3>2. CASE l = k
      BY <2>1, <3>1, <3>2 DEF AwaitsOne, MixesLeft, NoResult
    <3>3. CASE l # k
      <4>1. l \in Labels \ {k} /\ latest'[l] = latest[l]
        BY <1>2, <2>1, <3>3, AgentLoopAssumption DEF CommandsTypeOK
      <4>2. MixesLeft(l)'
        BY <1>1, <2>1, <4>1, DrainKeepsApart
      <4> QED
        BY <3>1, <4>2 DEF AwaitsOne
    <3> QED
      BY <3>2, <3>3
  <2> QED
    BY <2>3 DEF AgentInv
<1>5. CASE RefuseAll({k})
  <2>1. /\ UNCHANGED <<asked, key>> /\ pending' \subseteq pending
        /\ latest' = [l \in Labels |-> IF l \in {k} THEN 0 ELSE latest[l]]
        /\ results'[k] = [kind |-> "failure", ask |-> 0]
        /\ \A l \in Labels \ {k} : Drains(l)
    BY <1>2, <1>5, RefuseMoves
  <2>2. ASSUME NEW l \in {"exec", "probe"}
        PROVE  AwaitsOne(l)' /\ MixesLeft(l)'
    <3>1. AwaitsOne(l)'
      BY <1>3, <2>1 DEF AwaitsOne
    <3>2. CASE l = k
      BY <1>2, <2>1, <3>1, <3>2 DEF MixesLeft
    <3>3. CASE l # k
      <4>1. l \in Labels \ {k} /\ latest'[l] = latest[l]
        BY <1>2, <2>1, <3>3, AgentLoopAssumption DEF CommandsTypeOK
      <4> QED
        BY <1>1, <2>1, <3>1, <4>1, DrainKeepsApart
    <3> QED
      BY <3>2, <3>3
  <2> QED
    BY <2>2 DEF AgentInv
<1> QED
  BY <1>1, <1>4, <1>5 DEF StartCommand

(* Another pane asks under a label of its own.                             *)
LEMMA OtherAskKeepsAgent ==
  ASSUME AgentInv, CommandsInv', NEW l \in Labels \ {"exec", "probe"}, StartCommand(l),
         UNCHANGED agentVars
  PROVE  AgentInv'
<1>1. CommandsTypeOK /\ pending \subseteq 1..asked /\ asked \in Nat /\ {"exec", "probe"} \subseteq Labels
  BY AgentLoopAssumption, TabCommandsAssumption DEF AgentInv, CommandsInv, CommandsTypeOK
<1>2. UNCHANGED <<phase, waiting, left>>
  BY DEF agentVars
<1>3. /\ \A k \in Labels \ {l} : Drains(k) /\ latest'[k] = latest[k]
      /\ \A a \in pending' : key'[a] \in {"exec", "probe"} => a \in pending /\ key[a] = key'[a]
  <2>1. CASE Send(l)
    <3>1. /\ asked' = asked + 1 /\ asked' \in Asks
          /\ pending' \subseteq pending \cup {asked'}
          /\ key' = [key EXCEPT ![asked'] = l] /\ key'[asked'] = l
          /\ latest' = [latest EXCEPT ![l] = asked']
          /\ \A k \in Labels \ {l} : Drains(k)
      BY <1>1, <2>1, SendMoves
    <3>2. \A a \in pending : key'[a] = key[a]
      BY <1>1, <3>1 DEF CommandsTypeOK
    <3> QED
      BY <1>1, <3>1, <3>2 DEF CommandsTypeOK
  <2>2. CASE RefuseAll({l})
    <3>1. /\ UNCHANGED <<asked, key>> /\ pending' \subseteq pending
          /\ latest' = [k \in Labels |-> IF k \in {l} THEN 0 ELSE latest[k]]
          /\ \A k \in Labels \ {l} : Drains(k)
      BY <1>1, <2>2, RefuseMoves
    <3> QED
      BY <3>1
  <2> QED
    BY <2>1, <2>2 DEF StartCommand
<1>4. ASSUME NEW k \in {"exec", "probe"}
      PROVE  AwaitsOne(k)' /\ MixesLeft(k)'
  <2>1. k \in Labels \ {l}
    BY <1>1
  <2>2. MixesLeft(k)'
    BY <1>2, <1>3, <2>1, DrainKeepsApart
  <2>3. AwaitsOne(k)'
    BY <1>2, <1>3, <2>1 DEF AgentInv, AwaitsOne, OnCommand, LabelOf
  <2> QED
    BY <2>2, <2>3
<1> QED
  BY <1>4 DEF AgentInv

(* Steps that leave the answers where they are.                            *)
LEMMA StillKeepsAgent ==
  ASSUME AgentInv, CommandsInv', UNCHANGED <<key, latest, results, pending, agentVars>>
  PROVE  AgentInv'
<1>1. \A k \in {"exec", "probe"} : Drains(k)
  BY DEF Drains
<1>2. Leaves
  BY DEF Leaves, LeftNow, agentVars, OnCommand
<1> QED
  BY <1>1, <1>2, QuietKeepsAgent

(* Every step of the agent and of the panes beside it.                     *)
LEMMA AgentKeepsAgent ==
  ASSUME AgentInv, AgentStep, UNCHANGED linkVars
  PROVE  AgentInv'
<1>1. CommandsInv /\ CommandsTypeOK
  BY DEF AgentInv, CommandsInv
<1>2. CASE UNCHANGED commandVars /\ Leaves
  <2>1. CommandsInv'
    BY <1>1, <1>2, LinkKeepsCommands DEF CommandsInv, LinkTypeOK, linkVars
  <2>2. \A k \in {"exec", "probe"} : Drains(k)
    BY <1>2 DEF Drains, commandVars
  <2> QED
    BY <1>2, <2>1, <2>2, QuietKeepsAgent DEF commandVars
<1>3. CASE Starts
  <2>1. CommandsInv'
    BY <1>1, <1>3, StartKeepsCommands, AgentLoopAssumption DEF Starts
  <2> QED
    BY <1>3, <2>1, StartsKeepsAgent
<1>4. ASSUME NEW k \in Labels, Cancel(k), UNCHANGED agentVars
      PROVE  AgentInv'
  <2>1. CommandsInv'
    BY <1>1, <1>4, CancelKeepsCommands
  <2> QED
    BY <1>4, <2>1, StillKeepsAgent DEF Cancel
<1> QED
  BY <1>2, <1>3, <1>4, AgentKinds

(* The other panes, the frames and the host, which know nothing of the     *)
(* agent.                                                                  *)
LEMMA OthersKeepAgent ==
  ASSUME AgentInv, OthersStep, UNCHANGED linkVars
  PROVE  AgentInv'
<1>1. CommandsInv /\ CommandsTypeOK /\ UNCHANGED agentVars
  BY DEF AgentInv, CommandsInv, OthersStep
<1>2. ASSUME NEW k \in Labels \ {"exec", "probe"}, Ask(k)
      PROVE  AgentInv'
  <2>1. CommandsInv'
    BY <1>1, <1>2, StartKeepsCommands DEF Ask
  <2> QED
    BY <1>1, <1>2, <2>1, OtherAskKeepsAgent DEF Ask
<1>3. ASSUME NEW k \in Labels, Cancel(k)
      PROVE  AgentInv'
  <2>1. CommandsInv'
    BY <1>1, <1>3, CancelKeepsCommands
  <2> QED
    BY <1>1, <1>3, <2>1, StillKeepsAgent DEF Cancel
<1>4. CASE PollCommands
  <2>1. CommandsInv'
    BY <1>1, <1>4, PollKeepsCommands
  <2>2. UNCHANGED <<asked, key, latest>> /\ pending' \subseteq pending
    BY <1>1, <1>4, PollMoves
  <2>3. \A k \in {"exec", "probe"} : Drains(k)
    BY <1>1, <1>4, PollMoves, AgentLoopAssumption
  <2>4. Leaves
    BY <1>1, <1>4 DEF Leaves, LeftNow, agentVars, OnCommand
  <2> QED
    BY <2>1, <2>2, <2>3, <2>4, QuietKeepsAgent
<1>5. ASSUME NEW a \in Asks, TaskStep(a)
      PROVE  AgentInv'
  <2>1. CommandsInv'
    BY <1>1, <1>5, TaskKeepsCommands
  <2>2. UNCHANGED <<key, pending, results, latest>>
    BY <1>5 DEF TaskStep, HostAnswers, TaskStops, TaskDies, EndTask
  <2> QED
    BY <1>1, <2>1, <2>2, StillKeepsAgent
<1> QED
  BY <1>2, <1>3, <1>4, <1>5 DEF OthersStep

(* Every step of the tab.                                                  *)
LEMMA NextKeepsAgent ==
  ASSUME AgentInv, BrokerTypeOK, [Next]_vars
  PROVE  AgentInv'
<1>1. CASE UNCHANGED <<commandVars, agentVars>>
  <2>1. LinkTypeOK'
    <3>1. CASE UNCHANGED brokerOwn /\ LinkTypeOK'
      BY <3>1
    <3>2. CASE [BrokerNext]_brokerVars
      BY <3>2, NextKeepsTypes DEF BrokerTypeOK
    <3> QED
      BY <3>1, <3>2, PanesStep
  <2>2. CommandsInv'
    BY <1>1, <2>1, LinkKeepsCommands DEF AgentInv
  <2> QED
    BY <1>1, <2>2, StillKeepsAgent DEF commandVars
<1>2. CASE InAgent((AgentStep \/ OthersStep) /\ asked' + link <= AgentSteps
                     /\ UNCHANGED linkVars)
  BY <1>2, AgentKeepsAgent, OthersKeepAgent DEF InAgent
<1>3. InBroker(BrokerNext) \/ FilesNext \/ InLayout \/ UNCHANGED vars
        => UNCHANGED <<commandVars, agentVars>>
  BY DEF InBroker, FilesNext, InFiles, InLayout, vars
<1>4. AgentNext =>
        \/ UNCHANGED <<commandVars, agentVars>>
        \/ InAgent((AgentStep \/ OthersStep) /\ asked' + link <= AgentSteps
                     /\ UNCHANGED linkVars)
  BY DEF AgentNext, InAgent
<1> QED
  BY <1>1, <1>2, <1>3, <1>4 DEF Next

(* From the start of the tab on.                                           *)
LEMMA AgentReadsItsOwn == Spec => []AgentInv
<1>1. Init => AgentInv
  <2> SUFFICES ASSUME LinkInit, CommandsInit PROVE AgentInv
    BY DEF Init, AgentInit
  <2>1. CommandsInv
    BY InitHasCommands, AgentLoopAssumption
  <2> QED
    BY <2>1, AgentLoopAssumption
    DEF AgentInv, AwaitsOne, MixesLeft, CommandsInit, NoResult
<1>2. AgentInv /\ BrokerTypeOK /\ [Next]_vars => AgentInv'
  BY NextKeepsAgent
<1> QED
  BY <1>1, <1>2, BrokerTypeCorrect, PTL DEF Spec

(* An answer the agent reads under its label is that of the command it     *)
(* asked there last, unless it stopped waiting for an earlier one: the     *)
(* labels of the other panes, the frames that drain answers in any order   *)
(* and the transports that come and go mix nothing up by themselves.       *)
THEOREM AnswersAreTheAgents == Spec => []OnlyLeftCommandsMixUp
<1>1. AgentInv => OnlyLeftCommandsMixUp
  BY DEF AgentInv, MixesLeft, OnlyLeftCommandsMixUp
<1> QED
  BY <1>1, AgentReadsItsOwn, PTL

-----------------------------------------------------------------------------
(* The history of the agent.                                               *)

(* A message that comes where the calls of r are unanswered, and leaves    *)
(* those of s: an answer is that of the first of them, and any other       *)
(* message gives them up, which a whole history has none of.               *)
Follows(m, r, s, whole) ==
  \/ /\ m.role = "tool" /\ m.calls = << >> /\ m.text
     /\ r # << >> /\ m.id = Head(r) /\ s = Tail(r)
  \/ /\ m.role # "tool" /\ s = m.calls
     /\ m.role = "user" => m.text
     /\ whole => r = << >>

(* How the history went, message by message.                               *)
Went(h, rest, whole) ==
  /\ rest \in [0..Len(h) -> Seq(Calls)]
  /\ rest[0] = << >>
  /\ \A n \in 1..Len(h) : Follows(h[n], rest[n - 1], rest[n], whole)

Shaped(h, r, whole) == \E rest : Went(h, rest, whole) /\ rest[Len(h)] = r

(* What a history owes is calls.                                           *)
LEMMA ShapedType ==
  ASSUME NEW h \in Seq(Messages), NEW r, NEW whole, Shaped(h, r, whole)
  PROVE  r \in Seq(Calls)
<1>1. Len(h) \in 0..Len(h)
  OBVIOUS
<1> QED
  BY <1>1 DEF Shaped, Went

(* No message, no call.                                                    *)
LEMMA ShapedEmpty ==
  ASSUME NEW whole
  PROVE  Shaped(<< >>, << >>, whole)
<1> DEFINE rest == [n \in 0..0 |-> << >>]
<1>1. rest \in [0..Len(<< >>) -> Seq(Calls)] /\ rest[0] = << >> /\ Len(<< >>) = 0
  OBVIOUS
<1> HIDE DEF rest
<1>2. Went(<< >>, rest, whole)
  BY <1>1 DEF Went
<1> QED
  BY <1>1, <1>2 DEF Shaped

(* Nothing is owed where nothing was said.                                 *)
LEMMA EmptyShaped ==
  ASSUME NEW r, NEW whole, Shaped(<< >>, r, whole)
  PROVE  r = << >>
BY DEF Shaped, Went

(* One more message.                                                       *)
LEMMA ShapedLonger ==
  ASSUME NEW h \in Seq(Messages), NEW m \in Messages, NEW r, NEW s \in Seq(Calls), NEW whole,
         Shaped(h, r, whole), Follows(m, r, s, whole)
  PROVE  Shaped(Append(h, m), s, whole)
<1>1. PICK k \in Nat : k = Len(h)
  OBVIOUS
<1>2. PICK longer : longer = Append(h, m)
  OBVIOUS
<1>3. Len(longer) = k + 1 /\ longer[k + 1] = m /\ \A n \in 1..k : longer[n] = h[n]
  BY <1>1, <1>2
<1>4. PICK rest : Went(h, rest, whole) /\ rest[k] = r
  BY <1>1 DEF Shaped
<1>5. /\ rest \in [0..k -> Seq(Calls)] /\ rest[0] = << >>
      /\ \A n \in 1..k : Follows(h[n], rest[n - 1], rest[n], whole)
  BY <1>1, <1>4 DEF Went
<1> DEFINE more == [n \in 0..k + 1 |-> IF n = k + 1 THEN s ELSE rest[n]]
<1>6. /\ more \in [0..k + 1 -> Seq(Calls)] /\ more[0] = << >> /\ more[k + 1] = s
      /\ \A n \in 0..k : more[n] = rest[n]
  BY <1>5
<1> HIDE DEF more
<1>7. ASSUME NEW n \in 1..k + 1
      PROVE  Follows(longer[n], more[n - 1], more[n], whole)
  <2>1. CASE n = k + 1
    <3>1. n - 1 = k /\ k \in 0..k
      BY <2>1
    <3>2. longer[n] = m /\ more[n - 1] = r /\ more[n] = s
      BY <1>3, <1>4, <1>6, <2>1, <3>1
    <3> QED
      BY <3>2
  <2>2. CASE n # k + 1
    <3>1. n \in 1..k /\ n - 1 \in 0..k /\ n \in 0..k
      BY <2>2
    <3>2. longer[n] = h[n] /\ more[n - 1] = rest[n - 1] /\ more[n] = rest[n]
      BY <1>3, <1>6, <3>1
    <3> QED
      BY <1>5, <3>1, <3>2
  <2> QED
    BY <2>1, <2>2
<1>8. Went(longer, more, whole) /\ more[Len(longer)] = s
  BY <1>3, <1>6, <1>7 DEF Went
<1> QED
  BY <1>2, <1>8 DEF Shaped

(* A history before its last message.                                      *)
LEMMA ShapedShorter ==
  ASSUME NEW h \in Seq(Messages), NEW m \in Messages, NEW s, NEW whole,
         Shaped(Append(h, m), s, whole)
  PROVE  s \in Seq(Calls) /\ \E r \in Seq(Calls) : Shaped(h, r, whole) /\ Follows(m, r, s, whole)
<1>1. PICK k \in Nat : k = Len(h)
  OBVIOUS
<1>2. PICK longer : longer = Append(h, m)
  OBVIOUS
<1>3. Len(longer) = k + 1 /\ longer[k + 1] = m /\ \A n \in 1..k : longer[n] = h[n]
  BY <1>1, <1>2
<1>4. PICK rest : Went(longer, rest, whole) /\ rest[k + 1] = s
  BY <1>2, <1>3 DEF Shaped
<1>5. /\ rest \in [0..k + 1 -> Seq(Calls)] /\ rest[0] = << >>
      /\ \A n \in 1..k + 1 : Follows(longer[n], rest[n - 1], rest[n], whole)
  BY <1>3, <1>4 DEF Went
<1> DEFINE less == [n \in 0..k |-> rest[n]]
<1>6. /\ less \in [0..k -> Seq(Calls)] /\ less[0] = << >>
      /\ \A n \in 0..k : less[n] = rest[n]
  BY <1>5
<1> HIDE DEF less
<1>7. ASSUME NEW n \in 1..k PROVE Follows(h[n], less[n - 1], less[n], whole)
  <2>1. n \in 1..k + 1 /\ n - 1 \in 0..k /\ n \in 0..k
    OBVIOUS
  <2>2. longer[n] = h[n] /\ less[n - 1] = rest[n - 1] /\ less[n] = rest[n]
    BY <1>3, <1>6, <2>1
  <2> QED
    BY <1>5, <2>1, <2>2
<1>8. Went(h, less, whole) /\ less[k] = rest[k] /\ rest[k] \in Seq(Calls)
  BY <1>1, <1>5, <1>6, <1>7 DEF Went
<1>9. Follows(m, rest[k], s, whole)
  <2>1. k + 1 \in 1..k + 1 /\ (k + 1) - 1 = k
    OBVIOUS
  <2> QED
    BY <1>3, <1>4, <1>5, <2>1
<1>10. s \in Seq(Calls)
  BY <1>4, <1>5
<1>11. Shaped(h, rest[k], whole)
  BY <1>1, <1>8 DEF Shaped
<1> QED
  BY <1>8, <1>9, <1>10, <1>11

(* A history that is whole is one that is not, too.                        *)
LEMMA WholeShaped ==
  ASSUME NEW h, NEW r, Shaped(h, r, TRUE)
  PROVE  Shaped(h, r, FALSE)
BY DEF Shaped, Went, Follows

(* The calls a history names, each of which it names once.                 *)
AllCalls(h) == UNION {Elements(h[i].calls) : i \in DOMAIN h}

NamedOnce(h) ==
  /\ \A i \in DOMAIN h : Distinct(h[i].calls)
  /\ \A i, j \in DOMAIN h : i # j => Elements(h[i].calls) \cap Elements(h[j].calls) = {}

(* One more message names its own.                                         *)
LEMMA LongerNames ==
  ASSUME NEW h \in Seq(Messages), NEW m \in Messages
  PROVE  /\ AllCalls(Append(h, m)) = AllCalls(h) \cup Elements(m.calls)
         /\ Answered(Append(h, m)) = Answered(h) \cup (IF m.role = "tool" THEN {m.id} ELSE {})
         /\ NamedOnce(Append(h, m)) <=>
              NamedOnce(h) /\ Distinct(m.calls) /\ Elements(m.calls) \cap AllCalls(h) = {}
<1>1. PICK k \in Nat : k = Len(h)
  OBVIOUS
<1>2. PICK longer : longer = Append(h, m)
  OBVIOUS
<1>3. DOMAIN longer = 1..k + 1 /\ longer[k + 1] = m /\ \A n \in 1..k : longer[n] = h[n]
  BY <1>1, <1>2
<1>4. DOMAIN h = 1..k /\ 1..k \subseteq 1..k + 1 /\ k + 1 \in 1..k + 1 /\ k + 1 \notin 1..k
      /\ \A n \in 1..k + 1 : n \in 1..k \/ n = k + 1
  BY <1>1
<1>5. AllCalls(longer) = AllCalls(h) \cup Elements(m.calls)
  <2>1. ASSUME NEW c \in AllCalls(longer) PROVE c \in AllCalls(h) \cup Elements(m.calls)
    <3>1. PICK n \in 1..k + 1 : c \in Elements(longer[n].calls)
      BY <1>3 DEF AllCalls
    <3> QED
      BY <1>3, <1>4, <3>1 DEF AllCalls
  <2>2. ASSUME NEW c \in AllCalls(h) PROVE c \in AllCalls(longer)
    <3>1. PICK n \in 1..k : c \in Elements(h[n].calls)
      BY <1>4 DEF AllCalls
    <3>2. n \in DOMAIN longer /\ longer[n] = h[n]
      BY <1>3, <1>4
    <3> QED
      BY <3>1, <3>2 DEF AllCalls
  <2>3. Elements(m.calls) \subseteq AllCalls(longer)
    BY <1>3, <1>4 DEF AllCalls
  <2> QED
    BY <2>1, <2>2, <2>3
<1>6. Answered(longer) = Answered(h) \cup (IF m.role = "tool" THEN {m.id} ELSE {})
  <2>1. ASSUME NEW c \in Answered(longer)
        PROVE  c \in Answered(h) \cup (IF m.role = "tool" THEN {m.id} ELSE {})
    <3>1. PICK n \in 1..k + 1 : longer[n].role = "tool" /\ c = longer[n].id
      BY <1>3 DEF Answered
    <3> QED
      BY <1>3, <1>4, <3>1 DEF Answered
  <2>2. ASSUME NEW c \in Answered(h) PROVE c \in Answered(longer)
    <3>1. PICK n \in 1..k : h[n].role = "tool" /\ c = h[n].id
      BY <1>4 DEF Answered
    <3>2. n \in DOMAIN longer /\ longer[n] = h[n]
      BY <1>3, <1>4
    <3> QED
      BY <3>1, <3>2 DEF Answered
  <2>3. m.role = "tool" => m.id \in Answered(longer)
    BY <1>3, <1>4 DEF Answered
  <2> QED
    BY <2>1, <2>2, <2>3
<1>7. ASSUME NamedOnce(longer)
      PROVE  NamedOnce(h) /\ Distinct(m.calls) /\ Elements(m.calls) \cap AllCalls(h) = {}
  <2>1. NamedOnce(h)
    BY <1>3, <1>4, <1>7 DEF NamedOnce
  <2>2. Distinct(m.calls)
    BY <1>3, <1>4, <1>7 DEF NamedOnce
  <2>3. \A n \in 1..k : Elements(m.calls) \cap Elements(h[n].calls) = {}
    BY <1>3, <1>4, <1>7 DEF NamedOnce
  <2> QED
    BY <1>4, <2>1, <2>2, <2>3 DEF AllCalls
<1>8. ASSUME NamedOnce(h), Distinct(m.calls), Elements(m.calls) \cap AllCalls(h) = {}
      PROVE  NamedOnce(longer)
  <2>1. \A n \in 1..k : Elements(m.calls) \cap Elements(h[n].calls) = {}
    BY <1>4, <1>8 DEF AllCalls
  <2>2. \A i \in DOMAIN longer : Distinct(longer[i].calls)
    BY <1>3, <1>4, <1>8 DEF NamedOnce
  <2>3. ASSUME NEW i \in DOMAIN longer, NEW j \in DOMAIN longer, i # j
        PROVE  Elements(longer[i].calls) \cap Elements(longer[j].calls) = {}
    <3>1. CASE i = k + 1
      BY <1>3, <1>4, <2>1, <2>3, <3>1
    <3>2. CASE j = k + 1
      BY <1>3, <1>4, <2>1, <2>3, <3>2
    <3>3. CASE i # k + 1 /\ j # k + 1
      BY <1>3, <1>4, <1>8, <2>3, <3>3 DEF NamedOnce
    <3> QED
      BY <3>1, <3>2, <3>3
  <2> QED
    BY <2>2, <2>3 DEF NamedOnce
<1> QED
  BY <1>2, <1>5, <1>6, <1>7, <1>8

(* The calls that are still to be answered were named, and not answered.   *)
Owed(h, r) ==
  /\ Elements(r) \subseteq AllCalls(h) /\ Answered(h) \subseteq AllCalls(h)
  /\ Elements(r) \cap Answered(h) = {} /\ Distinct(r)

(* A list with nothing in it.                                              *)
LEMMA NoElements ==
  ASSUME NEW T, NEW s \in Seq(T), Elements(s) = {}
  PROVE  s = << >>
<1>1. SUFFICES ASSUME s # << >> PROVE FALSE
  OBVIOUS
<1>2. 1 \in DOMAIN s
  BY <1>1
<1> QED
  BY <1>2 DEF Elements

(* The first call of a list, and the others.                               *)
LEMMA HeadElements ==
  ASSUME NEW T, NEW r \in Seq(T), r # << >>
  PROVE  /\ Head(r) \in T /\ Tail(r) \in Seq(T)
         /\ Elements(r) = {Head(r)} \cup Elements(Tail(r))
         /\ Distinct(r) => Head(r) \notin Elements(Tail(r)) /\ Distinct(Tail(r))
         /\ r = <<Head(r)>> \o Tail(r)
<1>1. Head(r) \in T /\ Tail(r) \in Seq(T) /\ r = <<Head(r)>> \o Tail(r) /\ <<Head(r)>> \in Seq(T)
  OBVIOUS
<1>2. Elements(<<Head(r)>>) = {Head(r)} /\ Distinct(<<Head(r)>>)
  BY DEF Elements, Distinct
<1>3. Elements(<<Head(r)>> \o Tail(r)) = Elements(<<Head(r)>>) \cup Elements(Tail(r))
  BY <1>1, ElementsOfConcat
<1>4. Distinct(<<Head(r)>> \o Tail(r)) <=>
        /\ Distinct(<<Head(r)>>) /\ Distinct(Tail(r))
        /\ Elements(<<Head(r)>>) \cap Elements(Tail(r)) = {}
  BY <1>1, ConcatDistinct
<1> QED
  BY <1>1, <1>2, <1>3, <1>4

(* One more message keeps that.                                            *)
LEMMA UnansweredStep ==
  ASSUME NEW h \in Seq(Messages), NEW m \in Messages, NEW r \in Seq(Calls), NEW s, NEW whole,
         Owed(h, r), Follows(m, r, s, whole), NamedOnce(Append(h, m))
  PROVE  Owed(Append(h, m), s)
<1> USE DEF Owed
<1>1. CASE m.role = "tool"
  <2>1. r # << >> /\ m.id = Head(r) /\ s = Tail(r) /\ m.calls = << >>
    BY <1>1 DEF Follows
  <2>2. Elements(m.calls) = {}
    BY <2>1 DEF Elements
  <2>3. /\ Elements(r) = {m.id} \cup Elements(s)
        /\ m.id \notin Elements(s) /\ Distinct(s)
    <3>1. r # << >> /\ Distinct(r)
      BY <2>1
    <3>2. /\ Elements(r) = {Head(r)} \cup Elements(Tail(r))
          /\ Head(r) \notin Elements(Tail(r)) /\ Distinct(Tail(r))
      BY <3>1, HeadElements
    <3> QED
      BY <2>1, <3>2
  <2>4. /\ AllCalls(Append(h, m)) = AllCalls(h) \cup Elements(m.calls)
        /\ Answered(Append(h, m)) = Answered(h) \cup {m.id}
    BY <1>1, LongerNames
  <2> QED
    BY <2>2, <2>3, <2>4
<1>2. CASE m.role # "tool"
  <2>1. s = m.calls
    BY <1>2 DEF Follows
  <2>2. /\ AllCalls(Append(h, m)) = AllCalls(h) \cup Elements(m.calls)
        /\ Answered(Append(h, m)) = Answered(h)
        /\ Distinct(m.calls) /\ Elements(m.calls) \cap AllCalls(h) = {}
    BY <1>2, LongerNames
  <2> QED
    BY <2>1, <2>2
<1> QED
  BY <1>1, <1>2

(* What a history owes are the calls nobody answered.                      *)
LEMMA UnansweredShaped ==
  ASSUME NEW h \in Seq(Messages), NEW r, NEW whole, Shaped(h, r, whole), NamedOnce(h)
  PROVE  Owed(h, r)
<1> DEFINE Good == {g \in Seq(Messages) :
                      \A q : Shaped(g, q, whole) /\ NamedOnce(g) => Owed(g, q)}
<1>1. << >> \in Good
  <2>1. Owed(<< >>, << >>)
    BY DEF Owed, Elements, AllCalls, Answered, Distinct
  <2> QED
    BY <2>1, EmptyShaped
<1>2. ASSUME NEW g \in Seq(Messages), NEW m \in Messages, g \in Good
      PROVE  Append(g, m) \in Good
  <2>1. Append(g, m) \in Seq(Messages)
    OBVIOUS
  <2>2. ASSUME NEW s, Shaped(Append(g, m), s, whole), NamedOnce(Append(g, m))
        PROVE  Owed(Append(g, m), s)
    <3>1. PICK q \in Seq(Calls) : Shaped(g, q, whole) /\ Follows(m, q, s, whole)
      BY <2>2, ShapedShorter
    <3>2. NamedOnce(g)
      BY <2>2, LongerNames
    <3>3. Owed(g, q)
      BY <1>2, <3>1, <3>2
    <3> QED
      BY <2>2, <3>1, <3>3, UnansweredStep
  <2> QED
    BY <2>1, <2>2
<1> HIDE DEF Good
<1>3. Seq(Messages) \subseteq Good
  BY <1>1, <1>2, ByAppending
<1>4. h \in Good
  BY <1>3
<1> QED
  BY <1>4 DEF Good

-----------------------------------------------------------------------------
(* What repair_history makes of a history, message by message.             *)

Cut(m, A) == [m EXCEPT !.calls = Only(@, A)]

Repairs(h, A) == Only([i \in DOMAIN h |-> Cut(h[i], A)], Worth)

(* A message whose calls are cut is one still.                             *)
LEMMA KeptType ==
  ASSUME NEW m \in Messages, NEW A
  PROVE  /\ Cut(m, A) \in Messages
         /\ Cut(m, A).calls = Only(m.calls, A)
         /\ Cut(m, A).role = m.role /\ Cut(m, A).id = m.id /\ Cut(m, A).text = m.text
<1>1. m.calls \in Seq(Calls)
  BY DEF Messages
<1>2. Only(m.calls, A) \in Seq(Calls)
  BY <1>1, OnlyKeeps
<1> QED
  BY <1>2 DEF Cut, Messages

(* A history is repaired message by message.                               *)
LEMMA RepairsAppend ==
  ASSUME NEW h \in Seq(Messages), NEW m \in Messages, NEW A
  PROVE  /\ Repairs(<< >>, A) = << >>
         /\ Repairs(h, A) \in Seq(Messages)
         /\ Repairs(Append(h, m), A) =
              IF m.text \/ Only(m.calls, A) # << >> THEN Append(Repairs(h, A), Cut(m, A))
              ELSE Repairs(h, A)
<1> DEFINE each(g) == [i \in DOMAIN g |-> Cut(g[i], A)]
<1>1. each(h) \in Seq(Messages) /\ each(<< >>) = << >>
  <2>1. \A i \in DOMAIN h : Cut(h[i], A) \in Messages
    BY KeptType
  <2> QED
    BY <2>1
<1>2. each(Append(h, m)) = Append(each(h), Cut(m, A))
  <2>1. PICK k \in Nat : k = Len(h)
    OBVIOUS
  <2>2. PICK longer : longer = Append(h, m)
    OBVIOUS
  <2>3. /\ DOMAIN longer = 1..k + 1 /\ DOMAIN h = 1..k
        /\ longer[k + 1] = m /\ \A n \in 1..k : longer[n] = h[n]
    BY <2>1, <2>2
  <2>4. PICK kept \in Seq(Messages) : kept = each(h) /\ Len(kept) = k
    BY <1>1, <2>3
  <2>5. PICK other : other = Append(kept, Cut(m, A))
    OBVIOUS
  <2>6. /\ DOMAIN other = 1..k + 1 /\ other = [n \in 1..k + 1 |-> other[n]]
        /\ other[k + 1] = Cut(m, A) /\ \A n \in 1..k : other[n] = kept[n]
    BY <2>4, <2>5
  <2>7. \A n \in 1..k : kept[n] = Cut(h[n], A)
    BY <2>3, <2>4
  <2>8. \A n \in 1..k + 1 : other[n] = Cut(longer[n], A)
    <3> SUFFICES ASSUME NEW n \in 1..k + 1 PROVE other[n] = Cut(longer[n], A)
      OBVIOUS
    <3>1. CASE n = k + 1
      BY <2>3, <2>6, <3>1
    <3>2. CASE n # k + 1
      <4>1. n \in 1..k
        BY <3>2
      <4> QED
        BY <2>3, <2>6, <2>7, <4>1
    <3> QED
      BY <3>1, <3>2
  <2> HIDE DEF each
  <2>9. each(longer) = [n \in 1..k + 1 |-> Cut(longer[n], A)]
    BY <2>3 DEF each
  <2> QED
    BY <2>2, <2>4, <2>5, <2>6, <2>8, <2>9
<1>3. Cut(m, A) \in Worth <=> m.text \/ Only(m.calls, A) # << >>
  BY KeptType DEF Worth
<1> HIDE DEF each
<1>4. Only(Append(each(h), Cut(m, A)), Worth) =
        IF Cut(m, A) \in Worth THEN Append(Only(each(h), Worth), Cut(m, A))
        ELSE Only(each(h), Worth)
  BY <1>1, KeptType, OnlyAppend
<1>5. /\ Repairs(h, A) = Only(each(h), Worth)
      /\ Repairs(Append(h, m), A) = Only(each(Append(h, m)), Worth)
      /\ Repairs(<< >>, A) = Only(each(<< >>), Worth)
  BY DEF Repairs, each
<1>6. Repairs(h, A) \in Seq(Messages)
  BY <1>1, <1>5, OnlyKeeps
<1>7. Repairs(<< >>, A) = << >>
  BY <1>1, <1>5, OnlyEmpty
<1> QED
  BY <1>2, <1>3, <1>4, <1>5, <1>6, <1>7

(* The calls nobody will answer any more.                                  *)
Dead(h, r) == (AllCalls(h) \ Answered(h)) \ Elements(r)

(* What is dead stays dead; a message that is no answer kills the rest.    *)
LEMMA DeadStaysDead ==
  ASSUME NEW h \in Seq(Messages), NEW m \in Messages, NEW r \in Seq(Calls), NEW s, NEW whole,
         Owed(h, r), Follows(m, r, s, whole), NamedOnce(Append(h, m))
  PROVE  /\ Dead(h, r) \subseteq Dead(Append(h, m), s)
         /\ m.role # "tool" => Elements(r) \subseteq Dead(Append(h, m), s)
<1> USE DEF Dead, Owed
<1>1. CASE m.role = "tool"
  <2>1. r # << >> /\ m.id = Head(r) /\ s = Tail(r)
    BY <1>1 DEF Follows
  <2>2. Elements(r) = {m.id} \cup Elements(s)
    BY <2>1, HeadElements
  <2>3. /\ AllCalls(Append(h, m)) = AllCalls(h) \cup Elements(m.calls)
        /\ Answered(Append(h, m)) = Answered(h) \cup {m.id}
    BY <1>1, LongerNames
  <2> QED
    BY <1>1, <2>2, <2>3
<1>2. CASE m.role # "tool"
  <2>1. s = m.calls
    BY <1>2 DEF Follows
  <2>2. /\ AllCalls(Append(h, m)) = AllCalls(h) \cup Elements(m.calls)
        /\ Answered(Append(h, m)) = Answered(h)
        /\ Elements(m.calls) \cap AllCalls(h) = {}
    BY <1>2, LongerNames
  <2> QED
    BY <2>1, <2>2
<1> QED
  BY <1>1, <1>2
(* What comes of a history: what is left of its unanswered calls is what   *)
(* will be answered, every other call that is left has its answer.         *)
Mended(h, g, q) ==
  /\ Shaped(g, q, TRUE) /\ NamedOnce(g) /\ AllCalls(g) \subseteq AllCalls(h)
  /\ (\E i \in DOMAIN h : h[i].text) => g # << >>

(* One more message is taken as it is, without the calls that are dead, or *)
(* not at all.                                                             *)
LEMMA MendedStep ==
  ASSUME NEW h \in Seq(Messages), NEW m \in Messages, NEW A, NEW r \in Seq(Calls),
         NEW s \in Seq(Calls),
         Owed(h, r), Follows(m, r, s, FALSE), NamedOnce(Append(h, m)),
         Answered(Append(h, m)) \subseteq A, A \cap Dead(Append(h, m), s) = {},
         Mended(h, Repairs(h, A), Only(r, A))
  PROVE  Mended(Append(h, m), Repairs(Append(h, m), A), Only(s, A))
<1>1. PICK g \in Seq(Messages) : g = Repairs(h, A)
  BY RepairsAppend
<1>2. PICK n \in Messages : n = Cut(m, A)
  BY KeptType
<1>3. /\ n.role = m.role /\ n.id = m.id /\ n.text = m.text
      /\ n.calls = Only(m.calls, A)
  BY <1>2, KeptType
<1>4. Shaped(g, Only(r, A), TRUE) /\ NamedOnce(g) /\ AllCalls(g) \subseteq AllCalls(h)
      /\ ((\E i \in DOMAIN h : h[i].text) => g # << >>)
  BY <1>1 DEF Mended
<1>5. m.calls \in Seq(Calls) /\ Only(s, A) \in Seq(Calls) /\ Only(r, A) \in Seq(Calls)
  BY OnlyKeeps DEF Messages
<1>6. Repairs(Append(h, m), A) = IF m.text \/ n.calls # << >> THEN Append(g, n) ELSE g
  BY <1>1, <1>2, <1>3, RepairsAppend
<1>7. /\ AllCalls(Append(h, m)) = AllCalls(h) \cup Elements(m.calls)
      /\ Elements(m.calls) \cap AllCalls(h) = {} /\ Distinct(m.calls)
  BY LongerNames
<1>8. Elements(n.calls) \subseteq Elements(m.calls) /\ Distinct(n.calls)
  <2>1. Elements(Only(m.calls, A)) = Elements(m.calls) \cap A
    BY <1>5, OnlyKeeps
  <2>2. Distinct(Only(m.calls, A))
    BY <1>5, <1>7, OnlyDistinct
  <2> QED
    BY <1>3, <2>1, <2>2
<1>9. NamedOnce(Append(g, n)) /\ AllCalls(Append(g, n)) \subseteq AllCalls(Append(h, m))
  <2>1. /\ AllCalls(Append(g, n)) = AllCalls(g) \cup Elements(n.calls)
        /\ NamedOnce(Append(g, n)) <=>
             NamedOnce(g) /\ Distinct(n.calls) /\ Elements(n.calls) \cap AllCalls(g) = {}
    BY LongerNames
  <2> QED
    BY <1>4, <1>7, <1>8, <2>1
<1>10. Append(g, n) # << >>
  OBVIOUS
<1>11. (\E i \in DOMAIN Append(h, m) : Append(h, m)[i].text)
         => m.text \/ \E i \in DOMAIN h : h[i].text
  <2>1. PICK k \in Nat : k = Len(h)
    OBVIOUS
  <2>2. PICK longer : longer = Append(h, m)
    OBVIOUS
  <2>3. /\ DOMAIN longer = 1..k + 1 /\ DOMAIN h = 1..k
        /\ longer[k + 1] = m /\ \A i \in 1..k : longer[i] = h[i]
        /\ \A i \in 1..k + 1 : i \in 1..k \/ i = k + 1
    BY <2>1, <2>2
  <2> QED
    BY <2>2, <2>3
<1>12. CASE m.role = "tool"
  <2>1. m.text /\ m.calls = << >> /\ r # << >> /\ m.id = Head(r) /\ s = Tail(r)
    BY <1>12 DEF Follows
  <2>2. Answered(Append(h, m)) = Answered(h) \cup {m.id}
    BY <1>12, LongerNames
  <2>3. Head(r) \in A
    BY <2>1, <2>2
  <2>4. Only(r, A) = <<Head(r)>> \o Only(s, A)
    <3>1. r = <<Head(r)>> \o Tail(r) /\ <<Head(r)>> \in Seq(Calls)
      BY <2>1
    <3>2. Only(<<Head(r)>>, A) = <<Head(r)>>
      BY <2>3, OnlyOne
    <3>3. PICK one \in Seq(Calls) : one = <<Head(r)>>
      BY <3>1
    <3>4. Only(one \o s, A) = Only(one, A) \o Only(s, A)
      BY OnlyConcat
    <3> QED
      BY <2>1, <3>1, <3>2, <3>3, <3>4
  <2>5. Only(r, A) # << >> /\ Head(Only(r, A)) = m.id /\ Tail(Only(r, A)) = Only(s, A)
    <3>1. PICK q \in Seq(Calls) : q = Only(s, A)
      BY <1>5
    <3>2. PICK c \in Calls : c = Head(r)
      BY <2>1
    <3>3. <<c>> \o q # << >> /\ Head(<<c>> \o q) = c /\ Tail(<<c>> \o q) = q
      OBVIOUS
    <3> QED
      BY <2>1, <2>4, <3>1, <3>2, <3>3
  <2>6. n.calls = << >>
    BY <1>3, <2>1, OnlyEmpty
  <2>7. Follows(n, Only(r, A), Only(s, A), TRUE)
    BY <1>3, <1>12, <2>1, <2>5, <2>6 DEF Follows
  <2>8. Shaped(Append(g, n), Only(s, A), TRUE)
    BY <1>4, <1>5, <2>7, ShapedLonger
  <2>9. Repairs(Append(h, m), A) = Append(g, n)
    BY <1>6, <2>1
  <2> QED
    BY <1>9, <1>10, <2>8, <2>9 DEF Mended
<1>13. CASE m.role # "tool"
  <2>1. s = m.calls
    BY <1>13 DEF Follows
  <2>2. Only(r, A) = << >>
    <3>1. Elements(r) \cap A = {}
      BY <1>13, DeadStaysDead
    <3>2. Elements(r) \cap A = Elements(r) \cap {}
      BY <3>1
    <3>3. Only(r, A) \in Seq(Calls) /\ Elements(Only(r, A)) = {}
      BY <3>1, OnlyKeeps
    <3> QED
      BY <3>3, NoElements
  <2>3. CASE m.text \/ n.calls # << >>
    <3>1. Follows(n, Only(r, A), Only(s, A), TRUE)
      BY <1>3, <1>13, <2>1, <2>2 DEF Follows
    <3>2. Shaped(Append(g, n), Only(s, A), TRUE)
      BY <1>4, <1>5, <3>1, ShapedLonger
    <3>3. Repairs(Append(h, m), A) = Append(g, n)
      BY <1>6, <2>3
    <3> QED
      BY <1>9, <1>10, <3>2, <3>3 DEF Mended
  <2>4. CASE ~(m.text \/ n.calls # << >>)
    <3>1. Only(s, A) = Only(r, A)
      BY <1>3, <2>1, <2>2, <2>4
    <3>2. Repairs(Append(h, m), A) = g
      BY <1>6, <2>4
    <3> QED
      BY <1>4, <1>7, <1>11, <2>4, <3>1, <3>2 DEF Mended
  <2> QED
    BY <2>3, <2>4
<1> QED
  BY <1>12, <1>13

(* Whatever the calls with an answer are, a repaired history is mended.    *)
LEMMA MendedShaped ==
  ASSUME NEW h \in Seq(Messages), NEW A, NEW r, Shaped(h, r, FALSE), NamedOnce(h),
         Answered(h) \subseteq A, A \cap Dead(h, r) = {}
  PROVE  Mended(h, Repairs(h, A), Only(r, A))
<1> DEFINE Calm(g, q) ==
             Shaped(g, q, FALSE) /\ NamedOnce(g) /\ Answered(g) \subseteq A /\ A \cap Dead(g, q) = {}
           Good == {g \in Seq(Messages) :
                      \A q : Calm(g, q) => Mended(g, Repairs(g, A), Only(q, A))}
<1>1. << >> \in Good
  <2>1. Repairs(<< >>, A) = << >> /\ Only(<< >>, A) = << >>
    BY OnlyEmpty DEF Repairs
  <2>2. Mended(<< >>, << >>, << >>)
    <3>1. AllCalls(<< >>) = {} /\ NamedOnce(<< >>)
      BY DEF NamedOnce, AllCalls
    <3>2. Shaped(<< >>, << >>, TRUE)
      BY ShapedEmpty
    <3>3. ~ \E i \in DOMAIN << >> : << >>[i].text
      OBVIOUS
    <3> QED
      BY <3>1, <3>2, <3>3 DEF Mended
  <2>3. ASSUME NEW q, Calm(<< >>, q) PROVE Mended(<< >>, Repairs(<< >>, A), Only(q, A))
    <3>1. q = << >>
      BY <2>3, EmptyShaped
    <3> QED
      BY <2>1, <2>2, <3>1
  <2> HIDE DEF Calm
  <2>4. << >> \in Seq(Messages)
    OBVIOUS
  <2> QED
    BY <2>3, <2>4
<1>2. ASSUME NEW g \in Seq(Messages), NEW m \in Messages, g \in Good
      PROVE  Append(g, m) \in Good
  <2>1. Append(g, m) \in Seq(Messages)
    OBVIOUS
  <2>2. ASSUME NEW s, Calm(Append(g, m), s)
        PROVE  Mended(Append(g, m), Repairs(Append(g, m), A), Only(s, A))
    <3>1. PICK q \in Seq(Calls) : Shaped(g, q, FALSE) /\ Follows(m, q, s, FALSE)
      BY <2>2, ShapedShorter
    <3>2. s \in Seq(Calls)
      BY <2>2, ShapedShorter
    <3>3. NamedOnce(g)
      BY <2>2, LongerNames
    <3>4. Owed(g, q)
      BY <3>1, <3>3, UnansweredShaped
    <3>5. Dead(g, q) \subseteq Dead(Append(g, m), s)
      BY <2>2, <3>1, <3>4, DeadStaysDead
    <3>6. Answered(g) \subseteq Answered(Append(g, m))
      BY LongerNames
    <3>7. Calm(g, q)
      BY <2>2, <3>1, <3>3, <3>5, <3>6
    <3>8. Mended(g, Repairs(g, A), Only(q, A))
      BY <1>2, <3>7
    <3> QED
      BY <2>2, <3>1, <3>2, <3>4, <3>8, MendedStep
  <2> HIDE DEF Calm
  <2> QED
    BY <2>1, <2>2
<1> HIDE DEF Good
<1>3. Seq(Messages) \subseteq Good
  BY <1>1, <1>2, ByAppending
<1>4. h \in Good
  BY <1>3
<1> QED
  BY <1>4 DEF Good

(* A history whose calls are named once is repaired to a whole one, which  *)
(* names no more, and of which nothing that was said is missing.           *)
LEMMA RepairedWhole ==
  ASSUME NEW h \in Seq(Messages), NEW r, Shaped(h, r, FALSE), NamedOnce(h)
  PROVE  /\ Repaired(h) \in Seq(Messages)
         /\ Shaped(Repaired(h), << >>, TRUE) /\ NamedOnce(Repaired(h))
         /\ AllCalls(Repaired(h)) \subseteq AllCalls(h)
         /\ (\E i \in DOMAIN h : h[i].text) => Repaired(h) # << >>
<1>1. Owed(h, r) /\ r \in Seq(Calls)
  BY UnansweredShaped, ShapedType
<1>2. Repaired(h) = Repairs(h, Answered(h))
  BY DEF Repaired, Repairs, KeptCalls, Cut
<1>3. Answered(h) \cap Dead(h, r) = {}
  BY DEF Dead
<1>4. Mended(h, Repaired(h), Only(r, Answered(h)))
  BY <1>2, <1>3, MendedShaped
<1>5. Only(r, Answered(h)) = << >>
  <2>1. Only(r, Answered(h)) \in Seq(Calls) /\ Elements(Only(r, Answered(h))) = {}
    BY <1>1, OnlyKeeps DEF Owed
  <2> QED
    BY <2>1, NoElements
<1>6. Repaired(h) \in Seq(Messages)
  <2>1. UserMessage \in Messages
    BY DEF UserMessage, Messages
  <2> QED
    BY <1>2, <2>1, RepairsAppend
<1> QED
  BY <1>4, <1>5, <1>6 DEF Mended

-----------------------------------------------------------------------------
(* A whole history is one a provider takes.                                *)

(* What is left of q from its k-th element on.                             *)
LEMMA SubSeqTail ==
  ASSUME NEW q \in Seq(Calls), NEW k \in Nat, k + 1 \in 1..Len(q)
  PROVE  /\ SubSeq(q, k + 1, Len(q)) # << >>
         /\ Head(SubSeq(q, k + 1, Len(q))) = q[k + 1]
         /\ Tail(SubSeq(q, k + 1, Len(q))) = SubSeq(q, (k + 1) + 1, Len(q))
<1>1. PICK l \in Nat : l = Len(q) /\ k + 1 <= l
  OBVIOUS
<1>2. SubSeq(q, k + 1, l) \in Seq(Calls) /\ SubSeq(q, (k + 1) + 1, l) \in Seq(Calls)
  BY <1>1
<1>3. /\ Len(SubSeq(q, k + 1, l)) = l - k
      /\ \A i \in 1..l - k : SubSeq(q, k + 1, l)[i] = q[k + i]
  BY <1>1
<1>4. /\ Len(SubSeq(q, (k + 1) + 1, l)) = (l - k) - 1
      /\ \A i \in 1..(l - k) - 1 : SubSeq(q, (k + 1) + 1, l)[i] = q[k + i + 1]
  BY <1>1
<1>5. PICK s \in Seq(Calls) : s = SubSeq(q, k + 1, l)
  BY <1>2
<1>6. PICK t \in Seq(Calls) : t = SubSeq(q, (k + 1) + 1, l)
  BY <1>2
<1>7. s # << >> /\ Head(s) = q[k + 1]
  <2>1. Len(s) = l - k /\ l - k >= 1 /\ 1 \in 1..l - k
    BY <1>1, <1>3, <1>5
  <2>2. s[1] = q[k + 1]
    BY <1>3, <1>5, <2>1
  <2> QED
    BY <2>1, <2>2
<1>8. Tail(s) = t
  <2>1. Len(s) = l - k /\ Len(t) = (l - k) - 1 /\ l - k \in Nat
    BY <1>1, <1>3, <1>4, <1>5, <1>6
  <2>2. Tail(s) \in Seq(Calls) /\ Len(Tail(s)) = (l - k) - 1
    BY <1>7, <2>1
  <2> DEFINE u == Tail(s)
  <2>3. ASSUME NEW i \in 1..(l - k) - 1 PROVE Tail(s)[i] = t[i]
    <3>1. Tail(s)[i] = s[i + 1] /\ i + 1 \in 1..l - k
      BY <1>7, <2>1
    <3>2. s[i + 1] = q[k + (i + 1)] /\ t[i] = q[k + i + 1] /\ k + (i + 1) = k + i + 1
      BY <1>3, <1>4, <1>5, <1>6, <3>1
    <3> QED
      BY <3>1, <3>2
  <2>4. u \in Seq(Calls) /\ Len(u) = (l - k) - 1 /\ \A i \in 1..(l - k) - 1 : u[i] = t[i]
    BY <2>2, <2>3
  <2> HIDE DEF u
  <2>5. u = t
    BY <2>1, <2>4
  <2> QED
    BY <2>5 DEF u
<1> QED
  BY <1>1, <1>5, <1>6, <1>7, <1>8

(* As far as only answers follow a message, they are those of its calls,   *)
(* one after the other.                                                    *)
LEMMA AnswersInOrder ==
  ASSUME NEW h \in Seq(Messages), NEW rest, Went(h, rest, TRUE), NEW i \in DOMAIN h,
         h[i].role # "tool", NEW l \in 0..Len(h) - i,
         \A k \in i + 1..i + l : h[k].role = "tool"
  PROVE  /\ l <= Len(h[i].calls)
         /\ rest[i + l] = SubSeq(h[i].calls, l + 1, Len(h[i].calls))
         /\ \A k \in 1..l : h[i + k].id = h[i].calls[k]
<1>1. PICK m \in Nat : m = Len(h) /\ i \in 1..m /\ l \in 0..m - i
  OBVIOUS
<1>2. PICK cs \in Seq(Calls) : cs = h[i].calls
  <2>1. h[i] \in Messages
    OBVIOUS
  <2> QED
    BY <2>1 DEF Messages
<1>3. /\ rest \in [0..m -> Seq(Calls)]
      /\ \A n \in 1..m : Follows(h[n], rest[n - 1], rest[n], TRUE)
  BY <1>1 DEF Went
<1> DEFINE InOrder(n) == /\ n <= Len(cs) /\ rest[i + n] = SubSeq(cs, n + 1, Len(cs))
                         /\ \A k \in 1..n : h[i + k].id = cs[k]
           ordered == {n \in 0..l : InOrder(n)}
<1>4. 0 \in ordered
  <2>1. rest[i] = cs
    BY <1>1, <1>2, <1>3 DEF Follows
  <2>2. SubSeq(cs, 1, Len(cs)) = cs
    OBVIOUS
  <2>3. i + 0 = i /\ 0 \in 0..l /\ 0 <= Len(cs) /\ 0 + 1 = 1 /\ 1..0 = {}
    BY <1>1
  <2> QED
    BY <2>1, <2>2, <2>3
<1>5. ASSUME NEW n \in 0..l - 1, n \in ordered PROVE n + 1 \in ordered
  <2>1. /\ i + (n + 1) \in 1..m /\ (i + (n + 1)) - 1 = i + n /\ i + (n + 1) \in i + 1..i + l
        /\ n + 1 \in 0..l
    <3>1. n \in Nat /\ l \in Nat /\ i \in Nat /\ n + 1 <= l /\ l <= m - i
      BY <1>1, <1>5
    <3>2. i + (n + 1) \in Nat /\ i + (n + 1) >= i + 1 /\ i + (n + 1) >= 1
      BY <3>1
    <3>3. i + (n + 1) <= i + l /\ i + (n + 1) <= m
      BY <1>1, <3>1
    <3>4. n + 1 \in 0..l
      BY <3>1
    <3>5. (i + (n + 1)) - 1 = i + n
      BY <3>1
    <3>6. i + (n + 1) \in 1..m
      BY <1>1, <3>2, <3>3
    <3>7. i + (n + 1) \in i + 1..i + l
      BY <3>1, <3>2, <3>3
    <3> QED
      BY <3>4, <3>5, <3>6, <3>7
  <2>2. n <= Len(cs) /\ rest[i + n] = SubSeq(cs, n + 1, Len(cs))
        /\ \A k \in 1..n : h[i + k].id = cs[k]
    BY <1>5
  <2>3. Follows(h[i + (n + 1)], rest[i + n], rest[i + (n + 1)], TRUE)
    BY <1>3, <2>1
  <2>4. h[i + (n + 1)].role = "tool"
    BY <2>1
  <2>5. /\ rest[i + n] # << >> /\ h[i + (n + 1)].id = Head(rest[i + n])
        /\ rest[i + (n + 1)] = Tail(rest[i + n])
    BY <2>3, <2>4 DEF Follows
  <2>6. n + 1 <= Len(cs)
    BY <2>2, <2>5
  <2>7. /\ Head(SubSeq(cs, n + 1, Len(cs))) = cs[n + 1]
        /\ Tail(SubSeq(cs, n + 1, Len(cs))) = SubSeq(cs, (n + 1) + 1, Len(cs))
    <3>1. n \in Nat /\ n + 1 \in 1..Len(cs)
      BY <2>1, <2>6
    <3> QED
      BY <3>1, SubSeqTail
  <2>8. \A k \in 1..n + 1 : k \in 1..n \/ k = n + 1
    OBVIOUS
  <2> QED
    BY <2>1, <2>2, <2>5, <2>6, <2>7, <2>8
<1> HIDE DEF ordered
<1>6. 0..l \subseteq ordered
  <2>1. l \in Nat
    BY <1>1
  <2> QED
    BY <1>4, <1>5, <2>1, UpTo
<1>7. l \in ordered
  BY <1>1, <1>6
<1> QED
  BY <1>2, <1>7 DEF ordered
(* A whole history is accepted by a provider.                              *)
LEMMA WholeAccepted ==
  ASSUME NEW h \in Seq(Messages), Shaped(h, << >>, TRUE)
  PROVE  Accepted(h) /\ (h # << >> => h[1].role # "tool")
<1>1. PICK rest : Went(h, rest, TRUE) /\ rest[Len(h)] = << >>
  BY DEF Shaped
<1>2. PICK m \in Nat : m = Len(h)
  OBVIOUS
<1>3. /\ rest \in [0..m -> Seq(Calls)] /\ rest[0] = << >> /\ rest[m] = << >>
      /\ \A n \in 1..m : Follows(h[n], rest[n - 1], rest[n], TRUE)
  BY <1>1, <1>2 DEF Went
<1>4. h # << >> => h[1].role # "tool"
  <2> SUFFICES ASSUME h # << >>, h[1].role = "tool" PROVE FALSE
    OBVIOUS
  <2>1. 1 \in 1..m /\ 1 - 1 = 0
    BY <1>2
  <2> QED
    BY <1>3, <2>1 DEF Follows
<1>5. ASSUME NEW i \in DOMAIN h, h[i].role # "tool"
      PROVE  /\ {h[k].id : k \in Following(h, i)} = Elements(h[i].calls)
             /\ Cardinality(Following(h, i)) = Len(h[i].calls)
  <2>1. i \in 1..m /\ i \in Nat /\ DOMAIN h = 1..m
    BY <1>2
  <2>2. PICK cs \in Seq(Calls) : cs = h[i].calls
    <3>1. h[i] \in Messages
      OBVIOUS
    <3> QED
      BY <3>1 DEF Messages
  <2>3. PICK L \in Nat : L = Len(cs)
    OBVIOUS
  <2> DEFINE Tools(l) == \A k \in i + 1..i + l : h[k].role = "tool"
             runs == {l \in 0..m - i : Tools(l)}
             both == {n \in 0..L : n \in runs}
  <2>4. ASSUME NEW l \in runs
        PROVE  /\ l \in 0..m - i
               /\ l <= L /\ rest[i + l] = SubSeq(cs, l + 1, L)
               /\ \A k \in 1..l : h[i + k].id = cs[k]
    <3>1. l \in 0..Len(h) - i /\ \A k \in i + 1..i + l : h[k].role = "tool"
      BY <1>2
    <3> HIDE DEF runs
    <3> QED
      BY <1>1, <1>2, <1>5, <2>2, <2>3, <3>1, AnswersInOrder
  <2>5. 0 \in both
    BY <2>1, <2>3
  <2>6. ASSUME NEW n \in 0..L - 1, n \in both PROVE n + 1 \in both
    <3>1. n \in runs /\ n \in Nat /\ n + 1 \in 0..L /\ n < L
      BY <2>3, <2>6
    <3>2. rest[i + n] = SubSeq(cs, n + 1, L) /\ n \in 0..m - i
      BY <2>4, <3>1
    <3>3. rest[i + n] # << >>
      <4>1. n + 1 <= L /\ L = Len(cs)
        BY <2>3, <3>1
      <4>2. Len(SubSeq(cs, n + 1, L)) # 0
        BY <3>1, <4>1
      <4>3. Len(rest[i + n]) # 0
        BY <3>2, <4>2, Zenon
      <4> QED
        BY <4>3
    <3>4. i + n # m /\ i + n \in 0..m
      <4>1. i + n # m
        BY <1>3, <3>3
      <4>2. i + n \in 0..m
        BY <1>2, <2>1, <3>1, <3>2
      <4> QED
        BY <4>1, <4>2
    <3>5. i + n + 1 \in 1..m /\ (i + n + 1) - 1 = i + n /\ n + 1 \in 0..m - i
      BY <1>2, <2>1, <3>1, <3>4
    <3>6. h[i + n + 1].role = "tool"
      BY <1>3, <3>3, <3>5 DEF Follows
    <3>7. \A k \in i + 1..i + (n + 1) : k \in i + 1..i + n \/ k = i + n + 1
      <4>1. i \in Nat /\ n \in Nat
        BY <2>1, <3>1
      <4> QED
        BY <4>1
    <3>8. Tools(n + 1)
      BY <3>1, <3>6, <3>7
    <3> QED
      BY <3>1, <3>5, <3>8
  <2> HIDE DEF both
  <2>7. 0..L \subseteq both
    BY <2>3, <2>5, <2>6, UpTo
  <2>8. L \in runs
    BY <2>3, <2>7 DEF both
  <2>9. Following(h, i) = i + 1..i + L
    <3>1. ASSUME NEW k \in Following(h, i) PROVE k \in i + 1..i + L
      <4>1. k \in 1..m /\ k > i /\ \A j \in (i + 1)..k : h[j].role = "tool"
        BY <2>1 DEF Following
      <4>2. k - i \in 0..m - i /\ i + (k - i) = k
        BY <1>2, <2>1, <4>1
      <4>3. k - i \in runs
        BY <4>1, <4>2
      <4>4. k - i <= L
        BY <2>4, <4>3
      <4> QED
        BY <2>1, <2>3, <4>1, <4>4
    <3>2. ASSUME NEW k \in i + 1..i + L PROVE k \in Following(h, i)
      <4>1. L \in 0..m - i /\ \A j \in i + 1..i + L : h[j].role = "tool"
        BY <2>8
      <4>2. k \in 1..m /\ k > i /\ (i + 1)..k \subseteq i + 1..i + L
        BY <1>2, <2>1, <2>3, <4>1
      <4> QED
        BY <2>1, <4>1, <4>2 DEF Following
    <3> QED
      BY <3>1, <3>2
  <2>10. \A k \in 1..L : h[i + k].id = cs[k]
    BY <2>4, <2>8
  <2> HIDE DEF runs
  <2>11. {h[k].id : k \in i + 1..i + L} = Elements(cs)
    <3>1. DOMAIN cs = 1..L
      BY <2>3
    <3>2. ASSUME NEW k \in i + 1..i + L PROVE h[k].id \in Elements(cs)
      <4>1. k - i \in 1..L /\ i + (k - i) = k
        BY <2>1, <2>3
      <4>2. h[k].id = cs[k - i]
        BY <2>10, <4>1
      <4> QED
        BY <3>1, <4>1, <4>2 DEF Elements
    <3>3. ASSUME NEW k \in 1..L PROVE cs[k] \in {h[j].id : j \in i + 1..i + L}
      <4>1. i + k \in i + 1..i + L
        BY <2>1, <2>3
      <4> QED
        BY <2>10, <4>1
    <3> QED
      BY <3>1, <3>2, <3>3 DEF Elements
  <2>12. Cardinality(i + 1..i + L) = L
    <3>1. i + 1 \in Int /\ i + L \in Int
      BY <2>1, <2>3
    <3>2. Cardinality(i + 1..i + L)
            = IF i + 1 > i + L THEN 0 ELSE (i + L) - (i + 1) + 1
      BY <3>1, FS_Interval
    <3> QED
      BY <2>1, <2>3, <3>2
  <2> QED
    BY <2>2, <2>3, <2>9, <2>11, <2>12
<1> QED
  BY <1>4, <1>5 DEF Accepted

-----------------------------------------------------------------------------
(* The steps of the agent, on its history.                                 *)

(* A history that was named c calls, with those of r still to be answered. *)
Sound(h, r, c) ==
  h \in Seq(Messages) /\ Shaped(h, r, FALSE) /\ NamedOnce(h) /\ AllCalls(h) \subseteq 1..c

Spoken(h) == \E i \in DOMAIN h : h[i].text

(* What the agent makes are messages.                                      *)
LEMMA MessageTypes ==
  /\ UserMessage \in Messages
  /\ \A c \in Calls \cup {NoCall} : Tool(c) \in Messages
  /\ \A cs \in Seq(Calls), text \in BOOLEAN : Assistant(cs, text) \in Messages
BY DEF UserMessage, Tool, Assistant, Messages

(* What is said last.                                                      *)
LEMMA LastSpoken ==
  ASSUME NEW h \in Seq(Messages), NEW m \in Messages, m.text
  PROVE  Spoken(Append(h, m))
<1>1. PICK k \in Nat : k = Len(h)
  OBVIOUS
<1>2. k + 1 \in DOMAIN Append(h, m) /\ Append(h, m)[k + 1] = m
  BY <1>1
<1> QED
  BY <1>2 DEF Spoken

(* A message without calls names none.                                     *)
LEMMA NoNewNames ==
  ASSUME NEW h \in Seq(Messages), NEW m \in Messages, m.calls = << >>, NamedOnce(h)
  PROVE  NamedOnce(Append(h, m)) /\ AllCalls(Append(h, m)) = AllCalls(h)
<1>1. Elements(m.calls) = {} /\ Distinct(m.calls)
  BY DEF Elements, Distinct
<1>2. /\ AllCalls(Append(h, m)) = AllCalls(h) \cup Elements(m.calls)
      /\ NamedOnce(Append(h, m)) <=>
           NamedOnce(h) /\ Distinct(m.calls) /\ Elements(m.calls) \cap AllCalls(h) = {}
  BY LongerNames
<1> QED
  BY <1>1, <1>2

(* The call that is next is answered.                                      *)
LEMMA SoundAnswer ==
  ASSUME NEW h, NEW r \in Seq(Calls), NEW c, Sound(h, r, c), r # << >>
  PROVE  Sound(Append(h, Tool(Head(r))), Tail(r), c) /\ Spoken(Append(h, Tool(Head(r))))
<1>1. Head(r) \in Calls /\ Tail(r) \in Seq(Calls)
  OBVIOUS
<1>2. PICK m \in Messages : m = Tool(Head(r))
  BY <1>1, MessageTypes
<1>3. m.role = "tool" /\ m.calls = << >> /\ m.text /\ m.id = Head(r)
  BY <1>2 DEF Tool
<1>4. Follows(m, r, Tail(r), FALSE)
  BY <1>3 DEF Follows
<1>5. Shaped(Append(h, m), Tail(r), FALSE)
  BY <1>1, <1>4, ShapedLonger DEF Sound
<1>6. h \in Seq(Messages) /\ NamedOnce(h) /\ AllCalls(h) \subseteq 1..c
  BY DEF Sound
<1>7. NamedOnce(Append(h, m)) /\ AllCalls(Append(h, m)) = AllCalls(h)
  BY <1>3, <1>6, NoNewNames
<1>8. Append(h, m) \in Seq(Messages)
  BY <1>6
<1>9. Sound(Append(h, m), Tail(r), c)
  BY <1>5, <1>6, <1>7, <1>8 DEF Sound
<1>10. Spoken(Append(h, m))
  BY <1>3, <1>6, LastSpoken
<1> QED
  BY <1>2, <1>9, <1>10, Zenon

(* The user says something: what was not answered never will be.           *)
LEMMA SoundUser ==
  ASSUME NEW h, NEW r, NEW c, Sound(h, r, c)
  PROVE  Sound(Append(h, UserMessage), << >>, c) /\ Spoken(Append(h, UserMessage))
<1>1. PICK m \in Messages : m = UserMessage
  BY MessageTypes
<1>2. m.role = "user" /\ m.calls = << >> /\ m.text
  BY <1>1 DEF UserMessage
<1>3. Follows(m, r, << >>, FALSE) /\ << >> \in Seq(Calls)
  BY <1>2 DEF Follows
<1>4. Shaped(Append(h, m), << >>, FALSE)
  BY <1>3, ShapedLonger DEF Sound
<1>5. h \in Seq(Messages) /\ NamedOnce(h) /\ AllCalls(h) \subseteq 1..c
  BY DEF Sound
<1>6. NamedOnce(Append(h, m)) /\ AllCalls(Append(h, m)) = AllCalls(h)
  BY <1>2, <1>5, NoNewNames
<1>8. Append(h, m) \in Seq(Messages)
  BY <1>5
<1>9. Spoken(Append(h, m))
  BY <1>2, <1>5, LastSpoken
<1>10. Sound(Append(h, m), << >>, c)
  BY <1>4, <1>5, <1>6, <1>8 DEF Sound
<1> QED
  BY <1>1, <1>9, <1>10, Zenon

(* The model replies, and names its calls.                                 *)
LEMMA SoundReply ==
  ASSUME UniqueIds, called \in Nat, NEW n \in Nat, called + n <= MaxCalls, NEW text \in BOOLEAN,
         NEW r, Sound(history, r, called)
  PROVE  /\ Named(n) \in Seq(Calls) /\ Len(Named(n)) = n
         /\ Sound(Append(history, Assistant(Named(n), text)), Named(n), called + n)
<1>1. PICK cs : cs = [i \in 1..n |-> called + i]
  OBVIOUS
<1>2. cs \in Seq(Calls) /\ Len(cs) = n /\ \A i \in 1..n : cs[i] = called + i
  <2>1. \A i \in 1..n : called + i \in Calls
    BY AgentLoopAssumption DEF Calls
  <2> QED
    BY <1>1, <2>1
<1>3. Named(n) = cs
  BY <1>1 DEF Named
<1>4. Distinct(cs) /\ Elements(cs) \subseteq called + 1..called + n
  BY <1>2 DEF Distinct, Elements
<1>5. PICK m \in Messages : m = Assistant(cs, text)
  BY <1>2, MessageTypes
<1>6. m.role = "assistant" /\ m.calls = cs
  BY <1>5 DEF Assistant
<1>7. Follows(m, r, cs, FALSE)
  BY <1>6 DEF Follows
<1>8. Shaped(Append(history, m), cs, FALSE)
  BY <1>2, <1>7, ShapedLonger DEF Sound
<1>9. Elements(cs) \cap AllCalls(history) = {}
  BY <1>4 DEF Sound
<1>10. /\ NamedOnce(Append(history, m))
       /\ AllCalls(Append(history, m)) = AllCalls(history) \cup Elements(cs)
  BY <1>4, <1>6, <1>9, LongerNames DEF Sound
<1>11. AllCalls(Append(history, m)) \subseteq 1..called + n
  BY <1>4, <1>10 DEF Sound
<1>12. Append(history, m) \in Seq(Messages)
  BY DEF Sound
<1> QED
  BY <1>2, <1>3, <1>5, <1>8, <1>10, <1>11, <1>12 DEF Sound

(* What is cut off leaves a history.                                       *)
LEMMA SoundPrefix ==
  ASSUME NEW h, NEW r, NEW c, Sound(h, r, c), NEW k \in 0..Len(h)
  PROVE  \E q : Sound(SubSeq(h, 1, k), q, c)
<1>1. PICK m \in Nat : m = Len(h) /\ k \in 0..m /\ h \in Seq(Messages) /\ DOMAIN h = 1..m
  BY DEF Sound
<1>2. PICK g \in Seq(Messages) : g = SubSeq(h, 1, k)
  <2>1. SubSeq(h, 1, k) \in Seq(Messages)
    BY <1>1
  <2> QED
    BY <2>1
<1>3. Len(g) = k /\ DOMAIN g = 1..k /\ (\A n \in 1..k : g[n] = h[n]) /\ 1..k \subseteq 1..m
  BY <1>1, <1>2
<1>4. PICK rest : Went(h, rest, FALSE)
  BY DEF Sound, Shaped
<1>5. /\ rest \in [0..m -> Seq(Calls)] /\ rest[0] = << >>
      /\ \A n \in 1..m : Follows(h[n], rest[n - 1], rest[n], FALSE)
  BY <1>1, <1>4 DEF Went
<1> DEFINE less == [n \in 0..k |-> rest[n]]
<1>6. less \in [0..k -> Seq(Calls)] /\ less[0] = << >> /\ \A n \in 0..k : less[n] = rest[n]
  BY <1>1, <1>5
<1> HIDE DEF less
<1>7. ASSUME NEW n \in 1..k PROVE Follows(g[n], less[n - 1], less[n], FALSE)
  <2>1. n \in 1..m /\ n - 1 \in 0..k /\ n \in 0..k
    BY <1>1
  <2> QED
    BY <1>3, <1>5, <1>6, <2>1
<1>8. Shaped(g, less[k], FALSE)
  BY <1>3, <1>6, <1>7 DEF Shaped, Went
<1>9. NamedOnce(g) /\ AllCalls(g) \subseteq AllCalls(h)
  BY <1>1, <1>3 DEF Sound, NamedOnce, AllCalls
<1> QED
  BY <1>2, <1>8, <1>9 DEF Sound

(* The messages sent while the agent was busy follow.                      *)
LEMMA SoundUsers ==
  ASSUME NEW h, NEW r, NEW c, Sound(h, r, c), NEW n \in Nat
  PROVE  /\ \E q : Sound(h \o UserMessages(n), q, c)
         /\ Spoken(h) \/ n > 0 => Spoken(h \o UserMessages(n))
<1> DEFINE Good(k) == /\ \E q : Sound(h \o UserMessages(k), q, c)
                      /\ Spoken(h) \/ k > 0 => Spoken(h \o UserMessages(k))
           good == {k \in 0..n : Good(k)}
<1>1. h \in Seq(Messages)
  BY DEF Sound
<1>2. 0 \in good
  <2>1. UserMessages(0) = << >>
    BY DEF UserMessages
  <2>2. h \o UserMessages(0) = h
    BY <1>1, <2>1
  <2>3. \E q : Sound(h \o UserMessages(0), q, c)
    BY <2>2, Zenon
  <2>4. Spoken(h) => Spoken(h \o UserMessages(0))
    BY <2>2, Zenon
  <2>5. Good(0)
    BY <2>3, <2>4
  <2> HIDE DEF Good
  <2> QED
    BY <2>5
<1>3. ASSUME NEW k \in 0..n - 1, k \in good PROVE k + 1 \in good
  <2>1. /\ UserMessages(k) \in Seq(Messages)
        /\ UserMessages(k + 1) = Append(UserMessages(k), UserMessage)
    BY MessageTypes DEF UserMessages
  <2>2. PICK u \in Seq(Messages) : u = UserMessages(k)
    BY <2>1
  <2>3. h \o Append(u, UserMessage) = Append(h \o u, UserMessage)
    BY <1>1, MessageTypes, ConcatAppend
  <2>4. PICK q : Sound(h \o u, q, c)
    BY <1>3, <2>2
  <2>5. Sound(h \o UserMessages(k + 1), << >>, c) /\ Spoken(h \o UserMessages(k + 1))
    BY <2>1, <2>2, <2>3, <2>4, SoundUser
  <2>6. Good(k + 1) /\ k + 1 \in 0..n
    BY <2>5
  <2> HIDE DEF Good
  <2> QED
    BY <2>6
<1> HIDE DEF good
<1>4. 0..n \subseteq good
  BY <1>2, <1>3, UpTo
<1>5. n \in good
  BY <1>4
<1> QED
  BY <1>5 DEF good

(* The first n of the calls that are next are answered on the spot.        *)
LEMMA SoundAdvance ==
  ASSUME NEW h, NEW q \in Seq(Calls), NEW c, Sound(h, q, c), NEW n \in 0..Len(q)
  PROVE  /\ Sound(h \o [i \in 1..n |-> Tool(q[i])], SubSeq(q, n + 1, Len(q)), c)
         /\ Spoken(h) \/ n > 0 => Spoken(h \o [i \in 1..n |-> Tool(q[i])])
<1> DEFINE tools(k) == [i \in 1..k |-> Tool(q[i])]
           Good(k) == /\ Sound(h \o tools(k), SubSeq(q, k + 1, Len(q)), c)
                      /\ Spoken(h) \/ k > 0 => Spoken(h \o tools(k))
           good == {k \in 0..n : Good(k)}
<1>1. h \in Seq(Messages) /\ n \in Nat /\ n <= Len(q)
  BY DEF Sound
<1>2. 0 \in good
  <2>1. tools(0) = << >>
    OBVIOUS
  <2>2. h \o tools(0) = h
    BY <1>1, <2>1
  <2>3. SubSeq(q, 0 + 1, Len(q)) = q
    OBVIOUS
  <2> HIDE DEF tools
  <2>4. Sound(h \o tools(0), SubSeq(q, 0 + 1, Len(q)), c)
    BY <2>2, <2>3, Zenon
  <2>5. Spoken(h) => Spoken(h \o tools(0))
    BY <2>2, Zenon
  <2>6. Good(0) /\ 0 \in 0..n
    BY <1>1, <2>4, <2>5
  <2> HIDE DEF Good
  <2> QED
    BY <2>6
<1>3. ASSUME NEW k \in 0..n - 1, k \in good PROVE k + 1 \in good
  <2>1. k \in Nat /\ k + 1 \in 1..Len(q) /\ k + 1 \in 0..n
    BY <1>1
  <2>2. \A i \in 1..k + 1 : Tool(q[i]) \in Messages
    BY <2>1, MessageTypes
  <2>3. PICK t \in Seq(Messages) : t = tools(k)
    <3>1. \A i \in 1..k : Tool(q[i]) \in Messages
      BY <2>1, <2>2
    <3>2. tools(k) \in Seq(Messages)
      BY <2>1, <3>1
    <3> QED
      BY <3>2
  <2>4. PICK m \in Messages : m = Tool(q[k + 1])
    BY <2>1, <2>2
  <2>5. tools(k + 1) = Append(t, m)
    BY <2>1, <2>2, <2>3, <2>4
  <2>6. PICK s \in Seq(Calls) : s = SubSeq(q, k + 1, Len(q))
    <3>1. SubSeq(q, k + 1, Len(q)) \in Seq(Calls)
      BY <2>1
    <3> QED
      BY <3>1
  <2>7. s # << >> /\ Head(s) = q[k + 1] /\ Tail(s) = SubSeq(q, (k + 1) + 1, Len(q))
    BY <2>1, <2>6, SubSeqTail
  <2>8. Sound(h \o t, s, c)
    BY <1>3, <2>3, <2>6
  <2>9. Sound(Append(h \o t, m), Tail(s), c)
    BY <2>4, <2>7, <2>8, SoundAnswer
  <2>10. h \o Append(t, m) = Append(h \o t, m)
    BY <1>1, ConcatAppend
  <2>11. Spoken(Append(h \o t, m))
    BY <2>4, <2>7, <2>8, SoundAnswer
  <2>12. Good(k + 1)
    <3> HIDE DEF tools
    <3> QED
      BY <2>5, <2>7, <2>9, <2>10, <2>11
  <2> HIDE DEF Good
  <2> QED
    BY <2>1, <2>12
<1> HIDE DEF good
<1>4. 0..n \subseteq good
  BY <1>1, <1>2, <1>3, UpTo
<1>5. n \in good
  BY <1>1, <1>4
<1> QED
  BY <1>5 DEF good

(* Nothing is owed by a history that was repaired.                         *)
LEMMA SoundRepaired ==
  ASSUME NEW h, NEW r, NEW c, Sound(h, r, c), Spoken(h)
  PROVE  /\ Sound(Repaired(h), << >>, c)
         /\ Repaired(h) # << >> /\ Shaped(Repaired(h), << >>, TRUE)
BY RepairedWhole, WholeShaped DEF Sound, Spoken
(* The history of a conversation nobody has said anything in.              *)
LEMMA SoundStart ==
  ASSUME NEW c
  PROVE  Sound(<< >>, << >>, c)
<1>1. << >> \in Seq(Messages) /\ DOMAIN << >> = {}
  OBVIOUS
<1>2. NamedOnce(<< >>) /\ AllCalls(<< >>) = {}
  BY <1>1 DEF NamedOnce, AllCalls
<1> QED
  BY <1>1, <1>2, ShapedEmpty DEF Sound

(* What a user or a tool says is something.                                *)
LEMMA SoundSpoken ==
  ASSUME NEW h, NEW r, NEW c, Sound(h, r, c), NEW n \in DOMAIN h,
         h[n].role \in {"user", "tool"}
  PROVE  Spoken(h)
<1>1. h \in Seq(Messages)
  BY DEF Sound
<1>2. PICK rest : Went(h, rest, FALSE)
  BY DEF Sound, Shaped
<1>3. n \in 1..Len(h)
  BY <1>1
<1>4. Follows(h[n], rest[n - 1], rest[n], FALSE)
  BY <1>2, <1>3 DEF Went
<1> QED
  BY <1>4 DEF Follows, Spoken

(* The phases in which a call is under way.                                *)
Busy == {"Approving", "Allowing", "Running", "Asking", "Sudo"}

(* What the agent still has to answer is the call in flight and the queue, *)
(* a reply that is awaited is to a whole history, and the next one is only *)
(* asked for by an agent at rest.                                          *)
AgentSound ==
  /\ \E r : /\ Sound(history, r, called)
            /\ phase \in Busy => r # << >> /\ call = Head(r) /\ queue = Tail(r)
  /\ phase = "Streaming" => history # << >> /\ Shaped(history, << >>, TRUE)
  /\ needsReply => phase = "none" /\ Spoken(history)

(* A call that is under way has a phase of its own.                        *)
LEMMA ParksBusy ==
  ASSUME NEW from, Parks(from)
  PROVE  phase' \in Busy
BY DEF Parks, Runs, Prompts, Busy

(* A request goes out with the history repaired.                           *)
LEMMA RequestKeeps ==
  ASSUME NEW h, NEW r, Sound(h, r, called), Spoken(h), Request(h), called' = called,
         ~needsReply'
  PROVE  AgentSound'
<1>1. history' = Repaired(h) /\ phase' = "Streaming"
  BY DEF Request
<1>2. Sound(history', << >>, called')
  BY <1>1, SoundRepaired
<1>3. history' # << >> /\ Shaped(history', << >>, TRUE)
  BY <1>1, SoundRepaired
<1>4. phase' \notin Busy
  BY <1>1 DEF Busy
<1> QED
  BY <1>2, <1>3, <1>4 DEF AgentSound

(* The agent goes on with its calls.                                       *)
LEMMA AdvanceKeeps ==
  ASSUME NEW h, NEW q \in Seq(Calls), NEW c, Sound(h, q, c), Spoken(h) \/ q # << >>,
         ~needsReply, Advance(h, q), called' = c
  PROVE  AgentSound'
<1>1. PICK n \in 0..Len(q) :
        /\ history' = h \o [i \in 1..n |-> Tool(q[i])]
        /\ queue' = SubSeq(q, n + 2, Len(q))
        /\ IF n = Len(q)
           THEN call' = NoCall /\ needsReply' = TRUE /\ Rests
           ELSE call' = q[n + 1] /\ UNCHANGED needsReply /\ Parks("none")
  BY DEF Advance
<1>2. /\ Sound(history', SubSeq(q, n + 1, Len(q)), called')
      /\ Spoken(h) \/ n > 0 => Spoken(history')
  BY <1>1, SoundAdvance
<1>3. CASE n = Len(q)
  <2>1. phase' = "none" /\ "none" \notin Busy
    BY <1>1, <1>3 DEF Rests, Busy
  <2>2. Spoken(h) \/ n > 0
    BY <1>3
  <2> QED
    BY <1>2, <2>1, <2>2 DEF AgentSound
<1>4. CASE n # Len(q)
  <2>1. call' = q[n + 1] /\ ~needsReply' /\ phase' \in Busy
    BY <1>1, <1>4, ParksBusy
  <2>2. n \in Nat /\ n + 1 \in 1..Len(q) /\ n + 2 = (n + 1) + 1
    BY <1>1, <1>4
  <2>3. PICK s : s = SubSeq(q, n + 1, Len(q))
    OBVIOUS
  <2>4. s # << >> /\ call' = Head(s) /\ queue' = Tail(s)
    BY <1>1, <2>1, <2>2, <2>3, SubSeqTail
  <2>5. Sound(history', s, called')
    BY <1>2, <2>3
  <2>6. phase' # "Streaming"
    BY <2>1 DEF Busy
  <2> QED
    BY <2>1, <2>4, <2>5, <2>6 DEF AgentSound
<1> QED
  BY <1>3, <1>4

(* The call that was under way is answered, and the agent goes on.         *)
LEMMA SettleKeeps ==
  ASSUME AgentSound, phase \in Busy, Settle
  PROVE  AgentSound'
<1>1. PICK r : /\ Sound(history, r, called)
               /\ r # << >> /\ call = Head(r) /\ queue = Tail(r)
  BY DEF AgentSound
<1>2. r \in Seq(Calls)
  BY <1>1, ShapedType DEF Sound
<1>3. /\ Sound(Append(history, Tool(call)), queue, called)
      /\ Spoken(Append(history, Tool(call)))
  BY <1>1, <1>2, SoundAnswer
<1>4. queue \in Seq(Calls)
  BY <1>1, <1>2
<1>5. ~needsReply
  BY DEF AgentSound, Busy
<1> QED
  BY <1>3, <1>4, <1>5, AdvanceKeeps DEF Settle

(* Every step of the agent.                                                *)
LEMMA AgentStepSound ==
  ASSUME UniqueIds, called \in Nat, injected \in Nat, AgentSound, AgentStep
  PROVE  AgentSound'
<1>1. PICK r : /\ Sound(history, r, called)
               /\ phase \in Busy => r # << >> /\ call = Head(r) /\ queue = Tail(r)
  BY DEF AgentSound
<1>2. r \in Seq(Calls) /\ history \in Seq(Messages)
  BY <1>1, ShapedType DEF Sound
<1>3. phase # "none" => ~needsReply
  BY DEF AgentSound
<1>4. "Running" \in Busy /\ "Streaming" \notin Busy /\ "none" \notin Busy
      /\ {"Allowing", "Approving", "Asking", "Sudo"} \subseteq Busy
  BY DEF Busy
<1>5. CASE AskModel
  <2>1. PICK q : Sound(history \o UserMessages(injected), q, called)
    BY <1>1, SoundUsers
  <2>2. Spoken(history) \/ injected > 0
    BY <1>5 DEF AskModel, AgentSound
  <2>3. Spoken(history \o UserMessages(injected))
    BY <1>1, <2>2, SoundUsers
  <2> QED
    BY <1>5, <2>1, <2>3, RequestKeeps DEF AskModel
<1>6. CASE ReplyArrives
  <2>1. ~needsReply /\ phase = "Streaming"
    BY <1>3, <1>6 DEF ReplyArrives
  <2>2. CASE Rests /\ UNCHANGED <<call, queue, history, needsReply, called>>
    <3>1. Sound(history', r, called') /\ phase' = "none" /\ ~needsReply'
      BY <1>1, <2>1, <2>2 DEF Rests
    <3> QED
      BY <1>4, <3>1 DEF AgentSound
  <2>3. ASSUME NEW n \in 0..2, NEW text \in BOOLEAN,
               called + n <= MaxCalls, called' = called + n,
               IF n > 0 THEN Advance(Append(history, Assistant(Named(n), text)), Named(n))
               ELSE /\ history' = Append(history, Assistant(Named(n), text))
                    /\ Rests /\ UNCHANGED <<call, queue, needsReply>>
        PROVE  AgentSound'
    <3>1. /\ Named(n) \in Seq(Calls) /\ Len(Named(n)) = n
          /\ Sound(Append(history, Assistant(Named(n), text)), Named(n), called')
      BY <1>1, <2>3, SoundReply
    <3>2. CASE n > 0
      <4>1. Named(n) # << >>
        BY <3>1, <3>2
      <4> QED
        BY <2>1, <2>3, <3>1, <3>2, <4>1, AdvanceKeeps
    <3>3. CASE n = 0
      <4>1. ~(n > 0)
        BY <3>3
      <4>2. history' = Append(history, Assistant(Named(n), text)) /\ Rests /\ UNCHANGED needsReply
        BY <2>3, <4>1, Zenon
      <4>3. Sound(history', Named(n), called')
        BY <3>1, <4>2, Zenon
      <4>4. phase' = "none" /\ ~needsReply'
        BY <2>1, <4>2 DEF Rests
      <4> QED
        BY <1>4, <4>3, <4>4 DEF AgentSound
    <3> QED
      BY <3>2, <3>3
  <2> QED
    BY <1>6, <2>2, <2>3 DEF ReplyArrives
<1>7. ASSUME Uploads, phase = "Running"
      PROVE  AgentSound'
  BY <1>7 DEF Uploads, AgentSound
<1>8. CASE CommandAnswers
  BY <1>4, <1>7, <1>8, SettleKeeps DEF CommandAnswers, OnCommand
<1>9. CASE ToolAnswers
  BY <1>4, <1>7, <1>9, SettleKeeps DEF ToolAnswers
<1>10. CASE SendMessage
  <2>1. ~needsReply
    BY <1>10 DEF SendMessage, HeadDone
  <2>2. /\ Sound(Append(history, UserMessage), << >>, called)
        /\ Spoken(Append(history, UserMessage))
    BY <1>1, SoundUser
  <2> QED
    BY <1>10, <2>1, <2>2, RequestKeeps DEF SendMessage
<1>11. CASE Inject
  BY <1>11 DEF Inject, AgentSound
<1>12. CASE Resume
  <2>1. ~needsReply
    BY <1>12 DEF Resume, HeadDone
  <2>2. Len(history) \in DOMAIN history /\ history[Len(history)].role \in {"user", "tool"}
    BY <1>2, <1>12 DEF Resume
  <2>3. Spoken(history)
    BY <1>1, <2>2, SoundSpoken
  <2> QED
    BY <1>1, <1>12, <2>1, <2>3, RequestKeeps DEF Resume
<1>13. CASE Answer
  <2>1. phase \in Busy
    BY <1>4, <1>13 DEF Answer
  <2>2. ASSUME Goes(phase) PROVE AgentSound'
    <3>1. phase' \in Busy /\ phase' # "Streaming"
      BY <2>2, ParksBusy DEF Goes, Busy
    <3> QED
      BY <1>1, <1>3, <2>1, <2>2, <3>1, <1>4 DEF Goes, AgentSound
  <2> QED
    BY <1>13, <2>1, <2>2, SettleKeeps DEF Answer
<1>14. CASE Stop
  <2>1. phase' = "none" /\ ~needsReply' /\ called' = called
    BY <1>3, <1>14 DEF Stop, Rests
  <2>2. \E q : Sound(history', q, called)
    <3>1. CASE phase = "Streaming"
      BY <1>1, <1>14, <3>1 DEF Stop
    <3>2. CASE phase = "Running"
      BY <1>1, <1>2, <1>4, <1>14, <3>2, SoundAnswer DEF Stop
    <3> QED
      BY <1>14, <3>1, <3>2 DEF Stop
  <2> QED
    BY <1>4, <2>1, <2>2 DEF AgentSound
<1>15. CASE StopCommand
  BY <1>15 DEF StopCommand, agentVars, AgentSound
<1>16. CASE Rewind
  <2>1. phase' = "none" /\ ~needsReply' /\ called' = called
    BY <1>16 DEF Rewind
  <2>2. history' = history \/ \E j \in DOMAIN history : history' = SubSeq(history, 1, j - 1)
    BY <1>16 DEF Rewind
  <2>3. ASSUME NEW j \in DOMAIN history PROVE j - 1 \in 0..Len(history)
    BY <1>2
  <2>4. \E q : Sound(history', q, called)
    BY <1>1, <2>2, <2>3, SoundPrefix
  <2> QED
    BY <1>4, <2>1, <2>4 DEF AgentSound
<1>17. CASE NewChat
  <2>1. phase' = "none" /\ ~needsReply' /\ called' = called /\ history' = << >>
    BY <1>17 DEF NewChat, Cleared, Rests
  <2>2. Sound(<< >>, << >>, called)
    BY SoundStart
  <2> QED
    BY <1>4, <2>1, <2>2 DEF AgentSound
<1>18. CASE Reopen
  <2>1. phase' = "none" /\ ~needsReply' /\ called' = called /\ history' = history
    BY <1>18 DEF Reopen, Cleared, Rests
  <2> QED
    BY <1>1, <1>4, <2>1 DEF AgentSound
<1> QED
  BY <1>5, <1>6, <1>8, <1>9, <1>10, <1>11, <1>12, <1>13, <1>14, <1>15, <1>16, <1>17, <1>18
  DEF AgentStep
-----------------------------------------------------------------------------
(* The types of the agent.                                                 *)

(* What AgentTypeOK says of the agent's own state.                         *)
AgentOwn ==
  /\ phase \in Phases /\ waiting \in Waitings
  /\ call \in Calls \cup {NoCall} /\ queue \in Seq(Calls)
  /\ history \in Seq(Messages)
  /\ needsReply \in BOOLEAN
  /\ turns \in Nat /\ injected \in Nat
  /\ called \in 0..MaxCalls
  /\ left \subseteq Asks

(* A call parks in one of the phases.                                      *)
LEMMA ParksType ==
  ASSUME NEW from, Parks(from)
  PROVE  phase' \in Phases /\ waiting' \in Waitings
BY DEF Parks, Runs, Prompts, Phases, Waitings

(* What a request leaves.                                                  *)
LEMMA RequestType ==
  ASSUME NEW h \in Seq(Messages), Request(h), AgentOwn
  PROVE  /\ history' \in Seq(Messages) /\ phase' \in Phases
         /\ waiting' \in Waitings /\ call' \in Calls \cup {NoCall} /\ queue' \in Seq(Calls)
<1>1. Repaired(h) \in Seq(Messages)
  <2>1. Repaired(h) = Repairs(h, Answered(h))
    BY DEF Repaired, Repairs, KeptCalls, Cut
  <2> QED
    BY <2>1, RepairsAppend, MessageTypes
<1> QED
  BY <1>1 DEF Request, AgentOwn, Phases

(* What going on with the calls leaves.                                    *)
LEMMA AdvanceType ==
  ASSUME NEW h \in Seq(Messages), NEW q \in Seq(Calls), Advance(h, q), needsReply \in BOOLEAN
  PROVE  /\ history' \in Seq(Messages) /\ phase' \in Phases /\ needsReply' \in BOOLEAN
         /\ waiting' \in Waitings /\ call' \in Calls \cup {NoCall} /\ queue' \in Seq(Calls)
<1>1. PICK n \in 0..Len(q) :
        /\ history' = h \o [i \in 1..n |-> Tool(q[i])]
        /\ queue' = SubSeq(q, n + 2, Len(q))
        /\ IF n = Len(q)
           THEN call' = NoCall /\ needsReply' = TRUE /\ Rests
           ELSE call' = q[n + 1] /\ UNCHANGED needsReply /\ Parks("none")
  BY DEF Advance
<1>2. n \in Nat /\ Len(q) \in Nat /\ n <= Len(q)
  OBVIOUS
<1>3. history' \in Seq(Messages)
  <2>1. \A i \in 1..n : q[i] \in Calls
    BY <1>2
  <2>2. \A i \in 1..n : Tool(q[i]) \in Messages
    BY <2>1, MessageTypes
  <2>3. [i \in 1..n |-> Tool(q[i])] \in Seq(Messages)
    BY <1>2, <2>2
  <2> QED
    BY <1>1, <2>3
<1>4. queue' \in Seq(Calls)
  <2>1. SubSeq(q, n + 2, Len(q)) \in Seq(Calls)
    BY <1>2
  <2> QED
    BY <1>1, <2>1
<1>5. CASE n = Len(q)
  BY <1>1, <1>3, <1>4, <1>5 DEF Rests, Phases, Waitings
<1>6. CASE n # Len(q)
  <2>1. n + 1 \in 1..Len(q)
    BY <1>2, <1>6
  <2>2. call' = q[n + 1] /\ needsReply' = needsReply /\ Parks("none")
    BY <1>1, <1>6
  <2>3. call' \in Calls
    BY <2>1, <2>2
  <2> QED
    BY <1>3, <1>4, <2>2, <2>3, ParksType
<1> QED
  BY <1>5, <1>6

(* The command the agent leaves is one that was sent.                      *)
LEMMA LeftType ==
  ASSUME CommandsTypeOK
  PROVE  LeftNow \subseteq Asks /\ (OnCommand => Unanswered(LabelOf(waiting)) \subseteq Asks)
<1>1. LabelOf(waiting) \in Labels
  BY AgentLoopAssumption DEF LabelOf
<1>2. latest[LabelOf(waiting)] \in 0..MaxAsks
  BY <1>1 DEF CommandsTypeOK
<1>3. Unanswered(LabelOf(waiting)) \subseteq Asks
  BY <1>2, TabCommandsAssumption DEF Unanswered, Asks
<1> QED
  BY <1>3 DEF LeftNow

(* No step of the agent takes its state out of what it is to be: not even  *)
(* where two calls of a conversation are named alike.                      *)
LEMMA AgentStepOwn ==
  ASSUME CommandsTypeOK, AgentOwn, AgentStep
  PROVE  AgentOwn'
<1> USE AgentLoopAssumption
<1>1. ASSUME NEW k \in Nat PROVE history \o UserMessages(k) \in Seq(Messages)
  <2>1. UserMessages(k) \in Seq(Messages)
    BY MessageTypes DEF UserMessages
  <2> QED
    BY <2>1 DEF AgentOwn
<1>2. Append(history, Tool(call)) \in Seq(Messages) /\ Append(history, UserMessage) \in Seq(Messages)
  BY MessageTypes DEF AgentOwn
<1>3. ASSUME Settle PROVE AgentOwn' \/ ~(left' \subseteq Asks)
  <2>1. Advance(Append(history, Tool(call)), queue) /\ UNCHANGED <<turns, injected, called>>
    BY <1>3 DEF Settle
  <2> QED
    BY <1>2, <2>1, AdvanceType DEF AgentOwn
<1>4. ASSUME NEW from, Goes(from), UNCHANGED left PROVE AgentOwn'
  BY <1>4, ParksType DEF Goes, AgentOwn
<1>5. Uploads => AgentOwn' \/ ~(left' \subseteq Asks)
  BY DEF Uploads, AgentOwn, Waitings
<1>6. CASE AskModel
  <2>1. Request(history \o UserMessages(injected)) /\ injected \in Nat
    BY <1>6 DEF AskModel, AgentOwn
  <2> QED
    BY <1>1, <1>6, <2>1, RequestType DEF AskModel, AgentOwn
<1>7. CASE ReplyArrives
  <2>1. CASE Rests /\ UNCHANGED <<call, queue, history, needsReply, called>>
    BY <1>7, <2>1 DEF ReplyArrives, Rests, AgentOwn, Phases, Waitings
  <2>2. ASSUME NEW n \in 0..2, NEW text \in BOOLEAN,
               called + n <= MaxCalls, called' = called + n,
               IF n > 0 THEN Advance(Append(history, Assistant(Named(n), text)), Named(n))
               ELSE /\ history' = Append(history, Assistant(Named(n), text))
                    /\ Rests /\ UNCHANGED <<call, queue, needsReply>>
        PROVE  AgentOwn'
    <3>1. called' \in 0..MaxCalls /\ left' = left /\ turns' = turns /\ injected' = injected
      BY <1>7, <2>2 DEF ReplyArrives, AgentOwn
    <3>2. Named(n) \in Seq(Calls)
      <4>1. \A i \in 1..n : (IF UniqueIds THEN called + i ELSE i) \in Calls
        BY <2>2 DEF AgentOwn, Calls
      <4> QED
        BY <4>1 DEF Named
    <3>3. Append(history, Assistant(Named(n), text)) \in Seq(Messages)
      BY <3>2, MessageTypes DEF AgentOwn
    <3>4. CASE n > 0
      <4>1. Advance(Append(history, Assistant(Named(n), text)), Named(n))
        BY <2>2, <3>4
      <4> QED
        BY <3>1, <3>2, <3>3, <4>1, AdvanceType DEF AgentOwn
    <3>5. CASE ~(n > 0)
      <4>1. /\ history' = Append(history, Assistant(Named(n), text))
            /\ Rests /\ UNCHANGED <<call, queue, needsReply>>
        BY <2>2, <3>5, Zenon
      <4>2. history' \in Seq(Messages)
        BY <3>3, <4>1, Zenon
      <4> QED
        BY <3>1, <4>1, <4>2 DEF Rests, AgentOwn, Phases, Waitings
    <3> QED
      BY <3>4, <3>5
  <2> QED
    BY <1>7, <2>1, <2>2 DEF ReplyArrives
<1>8. CASE CommandAnswers
  <2>1. left' \subseteq Asks
    BY <1>8, LeftType DEF CommandAnswers, AgentOwn
  <2> QED
    BY <1>3, <1>5, <1>8, <2>1 DEF CommandAnswers
<1>9. CASE ToolAnswers
  BY <1>3, <1>5, <1>9 DEF ToolAnswers, AgentOwn
<1>10. CASE SendMessage
  <2>1. Request(Append(history, UserMessage)) /\ AgentOwn
    BY <1>10 DEF SendMessage
  <2>2. /\ history' \in Seq(Messages) /\ phase' \in Phases
        /\ waiting' \in Waitings /\ call' \in Calls \cup {NoCall} /\ queue' \in Seq(Calls)
    BY <1>2, <2>1, RequestType, Zenon
  <2>3. turns' \in Nat /\ UNCHANGED <<needsReply, injected, called, left>>
    BY <1>10 DEF SendMessage, AgentOwn
  <2> QED
    BY <2>2, <2>3 DEF AgentOwn
<1>11. CASE Inject
  BY <1>11 DEF Inject, AgentOwn
<1>12. CASE Resume
  <2>1. Request(history) /\ history \in Seq(Messages)
    BY <1>12 DEF Resume, AgentOwn
  <2> QED
    BY <1>12, <2>1, RequestType DEF Resume, AgentOwn
<1>13. CASE Answer
  BY <1>3, <1>4, <1>13 DEF Answer, AgentOwn
<1>14. CASE Stop
  <2>1. history' \in Seq(Messages) /\ left' \subseteq Asks
    BY <1>2, <1>14, LeftType DEF Stop, AgentOwn
  <2>2. /\ Rests /\ call' = NoCall /\ queue' = << >>
        /\ UNCHANGED <<needsReply, turns, injected, called>>
    BY <1>14 DEF Stop
  <2> QED
    BY <2>1, <2>2 DEF Rests, AgentOwn, Phases, Waitings
<1>15. CASE StopCommand
  BY <1>15 DEF StopCommand, agentVars, AgentOwn
<1>16. CASE Rewind
  <2>1. history' = history \/ \E j \in DOMAIN history : history' = SubSeq(history, 1, j - 1)
    BY <1>16 DEF Rewind
  <2>2. ASSUME NEW j \in DOMAIN history PROVE SubSeq(history, 1, j - 1) \in Seq(Messages)
    BY DEF AgentOwn
  <2>3. history' \in Seq(Messages)
    BY <2>1, <2>2 DEF AgentOwn
  <2>4. turns' \in Nat
    BY <1>16 DEF Rewind, AgentOwn
  <2>5. UNCHANGED <<phase, waiting, call, queue, injected, called, left>> /\ needsReply' = FALSE
    BY <1>16 DEF Rewind
  <2> QED
    BY <2>3, <2>4, <2>5 DEF AgentOwn
<1>17. CASE NewChat \/ Reopen
  <2>1. /\ phase' = "none" /\ waiting' = "none" /\ call' = NoCall /\ queue' = << >>
        /\ needsReply' = FALSE /\ injected' = 0 /\ called' = called
        /\ left' = left \cup LeftNow
    BY <1>17 DEF NewChat, Reopen, Cleared, Rests
  <2>2. (history' = << >> /\ turns' = 0) \/ (history' = history /\ turns' = turns)
    BY <1>17 DEF NewChat, Reopen
  <2>3. left' \subseteq Asks /\ queue' \in Seq(Calls)
    BY <2>1, LeftType DEF AgentOwn
  <2>4. history' \in Seq(Messages) /\ turns' \in Nat
    <3>1. << >> \in Seq(Messages) /\ 0 \in Nat
      OBVIOUS
    <3>2. history \in Seq(Messages) /\ turns \in Nat
      BY DEF AgentOwn
    <3> QED
      BY <2>2, <3>1, <3>2, Zenon
  <2> QED
    BY <2>1, <2>3, <2>4 DEF AgentOwn, Phases, Waitings
<1> QED
  BY <1>6, <1>7, <1>8, <1>9, <1>10, <1>11, <1>12, <1>13, <1>14, <1>15, <1>16, <1>17
  DEF AgentStep

(* A step of the tab is one of the agent's, or leaves the agent alone.     *)
LEMMA AgentMovesAlone ==
  ASSUME [Next]_vars
  PROVE  AgentStep \/ UNCHANGED agentVars
<1>1. AgentNext => AgentStep \/ UNCHANGED agentVars
  BY DEF AgentNext, InAgent, OthersStep
<1>2. InBroker(BrokerNext) \/ FilesNext \/ InLayout \/ UNCHANGED vars => UNCHANGED agentVars
  BY DEF InBroker, FilesNext, InFiles, InLayout, vars
<1> QED
  BY <1>1, <1>2 DEF Next

(* The agent's own state, whatever the model replies and the user clicks.  *)
LEMMA AgentOwnTypes == Spec => []AgentOwn
<1>1. Init => AgentOwn
  <2> SUFFICES ASSUME AgentInit PROVE AgentOwn
    BY DEF Init
  <2>1. history \in Seq(Messages) /\ queue \in Seq(Calls)
    BY DEF AgentInit
  <2>2. called \in 0..MaxCalls /\ turns \in Nat /\ injected \in Nat /\ left \subseteq Asks
    BY AgentLoopAssumption DEF AgentInit
  <2>3. /\ phase \in Phases /\ waiting \in Waitings /\ call \in Calls \cup {NoCall}
        /\ needsReply \in BOOLEAN
    BY DEF AgentInit, Phases, Waitings
  <2> QED
    BY <2>1, <2>2, <2>3 DEF AgentOwn
<1>2. AgentOwn /\ AgentInv /\ [Next]_vars => AgentOwn'
  <2>1. AgentInv => CommandsTypeOK
    BY DEF AgentInv, CommandsInv
  <2>2. AgentOwn /\ UNCHANGED agentVars => AgentOwn'
    BY DEF AgentOwn, agentVars
  <2> QED
    BY <2>1, <2>2, AgentMovesAlone, AgentStepOwn
<1> QED
  BY <1>1, <1>2, AgentReadsItsOwn, PTL DEF Spec

(* "an assistant turn that asked for a tool must be followed by that       *)
(* tool's result, or the next request fails with a 400" (agent.rs:1772):   *)
(* of a provider that names every call, each request is one it takes,      *)
(* whatever the user stopped, rewound, sent in between or opened again     *)
(* before.  Where a reply numbers its calls from 1 on it is not: the       *)
(* answer of one call passes for that of a later one.                      *)
THEOREM RequestsAreTaken ==
  ASSUME UniqueIds
  PROVE  Spec => []RequestsAreAccepted
<1>1. Init => AgentSound
  <2> SUFFICES ASSUME AgentInit PROVE AgentSound
    BY DEF Init
  <2>1. Sound(history, << >>, called) /\ phase = "none" /\ ~needsReply
    BY SoundStart DEF AgentInit
  <2> QED
    BY <2>1 DEF AgentSound, Busy
<1>2. AgentSound /\ AgentOwn /\ [Next]_vars => AgentSound'
  <2>1. AgentOwn => called \in Nat /\ injected \in Nat
    BY DEF AgentOwn
  <2>2. AgentSound /\ UNCHANGED agentVars => AgentSound'
    <3> SUFFICES ASSUME AgentSound, UNCHANGED agentVars PROVE AgentSound'
      OBVIOUS
    <3>1. UNCHANGED <<phase, call, queue, history, needsReply, called>>
      BY DEF agentVars
    <3> QED
      BY <3>1 DEF AgentSound
  <2> QED
    BY <2>1, <2>2, AgentMovesAlone, AgentStepSound
<1>3. AgentSound => RequestsAreAccepted
  <2>1. AgentSound => history \in Seq(Messages)
    BY DEF AgentSound, Sound
  <2> QED
    BY <2>1, WholeAccepted DEF AgentSound, RequestsAreAccepted
<1> QED
  BY <1>1, <1>2, <1>3, AgentOwnTypes, PTL DEF Spec

-----------------------------------------------------------------------------
(* The remote files.                                                       *)

(* FilesTypeOK as a set of states, so that a state a handler passes        *)
(* through is one of them as much as the one it ends in.                   *)
RequestNames == Items \cup {"none"}

RowNames == Items \cup {"none", "zip"}

FileStates ==
  [jobs : [Jobs -> Tasks], pending : Jobs \cup {NoJob}, listing : Jobs \cup {NoJob},
   job : {"none", "Transfer", "Action", "Resolve", "Read", "Zip"},
   request : RequestNames, active : RowNames, retryable : RequestNames,
   stop : BOOLEAN, stopping : BOOLEAN, queue : Seq(Items),
   pack : {"none", "running", "ok", "error"}, failed : 0..FailedRows,
   resolved : BOOLEAN, requested : BOOLEAN, status : {"none", "stopped"},
   content : {"none", "new", "old"}, slipped : BOOLEAN]

(* What the two slots hold, and that every other job is a write nobody     *)
(* hears of.                                                               *)
Waits(work, listed) ==
  work.state # "none" /\ work.heard /\ (work.kind = "list" <=> listed)

SlotsInv(s) ==
  /\ s.pending # NoJob => Waits(s.jobs[s.pending], FALSE)
  /\ s.listing # NoJob => Waits(s.jobs[s.listing], TRUE)
  /\ \A j \in Jobs : \/ s.jobs[j] = NoTask
                     \/ j \in {s.pending, s.listing}
                     \/ j \in Orphans(s) /\ Writes(s.jobs[j])

FewOrphans(s) == Cardinality(Orphans(s)) <= MaxOrphans

(* What was read can be out of date by a write that has ended in the slot, *)
(* or by one that slipped, and nothing else.                               *)
AgingInv(s) ==
  /\ \A j \in Jobs : s.jobs[j].old => s.slipped
  /\ s.content = "old" =>
       \/ s.slipped
       \/ /\ s.pending # NoJob /\ Writes(s.jobs[s.pending])
          /\ s.jobs[s.pending].state # "running"

FilesInv(s) == s \in FileStates /\ SlotsInv(s) /\ FewOrphans(s) /\ AgingInv(s)

-----------------------------------------------------------------------------
(* A free job.                                                             *)

(* There are as many jobs as orphans are let through, and three more.      *)
LEMMA JobsNat ==
  /\ Jobs \subseteq Nat /\ IsFiniteSet(Jobs) /\ Cardinality(Jobs) = MaxOrphans + 3
  /\ NoJob \notin Jobs /\ MaxOrphans \in Nat
<1>1. MaxOrphans \in Nat
  BY RemoteFilesAssumption
<1>2. IsFiniteSet(1..(MaxOrphans + 3)) /\ Cardinality(1..(MaxOrphans + 3)) = MaxOrphans + 3
  BY <1>1, FS_Interval
<1> QED
  BY <1>1, <1>2 DEF Jobs, NoJob

(* The first free one of some jobs.                                        *)
LEMMA FirstOfSome ==
  ASSUME NEW S \in SUBSET Jobs, S # {}
  PROVE  \E j \in S : \A i \in S : j <= i
<1>1. S \subseteq Nat
  BY JobsNat
<1>2. PICK j \in S : \A i \in S : ~(<<i, j>> \in OpToRel(<, Nat))
  BY <1>1, NatLessThanWellFounded, WFMin
<1>3. \A i \in S : ~(i < j)
  BY <1>1, <1>2, Zenon DEF OpToRel
<1> QED
  BY <1>1, <1>3

(* One more job makes a set of jobs larger by one at most.                 *)
LEMMA OneMore ==
  ASSUME NEW S, IsFiniteSet(S), NEW x
  PROVE  /\ IsFiniteSet(S \cup {x})
         /\ Cardinality(S) \in Nat /\ Cardinality(S \cup {x}) \in Nat
         /\ Cardinality(S \cup {x}) <= Cardinality(S) + 1
<1>1. Cardinality(S) \in Nat
  BY FS_CardinalityType
<1>2. /\ IsFiniteSet(S \cup {x})
      /\ Cardinality(S \cup {x}) = IF x \in S THEN Cardinality(S) ELSE Cardinality(S) + 1
  BY FS_AddElement
<1> QED
  BY <1>1, <1>2

(* There is a free job as long as two at most are not orphans, and Fresh   *)
(* finds it.                                                               *)
LEMMA FreshIsFree ==
  ASSUME NEW s \in FileStates, FewOrphans(s), NEW a, NEW b,
         \A j \in Jobs : s.jobs[j] = NoTask \/ j \in Orphans(s) \cup {a, b}
  PROVE  Fresh(s) \in Jobs /\ s.jobs[Fresh(s)] = NoTask
<1> DEFINE free == {j \in Jobs : s.jobs[j] = NoTask}
<1>1. IsFiniteSet(Orphans(s)) /\ Cardinality(Orphans(s)) \in Nat
  <2>1. Orphans(s) \in SUBSET Jobs
    BY DEF Orphans
  <2> QED
    BY <2>1, JobsNat, FS_Subset, FS_CardinalityType
<1>2. /\ IsFiniteSet(Orphans(s) \cup {a})
      /\ Cardinality(Orphans(s) \cup {a}) \in Nat
      /\ Cardinality(Orphans(s) \cup {a}) <= MaxOrphans + 1
  <2> DEFINE S == Orphans(s)
  <2>1. IsFiniteSet(S) /\ Cardinality(S) <= MaxOrphans
    BY <1>1 DEF FewOrphans
  <2> HIDE DEF S
  <2>2. /\ IsFiniteSet(S \cup {a}) /\ Cardinality(S) \in Nat
        /\ Cardinality(S \cup {a}) \in Nat
        /\ Cardinality(S \cup {a}) <= Cardinality(S) + 1
    BY <2>1, OneMore
  <2>3. Cardinality(S \cup {a}) <= MaxOrphans + 1
    BY <2>1, <2>2, JobsNat
  <2> QED
    BY <2>2, <2>3 DEF S
<1>3. /\ IsFiniteSet((Orphans(s) \cup {a}) \cup {b})
      /\ Cardinality((Orphans(s) \cup {a}) \cup {b}) \in Nat
      /\ Cardinality((Orphans(s) \cup {a}) \cup {b}) <= MaxOrphans + 2
  <2> DEFINE S == Orphans(s) \cup {a}
  <2>1. IsFiniteSet(S) /\ Cardinality(S) <= MaxOrphans + 1
    BY <1>2
  <2> HIDE DEF S
  <2>2. /\ IsFiniteSet(S \cup {b}) /\ Cardinality(S) \in Nat
        /\ Cardinality(S \cup {b}) \in Nat
        /\ Cardinality(S \cup {b}) <= Cardinality(S) + 1
    BY <2>1, OneMore
  <2>3. Cardinality(S \cup {b}) <= MaxOrphans + 2
    BY <2>1, <2>2, JobsNat
  <2> QED
    BY <2>2, <2>3 DEF S
<1>4. free # {}
  <2> SUFFICES ASSUME free = {} PROVE FALSE
    OBVIOUS
  <2>1. Jobs \subseteq (Orphans(s) \cup {a}) \cup {b}
    OBVIOUS
  <2>2. Cardinality(Jobs) <= Cardinality((Orphans(s) \cup {a}) \cup {b})
    BY <1>3, <2>1, FS_Subset
  <2> QED
    BY <1>3, <2>2, JobsNat
<1>5. PICK j \in free : \A i \in free : j <= i
  BY <1>4, FirstOfSome
<1>6. \E k \in Jobs : s.jobs[k] = NoTask /\ \A i \in Jobs : s.jobs[i] = NoTask => k <= i
  BY <1>5
<1> QED
  BY <1>6 DEF Fresh

-----------------------------------------------------------------------------
(* A job that leaves its slot.                                             *)

(* The names a request, and the row that shows it, may have.               *)
LEMMA NamesNamed ==
  /\ "none" \in RequestNames /\ "none" \in RowNames /\ "zip" \in RowNames
  /\ Items \subseteq RequestNames /\ Items \subseteq RowNames
BY DEF RequestNames, RowNames

(* A free job: no state, not old, and heard by nobody.                     *)
LEMMA NoTaskIsTask == NoTask \in Tasks /\ NoTask.state = "none" /\ ~NoTask.old /\ ~NoTask.heard
BY TabBackendAssumption DEF NoTask, Tasks, Links

(* What dropping a receiver leaves alone.                                  *)
Keeps(s, t) ==
  /\ t.pending = s.pending /\ t.listing = s.listing /\ t.content = s.content
  /\ t.status = s.status /\ t.queue = s.queue

(* A receiver that is dropped: what was in the slot is gone, or an orphan. *)
Gone(s, j, t) ==
  /\ t.jobs[j] = NoTask
  /\ Writes(s.jobs[j]) => t.slipped

Orphaned(s, j, t) ==
  /\ s.jobs[j].state = "running" /\ Writes(s.jobs[j])
  /\ t.jobs[j] = [s.jobs[j] EXCEPT !.heard = FALSE]

(* Dropping a receiver frees its job, or makes an orphan of a write that   *)
(* runs.                                                                   *)
LEMMA DropJob ==
  ASSUME NEW s \in FileStates, NEW j \in Jobs
  PROVE  LET t == Dropped(s, j)
         IN  /\ t \in FileStates /\ Keeps(s, t)
             /\ s.slipped => t.slipped
             /\ \A i \in Jobs \ {j} : t.jobs[i] = s.jobs[i]
             /\ Gone(s, j, t) \/ Orphaned(s, j, t)
<1>1. j # NoJob
  BY JobsNat
<1>2. CASE s.jobs[j].state = "running" /\ Writes(s.jobs[j])
  <2> DEFINE orphan == [s.jobs[j] EXCEPT !.heard = FALSE]
             jobs == [s.jobs EXCEPT ![j] = orphan]
  <2>1. s.jobs[j] \in Tasks /\ s.jobs \in [Jobs -> Tasks]
    BY DEF FileStates
  <2>2. orphan \in Tasks
    BY <2>1 DEF Tasks
  <2>3. jobs \in [Jobs -> Tasks] /\ jobs[j] = orphan /\ \A i \in Jobs \ {j} : jobs[i] = s.jobs[i]
    BY <2>1, <2>2
  <2>4. Dropped(s, j) = [s EXCEPT !.jobs[j].heard = FALSE]
    BY <1>1, <1>2 DEF Dropped
  <2>5. Dropped(s, j) = [s EXCEPT !.jobs = jobs]
    BY <2>4
  <2> HIDE DEF jobs
  <2>6. Dropped(s, j) \in FileStates /\ Keeps(s, Dropped(s, j))
    BY <2>3, <2>5 DEF FileStates, Keeps
  <2>7. Dropped(s, j).jobs = jobs /\ Dropped(s, j).slipped = s.slipped
    BY <2>5 DEF FileStates
  <2> QED
    BY <1>2, <2>3, <2>6, <2>7 DEF Orphaned
<1>3. CASE ~(s.jobs[j].state = "running" /\ Writes(s.jobs[j]))
  <2> DEFINE jobs == [s.jobs EXCEPT ![j] = NoTask]
             slipped == s.slipped \/ Writes(s.jobs[j])
             t == [s EXCEPT !.jobs = jobs, !.slipped = slipped]
  <2>1. Dropped(s, j) = t
    BY <1>1, <1>3 DEF Dropped, Slipped, FileStates
  <2>2. jobs \in [Jobs -> Tasks] /\ jobs[j] = NoTask /\ \A i \in Jobs \ {j} : jobs[i] = s.jobs[i]
    BY NoTaskIsTask DEF FileStates
  <2>3. slipped \in BOOLEAN /\ (s.slipped => slipped) /\ (Writes(s.jobs[j]) => slipped)
    BY DEF Writes, FileStates
  <2> HIDE DEF jobs, slipped
  <2>4. t \in FileStates /\ Keeps(s, t)
    BY <2>2, <2>3 DEF FileStates, Keeps
  <2>5. t.jobs = jobs /\ t.slipped = slipped
    BY DEF FileStates
  <2> HIDE DEF t
  <2> QED
    BY <2>1, <2>2, <2>3, <2>4, <2>5 DEF Gone
<1> QED
  BY <1>2, <1>3
(* With nothing in the slot but perhaps a number, every job is the         *)
(* listing's or an orphan, and what is out of date slipped.                *)
Emptied(s) ==
  /\ s \in FileStates
  /\ s.listing # NoJob => Waits(s.jobs[s.listing], TRUE)
  /\ \A j \in Jobs : \/ s.jobs[j] = NoTask \/ j = s.listing
                     \/ j \in Orphans(s) /\ Writes(s.jobs[j])
  /\ \A j \in Jobs : s.jobs[j].old => s.slipped
  /\ s.content = "old" => s.slipped

(* The slot is cleared by dropping what is in it.                          *)
LEMMA PendingDropped ==
  ASSUME NEW s, FilesInv(s)
  PROVE  Emptied(Dropped(s, s.pending)) /\ Keeps(s, Dropped(s, s.pending))
<1> DEFINE t == Dropped(s, s.pending)
<1>1. s \in FileStates
  BY DEF FilesInv
<1>2. CASE s.pending = NoJob
  <2>1. t = s
    BY <1>2 DEF Dropped
  <2> QED
    BY <1>2, <2>1, JobsNat DEF FilesInv, SlotsInv, AgingInv, Emptied, Keeps
<1>3. CASE s.pending # NoJob
  <2>1. s.pending \in Jobs
    BY <1>1, <1>3 DEF FileStates
  <2>2. /\ t \in FileStates /\ Keeps(s, t)
        /\ s.slipped => t.slipped
        /\ \A i \in Jobs \ {s.pending} : t.jobs[i] = s.jobs[i]
        /\ Gone(s, s.pending, t) \/ Orphaned(s, s.pending, t)
    BY <1>1, <2>1, DropJob
  <2> HIDE DEF t
  <2>3. s.listing # s.pending
    BY <1>3, <2>1 DEF FilesInv, SlotsInv, Waits
  <2>4. t.listing # NoJob => Waits(t.jobs[t.listing], TRUE)
    <3>1. s.listing # NoJob => s.listing \in Jobs /\ Waits(s.jobs[s.listing], TRUE)
      BY <1>1 DEF FilesInv, SlotsInv, FileStates
    <3> QED
      BY <2>2, <2>3, <3>1 DEF Keeps
  <2>5. s.jobs[s.pending] \in Tasks
    BY <1>1, <2>1 DEF FileStates
  <2>6. ASSUME NEW j \in Jobs
        PROVE  \/ t.jobs[j] = NoTask \/ j = t.listing
               \/ j \in Orphans(t) /\ Writes(t.jobs[j])
    <3>1. CASE j = s.pending
      BY <2>2, <2>5, <3>1 DEF Gone, Orphaned, Orphans, Writes, Tasks
    <3>2. CASE j # s.pending
      <4>1. \/ s.jobs[j] = NoTask \/ j = s.listing
            \/ j \in Orphans(s) /\ Writes(s.jobs[j])
        BY <3>2 DEF FilesInv, SlotsInv
      <4>2. t.jobs[j] = s.jobs[j]
        BY <2>2, <3>2
      <4> QED
        BY <2>2, <4>1, <4>2 DEF Keeps, Orphans
    <3> QED
      BY <3>1, <3>2
  <2>7. ASSUME NEW j \in Jobs, t.jobs[j].old
        PROVE  t.slipped
    <3>1. s.jobs[j].old
      BY <2>2, <2>5, <2>7, NoTaskIsTask DEF Gone, Orphaned, Tasks
    <3> QED
      BY <2>2, <3>1 DEF FilesInv, AgingInv
  <2>8. t.content = "old" => t.slipped
    BY <2>2 DEF FilesInv, AgingInv, Keeps, Gone, Orphaned
  <2>9. Emptied(t)
    BY <2>2, <2>4, <2>6, <2>7, <2>8 DEF Emptied
  <2> QED
    BY <2>2, <2>9 DEF t
<1> QED
  BY <1>2, <1>3

(* A listing that is dropped is gone: it writes nothing.                   *)
LEMMA ListingDropped ==
  ASSUME NEW s, FilesInv(s)
  PROVE  LET t == Dropped(s, s.listing)
         IN  /\ t \in FileStates /\ Keeps(s, t)
             /\ s.slipped => t.slipped
             /\ \A i \in Jobs : i # s.listing => t.jobs[i] = s.jobs[i]
             /\ s.listing # NoJob => t.jobs[s.listing] = NoTask
<1>1. s \in FileStates
  BY DEF FilesInv
<1>2. CASE s.listing = NoJob
  BY <1>1, <1>2 DEF Dropped, Keeps
<1>3. CASE s.listing # NoJob
  <2>1. s.listing \in Jobs
    BY <1>1, <1>3 DEF FileStates
  <2>2. ~Writes(s.jobs[s.listing])
    BY <1>3 DEF FilesInv, SlotsInv, Waits, Writes
  <2> DEFINE t == Dropped(s, s.listing)
  <2>3. /\ t \in FileStates /\ Keeps(s, t)
        /\ s.slipped => t.slipped
        /\ \A i \in Jobs \ {s.listing} : t.jobs[i] = s.jobs[i]
        /\ Gone(s, s.listing, t) \/ Orphaned(s, s.listing, t)
    BY <1>1, <2>1, DropJob
  <2> HIDE DEF t
  <2>4. t.jobs[s.listing] = NoTask
    BY <2>2, <2>3 DEF Gone, Orphaned
  <2> QED
    BY <2>3, <2>4 DEF t
<1> QED
  BY <1>2, <1>3

(* Nothing but the labels of the slots changes.                            *)
LEMMA Relabelled ==
  ASSUME NEW s, FilesInv(s), NEW r \in FileStates,
         r.jobs = s.jobs, r.pending = s.pending, r.listing = s.listing,
         s.slipped => r.slipped, r.content = "old" => s.content = "old"
  PROVE  FilesInv(r)
<1>1. Orphans(r) = Orphans(s)
  BY DEF Orphans
<1>2. SlotsInv(r)
  BY <1>1 DEF FilesInv, SlotsInv
<1>3. FewOrphans(r)
  BY <1>1 DEF FilesInv, FewOrphans
<1>4. AgingInv(r)
  BY DEF FilesInv, AgingInv
<1> QED
  BY <1>2, <1>3, <1>4 DEF FilesInv
-----------------------------------------------------------------------------
(* A job that starts.                                                      *)

RequestKinds == {"transfer", "zip", "action", "read", "resolve"}

(* The task of a job that starts is in a state of its own, and young.      *)
LEMMA SpawnedJob ==
  ASSUME NEW s \in FileStates, NEW j \in Jobs, NEW kind \in RequestKinds \cup {"list"},
         LinkTypeOK
  PROVE  LET r == Spawned(s, j, kind)
         IN  /\ r \in FileStates /\ Keeps(s, r) /\ r.slipped = s.slipped
             /\ \A i \in Jobs \ {j} : r.jobs[i] = s.jobs[i]
             /\ r.jobs[j].kind = kind /\ r.jobs[j].state = "running"
             /\ r.jobs[j].heard /\ ~r.jobs[j].old
<1> DEFINE new == [kind |-> kind, home |-> link, state |-> "running", heard |-> TRUE,
                   old |-> FALSE]
           jobs == [s.jobs EXCEPT ![j] = new]
<1>1. new \in Tasks
  BY DEF Tasks, LinkTypeOK, RequestKinds
<1>2. jobs \in [Jobs -> Tasks] /\ jobs[j] = new /\ \A i \in Jobs \ {j} : jobs[i] = s.jobs[i]
  BY <1>1 DEF FileStates
<1>3. Spawned(s, j, kind) = [s EXCEPT !.jobs = jobs]
  BY DEF Spawned
<1> HIDE DEF jobs
<1>4. [s EXCEPT !.jobs = jobs] \in FileStates /\ Keeps(s, [s EXCEPT !.jobs = jobs])
  BY <1>2 DEF FileStates, Keeps
<1>5. [s EXCEPT !.jobs = jobs].jobs = jobs /\ [s EXCEPT !.jobs = jobs].slipped = s.slipped
  BY DEF FileStates
<1> QED
  BY <1>2, <1>3, <1>4, <1>5

(* A request takes a slot that was cleared.                                *)
LEMMA SlotTaken ==
  ASSUME NEW t, Emptied(t), FewOrphans(t), NEW kind \in RequestKinds, LinkTypeOK,
         NEW r \in FileStates,
         LET u == Spawned(t, Fresh(t), kind)
         IN  /\ r.jobs = u.jobs /\ r.pending = Fresh(t) /\ r.listing = u.listing
             /\ r.slipped = u.slipped /\ r.content = u.content
  PROVE  FilesInv(r)
<1> DEFINE j == Fresh(t)
           u == Spawned(t, j, kind)
<1>1. t \in FileStates
  BY DEF Emptied
<1>2. \A i \in Jobs : t.jobs[i] = NoTask \/ i \in Orphans(t) \cup {t.listing, t.listing}
  BY DEF Emptied
<1>3. j \in Jobs /\ t.jobs[j] = NoTask
  BY <1>1, <1>2, FreshIsFree
<1>4. /\ u \in FileStates /\ Keeps(t, u) /\ u.slipped = t.slipped
      /\ \A i \in Jobs \ {j} : u.jobs[i] = t.jobs[i]
      /\ u.jobs[j].kind = kind /\ u.jobs[j].state = "running"
      /\ u.jobs[j].heard /\ ~u.jobs[j].old
  BY <1>1, <1>3, SpawnedJob
<1>5. r.jobs = u.jobs /\ r.pending = j /\ r.listing = t.listing /\ r.slipped = t.slipped
        /\ r.content = t.content
  BY <1>4 DEF Keeps
<1> HIDE DEF j, u
<1>6. Waits(r.jobs[r.pending], FALSE)
  BY <1>4, <1>5 DEF Waits, RequestKinds
<1>7. r.listing # NoJob => Waits(r.jobs[r.listing], TRUE)
  <2> SUFFICES ASSUME t.listing # NoJob PROVE Waits(r.jobs[t.listing], TRUE)
    BY <1>5
  <2>1. Waits(t.jobs[t.listing], TRUE) /\ t.listing \in Jobs
    BY <1>1 DEF Emptied, FileStates
  <2>2. t.listing # j
    BY <1>3, <2>1, NoTaskIsTask DEF Waits
  <2> QED
    BY <1>4, <1>5, <2>1, <2>2
<1>8. Orphans(r) = Orphans(t)
  BY <1>3, <1>4, <1>5, NoTaskIsTask DEF Orphans
<1>9. \A i \in Jobs : \/ r.jobs[i] = NoTask \/ i \in {r.pending, r.listing}
                      \/ i \in Orphans(r) /\ Writes(r.jobs[i])
  BY <1>4, <1>5, <1>8 DEF Emptied
<1>10. SlotsInv(r)
  BY <1>6, <1>7, <1>9 DEF SlotsInv
<1>11. FewOrphans(r)
  BY <1>8 DEF FewOrphans
<1>12. AgingInv(r)
  BY <1>4, <1>5 DEF AgingInv, Emptied
<1> QED
  BY <1>10, <1>11, <1>12 DEF FilesInv

(* A request is put in the slot, whatever is in it.                        *)
LEMMA RequestAdopted ==
  ASSUME NEW s, FilesInv(s), FewOrphans(Dropped(s, s.pending)),
         NEW kind \in RequestKinds, LinkTypeOK
  PROVE  FilesInv(Adopted(s, kind)) /\ Adopted(s, kind).queue = s.queue
           /\ Adopted(s, kind).status = s.status /\ Adopted(s, kind).listing = s.listing
           /\ Adopted(s, kind).content = s.content
<1> DEFINE t == Dropped(s, s.pending)
           u == Spawned(t, Fresh(t), kind)
           r == Adopted(s, kind)
<1>1. Emptied(t) /\ Keeps(s, t) /\ t \in FileStates
  BY PendingDropped DEF Emptied
<1>2. \A i \in Jobs : t.jobs[i] = NoTask \/ i \in Orphans(t) \cup {t.listing, t.listing}
  BY <1>1 DEF Emptied
<1>3. Fresh(t) \in Jobs
  BY <1>1, <1>2, FreshIsFree
<1>4. u \in FileStates /\ Keeps(t, u)
  BY <1>1, <1>3, SpawnedJob
<1>5. r = [u EXCEPT !.pending = Fresh(t), !.stop = TRUE, !.stopping = FALSE]
  BY DEF Adopted
<1>6. /\ r \in FileStates
      /\ r.jobs = u.jobs /\ r.pending = Fresh(t) /\ r.listing = u.listing
      /\ r.slipped = u.slipped /\ r.content = u.content /\ r.queue = u.queue
      /\ r.status = u.status
  <2> HIDE DEF r, u, t
  <2> QED
    BY <1>3, <1>4, <1>5 DEF FileStates
<1>7. FilesInv(r)
  <2> HIDE DEF r
  <2> QED
    BY <1>1, <1>6, SlotTaken
<1> QED
  BY <1>1, <1>4, <1>6, <1>7 DEF Keeps
(* start_next_transfer: nothing is dropped, for the slot is free.          *)
LEMMA NextStartedInv ==
  ASSUME NEW s, FilesInv(s), LinkTypeOK
  PROVE  /\ FilesInv(NextStarted(s))
         /\ NextStarted(s).status = s.status
         /\ NextStarted(s).queue = s.queue
              \/ (s.queue # << >> /\ NextStarted(s).queue = Tail(s.queue))
<1>1. CASE s.pending # NoJob \/ s.pack # "none" \/ s.queue = << >>
  BY <1>1 DEF NextStarted
<1>2. CASE ~(s.pending # NoJob \/ s.pack # "none" \/ s.queue = << >>)
  <2> DEFINE t == [s EXCEPT !.queue = Tail(@)]
  <2>1. s \in FileStates /\ s.queue \in Seq(Items) /\ s.queue # << >>
    BY <1>2 DEF FilesInv, FileStates
  <2>2. Tail(s.queue) \in Seq(Items) /\ Head(s.queue) \in Items
    BY <2>1
  <2>3. /\ t \in FileStates /\ t.queue = Tail(s.queue) /\ t.jobs = s.jobs
        /\ t.pending = s.pending /\ t.listing = s.listing /\ t.content = s.content
        /\ t.status = s.status /\ t.slipped = s.slipped
    BY <2>1, <2>2 DEF FileStates
  <2> HIDE DEF t
  <2>4. FilesInv(t)
    BY <2>3, Relabelled
  <2>5. CASE ~Hosted
    <3>1. NextStarted(s) = t
      BY <1>2, <2>5 DEF NextStarted, t
    <3> QED
      BY <2>1, <2>3, <2>4, <3>1
  <2>6. CASE Hosted
    <3> DEFINE a == Adopted(t, "transfer")
               head == Head(s.queue)
    <3>1. Dropped(t, t.pending) = t
      BY <1>2, <2>3 DEF Dropped
    <3>2. FewOrphans(Dropped(t, t.pending))
      BY <2>4, <3>1 DEF FilesInv
    <3>3. FilesInv(a) /\ a.queue = t.queue /\ a.status = t.status
      BY <2>4, <3>2, RequestAdopted DEF RequestKinds
    <3> HIDE DEF a
    <3>4. NextStarted(s) = [a EXCEPT !.request = head, !.active = head, !.job = "Transfer"]
      BY <1>2, <2>6 DEF NextStarted, a, t
    <3> DEFINE r == [a EXCEPT !.request = head, !.active = head, !.job = "Transfer"]
    <3>5. a \in FileStates /\ head \in Items
      BY <2>2, <3>3 DEF FilesInv
    <3> HIDE DEF head
    <3>6. /\ r \in FileStates /\ r.jobs = a.jobs /\ r.pending = a.pending
          /\ r.listing = a.listing /\ r.slipped = a.slipped /\ r.content = a.content
          /\ r.queue = a.queue /\ r.status = a.status
      BY <3>5, NamesNamed DEF FileStates
    <3> HIDE DEF r
    <3>7. FilesInv(r)
      BY <3>3, <3>6, Relabelled
    <3> QED
      BY <2>1, <2>3, <3>3, <3>4, <3>6, <3>7 DEF r
  <2> QED
    BY <2>5, <2>6
<1> QED
  BY <1>1, <1>2

(* start_file_request: the listing that was there is gone, and it was not  *)
(* a write.                                                                *)
LEMMA ListingStartedInv ==
  ASSUME NEW s, FilesInv(s), LinkTypeOK
  PROVE  /\ FilesInv(ListingStarted(s))
         /\ ListingStarted(s).status = s.status /\ ListingStarted(s).queue = s.queue
<1>1. CASE ~Hosted
  BY <1>1 DEF ListingStarted
<1>2. CASE Hosted
  <2> DEFINE t == Dropped(s, s.listing)
             j == Fresh(t)
             u == Spawned(t, j, "list")
             r == [u EXCEPT !.listing = j, !.requested = TRUE]
  <2>1. /\ t \in FileStates /\ Keeps(s, t)
        /\ s.slipped => t.slipped
        /\ \A i \in Jobs : i # s.listing => t.jobs[i] = s.jobs[i]
        /\ s.listing # NoJob => t.jobs[s.listing] = NoTask
    BY ListingDropped
  <2> HIDE DEF t
  <2>2. s.listing # NoJob => s.listing \notin Orphans(s)
    BY DEF FilesInv, SlotsInv, Waits, Orphans
  <2>3. Orphans(t) = Orphans(s)
    <3>1. ASSUME NEW i \in Jobs
          PROVE  i \in Orphans(t) <=> i \in Orphans(s)
      BY <2>1, <2>2, NoTaskIsTask, JobsNat DEF Orphans
    <3> QED
      BY <3>1 DEF Orphans
  <2>4. \A i \in Jobs : t.jobs[i] = NoTask \/ i \in Orphans(t) \cup {s.pending, s.pending}
    BY <2>1, <2>3, JobsNat DEF FilesInv, SlotsInv
  <2>5. FewOrphans(t)
    BY <2>3 DEF FilesInv, FewOrphans
  <2>6. j \in Jobs /\ t.jobs[j] = NoTask
    BY <2>1, <2>4, <2>5, FreshIsFree
  <2> HIDE DEF j
  <2>7. /\ u \in FileStates /\ Keeps(t, u) /\ u.slipped = t.slipped
        /\ \A i \in Jobs \ {j} : u.jobs[i] = t.jobs[i]
        /\ u.jobs[j].kind = "list" /\ u.jobs[j].state = "running"
        /\ u.jobs[j].heard /\ ~u.jobs[j].old
    BY <2>1, <2>6, SpawnedJob
  <2> HIDE DEF u
  <2>8. /\ r \in FileStates /\ r.jobs = u.jobs /\ r.pending = u.pending /\ r.listing = j
        /\ r.slipped = u.slipped /\ r.content = u.content /\ r.queue = u.queue
        /\ r.status = u.status
    BY <2>6, <2>7 DEF FileStates
  <2>9. ListingStarted(s) = r
    BY <1>2 DEF ListingStarted, t, j, u
  <2> HIDE DEF r
  <2>10. s.pending # NoJob => s.pending # s.listing /\ s.pending \in Jobs /\ s.pending # j
    <3> SUFFICES ASSUME s.pending # NoJob
                 PROVE  s.pending # s.listing /\ s.pending \in Jobs /\ s.pending # j
      OBVIOUS
    <3>1. s.pending \in Jobs /\ s.pending # s.listing
      BY DEF FilesInv, SlotsInv, FileStates, Waits
    <3>2. t.jobs[s.pending] = s.jobs[s.pending] /\ s.jobs[s.pending].state # "none"
      BY <2>1, <3>1 DEF FilesInv, SlotsInv, Waits
    <3> QED
      BY <2>6, <3>1, <3>2, NoTaskIsTask
  <2>11. s.pending # NoJob => r.jobs[s.pending] = s.jobs[s.pending]
    BY <2>1, <2>7, <2>8, <2>10
  <2>12. r.pending = s.pending /\ r.content = s.content /\ (s.slipped => r.slipped)
    BY <2>1, <2>7, <2>8 DEF Keeps
  <2>13. Orphans(r) = Orphans(s)
    BY <2>3, <2>6, <2>7, <2>8, NoTaskIsTask DEF Orphans
  <2>14. SlotsInv(r)
    <3>1. Waits(r.jobs[j], TRUE)
      BY <2>7, <2>8 DEF Waits
    <3>2. r.pending # NoJob => Waits(r.jobs[r.pending], FALSE)
      BY <2>11, <2>12 DEF FilesInv, SlotsInv
    <3>3. \A i \in Jobs : \/ r.jobs[i] = NoTask \/ i \in {r.pending, r.listing}
                          \/ i \in Orphans(r) /\ Writes(r.jobs[i])
      <4> TAKE i \in Jobs
      <4>1. CASE i = j
        BY <2>8, <4>1
      <4>2. CASE i # j /\ i = s.listing
        BY <2>1, <2>7, <2>8, <4>2, JobsNat
      <4>3. CASE i # j /\ i # s.listing
        <5>1. r.jobs[i] = s.jobs[i]
          BY <2>1, <2>7, <2>8, <4>3
        <5> QED
          BY <2>12, <2>13, <4>3, <5>1 DEF FilesInv, SlotsInv
      <4> QED
        BY <4>1, <4>2, <4>3
    <3> QED
      BY <2>8, <3>1, <3>2, <3>3 DEF SlotsInv
  <2>15. FewOrphans(r)
    BY <2>13 DEF FilesInv, FewOrphans
  <2>16. AgingInv(r)
    <3>1. ASSUME NEW i \in Jobs, r.jobs[i].old
          PROVE  r.slipped
      <4>1. i # j /\ t.jobs[i].old
        BY <2>7, <2>8, <3>1
      <4>2. s.jobs[i].old
        BY <2>1, <4>1, NoTaskIsTask, JobsNat
      <4> QED
        BY <2>12, <4>2 DEF FilesInv, AgingInv
    <3>2. r.content = "old" =>
            \/ r.slipped
            \/ /\ r.pending # NoJob /\ Writes(r.jobs[r.pending])
               /\ r.jobs[r.pending].state # "running"
      BY <2>11, <2>12 DEF FilesInv, AgingInv
    <3> QED
      BY <3>1, <3>2 DEF AgingInv
  <2>17. FilesInv(r)
    BY <2>8, <2>14, <2>15, <2>16 DEF FilesInv
  <2> QED
    BY <2>1, <2>7, <2>8, <2>9, <2>17 DEF Keeps
<1> QED
  BY <1>1, <1>2
-----------------------------------------------------------------------------
(* A frame.                                                                *)

(* What landed or failed changes labels, and nothing about the jobs.       *)
Relabels(s, r) ==
  /\ r \in FileStates
  /\ r.jobs = s.jobs /\ r.pending = s.pending /\ r.listing = s.listing
  /\ r.queue = s.queue /\ r.slipped = s.slipped

(* A failure that is recorded is a row more at most.                       *)
LEMMA RecordedLabels ==
  ASSUME NEW s \in FileStates
  PROVE  Relabels(s, Recorded(s)) /\ Recorded(s).content = s.content
           /\ Recorded(s).status = s.status
<1>1. CASE s.active = "none" \/ s.failed = FailedRows
  BY <1>1 DEF Recorded, Relabels
<1>2. CASE ~(s.active = "none" \/ s.failed = FailedRows)
  <2>1. Recorded(s) = [s EXCEPT !.failed = @ + 1]
    BY <1>2 DEF Recorded
  <2>2. s.failed + 1 \in 0..FailedRows
    BY <1>2, RemoteFilesAssumption DEF FileStates
  <2> QED
    BY <2>1, <2>2 DEF FileStates, Relabels
<1> QED
  BY <1>1, <1>2

(* A status of its own is a status still.                                  *)
LEMMA StatusSet ==
  ASSUME NEW s \in FileStates, NEW report \in {"none", "stopped"}
  PROVE  [s EXCEPT !.status = report] \in FileStates
BY DEF FileStates

(* A request that is over leaves what was read and reported.               *)
LEMMA FinishedLabels ==
  ASSUME NEW s \in FileStates, NEW failure \in BOOLEAN
  PROVE  Relabels(s, Finished(s, failure)) /\ Finished(s, failure).content = s.content
           /\ Finished(s, failure).status = s.status
<1> DEFINE t == IF failure THEN Recorded(s) ELSE s
<1>1. Relabels(s, t) /\ t.content = s.content /\ t.status = s.status
  BY RecordedLabels DEF Relabels
<1>2. Finished(s, failure) = [t EXCEPT !.active = "none", !.stop = FALSE, !.stopping = FALSE,
                                       !.job = "none", !.request = "none"]
  BY DEF Finished
<1> HIDE DEF t
<1>3. t \in FileStates
  BY <1>1 DEF Relabels
<1>4. Finished(s, failure) \in FileStates
  <2> DEFINE u == [t EXCEPT !.active = "none", !.stop = FALSE]
             v == [u EXCEPT !.stopping = FALSE, !.job = "none"]
             r == [v EXCEPT !.request = "none"]
  <2>1. u \in FileStates
    BY <1>3, NamesNamed DEF FileStates
  <2>2. Finished(s, failure) = r
    BY <1>2
  <2> HIDE DEF u
  <2>3. v \in FileStates
    BY <2>1 DEF FileStates
  <2> HIDE DEF v
  <2>4. r \in FileStates
    BY <2>3, NamesNamed DEF FileStates
  <2> QED
    BY <2>2, <2>4
<1>5. Relabels(t, Finished(s, failure)) /\ Finished(s, failure).content = t.content
        /\ Finished(s, failure).status = t.status
  BY <1>2, <1>3, <1>4 DEF FileStates, Relabels
<1> QED
  BY <1>1, <1>5 DEF Relabels

(* A request that is stopped is over, and is reported as stopped.          *)
LEMMA CancelledLabels ==
  ASSUME NEW s \in FileStates
  PROVE  Relabels(s, Cancelled(s)) /\ Cancelled(s).content = s.content
<1> DEFINE t == Finished(s, FALSE)
<1>1. Relabels(s, t) /\ t.content = s.content
  BY FinishedLabels
<1>2. Cancelled(s) = [t EXCEPT !.status = "stopped"]
  BY DEF Cancelled
<1>3. t \in FileStates
  BY <1>1 DEF Relabels
<1> DEFINE r == Cancelled(s)
<1> HIDE DEF t, r
<1>4. r \in FileStates
  BY <1>2, <1>3 DEF FileStates, r
<1>5. /\ r.jobs = t.jobs /\ r.pending = t.pending /\ r.listing = t.listing
      /\ r.queue = t.queue /\ r.slipped = t.slipped /\ r.content = t.content
  BY <1>2, <1>3 DEF FileStates, r
<1> QED
  BY <1>1, <1>4, <1>5 DEF Relabels, r

(* A request that failed forgets what was read.                            *)
LEMMA FailedLabels ==
  ASSUME NEW s \in FileStates
  PROVE  Relabels(s, Failed(s)) /\ Failed(s).content = "none" /\ Failed(s).status = s.status
<1> DEFINE t == Recorded(s)
           again == IF s.active # "none" /\ s.job = "Transfer" /\ s.request # "none"
                    THEN s.request ELSE t.retryable
<1>1. Relabels(s, t) /\ t.status = s.status
  BY RecordedLabels
<1>2. Failed(s) = [t EXCEPT !.active = "none", !.content = "none", !.request = "none",
                            !.job = "none", !.stop = FALSE, !.stopping = FALSE,
                            !.retryable = again]
  BY DEF Failed
<1>3. t \in FileStates
  BY <1>1 DEF Relabels
<1> HIDE DEF t
<1>4. again \in RequestNames
  BY <1>3, NamesNamed DEF FileStates
<1> HIDE DEF again
<1>5. Failed(s) \in FileStates
  <2> DEFINE u == [t EXCEPT !.active = "none", !.content = "none", !.request = "none"]
             v == [u EXCEPT !.job = "none", !.stop = FALSE]
  <2>1. u \in FileStates
    BY <1>3, NamesNamed DEF FileStates
  <2>2. Failed(s) = [v EXCEPT !.stopping = FALSE, !.retryable = again]
    BY <1>2
  <2> HIDE DEF u
  <2>3. v \in FileStates
    BY <2>1, NamesNamed DEF FileStates
  <2> HIDE DEF v
  <2> QED
    BY <1>4, <2>2, <2>3 DEF FileStates
<1>6. Relabels(t, Failed(s)) /\ Failed(s).content = "none" /\ Failed(s).status = t.status
  BY <1>2, <1>3, <1>5 DEF FileStates, Relabels
<1> QED
  BY <1>1, <1>6 DEF Relabels

(* A write that landed leaves nothing that was read before it; what a read *)
(* brings is as old as the read.                                           *)
LEMMA LandedLabels ==
  ASSUME NEW s \in FileStates, NEW job \in Tasks
  PROVE  /\ Relabels(s, JobLanded(s, job))
         /\ JobLanded(s, job).content = "old" =>
              job.old \/ (s.content = "old" /\ ~Writes(job))
         /\ JobLanded(s, job).status = "stopped" => s.status = "stopped"
<1> DEFINE t == [s EXCEPT !.job = "none"]
           r == JobLanded(s, job)
<1>1. Relabels(s, t) /\ t.content = s.content /\ t.status = s.status /\ t \in FileStates
  BY DEF FileStates, Relabels
<1> SUFFICES /\ Relabels(t, r)
             /\ r.content = "old" => job.old \/ (t.content = "old" /\ ~Writes(job))
             /\ r.status = "stopped" => t.status = "stopped"
  BY <1>1 DEF Relabels
<1> HIDE DEF t
<1>2. CASE job.kind = "resolve"
  <2>1. r = [t EXCEPT !.resolved = TRUE]
    BY <1>2 DEF JobLanded, t
  <2> HIDE DEF r
  <2>2. Relabels(t, r) /\ r.content = t.content /\ r.status = t.status
    BY <1>1, <2>1 DEF FileStates, Relabels
  <2> QED
    BY <1>2, <2>2 DEF Writes
<1>3. CASE job.kind = "read" /\ s.job = "Read"
  <2>1. r = [t EXCEPT !.content = IF job.old THEN "old" ELSE "new"]
    BY <1>3 DEF JobLanded, t
  <2> HIDE DEF r
  <2>2. Relabels(t, r) /\ r.content = (IF job.old THEN "old" ELSE "new") /\ r.status = t.status
    BY <1>1, <2>1 DEF FileStates, Relabels
  <2> QED
    BY <2>2
<1>4. CASE job.kind = "zip" /\ s.job = "Zip"
  <2>1. r = [t EXCEPT !.pack = "running", !.stop = TRUE]
    BY <1>4 DEF JobLanded, t
  <2> HIDE DEF r
  <2>2. Relabels(t, r) /\ r.content = t.content /\ r.status = t.status
    BY <1>1, <2>1 DEF FileStates, Relabels
  <2> QED
    BY <1>4, <2>2 DEF Writes
<1>5. CASE job.kind = "action"
  <2>1. r = [t EXCEPT !.status = IF s.job = "Action" THEN "none" ELSE @, !.content = "none"]
    BY <1>5 DEF JobLanded, t
  <2> HIDE DEF r
  <2>2. r \in FileStates
    <3>1. (IF s.job = "Action" THEN "none" ELSE t.status) \in {"none", "stopped"}
      BY <1>1 DEF FileStates
    <3> DEFINE report == IF s.job = "Action" THEN "none" ELSE t.status
               u == [t EXCEPT !.status = report]
    <3>2. r = [u EXCEPT !.content = "none"]
      BY <2>1
    <3>3. report \in {"none", "stopped"}
      BY <3>1
    <3> HIDE DEF report
    <3>4. u \in FileStates
      BY <1>1, <3>3, StatusSet
    <3> HIDE DEF u
    <3> QED
      BY <3>2, <3>4 DEF FileStates
  <2>3. Relabels(t, r) /\ r.content = "none" /\ r.status \in {"none", t.status}
    BY <1>1, <2>1, <2>2 DEF FileStates, Relabels
  <2> QED
    BY <2>3
<1>6. CASE job.kind = "transfer"
  <2>1. r = [t EXCEPT !.status = "none", !.active = "none", !.stop = FALSE,
                      !.stopping = FALSE, !.request = "none", !.content = "none"]
    BY <1>6 DEF JobLanded, t
  <2> HIDE DEF r
  <2>2. r \in FileStates
    <3> DEFINE q == [t EXCEPT !.status = "none"]
               u == [q EXCEPT !.active = "none"]
               v == [u EXCEPT !.stop = FALSE, !.stopping = FALSE]
    <3>1. q \in FileStates
      BY <1>1, StatusSet
    <3>2. r = [v EXCEPT !.request = "none", !.content = "none"]
      BY <2>1
    <3> HIDE DEF q
    <3>4. u \in FileStates
      BY <3>1, NamesNamed DEF FileStates
    <3> HIDE DEF u
    <3>3. v \in FileStates
      BY <3>4 DEF FileStates
    <3> HIDE DEF v
    <3> QED
      BY <3>2, <3>3, NamesNamed DEF FileStates
  <2>3. Relabels(t, r) /\ r.content = "none" /\ r.status = "none"
    BY <1>1, <2>1, <2>2 DEF FileStates, Relabels
  <2> QED
    BY <2>3
<1>7. CASE ~(\/ job.kind \in {"resolve", "action", "transfer"}
             \/ (job.kind = "read" /\ s.job = "Read") \/ (job.kind = "zip" /\ s.job = "Zip"))
  <2>1. r = t
    BY <1>7 DEF JobLanded, t
  <2> HIDE DEF r
  <2>2. Relabels(t, t)
    BY <1>1 DEF Relabels
  <2> QED
    BY <1>7, <2>1, <2>2 DEF Writes
<1> QED
  BY <1>2, <1>3, <1>4, <1>5, <1>6, <1>7
(* A slot that is read is free, and its job too.                           *)
LEMMA SlotFreed ==
  ASSUME NEW s, FilesInv(s), NEW j \in Jobs, j = s.pending \/ j = s.listing,
         NEW r \in FileStates, r.jobs = [s.jobs EXCEPT ![j] = NoTask],
         r.pending = (IF j = s.pending THEN NoJob ELSE s.pending),
         r.listing = (IF j = s.listing THEN NoJob ELSE s.listing),
         s.slipped => r.slipped,
         r.content = "old" => r.slipped \/ (r.pending = s.pending /\ s.content = "old")
  PROVE  FilesInv(r)
<1>1. s \in FileStates /\ s.jobs \in [Jobs -> Tasks]
  BY DEF FilesInv, FileStates
<1>2. \A i \in Jobs : r.jobs[i] = IF i = j THEN NoTask ELSE s.jobs[i]
  BY <1>1
<1>3. j # NoJob /\ j \notin Orphans(s)
  BY JobsNat DEF FilesInv, SlotsInv, Waits, Orphans
<1>4. Orphans(r) = Orphans(s)
  BY <1>2, <1>3, NoTaskIsTask DEF Orphans
<1>5. s.pending # NoJob => s.pending \in Jobs /\ s.pending # s.listing
  BY <1>1 DEF FilesInv, SlotsInv, Waits, FileStates
<1>6. s.listing # NoJob => s.listing \in Jobs
  BY <1>1 DEF FileStates
<1>7. SlotsInv(r)
  <2>1. r.pending # NoJob => Waits(r.jobs[r.pending], FALSE)
    BY <1>2, <1>5 DEF FilesInv, SlotsInv
  <2>2. r.listing # NoJob => Waits(r.jobs[r.listing], TRUE)
    BY <1>2, <1>6 DEF FilesInv, SlotsInv
  <2>3. \A i \in Jobs : \/ r.jobs[i] = NoTask \/ i \in {r.pending, r.listing}
                        \/ i \in Orphans(r) /\ Writes(r.jobs[i])
    BY <1>2, <1>4 DEF FilesInv, SlotsInv
  <2> QED
    BY <2>1, <2>2, <2>3 DEF SlotsInv
<1>8. FewOrphans(r)
  BY <1>4 DEF FilesInv, FewOrphans
<1>9. AgingInv(r)
  <2>1. \A i \in Jobs : r.jobs[i].old => r.slipped
    BY <1>2, NoTaskIsTask DEF FilesInv, AgingInv
  <2>2. CASE r.pending = s.pending /\ s.content = "old"
    <3>1. \/ s.slipped
          \/ /\ s.pending # NoJob /\ Writes(s.jobs[s.pending])
             /\ s.jobs[s.pending].state # "running"
      BY <2>2 DEF FilesInv, AgingInv
    <3>2. s.pending # NoJob => s.pending # j
      BY <1>3, <2>2
    <3> QED
      BY <1>2, <1>5, <2>1, <2>2, <3>1, <3>2 DEF AgingInv
  <2>3. CASE ~(r.pending = s.pending /\ s.content = "old")
    BY <2>1, <2>3 DEF AgingInv
  <2> QED
    BY <2>2, <2>3
<1> QED
  BY <1>7, <1>8, <1>9 DEF FilesInv

(* The answer of a listing is taken, and the request in the other slot     *)
(* stays as it is.                                                         *)
LEMMA ListingPolledInv ==
  ASSUME NEW s, FilesInv(s)
  PROVE  LET r == ListingPolled(s)
         IN  /\ FilesInv(r) /\ r.queue = s.queue /\ r.status = s.status
             /\ r.pending = s.pending /\ r.pack = s.pack /\ r.job = s.job
             /\ s.pending # NoJob => r.jobs[s.pending] = s.jobs[s.pending]
<1>1. CASE s.listing = NoJob \/ s.jobs[s.listing].state = "running"
  BY <1>1 DEF ListingPolled
<1>2. CASE ~(s.listing = NoJob \/ s.jobs[s.listing].state = "running")
  <2> DEFINE jobs == [s.jobs EXCEPT ![s.listing] = NoTask]
             loaded == s.requested \/ s.jobs[s.listing].state = "ok"
             r == [s EXCEPT !.listing = NoJob, !.jobs = jobs, !.requested = loaded]
  <2>1. s \in FileStates /\ s.listing \in Jobs /\ loaded \in BOOLEAN
    BY <1>2 DEF FilesInv, FileStates
  <2>2. jobs \in [Jobs -> Tasks]
    BY <2>1, NoTaskIsTask DEF FileStates
  <2>3. ListingPolled(s) = r
    BY <1>2, <2>1 DEF ListingPolled, FileStates
  <2>4. s.pending # s.listing
    BY <1>2 DEF FilesInv, SlotsInv, Waits
  <2>5. s.pending # NoJob => jobs[s.pending] = s.jobs[s.pending]
    BY <2>1, <2>4 DEF FileStates
  <2> HIDE DEF jobs, loaded
  <2>6. /\ r \in FileStates /\ r.jobs = jobs /\ r.listing = NoJob /\ r.pending = s.pending
        /\ r.content = s.content /\ r.slipped = s.slipped /\ r.queue = s.queue
        /\ r.status = s.status /\ r.pack = s.pack /\ r.job = s.job
    BY <2>1, <2>2 DEF FileStates
  <2> HIDE DEF r
  <2>7. FilesInv(r)
    BY <2>1, <2>4, <2>6, SlotFreed DEF jobs
  <2> QED
    BY <2>3, <2>5, <2>6, <2>7
<1> QED
  BY <1>1, <1>2

(* The archive is looked at before the slot is.                            *)
LEMMA PackPolledInv ==
  ASSUME NEW s, FilesInv(s), s.pack # "none"
  PROVE  FilesInv(PackPolled(s)) /\ PackPolled(s).queue = s.queue
<1> DEFINE t == [s EXCEPT !.pack = "none"]
<1>1. s \in FileStates /\ s.pack \in {"running", "ok", "error"} /\ s.stopping \in BOOLEAN
  BY DEF FilesInv, FileStates
<1>2. t \in FileStates /\ Relabels(s, t) /\ t.content = s.content
  BY <1>1 DEF FileStates, Relabels
<1>3. PackPolled(s) = IF s.pack = "running" THEN s
                      ELSE IF s.pack = "ok" THEN Finished(t, FALSE)
                      ELSE IF s.stopping THEN Cancelled(t) ELSE Finished(t, TRUE)
  BY <1>1 DEF PackPolled
<1> HIDE DEF t
<1>4. ASSUME NEW r, Relabels(t, r), r.content = t.content
      PROVE  FilesInv(r) /\ r.queue = s.queue
  BY <1>2, <1>4, Relabelled DEF Relabels
<1>5. /\ Relabels(t, Finished(t, FALSE)) /\ Finished(t, FALSE).content = t.content
      /\ Relabels(t, Finished(t, TRUE)) /\ Finished(t, TRUE).content = t.content
      /\ Relabels(t, Cancelled(t)) /\ Cancelled(t).content = t.content
  BY <1>2, FinishedLabels, CancelledLabels
<1> QED
  BY <1>1, <1>3, <1>4, <1>5

(* The answer in the slot, whatever it is and whether it was waited for.   *)
LEMMA AnswerTakenInv ==
  ASSUME NEW s, FilesInv(s), SlotAnswered(s)
  PROVE  /\ FilesInv(AnswerTaken(s)) /\ AnswerTaken(s).queue = s.queue
         /\ AnswerTaken(s).status = "stopped" =>
              \/ s.status = "stopped"
              \/ s.jobs[s.pending].state # "ok" \/ s.job = "Zip"
<1> DEFINE j == s.pending
           job == s.jobs[j]
           jobs == [s.jobs EXCEPT ![j] = NoTask]
           t == [s EXCEPT !.pending = NoJob, !.jobs = jobs]
           r == AnswerTaken(s)
           completed == job.state = "ok" /\ s.job # "Zip"
<1>1. s \in FileStates /\ j \in Jobs /\ job \in Tasks /\ s.stopping \in BOOLEAN
  BY DEF FilesInv, FileStates, SlotAnswered
<1>2. job.state \in {"ok", "error", "dead"}
  BY <1>1 DEF FilesInv, SlotsInv, Waits, SlotAnswered, Tasks
<1>3. jobs \in [Jobs -> Tasks]
  BY <1>1, NoTaskIsTask DEF FileStates
<1>4. t = [s EXCEPT !.pending = NoJob, !.jobs[j] = NoTask]
  BY <1>1 DEF FileStates
<1>5. r = CASE s.stopping /\ ~completed -> Slipped(Cancelled(t), job)
            [] job.state = "ok" /\ (completed \/ ~s.stopping) -> JobLanded(t, job)
            [] job.state = "error" /\ ~s.stopping -> Failed(t)
            [] job.state = "dead" /\ ~s.stopping  -> NeverAnswered(t, job)
  BY <1>4 DEF AnswerTaken
<1> HIDE DEF r
<1>6. /\ t \in FileStates /\ t.jobs = jobs /\ t.pending = NoJob /\ t.listing = s.listing
      /\ t.queue = s.queue /\ t.slipped = s.slipped /\ t.content = s.content
      /\ t.status = s.status
  <2> HIDE DEF jobs, j
  <2> QED
    BY <1>1, <1>3 DEF FileStates
<1> HIDE DEF t
<1>7. job.old => s.slipped
  BY <1>1 DEF FilesInv, AgingInv
<1>8. s.content = "old" => s.slipped \/ Writes(job)
  BY DEF FilesInv, AgingInv
<1>9. ASSUME NEW u \in FileStates, u.jobs = jobs, u.pending = NoJob, u.listing = s.listing,
             s.slipped => u.slipped, u.content = "old" => u.slipped
      PROVE  FilesInv(u)
  <2>1. j # s.listing
    BY DEF FilesInv, SlotsInv, Waits, SlotAnswered
  <2> QED
    BY <1>1, <1>9, <2>1, SlotFreed
<1> HIDE DEF jobs, j, job
<1>10. ASSUME NEW v, Relabels(t, v), v.content = "old" => s.content = "old"
       PROVE  FilesInv(Slipped(v, job)) /\ Slipped(v, job).queue = s.queue
                /\ Slipped(v, job).status = v.status
  <2> DEFINE slipped == v.slipped \/ Writes(job)
  <2>1. Slipped(v, job) = [v EXCEPT !.slipped = slipped]
    BY DEF Slipped
  <2>2. v \in FileStates /\ slipped \in BOOLEAN
    BY <1>10 DEF Relabels, FileStates, Writes
  <2> DEFINE u == [v EXCEPT !.slipped = slipped]
  <2>3. s.slipped => slipped
    BY <1>6, <1>10 DEF Relabels
  <2>4. s.content = "old" => slipped
    BY <1>8, <2>3
  <2> HIDE DEF slipped
  <2>5. /\ u \in FileStates /\ u.jobs = v.jobs /\ u.pending = v.pending
        /\ u.listing = v.listing /\ u.queue = v.queue /\ u.content = v.content
        /\ u.slipped = slipped /\ u.status = v.status
    BY <2>2 DEF FileStates
  <2> HIDE DEF u
  <2>6. FilesInv(u)
    BY <1>6, <1>9, <1>10, <2>3, <2>4, <2>5 DEF Relabels
  <2> QED
    BY <1>6, <1>10, <2>1, <2>5, <2>6 DEF Relabels, u
<1>11. CASE s.stopping /\ ~completed
  <2>1. r = Slipped(Cancelled(t), job)
    BY <1>5, <1>11
  <2>2. Relabels(t, Cancelled(t)) /\ Cancelled(t).content = t.content
    BY <1>6, CancelledLabels
  <2>3. FilesInv(r) /\ r.queue = s.queue
    BY <1>6, <1>10, <2>1, <2>2
  <2> QED
    BY <1>11, <2>3 DEF r, job, j
<1>12. CASE job.state = "ok" /\ (completed \/ ~s.stopping)
  <2>1. r = JobLanded(t, job)
    BY <1>5, <1>12
  <2>2. /\ Relabels(t, r)
        /\ r.content = "old" => job.old \/ (t.content = "old" /\ ~Writes(job))
        /\ r.status = "stopped" => t.status = "stopped"
    BY <1>1, <1>6, <2>1, LandedLabels
  <2>3. r.content = "old" => s.slipped
    BY <1>6, <1>7, <1>8, <2>2
  <2>4. FilesInv(r)
    BY <1>6, <1>9, <2>2, <2>3 DEF Relabels
  <2> QED
    BY <1>6, <2>2, <2>4 DEF Relabels, r
<1>13. CASE job.state = "error" /\ ~s.stopping
  <2>1. r = Failed(t)
    BY <1>5, <1>13
  <2>2. Relabels(t, r) /\ r.content = "none" /\ r.status = t.status
    BY <1>6, <2>1, FailedLabels
  <2>3. FilesInv(r)
    BY <1>6, <1>9, <2>2 DEF Relabels
  <2> QED
    BY <1>6, <2>2, <2>3 DEF Relabels, r
<1>14. CASE job.state = "dead" /\ ~s.stopping
  <2> DEFINE v == [t EXCEPT !.job = "none"]
  <2>1. r = Slipped(v, job)
    BY <1>5, <1>14 DEF NeverAnswered
  <2>2. Relabels(t, v) /\ v.content = t.content /\ v.status = t.status
    BY <1>6 DEF FileStates, Relabels
  <2> HIDE DEF v
  <2>3. FilesInv(r) /\ r.queue = s.queue /\ r.status = v.status
    BY <1>6, <1>10, <2>1, <2>2
  <2> QED
    BY <1>6, <2>2, <2>3 DEF r
<1> QED
  BY <1>1, <1>2, <1>11, <1>12, <1>13, <1>14
(* The slot and the archive together: what a stop reports had not landed.  *)
LEMMA SlotPolledInv ==
  ASSUME NEW s, FilesInv(s)
  PROVE  /\ FilesInv(SlotPolled(s)) /\ SlotPolled(s).queue = s.queue
         /\ SlotPolled(s).status = "stopped" =>
              \/ s.status = "stopped"
              \/ s.pack # "none" \/ s.jobs[s.pending].state # "ok" \/ s.job = "Zip"
<1>1. CASE s.pack # "none"
  BY <1>1, PackPolledInv DEF SlotPolled
<1>2. CASE s.pack = "none" /\ SlotAnswered(s)
  BY <1>2, AnswerTakenInv DEF SlotPolled
<1>3. CASE s.pack = "none" /\ ~SlotAnswered(s)
  BY <1>3 DEF SlotPolled
<1> QED
  BY <1>1, <1>2, <1>3

(* No more transfers wait than the bound lets through.                     *)
Fits(s) == Len(s.queue) <= MaxQueue

(* A whole frame.                                                          *)
LEMMA PollKeeps ==
  ASSUME FilesInv(fs), Fits(fs), LinkTypeOK, PollFiles
  PROVE  /\ FilesInv(fs') /\ Fits(fs')
         /\ fs'.status = "stopped" =>
              \/ fs.status = "stopped"
              \/ fs.job = "Zip" \/ fs.pack # "none" \/ fs.jobs[fs.pending].state # "ok"
<1> DEFINE a == ListingPolled(fs)
           p == SlotPolled(a)
           b == NextStarted(p)
           c == IF Reloads(a) /\ b.pending = NoJob /\ b.listing = NoJob
                THEN ListingStarted(b) ELSE b
<1>1. /\ FilesInv(a) /\ a.queue = fs.queue /\ a.status = fs.status
      /\ a.pending = fs.pending /\ a.pack = fs.pack /\ a.job = fs.job
      /\ fs.pending # NoJob => a.jobs[fs.pending] = fs.jobs[fs.pending]
  BY ListingPolledInv
<1>2. fs' = c
  BY DEF PollFiles
<1> HIDE DEF a
<1>3. /\ FilesInv(p) /\ p.queue = a.queue
      /\ p.status = "stopped" =>
           \/ a.status = "stopped"
           \/ a.pack # "none" \/ a.jobs[a.pending].state # "ok" \/ a.job = "Zip"
  BY <1>1, SlotPolledInv
<1>4. p.status = "stopped" => a.status = "stopped" \/ a.pack # "none" \/ a.pending # NoJob
  BY <1>1 DEF SlotPolled, SlotAnswered
<1> HIDE DEF p
<1>5. /\ FilesInv(b) /\ b.status = p.status
      /\ b.queue = p.queue \/ (p.queue # << >> /\ b.queue = Tail(p.queue))
  BY <1>3, NextStartedInv
<1> HIDE DEF b
<1>6. FilesInv(c) /\ c.status = b.status /\ c.queue = b.queue
  BY <1>5, ListingStartedInv
<1> HIDE DEF c
<1>7. Fits(fs')
  <2>1. p.queue \in Seq(Items) /\ Len(p.queue) <= MaxQueue
    BY <1>1, <1>3 DEF FilesInv, FileStates, Fits
  <2>2. p.queue # << >> => Len(Tail(p.queue)) <= MaxQueue
    BY <2>1, RemoteFilesAssumption
  <2> QED
    BY <1>2, <1>5, <1>6, <2>1, <2>2 DEF Fits
<1>8. fs'.status = "stopped" =>
        \/ fs.status = "stopped"
        \/ fs.job = "Zip" \/ fs.pack # "none" \/ fs.jobs[fs.pending].state # "ok"
  BY <1>1, <1>2, <1>3, <1>4, <1>5, <1>6
<1> QED
  BY <1>2, <1>6, <1>7, <1>8

-----------------------------------------------------------------------------
(* What the panes ask for.                                                 *)

(* enqueue_transfer.                                                       *)
LEMMA EnqueuedKeeps ==
  ASSUME NEW s, FilesInv(s), Len(s.queue) < MaxQueue, NEW i \in Items, LinkTypeOK
  PROVE  /\ FilesInv(Enqueued(s, i)) /\ Fits(Enqueued(s, i))
         /\ Enqueued(s, i).status = "none"
<1> DEFINE q == Append(s.queue, i)
           t == [s EXCEPT !.queue = q, !.status = "none", !.content = "none"]
           r == NextStarted(t)
<1>1. s \in FileStates /\ s.queue \in Seq(Items)
  BY DEF FilesInv, FileStates
<1>2. q \in Seq(Items) /\ Len(q) <= MaxQueue /\ Len(Tail(q)) <= MaxQueue
  BY <1>1, RemoteFilesAssumption
<1> HIDE DEF q
<1>3. /\ t \in FileStates /\ t.queue = q /\ t.status = "none" /\ t.content = "none"
      /\ t.jobs = s.jobs /\ t.pending = s.pending /\ t.listing = s.listing
      /\ t.slipped = s.slipped
  BY <1>1, <1>2 DEF FileStates
<1>4. Enqueued(s, i) = r
  BY DEF Enqueued, q
<1> HIDE DEF t
<1>5. FilesInv(t)
  BY <1>3, Relabelled
<1>6. FilesInv(r) /\ r.status = t.status /\ (r.queue = q \/ r.queue = Tail(q))
  BY <1>3, <1>5, NextStartedInv
<1> HIDE DEF r
<1> QED
  BY <1>2, <1>3, <1>4, <1>6 DEF Fits
(* A request of a pane: the slot is taken, and then labelled.              *)
LEMMA AdoptedKeeps ==
  ASSUME FilesInv(fs), Fits(fs), FewOrphans(Dropped(fs, fs.pending)),
         NEW kind \in RequestKinds, LinkTypeOK,
         NEW r \in FileStates, LET a == Adopted(fs, kind)
                               IN  /\ r.jobs = a.jobs /\ r.pending = a.pending
                                   /\ r.listing = a.listing /\ r.slipped = a.slipped
                                   /\ r.queue = a.queue
                                   /\ r.content \in {"none", a.content}
                                   /\ r.status \in {"none", a.status}
  PROVE  FilesInv(r) /\ Fits(r) /\ (r.status = "stopped" => fs.status = "stopped")
<1> DEFINE a == Adopted(fs, kind)
<1>1. FilesInv(a) /\ a.queue = fs.queue /\ a.status = fs.status
  BY RequestAdopted
<1>2. /\ r.jobs = a.jobs /\ r.pending = a.pending /\ r.listing = a.listing
      /\ r.slipped = a.slipped /\ r.queue = a.queue
      /\ r.content \in {"none", a.content} /\ r.status \in {"none", a.status}
  OBVIOUS
<1> HIDE DEF a
<1>3. FilesInv(r)
  BY <1>1, <1>2, Relabelled
<1> QED
  BY <1>1, <1>2, <1>3 DEF Fits

(* start_zip: an archive is asked for.                                     *)
LEMMA ZipKeeps ==
  ASSUME FilesInv(fs), Fits(fs), LinkTypeOK, DownloadZip
  PROVE  FilesInv(fs') /\ Fits(fs') /\ (fs'.status = "stopped" => fs.status = "stopped")
<1> DEFINE a == Adopted(fs, "zip")
<1>1. FewOrphans(Dropped(fs, fs.pending))
  BY DEF DownloadZip, Room, FewOrphans
<1>2. a \in FileStates
  BY <1>1, RequestAdopted DEF FilesInv, RequestKinds
<1>3. fs' = [a EXCEPT !.active = "zip", !.job = "Zip", !.status = "none"]
  BY DEF DownloadZip
<1> HIDE DEF a
<1>4. /\ fs' \in FileStates /\ fs'.jobs = a.jobs /\ fs'.pending = a.pending
      /\ fs'.listing = a.listing /\ fs'.slipped = a.slipped /\ fs'.queue = a.queue
      /\ fs'.content = a.content /\ fs'.status = "none"
  BY <1>2, <1>3, NamesNamed DEF FileStates
<1> QED
  BY <1>1, <1>4, AdoptedKeeps DEF RequestKinds, a

(* start_file_action: a change is asked for, and what was read is          *)
(* forgotten.                                                              *)
LEMMA ChangeKeeps ==
  ASSUME FilesInv(fs), Fits(fs), LinkTypeOK, Change
  PROVE  FilesInv(fs') /\ Fits(fs') /\ (fs'.status = "stopped" => fs.status = "stopped")
<1> DEFINE a == Adopted(fs, "action")
<1>1. FewOrphans(Dropped(fs, fs.pending))
  BY DEF Change, Room, FewOrphans
<1>2. a \in FileStates
  BY <1>1, RequestAdopted DEF FilesInv, RequestKinds
<1>3. fs' = [a EXCEPT !.job = "Action", !.content = "none"]
  BY DEF Change
<1> HIDE DEF a
<1>4. /\ fs' \in FileStates /\ fs'.jobs = a.jobs /\ fs'.pending = a.pending
      /\ fs'.listing = a.listing /\ fs'.slipped = a.slipped /\ fs'.queue = a.queue
      /\ fs'.content = "none" /\ fs'.status = a.status
  BY <1>2, <1>3 DEF FileStates
<1> QED
  BY <1>1, <1>4, AdoptedKeeps DEF RequestKinds, a

(* read: the slot is free, so nothing is dropped.                          *)
LEMMA ReadKeeps ==
  ASSUME FilesInv(fs), Fits(fs), LinkTypeOK, Read
  PROVE  FilesInv(fs') /\ Fits(fs') /\ (fs'.status = "stopped" => fs.status = "stopped")
<1> DEFINE a == Adopted(fs, "read")
<1>1. FewOrphans(Dropped(fs, fs.pending))
  BY DEF Read, Dropped, FilesInv
<1>2. a \in FileStates
  BY <1>1, RequestAdopted DEF FilesInv, RequestKinds
<1>3. fs' = [a EXCEPT !.job = "Read"]
  BY DEF Read
<1> HIDE DEF a
<1>4. /\ fs' \in FileStates /\ fs'.jobs = a.jobs /\ fs'.pending = a.pending
      /\ fs'.listing = a.listing /\ fs'.slipped = a.slipped /\ fs'.queue = a.queue
      /\ fs'.content = a.content /\ fs'.status = a.status
  BY <1>2, <1>3 DEF FileStates
<1> QED
  BY <1>1, <1>4, AdoptedKeeps DEF RequestKinds, a

(* resolve: the slot is free, so nothing is dropped.                       *)
LEMMA ResolveKeeps ==
  ASSUME FilesInv(fs), Fits(fs), LinkTypeOK, Resolve
  PROVE  FilesInv(fs') /\ Fits(fs') /\ (fs'.status = "stopped" => fs.status = "stopped")
<1> DEFINE a == Adopted(fs, "resolve")
<1>1. FewOrphans(Dropped(fs, fs.pending))
  BY DEF Resolve, Dropped, FilesInv
<1>2. a \in FileStates
  BY <1>1, RequestAdopted DEF FilesInv, RequestKinds
<1>3. fs' = [a EXCEPT !.job = "Resolve"]
  BY DEF Resolve
<1> HIDE DEF a
<1>4. /\ fs' \in FileStates /\ fs'.jobs = a.jobs /\ fs'.pending = a.pending
      /\ fs'.listing = a.listing /\ fs'.slipped = a.slipped /\ fs'.queue = a.queue
      /\ fs'.content = a.content /\ fs'.status = a.status
  BY <1>2, <1>3 DEF FileStates
<1> QED
  BY <1>1, <1>4, AdoptedKeeps DEF RequestKinds, a

(* The listing, and what a stop or a retry changes.                        *)
LEMMA ListingKeeps ==
  ASSUME FilesInv(fs), Fits(fs), LinkTypeOK, RequestListing \/ Refresh
  PROVE  FilesInv(fs') /\ Fits(fs') /\ (fs'.status = "stopped" => fs.status = "stopped")
<1>1. CASE RequestListing
  <2>1. fs' = ListingStarted(fs)
    BY <1>1 DEF RequestListing
  <2> QED
    BY <2>1, ListingStartedInv DEF Fits
<1>2. CASE Refresh
  <2> DEFINE t == [fs EXCEPT !.requested = FALSE, !.content = "none"]
  <2>1. /\ t \in FileStates /\ t.jobs = fs.jobs /\ t.pending = fs.pending
        /\ t.listing = fs.listing /\ t.slipped = fs.slipped /\ t.content = "none"
        /\ t.queue = fs.queue /\ t.status = fs.status
    BY DEF FilesInv, FileStates
  <2>2. fs' = ListingStarted(t)
    BY <1>2 DEF Refresh
  <2> HIDE DEF t
  <2>3. FilesInv(t)
    BY <2>1, Relabelled
  <2> QED
    BY <2>1, <2>2, <2>3, ListingStartedInv DEF Fits
<1> QED
  BY <1>1, <1>2

(* stop_transfer: the job is told, and the frame will see.                 *)
LEMMA StopKeeps ==
  ASSUME FilesInv(fs), Fits(fs), StopTransfer
  PROVE  FilesInv(fs') /\ Fits(fs') /\ (fs'.status = "stopped" => fs.status = "stopped")
<1>1. /\ fs' \in FileStates /\ fs'.jobs = fs.jobs /\ fs'.pending = fs.pending
      /\ fs'.listing = fs.listing /\ fs'.slipped = fs.slipped /\ fs'.content = fs.content
      /\ fs'.queue = fs.queue /\ fs'.status = fs.status
  BY DEF StopTransfer, FilesInv, FileStates
<1> QED
  BY <1>1, Relabelled DEF Fits

(* retry: the transfer that failed waits again.                            *)
LEMMA RetryKeeps ==
  ASSUME FilesInv(fs), Fits(fs), LinkTypeOK, Retry
  PROVE  FilesInv(fs') /\ Fits(fs') /\ (fs'.status = "stopped" => fs.status = "stopped")
<1> DEFINE t == [fs EXCEPT !.retryable = "none"]
<1>1. /\ t \in FileStates /\ t.jobs = fs.jobs /\ t.pending = fs.pending
      /\ t.listing = fs.listing /\ t.slipped = fs.slipped /\ t.content = fs.content
      /\ t.queue = fs.queue /\ t.status = fs.status
  BY NamesNamed DEF FilesInv, FileStates
<1>2. fs' = IF Hosted THEN Enqueued(t, fs.retryable) ELSE t
  BY DEF Retry
<1>3. fs.retryable \in Items /\ Len(fs.queue) < MaxQueue
  BY DEF Retry, FilesInv, FileStates, RequestNames
<1> HIDE DEF t
<1>4. FilesInv(t)
  BY <1>1, Relabelled
<1>5. /\ FilesInv(Enqueued(t, fs.retryable)) /\ Fits(Enqueued(t, fs.retryable))
      /\ Enqueued(t, fs.retryable).status = "none"
  BY <1>1, <1>3, <1>4, EnqueuedKeeps
<1> QED
  BY <1>1, <1>2, <1>4, <1>5 DEF Fits
-----------------------------------------------------------------------------
(* The tasks on the host.                                                  *)

(* Ending touches one field of a task, and ageing another.                 *)
LEMMA Ended ==
  ASSUME NEW work \in Tasks, NEW state, NEW new, new = [work EXCEPT !.state = state]
  PROVE  new.kind = work.kind /\ new.state = state /\ new.heard = work.heard
           /\ new.old = work.old
BY DEF Tasks

(* Ageing touches another field.                                           *)
LEMMA Outdated ==
  ASSUME NEW work \in Tasks, NEW new, new = [work EXCEPT !.old = TRUE]
  PROVE  new.kind = work.kind /\ new.state = work.state /\ new.heard = work.heard
BY DEF Tasks

(* The job in a slot ends: it keeps the slot, and a write that ends may    *)
(* have made what was read out of date.                                    *)
LEMMA SlotEnds ==
  ASSUME NEW s, FilesInv(s), NEW j \in Jobs, s.jobs[j].state = "running", s.jobs[j].heard,
         NEW state \in {"ok", "error", "dead"},
         NEW r \in FileStates, r.jobs = [s.jobs EXCEPT ![j].state = state],
         r.pending = s.pending, r.listing = s.listing, r.slipped = s.slipped,
         r.content = s.content \/ Writes(s.jobs[j])
  PROVE  FilesInv(r)
<1>1. s \in FileStates /\ s.jobs \in [Jobs -> Tasks] /\ s.jobs[j] \in Tasks
  BY DEF FilesInv, FileStates
<1>2. /\ \A i \in Jobs \ {j} : r.jobs[i] = s.jobs[i]
      /\ r.jobs[j].kind = s.jobs[j].kind /\ r.jobs[j].state = state
      /\ r.jobs[j].heard = s.jobs[j].heard /\ r.jobs[j].old = s.jobs[j].old
  <2>1. r.jobs = [s.jobs EXCEPT ![j] = [s.jobs[j] EXCEPT !.state = state]]
    OBVIOUS
  <2>2. r.jobs[j] = [s.jobs[j] EXCEPT !.state = state] /\ \A i \in Jobs \ {j} : r.jobs[i] = s.jobs[i]
    BY <1>1, <2>1
  <2> DEFINE work == s.jobs[j]
             new == r.jobs[j]
  <2>3. work \in Tasks /\ new = [work EXCEPT !.state = state]
    BY <1>1, <2>2
  <2> HIDE DEF work, new
  <2>4. new.kind = work.kind /\ new.state = state /\ new.heard = work.heard
          /\ new.old = work.old
    BY <2>3, Ended
  <2> QED
    BY <2>2, <2>4 DEF work, new
<1>3. j # NoJob /\ (j = s.pending \/ j = s.listing)
  BY JobsNat, NoTaskIsTask DEF FilesInv, SlotsInv, Orphans
<1>4. s.pending # NoJob => s.pending \in Jobs /\ s.pending # s.listing
  BY <1>1 DEF FilesInv, SlotsInv, Waits, FileStates
<1>5. s.listing # NoJob => s.listing \in Jobs
  BY <1>1 DEF FileStates
<1>6. Orphans(r) = Orphans(s)
  BY <1>2 DEF Orphans
<1>7. SlotsInv(r)
  <2>1. r.pending # NoJob => Waits(r.jobs[r.pending], FALSE)
    BY <1>2, <1>4 DEF FilesInv, SlotsInv, Waits
  <2>2. r.listing # NoJob => Waits(r.jobs[r.listing], TRUE)
    BY <1>2, <1>5 DEF FilesInv, SlotsInv, Waits
  <2>3. \A i \in Jobs : \/ r.jobs[i] = NoTask \/ i \in {r.pending, r.listing}
                        \/ i \in Orphans(r) /\ Writes(r.jobs[i])
    BY <1>2, <1>3, <1>6 DEF FilesInv, SlotsInv
  <2> QED
    BY <2>1, <2>2, <2>3 DEF SlotsInv
<1>8. FewOrphans(r)
  BY <1>6 DEF FilesInv, FewOrphans
<1>9. AgingInv(r)
  <2>1. \A i \in Jobs : r.jobs[i].old => r.slipped
    BY <1>2 DEF FilesInv, AgingInv
  <2>2. CASE Writes(s.jobs[j])
    <3>1. j = s.pending
      BY <1>3, <2>2 DEF FilesInv, SlotsInv, Waits, Writes
    <3>2. Writes(r.jobs[r.pending]) /\ r.jobs[r.pending].state # "running"
      BY <1>2, <2>2, <3>1 DEF Writes
    <3> QED
      BY <1>3, <2>1, <3>1, <3>2 DEF AgingInv
  <2>3. CASE ~Writes(s.jobs[j])
    <3>1. s.content = "old" =>
            \/ s.slipped
            \/ /\ s.pending # NoJob /\ Writes(s.jobs[s.pending])
               /\ s.jobs[s.pending].state # "running"
      BY DEF FilesInv, AgingInv
    <3>2. s.pending # NoJob /\ Writes(s.jobs[s.pending]) => s.pending # j
      BY <2>3
    <3> QED
      BY <1>2, <1>4, <2>1, <2>3, <3>1, <3>2 DEF AgingInv
  <2> QED
    BY <2>2, <2>3
<1> QED
  BY <1>7, <1>8, <1>9 DEF FilesInv

(* A write nobody hears of ends: it slipped.                               *)
LEMMA OrphanEnds ==
  ASSUME NEW s, FilesInv(s), NEW j \in Jobs, s.jobs[j].state = "running", ~s.jobs[j].heard,
         NEW r \in FileStates, r.jobs[j] = NoTask,
         \A i \in Jobs \ {j} :
           \/ r.jobs[i] = s.jobs[i]
           \/ s.jobs[i].state = "ok" /\ r.jobs[i] = [s.jobs[i] EXCEPT !.old = TRUE],
         r.pending = s.pending, r.listing = s.listing, r.slipped
  PROVE  FilesInv(r)
<1>1. s \in FileStates /\ \A i \in Jobs : s.jobs[i] \in Tasks
  BY DEF FilesInv, FileStates
<1>2. \A i \in Jobs \ {j} : /\ r.jobs[i].kind = s.jobs[i].kind
                            /\ r.jobs[i].state = s.jobs[i].state
                            /\ r.jobs[i].heard = s.jobs[i].heard
  <2> SUFFICES ASSUME NEW i \in Jobs \ {j}
               PROVE  /\ r.jobs[i].kind = s.jobs[i].kind
                      /\ r.jobs[i].state = s.jobs[i].state
                      /\ r.jobs[i].heard = s.jobs[i].heard
    OBVIOUS
  <2>1. \/ r.jobs[i] = s.jobs[i]
        \/ r.jobs[i] = [s.jobs[i] EXCEPT !.old = TRUE]
    OBVIOUS
  <2> QED
    BY <1>1, <2>1, Outdated
<1>3. j \notin {s.pending, s.listing}
  BY JobsNat DEF FilesInv, SlotsInv, Waits
<1>4. Orphans(r) \subseteq Orphans(s) /\ \A i \in Orphans(s) \ {j} : i \in Orphans(r)
  BY <1>2, NoTaskIsTask DEF Orphans
<1>5. SlotsInv(r)
  <2>1. r.pending # NoJob => Waits(r.jobs[r.pending], FALSE)
    BY <1>1, <1>2, <1>3 DEF FilesInv, SlotsInv, Waits, FileStates
  <2>2. r.listing # NoJob => Waits(r.jobs[r.listing], TRUE)
    BY <1>1, <1>2, <1>3 DEF FilesInv, SlotsInv, Waits, FileStates
  <2>3. ASSUME NEW i \in Jobs
        PROVE  \/ r.jobs[i] = NoTask \/ i \in {r.pending, r.listing}
               \/ i \in Orphans(r) /\ Writes(r.jobs[i])
    <3>1. CASE i = j
      BY <3>1
    <3>2. CASE i # j /\ i \in {s.pending, s.listing}
      BY <3>2
    <3>3. CASE i # j /\ i \notin {s.pending, s.listing} /\ s.jobs[i] = NoTask
      BY <3>3, NoTaskIsTask
    <3>4. CASE i # j /\ i \in Orphans(s) /\ Writes(s.jobs[i])
      BY <1>2, <1>4, <3>4 DEF Writes
    <3> QED
      BY <3>1, <3>2, <3>3, <3>4 DEF FilesInv, SlotsInv
  <2> QED
    BY <2>1, <2>2, <2>3 DEF SlotsInv
<1>6. FewOrphans(r)
  <2>1. Orphans(s) \in SUBSET Jobs
    BY DEF Orphans
  <2>2. IsFiniteSet(Orphans(s))
    BY <2>1, JobsNat, FS_Subset
  <2>3. /\ IsFiniteSet(Orphans(r)) /\ Cardinality(Orphans(r)) <= Cardinality(Orphans(s))
    BY <1>4, <2>2, FS_Subset
  <2>4. Cardinality(Orphans(r)) \in Nat /\ Cardinality(Orphans(s)) \in Nat
    BY <2>2, <2>3, FS_CardinalityType
  <2>5. Cardinality(Orphans(s)) <= MaxOrphans
    BY DEF FilesInv, FewOrphans
  <2> QED
    BY <2>3, <2>4, <2>5, JobsNat DEF FewOrphans
<1>7. AgingInv(r)
  BY DEF AgingInv
<1> QED
  BY <1>5, <1>6, <1>7 DEF FilesInv

(* What a write makes out of date.                                         *)
LEMMA AgedJobs ==
  ASSUME NEW s \in FileStates
  PROVE  /\ Aged(s) \in FileStates
         /\ Aged(s).pending = s.pending /\ Aged(s).listing = s.listing
         /\ Aged(s).slipped = s.slipped /\ Aged(s).queue = s.queue
         /\ Aged(s).status = s.status
         /\ \A i \in Jobs : Aged(s).jobs[i] =
              IF s.jobs[i].kind = "read" /\ s.jobs[i].state = "ok"
              THEN [s.jobs[i] EXCEPT !.old = TRUE] ELSE s.jobs[i]
<1> DEFINE jobs == [j \in Jobs |-> IF s.jobs[j].kind = "read" /\ s.jobs[j].state = "ok"
                                   THEN [s.jobs[j] EXCEPT !.old = TRUE] ELSE s.jobs[j]]
           content == IF s.content = "none" THEN s.content ELSE "old"
<1>1. Aged(s) = [s EXCEPT !.content = content, !.jobs = jobs]
  BY DEF Aged
<1>2. \A j \in Jobs : s.jobs[j] \in Tasks
  BY DEF FileStates
<1>3. jobs \in [Jobs -> Tasks]
  <2>1. \A j \in Jobs : [s.jobs[j] EXCEPT !.old = TRUE] \in Tasks
    BY <1>2 DEF Tasks
  <2> QED
    BY <1>2, <2>1
<1>4. content \in {"none", "new", "old"}
  BY DEF FileStates
<1>5. \A i \in Jobs : jobs[i] = IF s.jobs[i].kind = "read" /\ s.jobs[i].state = "ok"
                                THEN [s.jobs[i] EXCEPT !.old = TRUE] ELSE s.jobs[i]
  OBVIOUS
<1> HIDE DEF jobs, content
<1> DEFINE u == [s EXCEPT !.content = content]
           r == [u EXCEPT !.jobs = jobs]
<1>6. u \in FileStates
  BY <1>4 DEF FileStates
<1>7. Aged(s) = r
  BY <1>1
<1>8. /\ u.pending = s.pending /\ u.listing = s.listing /\ u.slipped = s.slipped
      /\ u.queue = s.queue /\ u.status = s.status
  BY DEF FileStates
<1> HIDE DEF u
<1>9. r \in FileStates
  BY <1>3, <1>6 DEF FileStates
<1>10. /\ r.jobs = jobs /\ r.pending = u.pending /\ r.listing = u.listing
       /\ r.slipped = u.slipped /\ r.queue = u.queue /\ r.status = u.status
  BY <1>6 DEF FileStates
<1> HIDE DEF r
<1> QED
  BY <1>5, <1>7, <1>8, <1>9, <1>10

(* A job ends, however it does.                                            *)
LEMMA JobEndsKeeps ==
  ASSUME FilesInv(fs), Fits(fs), NEW j \in Jobs, NEW state \in {"ok", "error", "dead"},
         JobEnds(j, state)
  PROVE  FilesInv(fs') /\ Fits(fs') /\ fs'.status = fs.status
<1> DEFINE work == fs.jobs[j]
           s == IF Writes(work) THEN Aged(fs) ELSE fs
<1>1. fs \in FileStates /\ work \in Tasks /\ work.state = "running"
  BY DEF FilesInv, FileStates, JobEnds
<1>2. fs' = IF work.heard THEN [s EXCEPT !.jobs[j].state = state]
            ELSE Slipped([s EXCEPT !.jobs[j] = NoTask], work)
  BY DEF JobEnds
<1>3. /\ s \in FileStates /\ s.pending = fs.pending /\ s.listing = fs.listing
      /\ s.slipped = fs.slipped /\ s.queue = fs.queue /\ s.status = fs.status
      /\ s.content = fs.content \/ Writes(work)
      /\ \A i \in Jobs :
           \/ s.jobs[i] = fs.jobs[i]
           \/ /\ Writes(work) /\ fs.jobs[i].kind = "read" /\ fs.jobs[i].state = "ok"
              /\ s.jobs[i] = [fs.jobs[i] EXCEPT !.old = TRUE]
  BY <1>1, AgedJobs
<1> HIDE DEF s
<1>4. s.jobs \in [Jobs -> Tasks] /\ s.jobs[j] = work
  BY <1>1, <1>3 DEF FileStates
<1>5. CASE work.heard
  <2> DEFINE jobs == [s.jobs EXCEPT ![j].state = state]
             r == [s EXCEPT !.jobs = jobs]
  <2>1. fs' = r
    BY <1>2, <1>5
  <2>2. s.jobs = fs.jobs
    <3>1. ASSUME Writes(work), NEW i \in Jobs, fs.jobs[i].kind = "read", fs.jobs[i].state = "ok"
          PROVE  FALSE
      <4>1. j \notin Orphans(fs) /\ i \notin Orphans(fs) /\ work # NoTask /\ fs.jobs[i] # NoTask
        BY <1>1, <1>5, <3>1, NoTaskIsTask DEF Orphans
      <4>2. j = fs.pending /\ i = fs.pending
        BY <1>5, <3>1, <4>1, JobsNat DEF FilesInv, SlotsInv, Waits, Writes
      <4> QED
        BY <1>1, <3>1, <4>2
    <3>2. \A i \in Jobs : s.jobs[i] = fs.jobs[i]
      BY <1>3, <3>1
    <3>3. fs.jobs \in [Jobs -> Tasks]
      BY <1>1 DEF FileStates
    <3> QED
      BY <1>4, <3>2, <3>3
  <2>3. jobs \in [Jobs -> Tasks]
    <3>1. [work EXCEPT !.state = state] \in Tasks
      BY <1>1 DEF Tasks
    <3>2. jobs = [s.jobs EXCEPT ![j] = [work EXCEPT !.state = state]]
      BY <1>4
    <3> QED
      BY <1>4, <3>1, <3>2
  <2>4. jobs = [fs.jobs EXCEPT ![j].state = state]
    BY <2>2
  <2> HIDE DEF jobs
  <2>5. /\ r \in FileStates /\ r.jobs = jobs /\ r.pending = s.pending
        /\ r.listing = s.listing /\ r.slipped = s.slipped /\ r.queue = s.queue
        /\ r.status = s.status /\ r.content = s.content
    BY <1>3, <2>3 DEF FileStates
  <2> HIDE DEF r
  <2>6. /\ fs.jobs[j].state = "running" /\ fs.jobs[j].heard
        /\ r.jobs = [fs.jobs EXCEPT ![j].state = state]
        /\ r.pending = fs.pending /\ r.listing = fs.listing /\ r.slipped = fs.slipped
        /\ r.content = fs.content \/ Writes(fs.jobs[j])
    BY <1>1, <1>3, <1>5, <2>4, <2>5
  <2>7. FilesInv(r)
    BY <2>5, <2>6, SlotEnds
  <2> QED
    BY <1>3, <2>1, <2>5, <2>7 DEF Fits
<1>6. CASE ~work.heard
  <2> DEFINE jobs == [s.jobs EXCEPT ![j] = NoTask]
             r == [s EXCEPT !.jobs = jobs, !.slipped = TRUE]
  <2>1. Writes(work)
    BY <1>1, <1>6, NoTaskIsTask, JobsNat DEF FilesInv, SlotsInv, Waits
  <2>2. fs' = r
    BY <1>2, <1>3, <1>6, <2>1 DEF Slipped, FileStates
  <2>3. jobs \in [Jobs -> Tasks] /\ jobs[j] = NoTask /\ \A i \in Jobs \ {j} : jobs[i] = s.jobs[i]
    BY <1>4, NoTaskIsTask
  <2> HIDE DEF jobs
  <2>4. /\ r \in FileStates /\ r.jobs = jobs /\ r.pending = s.pending
        /\ r.listing = s.listing /\ r.slipped /\ r.queue = s.queue
        /\ r.status = s.status
    BY <1>3, <2>3 DEF FileStates
  <2> HIDE DEF r
  <2>5. \A i \in Jobs \ {j} :
          \/ r.jobs[i] = fs.jobs[i]
          \/ fs.jobs[i].state = "ok" /\ r.jobs[i] = [fs.jobs[i] EXCEPT !.old = TRUE]
    BY <1>3, <2>3, <2>4
  <2>6. /\ fs.jobs[j].state = "running" /\ ~fs.jobs[j].heard /\ r.jobs[j] = NoTask
        /\ r.pending = fs.pending /\ r.listing = fs.listing /\ r.slipped
    BY <1>1, <1>3, <1>6, <2>3, <2>4
  <2>7. FilesInv(r)
    BY <2>4, <2>5, <2>6, OrphanEnds
  <2> QED
    BY <1>3, <2>2, <2>4, <2>7 DEF Fits
<1> QED
  BY <1>5, <1>6

(* The thread that packs an archive ends.                                  *)
LEMMA PackEndKeeps ==
  ASSUME FilesInv(fs), Fits(fs), PackEnds
  PROVE  FilesInv(fs') /\ Fits(fs') /\ fs'.status = fs.status
<1>1. PICK result \in {"ok", "error"} : fs' = [fs EXCEPT !.pack = result]
  BY DEF PackEnds
<1>2. /\ fs' \in FileStates /\ fs'.jobs = fs.jobs /\ fs'.pending = fs.pending
      /\ fs'.listing = fs.listing /\ fs'.slipped = fs.slipped /\ fs'.content = fs.content
      /\ fs'.queue = fs.queue /\ fs'.status = fs.status
  BY <1>1 DEF FilesInv, FileStates
<1> QED
  BY <1>2, Relabelled DEF Fits

(* The files of a tab: every step keeps them as they should be, and what   *)
(* a stop reports.                                                         *)
LEMMA FilesStepKeeps ==
  ASSUME FilesInv(fs), Fits(fs), LinkTypeOK, FilesStep
  PROVE  /\ FilesInv(fs') /\ Fits(fs')
         /\ fs'.status = "stopped" =>
              \/ fs.status = "stopped"
              \/ fs.job = "Zip" \/ fs.pack # "none" \/ fs.jobs[fs.pending].state # "ok"
<1>1. ASSUME NEW i \in Items, Enqueue(i)
      PROVE  FilesInv(fs') /\ Fits(fs') /\ fs'.status = "none"
  <2>1. Len(fs.queue) < MaxQueue /\ fs' = Enqueued(fs, i)
    BY <1>1 DEF Enqueue
  <2> QED
    BY <2>1, EnqueuedKeeps
<1>2. ASSUME NEW j \in Jobs, JobAnswers(j) \/ JobDies(j)
      PROVE  FilesInv(fs') /\ Fits(fs') /\ fs'.status = fs.status
  <2>1. \E state \in {"ok", "error", "dead"} : JobEnds(j, state)
    BY <1>2 DEF JobAnswers, JobDies
  <2> QED
    BY <2>1, JobEndsKeeps
<1> QED
  BY <1>1, <1>2, ZipKeeps, ChangeKeeps, ReadKeeps, ResolveKeeps, ListingKeeps, StopKeeps,
     RetryKeeps, PollKeeps, PackEndKeeps DEF FilesStep

(* A tab starts with no request and every job free.                        *)
LEMMA FilesStart == FilesInit => FilesInv(fs) /\ Fits(fs) /\ FilesTypeOK
<1> SUFFICES ASSUME FilesInit PROVE FilesInv(fs) /\ Fits(fs) /\ FilesTypeOK
  OBVIOUS
<1> DEFINE jobs == [j \in Jobs |-> NoTask]
<1>1. jobs \in [Jobs -> Tasks] /\ \A j \in Jobs : jobs[j] = NoTask
  BY NoTaskIsTask
<1> HIDE DEF jobs
<1>2. /\ fs.jobs = jobs /\ fs.pending = NoJob /\ fs.listing = NoJob
      /\ fs.content = "none" /\ fs.queue = << >>
  BY DEF FilesInit, jobs
<1>3. fs \in FileStates
  <2>1. 0 \in 0..FailedRows /\ << >> \in Seq(Items)
    BY RemoteFilesAssumption
  <2> QED
    BY <1>1, <2>1, NamesNamed DEF FilesInit, FileStates, jobs
<1>4. Orphans(fs) = {}
  BY <1>1, <1>2, NoTaskIsTask DEF Orphans
<1>5. SlotsInv(fs)
  BY <1>1, <1>2 DEF SlotsInv
<1>6. FewOrphans(fs)
  BY <1>4, FS_EmptySet, JobsNat DEF FewOrphans
<1>7. AgingInv(fs)
  BY <1>1, <1>2, NoTaskIsTask DEF AgingInv
<1>8. FilesInv(fs) /\ Fits(fs)
  BY <1>2, <1>3, <1>5, <1>6, <1>7, RemoteFilesAssumption DEF FilesInv, Fits
<1> QED
  BY <1>8 DEF FilesInv, Fits, FileStates, FilesTypeOK, RequestNames, RowNames

-----------------------------------------------------------------------------
(* The files of a tab among its panes.                                     *)

(* FilesInv is inductive: files are touched by their own steps only, over  *)
(* a transport that is one of the tab's.                                   *)
LEMMA NextKeepsFiles ==
  ASSUME FilesInv(fs), Fits(fs), BrokerTypeOK, [Next]_vars
  PROVE  /\ FilesInv(fs') /\ Fits(fs')
         /\ fs' = fs \/ FilesStep
<1>1. InFiles(FilesStep /\ UNCHANGED linkVars) \/ UNCHANGED fs
  BY DEF Next, AgentNext, InAgent, InBroker, FilesNext, InFiles, InLayout, vars
<1>2. LinkTypeOK
  BY DEF BrokerTypeOK
<1>3. CASE InFiles(FilesStep /\ UNCHANGED linkVars)
  BY <1>2, <1>3, FilesStepKeeps DEF InFiles
<1>4. CASE UNCHANGED fs
  BY <1>4
<1> QED
  BY <1>1, <1>3, <1>4

(* The invariant of the remote files.                                      *)
LEMMA FilesAreSound == Spec => [](FilesInv(fs) /\ Fits(fs))
<1>1. Init => FilesInv(fs) /\ Fits(fs)
  BY FilesStart DEF Init
<1>2. FilesInv(fs) /\ Fits(fs) /\ BrokerTypeOK /\ [Next]_vars
        => (FilesInv(fs) /\ Fits(fs))'
  BY NextKeepsFiles
<1> QED
  BY <1>1, <1>2, BrokerTypeCorrect, PTL DEF Spec

(* The slots, the queue and the labels of the remote files hold values of  *)
(* their types, however many jobs were dropped: there is always a free job *)
(* for the next request.                                                   *)
THEOREM FilesTypeCorrect == Spec => []FilesTypeOK
<1>1. FilesInv(fs) /\ Fits(fs) => FilesTypeOK
  BY DEF FilesInv, Fits, FileStates, FilesTypeOK, RequestNames, RowNames
<1> QED
  BY <1>1, FilesAreSound, PTL

(* What the viewer shows is out of date only by a write that is still in   *)
(* the slot, or by one that ended stopped, dead or dropped: every answer   *)
(* of a write that poll_files takes forgets what was read before it.       *)
THEOREM ReadIsCurrent == Spec => []ContentIsCurrent
<1>1. FilesInv(fs) => ContentIsCurrent
  BY DEF FilesInv, AgingInv, ContentIsCurrent
<1> QED
  BY <1>1, FilesAreSound, PTL

(* A stop is reported only of a request that had not landed, or of an      *)
(* archive, whatever came first of the stop, the answer and the frame.     *)
THEOREM StoppedWasNotThere == Spec => StoppedHadNotLanded
<1>1. FilesInv(fs) /\ Fits(fs) /\ BrokerTypeOK /\ [Next]_vars
        => [fs.status # "stopped" /\ fs'.status = "stopped"
              => fs.job = "Zip" \/ fs.pack # "none" \/ fs.jobs[fs.pending].state # "ok"]_fs
  <2> SUFFICES ASSUME FilesInv(fs), Fits(fs), BrokerTypeOK, [Next]_vars,
                      fs.status # "stopped", fs'.status = "stopped"
               PROVE  fs.job = "Zip" \/ fs.pack # "none" \/ fs.jobs[fs.pending].state # "ok"
    OBVIOUS
  <2>1. FilesStep /\ LinkTypeOK
    BY NextKeepsFiles DEF BrokerTypeOK
  <2> QED
    BY <2>1, FilesStepKeeps
<1> QED
  BY <1>1, FilesAreSound, BrokerTypeCorrect, PTL DEF Spec, StoppedHadNotLanded
-------------------------------------------------------------------
(* The layout of the panes.                                                *)

(* A plugin is in one place, and there once.                               *)
Single(l) ==
  /\ \A e \in Places : Distinct(l[e])
  /\ \A e, f \in Places : e # f => Elements(l[e]) \cap Elements(l[f]) = {}

(* That is what OnePaneEach says of the leaves one by one.                 *)
LEMMA SingleIsOnePane ==
  ASSUME NEW l \in Layouts
  PROVE  Single(l) <=> OnePaneEach(l)
<1>1. ASSUME Single(l) PROVE OnePaneEach(l)
  <2> SUFFICES ASSUME NEW e \in Places, NEW f \in Places,
                      NEW i \in DOMAIN l[e], NEW j \in DOMAIN l[f], l[e][i] = l[f][j]
               PROVE  e = f /\ i = j
    BY DEF OnePaneEach
  <2>1. e = f
    BY <1>1 DEF Single, Elements
  <2> QED
    BY <1>1, <2>1 DEF Single, Distinct
<1>2. ASSUME OnePaneEach(l) PROVE Single(l)
  <2>1. \A e \in Places : \A i \in DOMAIN l[e] : l[e][i] \in Open(l)
    BY DEF Open, Elements
  <2>2. ASSUME NEW e \in Places PROVE Distinct(l[e])
    BY <1>2, <2>1 DEF OnePaneEach, Distinct
  <2>3. ASSUME NEW e \in Places, NEW f \in Places, e # f
        PROVE  Elements(l[e]) \cap Elements(l[f]) = {}
    BY <1>2, <2>1, <2>3 DEF OnePaneEach, Elements
  <2> QED
    BY <2>2, <2>3 DEF Single
<1> QED
  BY <1>1, <1>2

(* The overlay shows one pane at most.                                     *)
OneFloats(l) == l["Overlay"] = << >> \/ \E p \in Plugins : l["Overlay"] = <<p>>

(* Removing a plugin takes it from every place, and nothing else.          *)
LEMMA WithoutPanes ==
  ASSUME NEW l \in Layouts, NEW p
  PROVE  /\ Without(l, p) \in Layouts
         /\ \A e \in Places : Elements(Without(l, p)[e]) = Elements(l[e]) \ {p}
         /\ Open(Without(l, p)) = Open(l) \ {p}
         /\ Single(l) => Single(Without(l, p))
         /\ OneFloats(l) => OneFloats(Without(l, p))
<1>1. \A e \in Places : l[e] \in Seq(Plugins) /\ Without(l, p)[e] = Only(l[e], Plugins \ {p})
  BY DEF Layouts, Without
<1>2. \A e \in Places : Elements(l[e]) \subseteq Plugins
  BY <1>1 DEF Elements
<1>3. \A e \in Places : /\ Only(l[e], Plugins \ {p}) \in Seq(Plugins)
                        /\ Elements(Only(l[e], Plugins \ {p})) = Elements(l[e]) \cap (Plugins \ {p})
  BY <1>1, OnlyKeeps
<1>4. Without(l, p) \in Layouts
  BY <1>1, <1>3 DEF Layouts, Without
<1>5. \A e \in Places : Elements(Without(l, p)[e]) = Elements(l[e]) \ {p}
  BY <1>1, <1>2, <1>3
<1>6. Open(Without(l, p)) = Open(l) \ {p}
  BY <1>5 DEF Open
<1>7. ASSUME Single(l) PROVE Single(Without(l, p))
  <2>1. \A e \in Places : Distinct(Without(l, p)[e])
    BY <1>1, <1>7, OnlyDistinct DEF Single
  <2> QED
    BY <1>5, <1>7, <2>1 DEF Single
<1>8. ASSUME OneFloats(l) PROVE OneFloats(Without(l, p))
  <2>1. CASE l["Overlay"] = << >>
    BY <1>1, <2>1, OnlyEmpty DEF OneFloats, Places
  <2>2. ASSUME NEW q \in Plugins, l["Overlay"] = <<q>>
        PROVE  OneFloats(Without(l, p))
    <3>1. Only(<<q>>, Plugins \ {p}) \in {<<q>>, << >>}
      BY OnlyOne
    <3> QED
      BY <1>1, <2>2, <3>1 DEF OneFloats, Places
  <2> QED
    BY <1>8, <2>1, <2>2 DEF OneFloats
<1> QED
  BY <1>4, <1>5, <1>6, <1>7, <1>8

(* A pane is put on one side of the others.                                *)
LEMMA BesideAdds ==
  ASSUME NEW s \in Seq(Plugins), NEW p \in Plugins, NEW zone
  PROVE  /\ Beside(s, p, zone) \in Seq(Plugins)
         /\ Elements(Beside(s, p, zone)) = Elements(s) \cup {p}
         /\ Distinct(s) /\ p \notin Elements(s) => Distinct(Beside(s, p, zone))
<1>1. /\ <<p>> \in Seq(Plugins) /\ <<p>> \o s \in Seq(Plugins) /\ Append(s, p) \in Seq(Plugins)
      /\ <<p>> = Append(<< >>, p) /\ << >> \in Seq(Plugins)
  OBVIOUS
<1>2. Elements(<<p>>) = {p} /\ Distinct(<<p>>)
  BY DEF Elements, Distinct
<1>3. /\ Elements(<<p>> \o s) = Elements(s) \cup {p}
      /\ Distinct(s) /\ p \notin Elements(s) => Distinct(<<p>> \o s)
  <2>1. Elements(<<p>> \o s) = Elements(<<p>>) \cup Elements(s)
    BY <1>1, ElementsOfConcat
  <2>2. Distinct(<<p>> \o s) <=>
          Distinct(<<p>>) /\ Distinct(s) /\ Elements(<<p>>) \cap Elements(s) = {}
    BY <1>1, ConcatDistinct
  <2> QED
    BY <1>2, <2>1, <2>2
<1>4. /\ Elements(Append(s, p)) = Elements(s) \cup {p}
      /\ Distinct(s) /\ p \notin Elements(s) => Distinct(Append(s, p))
  BY AppendElements, AppendDistinct
<1> QED
  BY <1>1, <1>3, <1>4 DEF Beside

(* A place is given a list with p in it, and the others lose p.            *)
Put(l, p, e, s) == [Without(l, p) EXCEPT ![e] = s]

(* The panes of a layout with a pane more.                                 *)
LEMMA PutPanes ==
  ASSUME NEW l \in Layouts, NEW p \in Plugins, NEW e \in Places, NEW s \in Seq(Plugins),
         Distinct(s), p \in Elements(s), Elements(s) \subseteq Elements(l[e]) \cup {p},
         Single(l)
  PROVE  /\ Put(l, p, e, s) \in Layouts /\ Single(Put(l, p, e, s))
         /\ \A f \in Places \ {e} : Elements(l[f]) \subseteq Open(Put(l, p, e, s))
         /\ Elements(s) \subseteq Open(Put(l, p, e, s))
<1> DEFINE put == Put(l, p, e, s)
<1>1. /\ Without(l, p) \in Layouts /\ Single(Without(l, p))
      /\ \A f \in Places : Elements(Without(l, p)[f]) = Elements(l[f]) \ {p}
  BY WithoutPanes
<1>2. put \in Layouts /\ put[e] = s /\ \A f \in Places \ {e} : put[f] = Without(l, p)[f]
  BY <1>1 DEF Layouts, Put
<1> HIDE DEF put
<1>3. \A f \in Places \ {e} : Elements(put[f]) = Elements(l[f]) \ {p}
  BY <1>1, <1>2
<1>4. \A f \in Places : Distinct(put[f])
  BY <1>1, <1>2 DEF Single
<1>5. \A f, g \in Places : f # g => Elements(put[f]) \cap Elements(put[g]) = {}
  <2>1. \A f \in Places \ {e} : Elements(put[f]) \cap Elements(put[e]) = {}
    BY <1>2, <1>3 DEF Single
  <2>2. \A f, g \in Places \ {e} : f # g => Elements(put[f]) \cap Elements(put[g]) = {}
    BY <1>3 DEF Single
  <2> QED
    BY <2>1, <2>2
<1>6. \A f \in Places : Elements(put[f]) \subseteq Open(put)
  BY DEF Open
<1>7. Elements(s) \subseteq Open(put)
  BY <1>2, <1>6
<1>8. \A f \in Places \ {e} : Elements(l[f]) \subseteq Open(put)
  BY <1>3, <1>6, <1>7
<1> QED
  BY <1>2, <1>4, <1>5, <1>7, <1>8 DEF Single, put

(* Docked: everything stays open, and the plugin is open too.              *)
LEMMA DockPanes ==
  ASSUME NEW l \in Layouts, NEW p \in Plugins, NEW e \in Edges, NEW zone,
         Single(l), OneFloats(l)
  PROVE  LET docked == DockOnEdge(l, p, e, zone)
         IN  /\ docked \in Layouts /\ Single(docked) /\ OneFloats(docked)
             /\ Open(l) \subseteq Open(docked)
<1> DEFINE s == Beside(Without(l, p)[e], p, zone)
           docked == Put(l, p, e, s)
<1>1. /\ Without(l, p) \in Layouts /\ Single(Without(l, p)) /\ OneFloats(Without(l, p))
      /\ e \in Places /\ e # "Overlay"
      /\ Elements(Without(l, p)[e]) = Elements(l[e]) \ {p}
  BY WithoutPanes DEF Places, Edges
<1>2. /\ s \in Seq(Plugins) /\ Distinct(s) /\ Elements(s) = Elements(l[e]) \cup {p}
  <2>1. Without(l, p)[e] \in Seq(Plugins) /\ Distinct(Without(l, p)[e])
    BY <1>1 DEF Layouts, Single
  <2> QED
    BY <1>1, <2>1, BesideAdds
<1>3. docked = DockOnEdge(l, p, e, zone)
  BY DEF DockOnEdge, Put
<1>4. docked["Overlay"] = Without(l, p)["Overlay"]
  BY <1>1 DEF Layouts, Places, Put
<1> HIDE DEF s
<1>5. /\ docked \in Layouts /\ Single(docked)
      /\ \A f \in Places \ {e} : Elements(l[f]) \subseteq Open(docked)
      /\ Elements(s) \subseteq Open(docked)
  BY <1>1, <1>2, PutPanes
<1> HIDE DEF docked
<1>6. Open(l) \subseteq Open(docked)
  BY <1>2, <1>5 DEF Open
<1>7. OneFloats(docked)
  BY <1>1, <1>4 DEF OneFloats
<1> QED
  BY <1>3, <1>5, <1>6, <1>7

(* Floated: what floated before is gone, and the rest stays open.          *)
LEMMA FloatPanes ==
  ASSUME NEW l \in Layouts, NEW p \in Plugins, Single(l), OneFloats(l)
  PROVE  LET floated == MoveToOverlay(l, p)
         IN  /\ floated \in Layouts /\ Single(floated) /\ OneFloats(floated)
             /\ floated["Overlay"] # << >>
             /\ \A q \in Open(l) \ Open(floated) : l["Overlay"] = <<q>>
<1> DEFINE floated == MoveToOverlay(l, p)
<1>1. /\ <<p>> \in Seq(Plugins) /\ Distinct(<<p>>) /\ Elements(<<p>>) = {p}
      /\ "Overlay" \in Places
  BY DEF Distinct, Elements, Places
<1>2. Without(l, p) \in Layouts
  BY WithoutPanes
<1>3. floated["Overlay"] = <<p>>
  BY <1>1, <1>2 DEF MoveToOverlay, Layouts
<1>4. /\ floated \in Layouts /\ Single(floated)
      /\ \A f \in Places \ {"Overlay"} : Elements(l[f]) \subseteq Open(floated)
  <2>1. floated = Put(l, p, "Overlay", <<p>>)
    BY DEF MoveToOverlay, Put
  <2>2. Elements(<<p>>) \subseteq Elements(l["Overlay"]) \cup {p} /\ p \in Elements(<<p>>)
    BY <1>1
  <2> HIDE DEF floated
  <2> QED
    BY <1>1, <2>1, <2>2, PutPanes
<1> HIDE DEF floated
<1>5. ASSUME NEW q \in Open(l) \ Open(floated) PROVE l["Overlay"] = <<q>>
  <2>1. q \in Elements(l["Overlay"])
    BY <1>4 DEF Open
  <2>2. l["Overlay"] # << >>
    BY <2>1 DEF Elements
  <2>3. PICK r \in Plugins : l["Overlay"] = <<r>>
    BY <2>2 DEF OneFloats
  <2> QED
    BY <2>1, <2>3 DEF Elements
<1> QED
  BY <1>3, <1>4, <1>5 DEF OneFloats, floated

(* The inductive invariant: what is on the screen and what is saved have    *)
(* every plugin once, the overlay one pane.                                *)
LayoutInv ==
  /\ LayoutTypeOK
  /\ Single(layout) /\ Single(stored)
  /\ OneFloats(layout) /\ OneFloats(stored)
  /\ CrashRestoresPanes

(* What a step may do to the layout: close a pane, which is not saved; put *)
(* one somewhere and save; take another layout over.                       *)
LEMMA LayoutMoves ==
  ASSUME LayoutInv, [LayoutNext]_layoutVars
  PROVE  \/ UNCHANGED <<layout, stored>>
         \/ \E p \in Plugins : layout' = Without(layout, p) /\ stored' \in {stored, layout'}
         \/ /\ stored' = layout'
            /\ layout' \in Layouts /\ Single(layout') /\ OneFloats(layout')
            /\ \/ Open(layout) \subseteq Open(layout')
               \/ /\ layout'["Overlay"] # << >>
                  /\ \A q \in Open(layout) \ Open(layout') : layout["Overlay"] = <<q>>
         \/ layout' = layout /\ stored' = layout
         \/ layout' = stored /\ stored' = stored
<1> USE DEF LayoutInv, LayoutTypeOK
<1>1. ASSUME NEW p \in Plugins, Toggle(p), p \notin Open(layout)
      PROVE  /\ stored' = layout'
             /\ layout' \in Layouts /\ Single(layout') /\ OneFloats(layout')
             /\ Open(layout) \subseteq Open(layout')
  <2>1. Placement(p) \in Edges
    BY DEF Placement, Edges
  <2> QED
    BY <1>1, <2>1, DockPanes DEF Toggle, Persist
<1>2. ASSUME NEW p \in Plugins, Toggle(p), p \in Open(layout)
      PROVE  layout' = Without(layout, p) /\ stored' = layout'
  BY <1>2 DEF Toggle, Persist
<1>3. ASSUME NEW p \in Plugins, ClosePane(p)
      PROVE  layout' = Without(layout, p) /\ stored' = stored
  BY <1>3 DEF ClosePane
<1>4. CASE Drop
  <2>1. PICK e \in Places, inner \in BOOLEAN : layout' = ApplyDrop(layout, drag, e, inner)
    BY <1>4 DEF Drop
  <2>2. drag \in Plugins /\ stored' = layout'
    BY <1>4 DEF Drop, Persist
  <2>3. CASE e = "Overlay"
    <3>1. layout' = MoveToOverlay(layout, drag)
      BY <2>1, <2>3 DEF ApplyDrop
    <3> QED
      BY <2>2, <3>1, FloatPanes
  <2>4. CASE e # "Overlay"
    <3>1. e \in Edges
      BY <2>4 DEF Places
    <3>2. \E zone : layout' = DockOnEdge(layout, drag, e, zone)
      BY <2>1, <2>4 DEF ApplyDrop
    <3> QED
      BY <2>2, <3>1, <3>2, DockPanes
  <2> QED
    BY <2>3, <2>4
<1>5. CASE PersistTabs
  BY <1>5 DEF PersistTabs, Persist
<1>6. CASE RestoreTab
  BY <1>6 DEF RestoreTab
<1>7. (\E p \in Plugins : StartDrag(p)) \/ CancelDrag \/ MoveSplitter \/ UNCHANGED layoutVars
        => UNCHANGED <<layout, stored>>
  BY DEF StartDrag, CancelDrag, MoveSplitter, layoutVars
<1> QED
  BY <1>1, <1>2, <1>3, <1>4, <1>5, <1>6, <1>7 DEF LayoutNext

(* What is open after a pane was closed unsaved is what was stored, less   *)
(* that pane and those closed before.                                      *)
LEMMA CloseRestores ==
  ASSUME layout \in Layouts, stored \in Layouts, CrashRestoresPanes, NEW p,
         layout' = Without(layout, p), stored' = stored
  PROVE  CrashRestoresPanes'
<1>1. Open(layout') = Open(layout) \ {p}
  BY WithoutPanes
<1>2. ASSUME NEW e \in Places
      PROVE  Without(layout, p)[e] = Only(stored[e], Open(layout'))
  <2>1. layout[e] \in Seq(Plugins) /\ stored[e] \in Seq(Plugins)
    BY DEF Layouts
  <2>2. Elements(layout[e]) \subseteq Open(layout) /\ Elements(stored[e]) \subseteq Plugins
    BY <2>1 DEF Open, Elements
  <2>3. CASE layout = stored
    <3>1. Elements(stored[e]) \cap (Plugins \ {p}) = Elements(stored[e]) \cap Open(layout')
      BY <1>1, <2>2, <2>3
    <3> QED
      BY <2>1, <2>3, <3>1, OnlySame DEF Without
  <2>4. CASE layout = [f \in Places |-> Only(stored[f], Open(layout))]
    <3>1. layout[e] = Only(stored[e], Open(layout))
      BY <2>4
    <3>2. Without(layout, p)[e] = Only(stored[e], Open(layout) \cap (Plugins \ {p}))
      BY <2>1, <3>1, OnlyTwice DEF Without
    <3>3. Elements(stored[e]) \cap (Open(layout) \cap (Plugins \ {p}))
            = Elements(stored[e]) \cap Open(layout')
      BY <1>1, <2>2
    <3> QED
      BY <2>1, <3>2, <3>3, OnlySame
  <2> QED
    BY <2>3, <2>4 DEF CrashRestoresPanes
<1>3. layout' = [e \in Places |-> Without(layout, p)[e]]
  BY DEF Without
<1> QED
  BY <1>2, <1>3 DEF CrashRestoresPanes

(* Every step of the layout keeps what is known of it.                     *)
LEMMA LayoutNextKeeps ==
  ASSUME LayoutInv, [LayoutNext]_layoutVars
  PROVE  LayoutInv'
<1> USE DEF LayoutInv
<1>1. resized' \in BOOLEAN /\ drag' \in Plugins \cup {"none"}
  BY DEF LayoutTypeOK, LayoutNext, Toggle, ClosePane, StartDrag, CancelDrag, Drop, MoveSplitter,
         PersistTabs, RestoreTab, Persist, layoutVars
<1>2. /\ layout' \in Layouts /\ Single(layout') /\ OneFloats(layout')
      /\ stored' \in Layouts /\ Single(stored') /\ OneFloats(stored')
      /\ CrashRestoresPanes'
  <2>1. CASE UNCHANGED <<layout, stored>>
    BY <2>1 DEF LayoutTypeOK, CrashRestoresPanes
  <2>2. ASSUME NEW p \in Plugins, layout' = Without(layout, p), stored' \in {stored, layout'}
        PROVE  /\ layout' \in Layouts /\ Single(layout') /\ OneFloats(layout')
               /\ stored' \in Layouts /\ Single(stored') /\ OneFloats(stored')
               /\ CrashRestoresPanes'
    <3>1. layout' \in Layouts /\ Single(layout') /\ OneFloats(layout')
      BY <2>2, WithoutPanes DEF LayoutTypeOK
    <3>2. CASE stored' = layout'
      BY <3>1, <3>2 DEF CrashRestoresPanes
    <3>3. CASE stored' = stored
      BY <2>2, <3>1, <3>3, CloseRestores DEF LayoutTypeOK
    <3> QED
      BY <2>2, <3>2, <3>3
  <2>3. CASE stored' = layout' /\ layout' \in Layouts /\ Single(layout') /\ OneFloats(layout')
    BY <2>3 DEF CrashRestoresPanes
  <2>4. CASE layout' = layout /\ stored' = layout
    BY <2>4 DEF LayoutTypeOK, CrashRestoresPanes
  <2>5. CASE layout' = stored /\ stored' = stored
    BY <2>5 DEF LayoutTypeOK, CrashRestoresPanes
  <2> QED
    BY <2>1, <2>2, <2>3, <2>4, <2>5, LayoutMoves
<1> QED
  BY <1>1, <1>2 DEF LayoutTypeOK

(* However the panes are moved and the program ends.                       *)
LEMMA LayoutIsSound == Spec => []LayoutInv
<1>1. Init => LayoutInv
  <2> SUFFICES ASSUME LayoutInit PROVE LayoutInv
    BY DEF Init
  <2>1. NoPanes \in Layouts /\ \A e \in Places : NoPanes[e] = << >>
    BY DEF NoPanes, Layouts
  <2>2. Single(NoPanes) /\ OneFloats(NoPanes)
    BY <2>1 DEF Single, OneFloats, Distinct, Elements, Places
  <2> QED
    BY <2>1, <2>2 DEF LayoutInit, LayoutInv, LayoutTypeOK, CrashRestoresPanes
<1>2. LayoutInv /\ [Next]_vars => LayoutInv'
  <2>1. [Next]_vars => [LayoutNext]_layoutVars
    BY DEF Next, vars, AgentNext, InAgent, InBroker, FilesNext, InFiles, InLayout
  <2> QED
    BY <2>1, LayoutNextKeeps
<1> QED
  BY <1>1, <1>2, PTL DEF Spec

(* However panes are opened, dragged, floated, closed and restored, a      *)
(* plugin has one pane at most, on the screen and in tabs.json.            *)
THEOREM OnePanePerPlugin == Spec => []PanesAreUnique
<1>1. LayoutInv => PanesAreUnique
  BY SingleIsOnePane DEF LayoutInv, LayoutTypeOK, PanesAreUnique
<1> QED
  BY <1>1, LayoutIsSound, PTL

(* A crash brings back what is on the screen and the panes closed by their *)
(* own button since the last save, each place in its order.                *)
THEOREM CrashBringsThePanesBack == Spec => []CrashRestoresPanes
<1>1. LayoutInv => CrashRestoresPanes
  BY DEF LayoutInv
<1> QED
  BY <1>1, LayoutIsSound, PTL

(* No step but its own closing, another pane floated in its place, or a    *)
(* restart, takes a pane away.                                             *)
THEOREM PanesGoOneByOne == Spec => PanesStayOpen
<1>1. LayoutInv /\ [Next]_vars =>
        [layout' # layout => \A p \in Open(layout) \ Open(layout') : Loses(p)]_layoutVars
  <2> SUFFICES ASSUME LayoutInv, [Next]_vars,
                      NEW p \in Open(layout) \ Open(layout')
               PROVE  Loses(p)
    OBVIOUS
  <2>1. [LayoutNext]_layoutVars
    BY DEF Next, vars, AgentNext, InAgent, InBroker, FilesNext, InFiles, InLayout
  <2>2. ASSUME NEW q \in Plugins, layout' = Without(layout, q)
        PROVE  Loses(p)
    <3>1. p = q
      BY <2>2, WithoutPanes DEF LayoutInv, LayoutTypeOK
    <3> QED
      BY <2>2, <3>1 DEF Loses
  <2> QED
    BY <2>1, <2>2, LayoutMoves DEF Loses
<1> QED
  BY <1>1, LayoutIsSound, PTL DEF Spec, PanesStayOpen

-----------------------------------------------------------------------------
(* The state of a tab and its panes is what it is to be.                   *)
THEOREM TypesAreCorrect == Spec => []TypeOK
<1> DEFINE Picked == part \in Parts
<1>1. Init => Picked
  BY DEF Init
<1>2. Picked /\ [Next]_vars => Picked'
  BY DEF Next, vars, AgentNext, InAgent, InBroker, FilesNext, InFiles, InLayout
<1>3. AgentInv /\ AgentOwn => AgentTypeOK
  BY DEF AgentInv, CommandsInv, AgentOwn, AgentTypeOK
<1>4. LayoutInv => LayoutTypeOK
  BY DEF LayoutInv
<1>5. AgentTypeOK /\ BrokerTypeOK /\ FilesTypeOK /\ LayoutTypeOK /\ Picked => TypeOK
  BY DEF TypeOK
<1> HIDE DEF Picked
<1> QED
  BY <1>1, <1>2, <1>3, <1>4, <1>5, AgentReadsItsOwn, AgentOwnTypes, BrokerTypeCorrect,
     FilesTypeCorrect, LayoutIsSound, PTL DEF Spec
=============================================================================
